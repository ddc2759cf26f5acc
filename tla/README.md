# Verification of the SOW analyser backend

TLA+ models of the parts of this backend where requests, queues and stores
meet, the TLC runs that check them on small instances, and TLAPS proofs of
what matters most for every size of the system.

The order of this document: the system (inventory), the modules and how they
correspond to the code, what each run checks, the bounds and the fairness,
what is proved, what only TLC has checked, where code and docs disagree, what
is left out, and the plan.

Paths are relative to the repository; `esign.py`, `workflow.py` and `store.py`
are in `lambdas/shared/govern/`.

## 1. The system

The backend is a set of AWS Lambda functions around DynamoDB, S3, SQS, Step
Functions and EventBridge. Documents are uploaded, analysed by a pipeline and
become contracts in *Govern*, where reviewers approve them, send them for
signature and follow their terms and obligations.

| Component | State it keeps | Operations | Who it talks to |
|---|---|---|---|
| Govern e-signature (`esign.py`, `govern_signing`, `govern_seal`) | envelope items (status, recipients, hashes of links), a table of links, drawings and PDFs in S3, the seal queue | create / update / delete a draft, send, resend, complete, decline, void, expire, abandon, seal | the contract workflow, both ways; mail; KMS |
| Contract workflow (`workflow.py`) | the contract item (state, owner, routing, approvals, signature, stage), its activity, blockers, obligations | reviewer actions (`perform_action`), assignments, office approvals, rescore after a new analysis, term moves | e-signature, the store, the activity stream |
| Govern store (`store.py`) | the Govern tables; optimistic lock on `rev` for contracts and envelopes; versions of the review matrix | `mutate`, child rows, `save_matrix`, claims, counters | DynamoDB |
| Govern API, portal, sweeper | none | one HTTP request or one scheduled sweep | all of the above |
| Intake (`govern_intake`, `capture.py`) | none of its own | "Document Analysed" events become contracts or rescores; reconciliation | document tables, workflow |
| Activity stream (`govern_stream`, `aggregates.py`), notifier | seen markers, trend counters, claims of notifications | at-least-once records of the contracts' activity | EventBridge, SES, Teams |
| Automations (`automations.py`) | rules, firings with their markers and claims | fire on an entry of the activity log or on a stay in a stage; run the actions in order | the stream, the sweeper, the contract |
| Obligations (`workflow.py`, `govern_sweeper`) | obligation items, due dates copied to the contract | add, edit, complete, recur; the hourly sweep announces and marks | store, activity |
| Connectors and webhooks (`connectors.py`) | a connector's record, its secret | save, pull on a schedule or by hand, push on an event | vendors, contracts |
| Portal (`portal.py`, `revisions.py`) | portal links, uploads of revised documents | create / revoke / resolve a link, upload, accept | workflow, pipeline |
| Organization and views (`org.py`, `views.py`) | the ORG record, members, audit; saved views | found, add and remove admins; create, edit, delete views under limits | store |
| Document pipeline (`lambdas/pipeline`) | a document's META, its versions, run claims | parse, classify, embed, graph, diff, timeline, persist | Step Functions, model vendors, OpenSearch |
| Document store, API, access (`dynamodb.py`, `api`, `access.py`) | documents, versions, projects, memberships, hints on documents | upload, retry, delete, read; share a project, file a document in one | S3, pipeline |
| Review matrix and playbook (`matrix.py`, `software.py`, `workforce.py`, `playbook.py`) | versions of the matrix; overrides | grade clauses and documents, raise blockers, validate and import a matrix | pipeline, workflow |
| Extraction (`classify.py`, `money.py`, `dates.py`, `segment.py`, `parties.py`, ...) | none | model calls in windows and batches, pure functions over text | pipeline |
| Search and chat (`rag`, `opensearch.py`, `guardrails.py`) | an index | retrieval, prompts, checks of the answer, streaming | vendors |

How they interact, and where it is hard:

- **Several items, no transaction.** A handler writes one item at a time: an
  envelope, then the contract, then links, or the other way round. Requests of
  other invocations come in between, and an invocation can stop in between.
- **Optimistic locks cover one item.** `_mutate` and `ContractStore.mutate`
  read an item, apply a closure and write it if `rev` is unchanged, five times
  at most. What a handler has read of *another* item, or read before the
  closure, is not covered.
- **At-least-once queues.** The seal queue (SQS, standard), the activity stream
  and EventBridge deliver again after a failure and sometimes without one; SQS
  counts receives, the code counts attempts.
- **Side effects in S3 and mail** come before or after the write that decides
  whether they were wanted.
- **Lost replies.** A write can be stored and its reply lost; the handler's
  exception branch then undoes what it believes did not happen.

What makes each component correct:

- *e-signature*: signing order; nothing is sealed before everyone has signed; an
  envelope that ended stays ended; contract and envelope agree (an open envelope
  is the one the contract is out with, at most one is open, an ended envelope
  releases the contract); the sealed file is the one whose hash is recorded;
  sealing ends.
- *workflow*: moves only along the table of allowed actions; approvals belong to
  the current round; counters agree with the rows they count.
- *store*: no lost update; versions are consecutive and the pointer names a
  stored one.
- *intake, stream, notifier, automations*: each event takes effect once, an older
  analysis never replaces a newer one, a failed event is retried.
- *pipeline*: one version per run, a superseded run changes nothing, a document
  does not stay in processing.
- *portal, organization, views*: limits hold under concurrent requests, what was
  revoked or deleted stays so, an organization keeps an administrator.
- *access*: no hint grants what a project does not; a removed member stays out; a
  project has one owner.
- *obligations, connectors*: nothing due is passed over, nobody is told twice, no
  change of a record is skipped.
- *rules and extraction*: no alarm, clause or figure is lost on the way to a grade;
  what is uncertain is flagged.
- *chat*: an answer rests on what the caller may read, and says what it could not
  verify.

The hazards behind these properties, each at the line where it bites, are listed
in `PROJECT.json`.

## 2. Modules

| Module | What it is |
|---|---|
| `ContractStates` | the contract states and the table of allowed actions (`_ALLOWED_FROM`), constants only |
| `EnvelopeLifecycle` | abstract: what an envelope promises, whatever the handlers do |
| `Esign`, `MCEsign` | `esign.py` and the part of `workflow.py` it moves, one action per step between two storage calls; values and symmetry for TLC |
| `EsignSafety` | proofs about `Esign`: types, the abstract lifecycle and what is listed in section 4 |
| `ContractReview`, `MCContractReview` | the review of one contract: `workflow.py` (actions, approvals, routing, stage, open items, rescore) with `govern_intake`, `capture.py` and the revisions that feed it |
| `ContractReviewProofs` | proofs about `ContractReview`: types and every safety property its passing runs check |
| `ReviewAdvice` | what Govern says of a contract when it is read: whom it waits on, the next step it advises, the actions it offers, and the routing rules behind them |
| `Pipeline`, `MCPipeline` | the analysis of one document: the ingestion state machine and `lambdas/pipeline`, with what the API does to the document meanwhile |
| `PipelineSafety` | proofs about `Pipeline` |
| `Classification`, `MoneyFigures`, `WindowFacts` | what the classify stage computes: the calls of the model in windows and batches, the checks of amounts, the facts of several windows made one |
| `ActivityStream` | the activity log, its stream, the trend counters, the events on the bus, and who is told |
| `Automations`, `MCAutomations` | automation rules fired by the stream and the hourly sweep (proofs in `ContractReviewProofs`) |
| `PortalLinks` | counterparty links of one contract: limits, revocation, visits, uploads |
| `MatrixVersions`, `MatrixImport` | the versions of the review matrix and their pointer; replacing it and importing a sheet into it |
| `Organization` | who administers a tenant, and the audit of it |
| `Obligations` | the obligations of one contract, the copy of their due dates and the hourly sweep |
| `Connectors` | a connector's record, the runs that pull and push |
| `Views` | saved views: audience, concurrent edits, limits |
| `ProjectAccess`, `MCAccess` | projects, memberships, the documents they list, and the role of a caller on a document |
| `MCTenant` | the nine components with tables of their own on small instances; a behaviour is of one of them (`focus`) |
| `TenantProofs`, `TenantSafety` | proofs about `PortalLinks`, `MatrixVersions`, `Organization`, `Views`, `ProjectAccess`, `Connectors` and `Obligations`; about `ActivityStream`, `MatrixImport`, and of what the run of `MCTenant` checks of them all |
| `ClauseText`, `CampusChecks`, `BuyerChecks`, `PlaybookChecks`, `Grading` | what a clause says, as sentences; every built-in check of the review matrix and of the document playbook; how a clause is graded |
| `DefaultMatrix`, `DocumentReview`, `ClauseGrades`, `MCRules` | the built-in matrix; a document graded against the playbook of its type and the blockers that follow; a clause graded as it is written; small vocabularies |
| `Chat`, `AnswerStream` | a question to Sonar: the documents it may use, the search, the checks of the answer; an answer streamed with personal data put back |
| `MCParts` | parts that share no state, each by itself on a small instance (`focus`): signing, classify, grades, documents, advice, chat, streaming |
| `LoopProofs`, `PartsProofs`, `RuleProofs` | induction for functions defined from one number to the next, and lists; proofs about classify, advice, chat and streaming, and about the rules; of what the run of `MCParts` checks of them |

`Esign` and `ContractReview` share `ContractStates` and see each other through
small interfaces: in `Esign` the contract is `state` and `signature` and every
reviewer action is one locked write; in `ContractReview` an envelope is nothing but
the moves it makes on the contract (`SendForSignature`, `MarkSigned`,
`CancelEsign`). `Pipeline` ends where `ContractReview!Analyse` begins, with the
event of a stored version; `Automations` and `ActivityStream` start from an entry
of the activity log, which `ContractReview` does not keep; no state is shared.
`MCTenant` and `MCParts` hold one behaviour each for components that share no
row, so that one run explores them all: `focus` says which one moves.

### Esign

One contract and its envelopes. An *invocation* is a member of `Callers`
(a run of govern-api, govern-signing or govern-sweeper) or of `Workers` (a run
of govern-seal); `pc[p]` is its next step, `ctx[p]` what it has read and goes by.

| In the model | In the code |
|---|---|
| `state`, `sig` | `contract["state"]`, `contract["signature"]` (which envelope, by hand, or none) |
| `status[e]`, `signed[e]`, `attempts[e]`, `hash[e]` | the envelope item: `status`, recipients that are `signed`, `sealAttempts`, `sealed.sha256` |
| `links[e]` | signers with a live link, the hashes kept in `tokenHashes` |
| `image[e][s]`, `file[e]` | `sig/<recipient>-signature.png`, `sealed.pdf` |
| `queue[e]`, `receives[e]` | the seal message and how often SQS has handed it out |
| `adopted[e][s]` | history only: the drawing of the accepted submission |

- `CreateDraft`, `UpdateDraft`, `DeleteDraft`, `Resend`: one locked write each.
- send: `SendCheck` (reads), `SendMark` (envelope), `SendContract`
  (`workflow.send_for_esign`), `SendRollback` (the exception branch), `Invite`.
- complete: `CompleteOpen` (reads), `CompletePutImage` (S3), `CompleteSign`
  (locked write), then `CompleteEnqueue` or `Invite`.
- decline, void, expire: `EndUnsigned` or `SweepRead` and `SweepExpire`, then
  `RevokeLinks`, then `CancelEsign`.
- reopen, reject, mark_signed: `LeaveRead` (`before_sig`), `Commit` (locked
  write), `Abandon`, `AbandonRevoke`; the other reviewer actions are `Act`, and a
  revised document is `Revise`.
- seal: `Deliver` or `DeliverAgain`, `SealBuild`, `SealNote` or `SealPut`,
  `SealDone`, `MarkRead`, `Commit` ..., `Ack`; `DeadLetter` is the redrive policy.
- `Crash` stops any invocation between two steps.

A read-modify-write under the lock is one step, taken when the write succeeds:
a lost race repeats the closure on the newer item, and only five lost races in
a row (`"conflict"` in `Faults`, on the contract write of send) show outside.
Elsewhere five lost races raise, which is a crash as far as the other items are
concerned. A lost reply matters where an exception branch undoes something,
which is the contract write of send (`"lost_reply"`); elsewhere it too is a crash
after the write. The rollback and the drawings make the other order possible
too, so both are steps of their own.

Abstractions: the reads of one handler that no property tells apart are one step
(the contract and the other envelopes in `SendCheck`; the early check and
`before_sig` in `LeaveRead`); parallel signing is an equal `Rank`; a link is
"signer has a live link" (ten hashes, expiry and `viewedAt` left out, the
sweeper's reminders are the same write as `Resend`); every signer has a drawing;
a document is its signers. Not in the model: `remove_contract`, `signer_view`,
cc recipients, field values, `office_approve` (which moves a contract as `approve`
does), `assign`, `ask_pi` and comments (which do not meet an envelope), and the
manual steps of the runbook.

### ContractReview

One contract, the document it was made for (`Original`) and the later versions
of it (`Revisions`). Intake runs (`Intakes`) and API requests (`Callers`) are
invocations as above; what takes a single locked write is one action with no
invocation.

| In the model | In the code |
|---|---|
| `state`, `stage` | `contract["state"]`, `contract["stage"]` |
| `owned`, `asked` | there is an owner; there is a `piRequest` |
| `current`, `reviewed` | `currentDocId`; `reviewedDocId` with `reviewedDocVersion` |
| `approvals[a]` | the approval of office (or reviewer) `a`; its value is history: the document that was current when it was given |
| `escalated`, `required` | `routing.escalated`, `routing.required` |
| `valued`, `term` | a person's value is one that makes the rule fire; how far the term end is |
| `refs`, `items[i]` | `openBlockerRefs` on the contract; the blocker items, which have no lock |
| `version[d]`, `linked`, `queue` | `latestVersion` of a document; `versionDocIds`; messages of the intake queue |
| `graded`, `torn` | history only: documents whose grades were stored; a rescore was overtaken or cut short |

- Reviewer actions (`perform_action`): `Approve`, `OfficeApprove`, `SendBack`,
  `Escalate`, `Reject`, `SendForSignature`, `MarkSigned`, `Activate`, `Close`,
  `Reopen`; besides them `Assign`, `AskPi`, `PiAnswered`, `Patch`
  (`update_fields`), and `CancelEsign` from the other component.
- Time: `TermNears`, and the sweeper's `AdvanceTerm`.
- Documents: `Upload` (`presign_revision`, or a counterparty's upload), `Analyse`
  (the pipeline stores a version and publishes its event), `Reconcile` (the hourly
  `requeue_candidates`), `Redeliver` and `Lose`.
- Intake (`handle_event`): `Receive`, `CreateContract`, then the rescore.
  `Post` is the contract made by a person right after the upload.
- Rescore (`rescore`, `_replace_sonar_blockers`): `Scan` reads the items,
  `WriteItem` deletes or writes one at a time, `Commit` is the locked write.
- Items (`add_blocker`, `edit_blocker`, `refresh_refs`): `AddItem` or `EditItem`
  and `PutItem`, then `Refresh` (the items read inside the closure) and `Save`.
- `Crash` stops a run between two steps; an intake run's message comes back.

The optimistic lock is visible in one place. A closure that reads nothing but
the contract commutes with the retries and is one step. `refresh_refs` reads the
items too, so it is two steps, and every write of the contract
(`Written`, `WrittenBy`) sends a run that is at `save` back to `refresh`. A run
that gives up after five lost races is a `Crash` there.

Abstractions: the rules are one rule, which fires on a `Flawed` document or on a
person's value and asks for `RuleOffices`; whether an assignment rule finds an
owner is left open (`owned' \in`); `routing_rules` and the rules are settings,
so constant. An upload's document is analysed at most `MaxAnalyses` times. Not in
the model: obligations and their income, amendments, comments, connector
fields, overdue marks and the diff summary, which no action here reads; the
activity a write emits; `remove_contract`, and revisions of a deleted contract.

### Pipeline

One document. A *run* (`Runs`) is an execution of the state machine, a request
(`Callers`) an invocation of the API. A version row, a file or a search record is
known by the run that wrote it, so "the same analysis" is equality of runs.

| In the model | In the code |
|---|---|
| `exists`, `status`, `latest`, `analysis`, `searchable`, `title`, `edited` | the META row: its existence, `status`, `latestVersion`, the fields persist writes, `vectorIndexed`, `title` and its name in `userEdited` |
| `fresh` | `updatedAt` lies within the grace period of 15 minutes |
| `rows[n]` | the row of version `n` |
| `fixed[k]`, `copies[n][k]`, `parked`, `raw` | S3: the file served, the copy kept for version `n`, parked stage outputs, the upload |
| `index` | runs with records in OpenSearch |
| `events` | Object Created events on their way to the state machine |
| `unclaimed`, `crossed`, `missed` | history only: a run nobody claimed the document for; version rows changed under a run or a delete was cut short; a run that ended could not see that its document was being deleted |

- A run: `Start` (EventBridge), then for each stage `Begin` (parked outputs are
  read, the status is written) and `Work`; embed is `Index` or `IndexNone`, then
  `Sweep` (`delete_stale`); persist is `Read` (rows and META), `Put`
  (`put_version`, conditional), `Copy` once a file, `Save` (META); `Reply` ends the
  run. A run that loses the number goes to `Release`
  (`release_superseded_run`).
- Failure: `Raise`, then `Fail` (the handler's exception branch, with
  `_discard_if_deleted`), then another try or `Mark` (`MarkFailed`); `Crash` is the
  state machine's catch, `Again` a retry of an error of Lambda's own.
- Re-analysis: `Reprocess` (META is read), `Claim` (`claim_doc_run`), `CopyRaw`
  (the event), `Unclaim`.
- Delete of a version: `DeleteVersion`, `DropRow`, `Look` (the rows left), `Restore`
  once a file, `Unindex`, `Roll`. Delete of the document: `DeleteDocument`,
  `Purge`, `PurgeIndex`, `List`, `Remove`. `Stop` ends a request half way.
- `Edit`, `UploadAgain` (a presigned link is good for more than one upload) and
  `GoQuiet` (the grace period passes).

Abstractions: the reads that open persist are one step, and so is the clean-up
of a run that failed. Each stage writes one file at most, and the runs of section
3 follow one, "classification", which every run writes. embed's records have ids
that do not name the run, so they replace an arbitrary part of the earlier ones
(`kept`). Best-effort steps whose errors the code swallows are modelled where
leaving them out is visible (`Sweep`, `Copy`, `PurgeIndex`, `Restore`); that the
release of a superseded run or the clean-up of a failed one fails is not. A
request that has written nothing yet is not stopped: it might as well not have
come. Not in the model: change and lineage rows, the timeline of related
documents, projects, documents that turn out to be no agreement, and what the
stages compute.

### The components of `MCTenant`

Every module has requests (or invocations) whose `pc`-like record says what they
have read and do next; every step is one call to a table.

| Module | State | Actions and the code they are |
|---|---|---|
| `PortalLinks` | `matter` (the contract), `listed` (its index), `link[l]`, the requests of reviewers and guests, the day | create (`create_link`: read index, write item, write index), revoke, list, `resolve` for a visit or an upload with its counters, expiry by the day a request started |
| `MatrixVersions` | `versions[n]`, `pointer`, the default of the deployed code, requests | `get_matrix` with seeding and upgrade, `save_matrix` (conditional put of the next version, then the pointer), a container with the old default |
| `MatrixImport` | `playbooks`, requests, what the last answer said | `_put_matrix`, `_import_matrix`: `parse_import`, `merge_import`, `validate_matrix`, then the save of the whole |
| `Organization` | `org`, `members`, `audit`, requests | `ensure` and `record_member` (GET /govern/me), `add_admin`, `remove_admin` under the lock, then the audit entry |
| `Obligations` | `duty[d]`, `dues` on the contract, requests, the sweep | add, edit, complete (with the follower of a recurring one), `mark_signed`; `BeginSweep` to `EndSweep`: list, note, put back marked |
| `Connectors` | `conn` (the stored record), `changed` and `value` of the records, runs | save (whole record), the secret, `sync` (read, pull page, apply, write the record), push on an event |
| `Views` | `view[v]`, requests of two tabs | create (count, then put), patch under `rev`, delete |
| `ProjectAccess` | `meta`, `ownerOf`, `member`, `hint`, the roles a request read | create, share, leave, remove, add and drop a document, list; `DocumentRole` is `access.py`'s rule |
| `ActivityStream` | the log, markers, counters, claims, what was delivered | an entry is written, handed over until handled, marked, counted, published; the notifier claims, tells each channel, releases after a failure; removal of a contract |

### Automations

`deal` is the contract, `body[r]` and `rules[r]` the stored rule, `posted` and
`handled` the stream's entries, `marks` the claims and markers of firings, `proc`
what the stream's invocation and the sweeps are doing. Each step is one call:
read the rules, claim, run an action, mark it, mark the firing complete,
count. Faults are failed calls and invocations that die at any step.

### The rules, classify and chat

What these modules compute is deterministic text handling in the code; what a
sentence *says* is the abstraction (`ClauseText`): a clause is a sequence of
sentences, each of which says one thing the checks look for, with the number it
states. The regular expressions that recognise it are left out; what is kept is
which finding a check reads first, which it ignores and which tier it gives.
`ClauseGrades` writes clauses sentence by sentence, `DocumentReview` documents
clause by clause, so that properties can speak of what an added sentence
does. `Classification` keeps the order of the calls, what is reused from an
earlier analysis and what is flagged; model answers are members of a set
(`Answers`, `Said`). `Chat` keeps which documents may be used and what is checked of
an answer; ranking is any choice. `AnswerStream` cuts an answer into pieces
anywhere.

## 3. Runs

| Run | Instance | What it shows |
|---|---|---|
| `Esign_faults` | 1 envelope, 3 signers (one first, two in any order), 2 requests, 2 seal workers, 2 faults of any kind | signing order; only fully signed envelopes are sealed; `EnvelopeLifecycle` is implemented |
| `Esign_contract` | 2 envelopes, 2 requests, reopen and approve, 2 crashes or lost races | the contract names an envelope that was sent; the recorded hash is the stored file's; a contract that is signed names an envelope that was sealed, also when it left that one, or another, meanwhile |
| `Esign_progress` | 2 envelopes, 2 signers, one request at a time, revisions and resends among them, fairness, no faults | sealing ends; an ended envelope releases the contract; whoever is due is invited; dead-lettering shows as failed; a contract out for signature waits for an open envelope |
| `Review_approvals` | 1 intake run, a revision that makes the rule fire, 2 offices, everything people and the sweeper do but items, 1 crash or redelivery, fairness | approvals are of the current version; ready means approved, also by every escalated office; a PI request stays answerable; signed stands; the original never comes back; what is analysed is graded |
| `Review_items` | 1 intake run and 2 requests that add, edit or rescore, one Sonar item (raised on the original, not on the revision) and one note, 1 lost event | the contract counts the open items; a rescore keeps what people closed |
| `Pipeline_runs` | 2 runs, 1 request at a time: second upload, re-analysis, edits, 1 fault of any kind but a stopped request, fairness | META shows the analysis of its version row; claims keep runs apart; no document stays in progress |
| `Pipeline_deletes` | 3 runs, 2 requests: re-analysis, deletes of versions and of the document, 1 request that stops half way | a rollback serves what the newest version left stands for; no run loses its number; a run overtaken by a delete removes what it wrote |
| `Automations_firing` | a rule of any of four kinds, the stream and one sweep, an administrator, people who assign, close and reopen; 2 faults; fairness | no action runs twice for an episode; a firing marked complete is complete; what was begun is finished |
| `Tenant_tables` | each component of `MCTenant` with 2 requests and one fault that stops one of them | `LinksHold`, `ReviewMatrixHolds`, `AdminsHold`, `SweepsHold`, `AudiencesHold`, `StreamHolds`, and `NothingReturns`: what was revoked, deleted, saved or founded stays so |
| `Parts_alone` | each part of `MCParts` on its smallest interesting instance; signing with 2 envelopes and 2 requests, none of which takes the contract out of signature | an open envelope is the one the contract is out with; classify, rules, advice, chat: below |
| `Review_redelivered`, `Access_roles` | smallest instance that shows it | disagreements of section 6 |

What the conjunctions of the last two passing runs say (each part is a definition of
its own, with its comment, in the module it is about):

- `LinksHold`: active links exceed their number by no more than the other requests
  under way; opens and uploads stay within theirs; a stored link is in the index, so
  that it can be revoked; an open is logged once a day.
- `ReviewMatrixHolds`: the pointer names a stored version, and what a person was told
  is saved is in the history up to it; reading never gives up; unless a request
  died, no version number is left unusable; an import stores a valid matrix and its
  report is true of it.
- `AdminsHold`: the audit, with the entries about to be written, gives the admins of
  the record; admins have signed in, and their limit holds.
- `SweepsHold`: due dates on the contract settle to those of the open obligations,
  what is due and what is overdue is announced once each while nobody gives the
  due date again, a recurring obligation
  has one follower; a connector whose runs do not overlap skips no change for good,
  but one beyond the rows a pull takes, or that could not be applied.
- `AudiencesHold`: a view lists people exactly when it is shared with specific ones,
  changes of different fields from two tabs are both kept, views exceed their number
  by no more than the requests under way; a hint on a document grants nothing, a
  removed member stays out, a project has one owner, who reaches it.
- `StreamHolds`: a day's counter is the number of counted entries of the contracts
  on the board, nobody is told twice of an entry on a channel, whoever is to be told
  is, or the entry is in a dead-letter queue.
- `NothingReturns`: a revoked link counts no more visit; a stored matrix version
  never changes, its pointer goes up by one, and no default replaces what a person
  saved; the creator stays; a deleted view does not come back.
- `StoredAnalysisHolds`: every clause is labelled or flagged; an analysis is reused for
  the same file and engine only; what needs no review was read whole and adds up;
  facts do not depend on how a document was cut into windows; figures said to add
  up do, as they are stored.
- `RulesHold`: an alarm a check knows is heard wherever it stands in a clause, order
  is nothing (but for the checks that read the first place only), a workspace's
  phrases never soften a grade; a required clause is never passed over, splitting a
  clause hides nothing (unless another clause of its type says "does not assign" or
  "to the extent permitted by law", which the checks read as taking it back), blockers
  are told apart.
- `AdviceStands`: what is advised is offered, and once done the advice is another;
  whoever a contract waits on can act; the advice to sign comes after every
  escalated office.
- `ConversationHolds`: an answer uses only what the caller may read and what is
  there; citations and figures are in the sources or marked; "nothing found",
  "not indexed" and "search is down" are not confused; a streamed answer is, at
  every moment, how the restored answer begins, and in the end the whole of it.

**Bounds.** `MaxFaults` caps the faults of a run, `MaxReceive` is the queue's
`maxReceiveCount` (3) and `MaxSealAttempts` the code's (3): both are the real
values. Two envelopes are the least at which "another envelope" exists, two
requests the least at which any race of the handlers exists (each handler
re-reads or re-checks one item once, so a race is between one invocation and one
other), three signers the least with a first signer and a choice after. An
envelope goes through its life once, so the state space is finite without
further bounds; that is also why `CHECK_DEADLOCK` is off: when every envelope has
ended and the contract is closed the system stops.

For `ContractReview`, `MaxFaults` is 1 (one redelivery, crash or loss is what each
hazard needs), `MaxAnalyses` is 1 (with two, section 6 applies), one revision is
the least at which "another version" exists. `Review_approvals` has one intake run
because reviewer actions are single steps that interleave with its steps anyway;
`Review_items` has three invocations, the least at which a rescore, an edit and
a lost race meet. `state` and `stage` make the graph cyclic and finite: a
contract can be reopened and approved for ever. `CHECK_DEADLOCK` is off there
too: a closed contract with no operation left has stopped for good.

For `Pipeline`, a version number is used by one run unless a lost reply or a retry
makes a second attempt, so `MaxVersions` is `Runs` plus `MaxFaults` in
`Pipeline_runs` and `Runs` in `Pipeline_deletes`: it cuts nothing off. Three runs
are the least at which a version is deleted while two others exist, or while a
third is being made; two requests the least at which two claims, or a claim and a
delete, race. `SpareRun` is a bound too: nobody uploads or re-analyzes when no
run is left to start. `MaxRetries` is 1 (2 in the code; the counter is compared,
nothing else). One file is followed (`Artefacts`): files are copied and restored
one by one and nothing compares two of them.

For `Automations_firing`, two faults are one that leaves a claim and one that meets
its retry; one entry and two stays of the contract in a stage are the least at which
a time rule has another episode. For `Tenant_tables`, every limit of the code
(`MAX_ACTIVE_LINKS`, `MAX_ADMINS`, `MAX_VIEWS_PER_MODULE`, the tries of a locked
write) is 1 or 2, so that it is met; two requests race, and one stop
(`MaxStops`, `MaxHalts`, `MaxOutages`, ...) leaves something half done. There are two
`Records` and a pull takes one row (`MAX_RECORDS`, 5000 in the code): the least at
which one is left out. A request edits the status or the due date of an obligation,
not both. `MAX_READS`
is 3: reading gives up after it, and no more than two other requests are in the way.
`MCTenant` cuts off some combinations of these: guests use one link of the two, and
come together only where there is one (`FewAtOnce`); once two runs or saves of a
connector overlap, one record changes and is known (`OneRecordTogether`:
`NothingSkipped` excuses every record then); after a request on obligations stopped
the others come one at a time (`OneAfterHalt`). Requests and runs that are alike begin
in a fixed order (`FirstFree`), which only leaves out renamings.
The stream has three faults, the least with a retry, a duplicate and a death.
`Midnight = FALSE` keeps a view within one day (section 6). For `Parts_alone`,
clauses have up to `MaxSentences` sentences (three: an alarm, something before and
something after it), documents up to `DocumentLength` clauses, a stream up to five
symbols, which is one placeholder with something around it. Of money, the four figures
take a few values each, which add up in parts, as a change, with its wrong sign, with
a dropped multiplier, or not at all, and any of those given may be the
validator's own; there are up to three line items of six kinds.

**Symmetry** of invocations, runs and envelopes is used only for safety.

**Fairness** (`Esign!Fairness`): an invocation that runs goes on unless it
crashes (Lambda runs a handler to its end or its timeout), a visible message is
delivered while a worker is free, and a message past its receives is
dead-lettered (SQS). Nobody has to make a request: no liveness property relies on
a reviewer, a signer or the sweeper coming.

`ContractReview!Fairness`: a run goes on unless it crashes, a message in the queue
is received while an intake run is free, and the reconciliation, which is on an
hourly schedule, comes for every document it would send again. Uploads, the
pipeline and people are not fair.

`Pipeline!Fairness`: EventBridge starts a run for an event, the state machine goes
on, and a request that has started goes on (`Stop` is a fault). No person has to
come, and time does not help: `Settles` does not rely on the grace period
passing.

`Automations!AutoFairness`: the stream hands over its entries, the scheduler starts
sweeps, and an invocation goes on. People and administrators are not fair.

## 4. What is proved

For any number of envelopes, signers, invocations and faults (`tlapm` checks every
leaf; the constants' assumptions are those named in `Esign`):

| Theorem | States |
|---|---|
| `EsignSafety!TypeCorrect` | `Safe => []TypeOK`. `TypeOK` is inductive: besides shapes it says what each invocation's context holds at each step (`ContextOK`), without which the next step could name no envelope |
| `EsignSafety!ImplementsLifecycle` | every step of the handlers is a step of `EnvelopeLifecycle` or leaves status and signatures alone |
| `EsignSafety!SigningOrderKept` | nobody signs before someone ranked earlier |
| `EsignSafety!SealsFullySigned` | an envelope that is sealing, completed, failed or in the queue has every signature |
| `EsignSafety!NamesRealEnvelope` | if no reply is lost, a contract out for signature names an envelope that was sent and not pulled back |
| `EsignSafety!SealedFilesMatch` | if no message is delivered twice at a time, a completed envelope records the hash of the file that is stored (`SealedHashMatches`) |
| `EsignSafety!DeadLettersFailed` | if besides no run stops half way and `MaxSealAttempts <= MaxReceive`, only a failed envelope's message is given up (`DeadLetterMeansFailed`) |
| `EsignSafety!CollectsForTheContract` | if no request takes the contract out of signature, revises it or sends links again, and no run stops half way: an envelope collects signatures only while the contract is out with it (`OpenMeansOut`) |
| `EsignSafety!SignsWhatWasSealed` | unless somebody marks it by hand, a contract is signed by a sealed envelope only, and names that one, however it was reopened, revised, approved and sent meanwhile and whatever failed (`SignedNamesSealed`) |
| `EsignSafety!OutIsOpen` | one request at a time, none of which stops half way or loses a reply: a contract that is out at rest has an open or failed envelope (`OutMeansOpen`) |

`SealsOnlyFullySigned` is not inductive by itself: an invocation may be about to
enqueue (`Enqueuing`), and a worker may hold a message (`Held`), so the invariant
carries those along with `AllSigned` and `Queued`. `GovernNamesRealEnvelope` needs
that one invocation at most is between the two writes of sending an envelope
(`OneSender`), and that the contract is not out with that envelope yet
(`SentNotOut`): only then may the rollback make it a draft.

The rest is proved from what one move of an invocation can do to a status, a
message, a file, the links or the contract (`StatusMoves`, `OnceDelivered`,
`FileMoves`, `LinkMoves`, `ContractMoves`).

- `SealedHashMatches`: `SealQueue`. A worker that runs has the message of its
  envelope to itself (`Alone`), only the last signature enqueues it (`First`), and
  the envelope is "sealing" until that worker has stored its file (`AtSealing`).
  Second deliveries end that (section 6): hence the proviso.
- `DeadLetterMeansFailed` adds `Counted`: every receive is an attempt but for the
  one going on, so the last receive is the attempt that fails the envelope. It
  needs that the queue's `maxReceiveCount` is not below `MAX_SEAL_ATTEMPTS` (both are 3)
  and that no run is cut off before it notes its attempt.
- `SignedNamesSealed`: `SealedSigns`. Whoever is about to mark a contract signed
  (`MarksSealed`), or read it for that (`ReadsSealed`), holds an envelope that is
  completed; completed stays so (`CompletedStays`), and only the marking itself
  writes the name of the envelope and "signed" in one.
- `OpenMeansOut`: `KeptOut`. Links, and requests that found
  one, exist only once the contract is out with the envelope; whoever takes it
  back found the envelope ended; an envelope past signing has its contract out
  or signed.
- `OutMeansOpen`: `OutOpens`. Whatever became of the envelope, it is open, has
  failed, or somebody is on the way to take the contract back or mark it signed
  (`Releases`); whoever leaves signature abandons an envelope nobody is sending.

| Theorem | States |
|---|---|
| `ContractReviewProofs!TypeCorrect` | `Safe => []TypeOK`, with what each run's context holds at each step |
| `ContractReviewProofs!ApprovalsAreCurrent` | no approval outlives the version it was given to |
| `ContractReviewProofs!ReadyIsApproved` | ready or out for signature: somebody has approved this version, and so has every office it was escalated to |
| `ContractReviewProofs!RequestsAnswerable` | an open PI request can be answered |
| `ContractReviewProofs!ColumnFollowsState` | the board column is that of the state |
| `ContractReviewProofs!SignatureStands` | signed or active stays so until closed |
| `ContractReviewProofs!RevisionsStand` | the original never becomes current again |
| `ContractReviewProofs!ItemsAreCounted` | at rest, and unless torn, the contract counts the open items |
| `ContractReviewProofs!ClosedItemsStay` | unless torn, only an edit opens a closed item |

They hold for any number of documents, offices, items, invocations and faults.
The approvals are proved together (`Approved`): a contract becomes ready when no
required office is pending, so `EscalatedOfficesApproved` needs that the escalated
offices are among the required ones (`EscalatedRequired`, which holds because
every write of the routing evaluates it with them) and that what has been given
is of the current version (`ApprovalsOfCurrentVersion`); nothing similar holds of
`required`, which changes while a contract is ready. Whatever clears approvals
or changes the version leaves the two states in the same write.
`StageFollowsState` needs that nothing is stored for a contract before it is made
(`NotBeforeItIsMade`). `OpenItemsCounted` is far from inductive: at rest the two
agree, in between one of the runs on its way must still bring the
difference (`Covered`: the copy is right and whoever is at `save` has found what is
open, or some run will still read or write it), and what a rescore has read and
written so far must be what is there (`Undisturbed`).

| Theorem | States |
|---|---|
| `PipelineSafety!TypeCorrect` | `Safe => []TypeOK`: with types, every run and request has the version number, the rows and the files its next step needs |
| `PipelineSafety!RunsApart` | unless a run was started without a claim, no two runs overlap (`OneRun`) |
| `PipelineSafety!RunsStand` | with the same proviso, no run loses the race for a version number (`NoneSuperseded`) |
| `PipelineSafety!MetaKeepsItsVersion` | if versions are not deleted, META shows the analysis of its latest version row (`MetaHasItsVersion`) |
| `PipelineSafety!DeletesAreWhole` | whatever fails, nothing is left of a deleted document when its runs have ended (`DeletedLeavesNothing`, which excepts the deletes that a run did not notice) |
| `PipelineSafety!OneAnalysisIsServed` | if no fault leaves a version incomplete (`Breaking`), what a READY document serves is of one run, that of its newest version row (`Served`) |

They hold for any number of runs, requests, files, faults, retries and version
numbers. `TypeOK` needs that a number that persist computes is a number
(`NewestExists`, by well-founded induction on the distance from `MaxVersions`: a
set of rows that is not empty has a newest one). `OneRun` needs what keeps others
out (`Alone`): while somebody holds the document, or an event will start a run,
META says that a run is under way and was written lately, so `Claimable` is false;
only the holder can make it say otherwise, and leaves by doing so.
`NoneSuperseded` adds that the number computed stays free (`Unbeaten`), which is
`OneRun` again: whoever could take it would be a second run. `MetaHasItsVersion`
needs neither: the conditional write of the row is enough, as long as the row
stays the run's own until META names it (`Kept`). That is the step a delete
of a version breaks.

`DeletedLeavesNothing` follows from `Purged`: from the removal of the files on, what
there is of the document was written by a run that is still under way and has yet
to come upon the delete. Whoever removes the rows has listed all that there are, so
that none is left when META goes; a run that stores one later finds META gone,
and sweeps.

`Served` follows from `Whole`, which holds until the first of the things that `Served`
excepts (`Ongoing`; that the document is being deleted is one of them, and is for
good). A run has written the files of the stages behind it, and its records if it
has embedded (`RunWhole`); a version's copies are of the run of its row, but for those
its run has still to make (`CopiesWhole`); versions are deleted one at a time, and
under no run (`OneDelete`); and each step of such a delete says what the next goes
by (`Deleting`): the row is gone and the newest one left is that of the files
restored so far, or nothing has to be rolled back. `Alone` is what makes a run
the only writer. `Breaking` is as small as can be: with one request, three runs and
a single fault, TLC finds `Served` violated for each of `"error"`, `"crash"`, `"service"`,
`"search"` and `"copy"`, and for none of the others, which the theorem admits. In
`Pipeline_deletes` the document is deleted as well, and a request stops half way.

| Theorem | States |
|---|---|
| `ContractReviewProofs!ActionsRunOnce` | if no reply is lost, an action is carried out once at most for an episode (`ActsOnce`) |
| `ContractReviewProofs!CompleteMeansDone` | with one sweep at a time, and if a claim is always recorded, an undo stored and nobody dies inside an action, a firing marked complete has every action carried out or skipped (`RunMeansDone`) |

`ActsOnce` follows from `Claims`: a claim is marked before its action, by whoever
wins the conditional write; only the winner may carry it out, and an undone
claim is one whose action has not run. `RunMeansDone` needs `Thorough`: whoever is at
action `n` of a firing has the ones before it behind him, done or skipped, as long
as nobody else is at the same firing (`Orderly`: the stream handles one entry at
a time and sweeps do not overlap). Both provisos are needed: section 6.

| Theorem | States |
|---|---|
| `TenantProofs!LinksAreBounded` | limits of portal links; a stored link is listed; and, if no day ends inside a view, opens are logged once a day (`LinksHold`) |
| `TenantProofs!RevokingIsFinal` | a revoked link stays revoked and counts nothing more |
| `TenantProofs!OrgTypes`, `AdminsAreKept`, `OneCreator` | types; the audit gives the admins, who are members, within their limit; one person founds the organization and remains its creator |
| `TenantProofs!ViewsStand`, `DeletedStay` | audiences, edits and number of views (`ViewsHold`); a deleted view stays deleted |
| `TenantProofs!MatrixStands`, `HistoryIsKept` | saves stand, reading never gives up, no version is stranded (`MatrixHolds`); the history of versions |
| `TenantSafety!ImportsAreTrue` | an import stores valid playbooks and answers truly which rows it took and skipped (`ImportsHold`), for sheets and playbooks of any length |
| `TenantProofs!AccessIsSound` | hints grant nothing, removed members stay out, one owner (`AccessHolds`) |
| `TenantProofs!PullsSkipNothing` | a connector whose runs and saves do not overlap skips no change for good, but one that lay beyond the rows a pull takes, could not be applied or was passed by a push (`NothingSkipped`) |
| `TenantProofs!ObligationsStand` | due dates settle, everybody is told once for each time the due date was given, an obligation has one follower (`ObligationsHold`) |
| `TenantSafety!NothingComesBack`, `AudiencesAreKept`, `SweepsAreKept`, `MatricesAreKept` | the same of the composition `Tenant`, as its run checks them (`NothingReturns`, `AudiencesHold`, `SweepsHold`, `ReviewMatrixHolds`) |
| `TenantSafety!EventTypes` | types of the activity stream (`EventsTypeOK`): in particular a log has no more entries than changes and notices of them |
| `TenantSafety!NobodyIsToldTwice` | whatever is delivered again, dies or fails: one message at most on a channel for an entry (`ToldOnce`) |
| `TenantSafety!NobodyIsForgotten` | but for the faults of `Losing`: once all is quiet, a routed entry has reached a person or a dead-letter queue (`Announced`) |
| `TenantSafety!CountersAgree` | but for the faults of `Miscounting`, and with one removal at a time: once the stream has caught up, a day's counter is what is on the board (`TrendsAgree`) |
| `TenantSafety!StreamsAgree` | the three of the composition `Tenant`, as its run checks them (`StreamHolds`) |

Each component has a pair of types with what its requests hold (`Shapes`,
`OrgShapes`, `ViewShapes`, `MatrixShapes`, `AccessShapes`) and one inductive
invariant above them:

- *links*: `OwnLinks` (a link being created is its request's alone), `Bounded`
  (those whose links are active when it counts are the reviewers, less
  itself: each request can pass the limit by one link only), `OnceADay`.
- *organization*: `ChangesAreSound` (a request at its write holds the record it
  read, which is the stored one if `rev` is), `FoundedOnce`, and `Trail`: audit
  entries plus those about to be written are the difference of the admins.
- *views*: `ViewWork` (an edit holds the version it read) and `ViewCounts`: a request
  that has counted is one of those by which the number can be passed.
- *matrix*: `Informed` (who is about to move the pointer stored the version after
  it), `Alone` (one request at a time is between the two writes), and reading
  gives up only after `MAX_READS` failures, of which seeding and upgrading cause
  one each: that is why `MatrixBounds` asks `MAX_READS >= 2`, which is the code's.
- *imports*: `ImportInv`. What is read stays a matrix of well formed playbooks, though
  saves come in between; a sheet gives one clause of a type (`Parsed`), and the merge
  keeps what it does not replace (`MergedAre`). That two clauses of a saved playbook
  differ in type comes from the validation before the save, by counting (`OneOfType`).
- *access*: `RemovedStayOut` with what a request read of a membership, and `Steady`:
  a project being founded has exactly the rows of its stage (`Progressed`), every
  other is whole. A request that stops or meets a deleted id ends that, hence the
  proviso in `OneOwner`.

- *connectors*: `Skipless`: while nothing overlaps, the one run or save under way has
  read the connector that is stored (`AsRead`), what changed before a pull began is
  still to be applied, is applied, was left out or could not be (`CoveredBy`), and what changes
  under it is later than its start (`Fetched`).
- *obligations*: `Unmixed`, while no old copy was written over a newer item: the
  id a request made up is its own (`Reserved`), what is not marked has been said
  by stopped sweeps only (`Heard`), an obligation that is open has no follower yet
  (`Followed`). And `Settling`, for `DuesSettle`, with any number of requests on the
  way: either somebody still owes the contract a refresh (`Bound`: he changed an item
  and has yet to list, or what he read is old and he will be refused), or somebody
  is about to write the right dates (`Repairs`), or they are there and so is
  whatever anybody may still write over them (`Copied`). During a signing "right"
  means right once Sonar's obligations are replaced (`AfterSign`), and nobody holds a
  write that would pass (`OneSigner`).

- *stream*: `StreamShapes` (a message, a claim and a marker are about an entry of the
  log; the stream is at an entry or just past the end) with `Few`: entries are
  changes that were made or notices of claimed ones, so the log is finite and
  `Entries`, which the properties range over, has all of it. Over these,
  `ByClaim` for `ToldOnce`: who tells holds the claim, nobody else is telling, and
  a channel counts as used exactly when it was told. `Delivery` for `Announced`:
  an entry the stream has passed was told, is in a dead-letter queue or a message,
  or is in a notifier's hands; a claim is one of an entry that was told, or is
  being. `Reckoning` for `TrendsAgree`, in three parts. `Marking`: an entry the stream
  has handled is marked as seen unless it was set aside, and one between marker
  and `ADD` is marked. `Removing`: what a removal has read is still the number of
  the contract's entries, nobody being about to write one. `Summing`: a counter is
  the number of marked entries whose `ADD` is made (`Reckoned`) less those taken back
  (`TakenOut`), at every moment; when all is quiet, the first are those of the
  contracts on the board and the second, up to what was set aside.

  The provisos are as small as can be. `"killed_notifying"` alone, or an `"undo"` after
  the `"error"`s of the channels, makes TLC find `Announced` violated; each fault of
  `Miscounting` alone (`"undo"` after an `"error"`) `TrendsAgree`; and two removals of one
  contract at a time take its counts back twice (section 6). The other faults are
  admitted in any number, and all of them for `ToldOnce`.

The composition has no invariant of its own: every behaviour of `Tenant` is one of
each component (`PortalAlone`, `MatrixAlone`, ...), the focus moving and the others
standing still.

For the parts that share no state (`MCParts`):

| Theorem | States |
|---|---|
| `PartsProofs!PartsKeep` | `Parts => []PartsInv`: each part keeps the invariant it needs |
| `PartsProofs!ConversationsHold` | an answer rests on what the caller may read, cites only what it was given and marks figures that are not there; a streamed answer is shown whole, once and without a placeholder |
| `PartsProofs!AdviceStandsAlways` | the advice on a review is accepted by the action it names and moves the contract on, and who is waited for is whose turn it is |
| `PartsProofs!StoredAnalysisStands` | what classify stores is whole or flagged, its facts do not depend on how the document was cut into windows, its figures add up where it says so |
| `PartsProofs!RulesStand` | an alarm is heard whatever else a clause says, order is nothing, a workspace's phrases never soften a grade; a document's review passes no required clause over, borrows none that is graded, hides nothing by splitting a clause and tells its blockers apart |

They hold for any documents, answers, texts, routing rules, files, windows, amounts,
line items, limits and vocabularies; the bounds of the run (`MaxStream`, `MaxWindows`, `MaxItems`,
`MaxSentences`, ...) are not used. The constants' assumptions are those of `ReviewAdvice`
(rules name offices), `WindowFacts` (an answer uses the words of the schema),
`MoneyFigures` (an amount is an integer or is not given), `DocumentReview` (a passage
is a text) and `ClauseGrades` (`VocabularyAssumption`). The last is about two checks
that find fault with a clause in which they recognise nothing: a license without a
reserved right to research, a bought-in product without an indemnity. An alarm these
checks do not look for would seem to be heard by them; so the vocabulary of those two
clause types has no other alarm than their own.

Most of these are about what loops compute. The modules write a loop as a function
from the number of rounds to what there is after them; `LoopProofs` shows that there
is exactly one such function (`Recursion`) and that what holds before the first round
and is kept by each holds after all (`LoopKeeps`). Both are induction on a set of
numbers, from the least one outside of it (`LeastNumber`), since induction over a
formula is out of the provers' reach.

- *streaming*: `StreamInv` says that what was shown and what is kept back are,
  together, what is restored of a beginning of the text, cut at a place no
  placeholder straddles (`SafeAt`). Restoring a text in two pieces at such a place is
  restoring it whole; that is why `SafeCut` may look back no more than two symbols.
  What a delta shows is then the difference of two such beginnings, and the end of
  the stream shows the rest.
- *advice*: `AdviceInv` is `Sound`: a contract has a state and the fields that belong
  to it; an office that a person escalated to is required; one that is ready to
  sign has its approvals. The advice is then compared with the table of
  actions, state by state. That an approval changes the advice
  (`AdviceDoesMove`) needs that the list of pending offices gets shorter
  (`WithoutWorks`, `OnceWorks`).
- *chat*: hits, context and citations are within the scope of the question
  (`ScopeKept`) and come in an order (`StepsKept`), with which the checks of
  an answer apply to what the model was given.
- *classify*: the analysis at work and the one stored are whole, or flagged, with the
  engine and the file they were made from (`ClassifyInv`).
- *facts*: any list of answers. What the windows of a part say, made one answer, gives
  with the others what all of them give (`MergedFields`, `MiddleField`, `ReplacedField`,
  `CutSays`): the first that is said is the same, so are the union, the weakest
  confidence and the signature.
- *money*: any amounts. The total of a list without one of its amounts, or with
  one more, or read backwards (`TotalWithout`, `TotalReversed`).
- *grades*: there is no loop but the text. A text and its reverse say the same and
  state the same numbers (`ReversedIsAlike`), and every check but those that read a
  first place gives texts that say the same the same grade (`CampusOrder`,
  `SoftwareOrder`, `WorkforceOrder`, `PlaybookOrder`). An alarm that a check finds grave
  in a text of one sentence is the first thing it looks for, or one of the outcomes
  of which it takes the gravest (`CampusAlarms` and the like, check by check).
- *documents*: the text of some clauses says what they say and no more (`BodySays`).
  Each check refuses for one word only (`CampusRefuses`, `SoftwareRefuses`,
  `WorkforceRefuses`), so that what is refused by itself is refused within
  more (`RefusalStands`). Every built-in playbook names a type once
  (`BooksNameOnce`), for which its lists are gone through one by one: therefore no two
  blockers are the same.

The parts of a behaviour do not touch: `PartsStep` takes the step of the part in
focus. The signing of `Parts_alone` is that of `Esign`, whose theorems cover
`OpenMeansOut`.

Only model-checked: liveness, which is out of the prover's reach (`SealingEnds`,
`EndedReleasesContract`, `DueAreInvited`, `GradedAtLast`, `Settles`, `RulesFinish`).
Every other property of a passing run is a theorem.

## 5. Mutants

Each property has a mutant beside the definition it changes (`..._AnyOrder`,
`..._OneMore`, `..._Never`, ...): a plausible bug at that place of the code, with
which TLC finds the property violated. They are listed in `PROJECT.json`.

## 6. Where code and documentation disagree

Shown by a run:

- `Review_redelivered`: `handle_event` compares the version of an event with the
  document reviewed last. After a revision has been graded, a redelivered event of
  the first document is taken for a new reading, and its grades, items and
  routing replace those of the current version; the handler's docstring says
  that such an event changes nothing.
- `Access_roles`: two requests that file a document in two projects rewrite its
  hint without a lock; one of the two is lost, and the caller's role on the
  document is the one in the other project. `access.py` says that it is the
  strongest, and that a lost hint hides nothing.

The following were met while modelling and can be seen by changing the constants of
the runs; no run is kept for them.

Signing (one envelope, one signer, two requests, one seal worker, no `Ops` and no
faults, unless said otherwise):

- A run that stops after storing `completed` is retried, finds the envelope no
  longer `sealing` and is skipped: the contract is never marked signed
  (`EndedReleasesContract` with `"crash"`).
- `OutMeansOpen`, two requests: send writes the envelope and then the contract
  without looking at the envelope again. A void in between leaves the contract
  out for signature with a voided envelope.
- `DeadLetterMeansFailed`, `Faults = {"crash"}`, `MaxFaults = 1`: only exceptions
  count as attempts, but the queue counts every receive. A run that times out
  uses one up, and the message is dead-lettered while the envelope still shows
  `sealing`; the runbook says it shows `failed`.
- `OpenMeansOut`, `Ops = {"reopen"}`: `before_sig` is read before the lock, so an
  envelope sent between the read and the write is not abandoned. With
  `Ops = {"revision"}`: a revised document takes the contract back to review and
  leaves the envelope open.
- `DraftHasNoLinks`, `Ops = {"send_back", "resend"}`: a link resent while the
  envelope is being sent stays live when it is put back to draft.
- `SealedHashMatches`, two workers, `Faults = {"duplicate"}`, `MaxFaults = 1`: a
  second delivery stores another `sealed.pdf` before it checks the envelope.
- `GovernNamesRealEnvelope`, `Faults = {"lost_reply"}`, `MaxFaults = 1`: the
  rollback of a contract write that was stored.
- A contract reopened and approved again is marked signed by the envelope it left
  (`Ops = {"approve", "reopen"}`): sealing goes on, and `mark_signed` is refused only
  where the table of actions refuses it, which `ready_to_sign` does not; a comment there speaks
  of the contract that "moved on (reopened, signed by hand)" (`esign.py:1047`). What holds is that
  a signed contract names an envelope that was sealed (`SignedNamesSealed`).
- With two drawings, a refused second submission replaces the drawing of the
  accepted one (`CompletePutImage` comes before the check under the lock).

The review of a contract:

- `OpenItemsCounted` and `ClosedItemsKept` without the `torn` proviso fail in
  `Review_items`: an item closed while a rescore is replacing Sonar's is opened
  again, or counted although closed; so does a crash between the two.
- `GradedAtLast` with no items, `Ops = {"post"}`, `Faults = {"lost"}`:
  reconciliation sends again what no contract accounts for, but a revised document is
  accounted for from the moment its upload link is made, and a document posted by
  hand from the moment its contract is. If such a document's event is lost,
  nothing grades it.
- With two revisions and a redelivered message, or with `MaxAnalyses = 2`, an older
  revision becomes current again: every event of a document other than the one
  the contract was made for is taken for a new version (this is why the
  property is only `NeverBackToOriginal`).
- Two intake runs that grade the original and the revision at the same time can
  store the original's grades last.
- The advice on a contract out for signature with open items is to send it back or
  to escalate, which `_ALLOWED_FROM` refuses (the exception in `AdviceAccepted`);
  "Everything is approved." may be said while a rule's office is pending since a
  value was changed (`EscalationsApproved` speaks of escalated offices only); after
  `send_back` an open item with an office is advised to be escalated again.
- Worth knowing, and as the code has it: a revision takes a rejected contract
  back to review; a revision of a signed contract changes the current document and
  clears its approvals; a person's value or a rescore can add a pending office
  while the contract is ready or out; an approval names no version, so one
  sent from a page that shows the old version counts for the new one; an approver's
  office is checked on an earlier read than the write; `edit_blocker` writes the
  whole item it read and can undo a status.

The pipeline:

- persist reads `userEdited`, stores its version row, copies the files and then
  writes the title whatever `userEdited` has become: a title edited in between is
  overwritten, and `userEdited` goes on naming it; the module's docstring says that
  edited fields are not overwritten.
- `step_functions.tf` says of two overlapping runs that the one that stored its
  version first stands. It does in META and in its row; the files served, which the
  stages write on their way, and the copies of them can be the other run's
  (`Ops = {"upload_again"}`).
- A run that saves, fails or crashes while its document is being deleted can leave a
  row, files or records behind. This is what `missed` is about.
- `Served` without its provisos, with re-analysis and deletes of versions. One
  `"error"` or `"crash"`: a run that stored its row and then failed leaves a
  version without files, and a delete of the version after it brings back
  nothing. One `"search"`: when a version is deleted and the records of the one
  before it are gone already, the removal of the deleted run's records can fail, and
  the document stays searchable by them. One `"service"` (a stage is run again,
  persist after it stored its row among them) or one `"copy"` (a file of a version is
  not copied) breaks it as well:
  these five are the `Breaking` of section 4. With two requests and
  `Faults = {"error", "copy"}`, `MaxFaults = 2`: a claim that is released writes back
  the READY it read before another run failed.
- `Settles`, `Ops = {"upload_again"}`, three runs, `Faults = {"old_read"}`,
  `MaxFaults = 1`: of two overlapping runs with different numbers the one with the
  lower may save last, so `latestVersion` is 1 while row 2 exists; a third run that
  misses row 2 is superseded, and not released, because `latestVersion` is below
  its number. With `"stop"`: a claim whose request died leaves PENDING until the
  grace period is over and somebody asks again.
- Worth knowing, and as the code has it: a persist that Lambda runs again after it
  has stored its row stores a second version; one that is run again after it has
  saved finds its parked outputs gone and marks the document FAILED over its
  analysis; deleting the newest version leaves META's analysis fields those of the
  deleted one; deleting an older version leaves its records; two versions
  deleted at once leave META without any version; `updatedAt`, which the claim
  compares, has a resolution of one second.
- classify: the first answer whether the figures add up is about the validator's own
  figures, while the extraction's are kept where it gave none. It is left standing
  where the second, about the stored ones, cannot be computed, even if these have
  another total: the validator says 30 and no new total, the items are 10 and 20, the
  extraction's new total is 20, and the document is said to add up. The same can happen
  where a line item, or the total, is corrected by its scale (`StaleOnlyOfTotals` says
  that these are the only cases). Where two line items differ by less than the tolerance and
  either could be the total, which of them is left out depends on their order
  (`OrderOfLines` is about all other cases).

Automations, stream, notifier:

- A lost reply to a claim (`"lost_reply"`) makes the retry skip an action that did
  not run; `"unwritten"`, `"undo"` and `"killed_acting"` leave a marker for an action
  that did not happen; two sweeps at once with an error mark a firing complete that
  is not (`RunMeansDone`).
- A sweep whose firing found no owner is not finished after it was killed.
  `RunsCounted`: an administrator's save puts back the counter it read.
- A notifier killed between its claim and the message (`"killed_notifying"`) loses
  the announcement; a stream killed between marker and counter, a lost reply or
  a removal meanwhile leave a counter off by one; an activity entry whose append
  fails is nowhere.
- Two requests that remove one contract at a time both find it, and each takes
  back all of its counts: `remove_contract` deletes it only afterwards, and unconditionally
  (`TrendsAgree` with two `Removers` and no faults: a counter is -1).

The tables of a tenant:

- `portal.py:25-27` names a limit on active links; creations at once pass it, by one
  each. An open is logged twice on the first day of a view across midnight.
- A request that stops between a matrix version and its pointer leaves a number
  nobody can use, and every later save fails. An import saves a whole matrix made
  from the one it read: another administrator's save in between is overwritten.
- A dry run of a connector "changes nothing" (`connectors.py:17-18`), yet writes the
  connector it read over an administrator's save; a push on an event moves
  `lastSyncAt` past changes nobody pulled; overlapping pulls put back older values.
  Of an answer `_fetch_list` keeps the first `_MAX_RECORDS` rows, and `lastSyncAt` moves
  all the same (`connectors.py:283`, `420`): a record beyond is not pulled until it
  changes again.
- An obligation whose due date is sent again unchanged is announced again: the marks go
  whenever `dueDate` is in the request (`workflow.py:1872-1874`).
- The sweep of obligations puts back an item it had listed; due dates go stale when
  it does, or when a request gives up after its tries.
- A renewal-stage contract whose term is extended stays in renewal. A project's
  role is hidden or weakened by a lost hint (`Access_roles`).

The rules and the chat:

- The suggested language of the default "publication" position grades "deviates"
  under `_check_publication`, though `matrix.py:18` calls it the redline proposed
  when the clause deviates; likewise software "DataProcessing" and the services
  "type.overtime".
- Checks that read the first match hide what follows: a negation for background IP
  and warranty, the first price-index sentence of a fee clause, consent anywhere in
  a name-use clause; the playbook checks read the first number only, and its
  `_check_ip` takes "ip" inside a word. The services defaults "type.flow-down"
  (required) and "Confidentiality" have no check and no phrases and are always
  "review".
- The note "(The answer was interrupted…)" is streamed before the held-back tail of
  the answer. Clause numbers are not qualified by their document, so a citation or
  a figure may be vouched for by the clause of the same number of another one; when
  every document of a project is gone, hits are not filtered by existence; at most
  ten unverified figures are listed, and plain numbers below ten never.

## 7. What is left out, and the plan

Reductions that go through all modules: a request that stops before its first write
might as well not have come; requests last within one day where a day matters; a
read of an index (GSI) is current; a locked write whose closure reads nothing but
its item is one step.

Not modelled, by component (`PROJECT.json` gives each one's note): PDF drawing,
seal encoding and mail; request parsing, bulk updates and reports; income,
amendments, connector fields and overdue marks; webhooks and vendor protocols;
change and lineage rows, the timeline of related documents; prompts, model calls
and ranking; the regular expressions that recognise what a sentence says;
`parties.py`, `segment.py`, `dates.py`; deployment and data. The single-row
project of older data (`_save_projects`) and uploads into a project are not in
`ProjectAccess`.

Plan:

1. *(done)* signing, review and pipeline with their proofs; the tables of a tenant,
   automations, stream, rules, classify, chat.
2. *(done)* proofs about automations, links, matrix versions, organization, views,
   access, connectors and obligations.
3. *(done)* the remaining invariants of signing, those of the pipeline, and the
   activity stream.
4. *(done)* what the loops of classify, advice, chat and streaming compute.
5. *(done)* the rules that grade clauses and documents.
6. Income and amendments (a delta applied twice by a repeated rescore), webhooks,
   the timeline.
