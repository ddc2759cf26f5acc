----------------------------- MODULE Connectors -----------------------------
(***************************************************************************)
(* A connector of a tenant (shared/govern/connectors.py): its stored       *)
(* record, the credentials beside it in Secrets Manager, and the runs that *)
(* pull records changed since lastSyncAt into the contracts that carry     *)
(* their id and push status back.  Admins save settings while runs, of     *)
(* the daily schedule, of an admin or of a Govern event, are under way;    *)
(* both write the whole record they read.                                  *)
(*                                                                         *)
(* The value of a record is the time it was last changed.  The system of   *)
(* record itself is external.                                              *)
(***************************************************************************)
EXTENDS Integers, FiniteSets

CONSTANTS
    Records,      \* records of the external system
    Runners,      \* runs and saves that may be under way at a time
    MAX_RECORDS,  \* rows of one answer that a pull takes
    MaxClock,     \* bound: changes outside, runs and saves
    MaxLosses     \* bound: runs that fail or stop

ASSUME ConnectorBounds == {MAX_RECORDS, MaxClock, MaxLosses} \subseteq Nat

VARIABLES
    clock,      \* time
    changed,    \* changed[r]: when record r was last changed
    value,      \* value[r]: the value its contract holds
    known,      \* records whose id a contract carries
    conn,       \* the stored connector
    secret,     \* the tenant's credentials are stored
    phase,      \* phase[p]: what p is doing
    losses,     \* runs that failed or stopped
    together,   \* two runs or saves were under way at once
    passedBy    \* records lastSyncAt moved past without a pull

connVars == <<clock, changed, value, known, conn, secret, phase, losses, together, passedBy>>

Off  == [at |-> "off"]
Unset == [enabled |-> FALSE, creds |-> FALSE, last |-> 0, error |-> FALSE]

ConnectorInit ==
    /\ clock = 1 /\ secret = FALSE /\ losses = 0 /\ together = FALSE /\ passedBy = {}
    /\ changed = [r \in Records |-> 1] /\ value = [r \in Records |-> 0] /\ known = {}
    /\ conn = Unset
    /\ phase = [p \in Runners |-> Off]

Is(p, a) == phase[p].at = a
Move(p, a) == phase' = [phase EXCEPT ![p].at = a]
Tick == clock < MaxClock /\ clock' = clock + 1

(***************************************************************************)
(* The system of record, and the contracts                                 *)
(***************************************************************************)
(* A record changes, or only time passes.                                  *)
RecordChanges ==
    /\ Tick
    /\ \/ \E r \in Records : changed' = [changed EXCEPT ![r] = clock + 1]
       \/ UNCHANGED changed
    /\ UNCHANGED <<value, known, conn, secret, phase, losses, together, passedBy>>

(* sync_external_ids: a contract is given the id of a record.              *)
SetExternalId ==
    /\ \E r \in Records \ known :
         /\ known' = known \cup {r}
         /\ passedBy' = IF changed[r] < conn.last THEN passedBy \cup {r} ELSE passedBy
    /\ UNCHANGED <<clock, changed, value, conn, secret, phase, losses, together>>

(***************************************************************************)
(* update_connector                                                        *)
(***************************************************************************)
BeginSave(p) ==
    /\ Is(p, "off") /\ Tick
    /\ together' = (together \/ \E o \in Runners : ~Is(o, "off"))
    /\ \E switch \in BOOLEAN, creds \in {"keep", "store", "remove"} :
         phase' = [phase EXCEPT ![p] = [at |-> IF creds = "keep" THEN "save" ELSE "secret", creds |-> creds, read |-> conn,
             write |-> [conn EXCEPT !.enabled = switch,
                                    !.creds = IF creds = "keep" THEN @ ELSE creds = "store",
                                    !.error = @ /\ creds = "keep"]]]
    /\ UNCHANGED <<changed, value, known, conn, secret, losses, passedBy>>

PutSecret(p) ==
    /\ Is(p, "secret")
    /\ secret' = (phase[p].creds = "store")
    /\ Move(p, "save")
    /\ UNCHANGED <<clock, changed, value, known, conn, losses, together, passedBy>>

Save(p) ==
    /\ Is(p, "save")
    /\ conn' = phase[p].write
    /\ phase' = [phase EXCEPT ![p] = Off]
    /\ UNCHANGED <<clock, changed, value, known, secret, losses, together, passedBy>>

(***************************************************************************)
(* run_connector                                                           *)
(***************************************************************************)
BeginRun(p) ==
    /\ Is(p, "off") /\ Tick
    /\ together' = (together \/ \E o \in Runners : ~Is(o, "off"))
    /\ \E trigger \in {"schedule", "event"} :
         phase' = [phase EXCEPT ![p] = [at |-> "creds", trigger |-> trigger, read |-> conn, started |-> clock + 1,
                                  live |-> FALSE, rows |-> {}, got |-> value, missed |-> {}, failed |-> FALSE]]
    /\ UNCHANGED <<changed, value, known, conn, secret, losses, passedBy>>

(* Without credentials, or switched off, a run is a dry run.               *)
ReadSecret(p) ==
    /\ Is(p, "creds")
    /\ LET live == phase[p].read.creds /\ secret /\ phase[p].read.enabled IN
       phase' = [phase EXCEPT ![p].live = live,
                        ![p].at = IF live /\ phase[p].trigger # "event" THEN "fetch" ELSE "end"]
    /\ UNCHANGED <<clock, changed, value, known, conn, secret, losses, together, passedBy>>

(* What the system returns for modifiedSince, in whichever order, and the  *)
(* rows of it that are taken: the first MAX_RECORDS.                       *)
Since(last) == {r \in Records : last = 0 \/ changed[r] >= last}

Page(last) ==
    IF Cardinality(Since(last)) <= MAX_RECORDS THEN {Since(last)}
    ELSE {rows \in SUBSET Since(last) : Cardinality(rows) = MAX_RECORDS}

(* The rows beyond are left out without a word.                            *)
Fetch(p) ==
    /\ Is(p, "fetch")
    /\ \/ /\ \E rows \in Page(phase[p].read.last) :
               phase' = [phase EXCEPT ![p].at = "apply", ![p].rows = rows, ![p].got = changed,
                                      ![p].missed = Since(phase[p].read.last) \ rows]
          /\ UNCHANGED losses
       \/ losses < MaxLosses /\ losses' = losses + 1 /\ phase' = [phase EXCEPT ![p].at = "end", ![p].failed = TRUE]
    /\ UNCHANGED <<clock, changed, value, known, conn, secret, together, passedBy>>

(* apply_record; a record no contract carries the id of, or one that       *)
(* cannot be applied, is an error of the run and does not stop it.         *)
Apply(p) ==
    /\ Is(p, "apply")
    /\ \E r \in phase[p].rows :
         \/ /\ r \in known
            /\ value' = [value EXCEPT ![r] = phase[p].got[r]]
            /\ phase' = [phase EXCEPT ![p].rows = @ \ {r}]
            /\ passedBy' = IF phase[p].got[r] = changed[r] THEN passedBy \ {r} ELSE passedBy
            /\ UNCHANGED losses
         \/ /\ r \in known => losses < MaxLosses
            /\ losses' = IF r \in known THEN losses + 1 ELSE losses
            /\ phase' = [phase EXCEPT ![p].rows = @ \ {r}, ![p].missed = @ \cup {r}]
            /\ UNCHANGED <<value, passedBy>>
    /\ UNCHANGED <<clock, changed, known, conn, secret, together>>

Pulled(p) ==
    /\ Is(p, "apply") /\ phase[p].rows = {}
    /\ Move(p, "end")
    /\ UNCHANGED <<clock, changed, value, known, conn, secret, losses, together, passedBy>>

(* lastSyncAt: when a live run that did not fail was started.              *)
LastSync_Ended(r) == IF r.live /\ ~r.failed THEN clock ELSE r.read.last
LastSync(r) == IF r.live /\ ~r.failed THEN r.started ELSE r.read.last

PassedBy(r) == IF r.trigger = "event" THEN {x \in known : value[x] < changed[x] /\ changed[x] < LastSync(r)} ELSE r.missed

EndRun(p) ==
    /\ Is(p, "end")
    /\ LET r == phase[p] IN
       /\ conn' = [r.read EXCEPT !.last = LastSync(r), !.error = r.failed]
       /\ passedBy' = passedBy \cup PassedBy(r)
    /\ phase' = [phase EXCEPT ![p] = Off]
    /\ UNCHANGED <<clock, changed, value, known, secret, losses, together>>

StopRun ==
    /\ losses < MaxLosses /\ losses' = losses + 1
    /\ \E p \in Runners :
         /\ ~Is(p, "off")
         /\ phase' = [phase EXCEPT ![p] = Off]
    /\ UNCHANGED <<clock, changed, value, known, conn, secret, together, passedBy>>

ConnectorNext ==
    \/ RecordChanges \/ SetExternalId \/ StopRun
    \/ \E p \in Runners : \/ BeginSave(p) \/ PutSecret(p) \/ Save(p)
                          \/ BeginRun(p) \/ ReadSecret(p) \/ Fetch(p) \/ Apply(p) \/ Pulled(p) \/ EndRun(p)

ConnectorSpec == ConnectorInit /\ [][ConnectorNext]_connVars

(***************************************************************************)
(* Properties                                                              *)
(***************************************************************************)
ConnectorTypeOK ==
    /\ clock \in 1 .. MaxClock /\ changed \in [Records -> 1 .. MaxClock] /\ value \in [Records -> 0 .. MaxClock]
    /\ conn \in [enabled : BOOLEAN, creds : BOOLEAN, last : 0 .. MaxClock, error : BOOLEAN]
    /\ known \subseteq Records /\ passedBy \subseteq Records

(* Once a pull has moved lastSyncAt past the change of a record, the       *)
(* contract holds that change, also when the record changed while the pull *)
(* was under way: nothing is skipped for good -- unless two runs or saves  *)
(* were under way at once, the record lay beyond the rows a pull takes of  *)
(* one answer, it could not be applied, it was given to a contract only    *)
(* afterwards, or a push for an event moved lastSyncAt past it; and such a *)
(* record is excused only until a pull takes it.                           *)
NothingSkipped ==
    ~together => \A r \in known \ passedBy : changed[r] < conn.last => value[r] = changed[r]
=============================================================================
