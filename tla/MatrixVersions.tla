--------------------------- MODULE MatrixVersions ---------------------------
(***************************************************************************)
(* The versions of a tenant's review matrix (shared/govern/store.py,       *)
(* ConfigRepository): immutable items MATRIX#n and a pointer to the        *)
(* current one.  The first read seeds version 1 from the default built     *)
(* into the code; a default nobody saved is brought up to date by later    *)
(* code; a save stores version n+1 and moves the pointer.                  *)
(*                                                                         *)
(* Every step is one call to the table; a request may die between two.     *)
(* The code a request runs is that of its container: old and new defaults  *)
(* meet during a deployment.                                               *)
(***************************************************************************)
EXTENDS Naturals, FiniteSets

CONSTANTS
    MatrixRequests,    \* requests that may be under way at a time
    MAX_WRITE_RETRIES, \* tries of a save
    MAX_READS,         \* tries of current_matrix
    MaxVersion,        \* bound: versions
    MaxBuiltin,        \* bound: deployments that change the default
    MaxStops           \* bound: requests that die

ASSUME MatrixBounds == /\ {MAX_WRITE_RETRIES, MaxVersion} \subseteq Nat \ {0} /\ MAX_READS \in Nat /\ MAX_READS >= 2
                       /\ {"system", "nobody"} \cap MatrixRequests = {}
                       /\ MaxBuiltin \in Nat /\ MaxStops \in Nat

VARIABLES
    builtin,   \* the default of the deployed code
    versions,  \* versions[n]: who saved version n, and the default it holds
    pointer,   \* MATRIX#CURRENT, 0 when there is none
    reading,   \* reading[q]: what request q is doing
    saved,     \* versions a person was told are saved
    lonely,    \* a save was refused although no other request ran meanwhile
    stops      \* requests that died

matrixVars == <<builtin, versions, pointer, reading, saved, lonely, stops>>

NoVersion == [by |-> "nobody", text |-> 0]
Resting      == [at |-> "rest"]

MatrixInit ==
    /\ builtin = 0 /\ pointer = 0
    /\ versions = [n \in 1 .. MaxVersion |-> NoVersion]
    /\ reading = [q \in MatrixRequests |-> Resting]
    /\ saved = {} /\ lonely = FALSE /\ stops = 0

At(q, at) == reading[q].at = at
Free(n) == versions[n] = NoVersion
Others(q) == {o \in MatrixRequests \ {q} : ~At(o, "rest")}

(* GET /matrix reads the current version, PUT /matrix saves one.  A        *)
(* request knows whether another one ran at the same time.                 *)
BeginMatrix(q) ==
    /\ At(q, "rest")
    /\ \E op \in {"read", "save"} :
         reading' = [o \in MatrixRequests |->
            IF o = q THEN [at |-> "pointer", op |-> op, code |-> builtin, reads |-> 1, tries |-> 1, found |-> 0,
                           raced |-> Others(q) # {}]
            ELSE IF At(o, "rest") THEN Resting ELSE [reading[o] EXCEPT !.raced = TRUE]]
    /\ UNCHANGED <<builtin, versions, pointer, saved, lonely, stops>>

(***************************************************************************)
(* current_matrix                                                          *)
(***************************************************************************)
stored == <<versions, pointer>>
matrixTail   == <<builtin, saved, lonely, stops>>
Goto(q, at) == reading' = [reading EXCEPT ![q].at = at]

ReadPointer(q) ==
    /\ At(q, "pointer")
    /\ reading' = [reading EXCEPT ![q] = [@ EXCEPT !.at = IF pointer = 0 THEN "seed" ELSE "version", !.found = pointer]]
    /\ UNCHANGED <<stored, matrixTail>>

(* A version nobody saved whose positions differ from the code's default   *)
(* is replaced by a newer one.                                             *)
Outdated_Saved(q, n) == versions[n].text # reading[q].code
Outdated(q, n) == versions[n].by = "system" /\ versions[n].text # reading[q].code

ReadVersion(q) ==
    /\ At(q, "version")
    /\ Goto(q, IF Outdated(q, reading[q].found) THEN "upgrade" ELSE "have")
    /\ UNCHANGED <<stored, matrixTail>>

Seed(q) ==
    /\ At(q, "seed")
    /\ versions' = IF Free(1) THEN [versions EXCEPT ![1] = [by |-> "system", text |-> reading[q].code]] ELSE versions
    /\ Goto(q, "first")
    /\ UNCHANGED <<pointer, matrixTail>>

MayPointFirst_Always == TRUE
MayPointFirst == pointer = 0

PointFirst(q) ==
    /\ At(q, "first")
    /\ pointer' = IF MayPointFirst THEN 1 ELSE pointer
    /\ reading' = [reading EXCEPT ![q] =
            IF @.reads = MAX_READS THEN [@ EXCEPT !.at = "failed"]
            ELSE [@ EXCEPT !.at = "pointer", !.reads = reading[q].reads + 1]]
    /\ UNCHANGED <<versions, matrixTail>>

(* _put_matrix: version found + 1, unless there is one.                    *)
PutNext(q, by) == versions' = [versions EXCEPT ![reading[q].found + 1] = [by |-> by, text |-> reading[q].code]]
NextFree(q) == reading[q].found < MaxVersion /\ Free(reading[q].found + 1)

(* _upgrade_system_default; whoever comes second reads what is current.    *)
Upgrade(q) ==
    /\ At(q, "upgrade") /\ reading[q].found < MaxVersion
    /\ IF NextFree(q)
       THEN PutNext(q, "system") /\ Goto(q, "point")
       ELSE Goto(q, "again") /\ UNCHANGED versions
    /\ UNCHANGED <<pointer, matrixTail>>

MayPoint(q) == pointer = reading[q].found

PointUpgraded(q) ==
    /\ At(q, "point")
    /\ IF MayPoint(q)
       THEN /\ pointer' = reading[q].found + 1
            /\ reading' = [reading EXCEPT ![q] = [@ EXCEPT !.at = "have", !.found = reading[q].found + 1]]
       ELSE Goto(q, "again") /\ UNCHANGED pointer
    /\ UNCHANGED <<versions, matrixTail>>

ReadAgain(q) ==
    /\ At(q, "again")
    /\ reading' = [reading EXCEPT ![q] = [@ EXCEPT !.at = "have", !.found = pointer]]
    /\ UNCHANGED <<stored, matrixTail>>

AnswerRead(q) ==
    /\ At(q, "have") /\ reading[q].op = "read"
    /\ reading' = [reading EXCEPT ![q] = Resting]
    /\ UNCHANGED <<stored, matrixTail>>

(***************************************************************************)
(* save_matrix                                                             *)
(***************************************************************************)
Retry(q) ==
    IF reading[q].tries = MAX_WRITE_RETRIES
    THEN reading' = [reading EXCEPT ![q] = Resting] /\ lonely' = (lonely \/ ~reading[q].raced)
    ELSE /\ reading' = [reading EXCEPT ![q] = [@ EXCEPT !.at = "pointer", !.reads = 1, !.tries = reading[q].tries + 1]]
         /\ UNCHANGED lonely

SaveVersion(q) ==
    /\ At(q, "have") /\ reading[q].op = "save" /\ reading[q].found < MaxVersion
    /\ IF NextFree(q)
       THEN PutNext(q, q) /\ Goto(q, "move") /\ UNCHANGED lonely
       ELSE Retry(q) /\ UNCHANGED versions
    /\ UNCHANGED <<builtin, pointer, saved, stops>>

MovePointer(q) ==
    /\ At(q, "move")
    /\ IF MayPoint(q)
       THEN /\ pointer' = reading[q].found + 1
            /\ saved' = saved \cup {reading[q].found + 1}
            /\ reading' = [reading EXCEPT ![q] = Resting] /\ UNCHANGED lonely
       ELSE Retry(q) /\ UNCHANGED <<pointer, saved>>
    /\ UNCHANGED <<builtin, versions, stops>>

(***************************************************************************)
(* Deployments, and requests that die                                      *)
(***************************************************************************)
Deploy ==
    /\ builtin < MaxBuiltin /\ builtin' = builtin + 1
    /\ UNCHANGED <<versions, pointer, reading, saved, lonely, stops>>

Die ==
    /\ stops < MaxStops /\ stops' = stops + 1
    /\ \E q \in MatrixRequests : ~At(q, "rest") /\ reading' = [reading EXCEPT ![q] = Resting]
    /\ UNCHANGED <<builtin, versions, pointer, saved, lonely>>

MatrixStep(q) == \/ BeginMatrix(q) \/ ReadPointer(q) \/ ReadVersion(q) \/ Seed(q) \/ PointFirst(q)
                 \/ Upgrade(q) \/ PointUpgraded(q) \/ ReadAgain(q) \/ AnswerRead(q)
                 \/ SaveVersion(q) \/ MovePointer(q)

MatrixNext == (\E q \in MatrixRequests : MatrixStep(q)) \/ Deploy \/ Die

MatrixSpec == MatrixInit /\ [][MatrixNext]_matrixVars

(***************************************************************************)
(* Properties                                                              *)
(***************************************************************************)
MatrixTypeOK ==
    /\ builtin \in 0 .. MaxBuiltin /\ pointer \in 0 .. MaxVersion /\ stops \in 0 .. MaxStops
    /\ versions \in [1 .. MaxVersion -> [by : MatrixRequests \cup {"system", "nobody"}, text : 0 .. MaxBuiltin]]
    /\ saved \subseteq 1 .. MaxVersion /\ lonely \in BOOLEAN

(* The pointer names a stored version, and everything a person was told is *)
(* saved is in the history up to it, by that person's request.             *)
SavesStand ==
    /\ \A n \in 1 .. pointer : ~Free(n)
    /\ \A n \in saved : n <= pointer /\ versions[n].by \in MatrixRequests

(* Reading the matrix of a tenant, the first time too, never gives up.     *)
AlwaysReadable == \A q \in MatrixRequests : ~At(q, "failed")

(* A version beyond the pointer belongs to a request that is about to move *)
(* the pointer, and only simultaneous requests make a save fail -- as long *)
(* as none has died: one that dies between its version and the pointer     *)
(* leaves a version number nobody can use, and every later save fails.     *)
NoVersionStranded ==
    stops = 0 =>
      /\ \A n \in 1 .. MaxVersion : n <= pointer \/ Free(n) \/ n = 1 \/
            \E q \in MatrixRequests : reading[q].at \in {"point", "move"} /\ reading[q].found + 1 = n
      /\ ~lonely

MatrixHolds == SavesStand /\ AlwaysReadable /\ NoVersionStranded

(* A stored version never changes, the pointer goes up one at a time, and  *)
(* what a person saved is never replaced by a built-in default.            *)
HistoryStands ==
    [][/\ \A n \in 1 .. MaxVersion : ~Free(n) => versions'[n] = versions[n]
       /\ pointer' \in {pointer, pointer + 1}
       /\ (pointer' # pointer /\ pointer # 0 /\ versions[pointer].by # "system") => versions'[pointer'].by # "system"]_matrixVars
=============================================================================
