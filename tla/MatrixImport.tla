----------------------------- MODULE MatrixImport -----------------------------
(***************************************************************************)
(* The review matrix replaced or imported into (govern_api handler.py      *)
(* _put_matrix and _import_matrix over matrix.py validate_matrix,          *)
(* parse_import and merge_import).  An import reads the matrix before it   *)
(* saves a whole one, and another save may come between.                   *)
(***************************************************************************)
EXTENDS Integers, Sequences, FiniteSets

CONSTANTS
    Agreements,     \* agreement types that have a playbook
    RowTypes,       \* clause types a row may name
    Importers,      \* requests
    MAX_CLAUSES,    \* clauses in a playbook
    MaxRows,        \* bound: rows of a sheet
    MaxSaves        \* bound: matrices saved

ASSUME ImportAssumption == MAX_CLAUSES \in Nat \ {0}

VARIABLES
    playbooks,      \* the clauses of each agreement type's playbook, in order
    request,        \* what each request is doing: its sheet, and the matrix it read
    reports,        \* what the last import's answer said
    saves           \* bound: matrices saved so far

importVars == <<playbooks, request, reports, saves>>

NoRequest == [step |-> "idle"]

(***************************************************************************)
(* Validation (_validate_clause, validate_matrix).                         *)
(***************************************************************************)

(* A row of a sheet, and a clause, is known by its type, what is wrong with *)
(* it, and which text it carries.  A clause is refused when it has no      *)
(* position text, or phrases or thresholds its type does not take.         *)
ClauseFlaws == {"no standard", "too many phrases", "not its threshold"}

ValidClause(c) == c.type \in RowTypes /\ c.flaw \notin ClauseFlaws

TypesIn(book) == {book[i].type : i \in DOMAIN book}

NoDuplicates(book) == Cardinality(TypesIn(book)) = Len(book)

ValidBook(book) == Len(book) <= MAX_CLAUSES /\ NoDuplicates(book) /\ \A i \in DOMAIN book : ValidClause(book[i])

ValidMatrix(books) == \A a \in Agreements : ValidBook(books[a])

(***************************************************************************)
(* Reading a sheet (parse_import).                                         *)
(***************************************************************************)

(* A row for another agreement type, and a row with a cell that resolves   *)
(* to no clause type, no office or no thresholds.                          *)
CellFlaws == {"elsewhere", "unknown type", "unknown office", "unreadable thresholds"}

Blank(row) == row.flaw = "blank"

Unusable(row) == row.flaw \in CellFlaws \/ ~ValidClause(row)

(* The rows taken: usable, and the first of its clause type that is.       *)
Usable(rows) == {i \in DOMAIN rows : ~Blank(rows[i]) /\ ~Unusable(rows[i])}

(* mutant: a clause type may come twice                                    *)
TakenRows_Twice(rows) == Usable(rows)

TakenRows(rows) ==
    {i \in Usable(rows) : \A j \in Usable(rows) : rows[j].type = rows[i].type => i <= j}

(* The elements of a list at some places, in their order.                  *)
ElementsAt(list, places) ==
    LET upto[n \in 0 .. Len(list)] ==
            IF n = 0 THEN <<>>
            ELSE IF n \in places THEN Append(upto[n - 1], list[n])
            ELSE upto[n - 1]
    IN  upto[Len(list)]

ParseImport(rows) == ElementsAt(rows, TakenRows(rows))

Skipped(rows) == {i \in DOMAIN rows : ~Blank(rows[i])} \ TakenRows(rows)

(***************************************************************************)
(* merge_import: an imported clause takes the place of the one of its type *)
(* and new types come last; or the playbook becomes what was imported.     *)
(***************************************************************************)

OfType(book, type) == book[CHOOSE i \in DOMAIN book : book[i].type = type]

MergeClauses(book, incoming) ==
    [i \in DOMAIN book |-> IF book[i].type \in TypesIn(incoming) THEN OfType(incoming, book[i].type) ELSE book[i]]
    \o ElementsAt(incoming, {k \in DOMAIN incoming : incoming[k].type \notin TypesIn(book)})

MergeImport(books, agreement, incoming, mode) ==
    [books EXCEPT ![agreement] = IF mode = "replace" THEN incoming ELSE MergeClauses(@, incoming)]

(***************************************************************************)
(* Requests.                                                               *)
(***************************************************************************)

Clause(type, text) == [type |-> type, flaw |-> "none", text |-> text]

ImportInit ==
    /\ playbooks \in [Agreements -> {<<>>} \cup {<<Clause(t, 0)>> : t \in RowTypes}]
    /\ request = [q \in Importers |-> NoRequest]
    /\ reports = {}
    /\ saves = 0

(* A sheet: each row carries a text of its own, and none of the texts 0    *)
(* and -1 of the clauses the matrix has or an admin writes.                *)
Sheet(n) == {rows \in [1..n -> [type : RowTypes, flaw : {"none", "blank"} \cup ClauseFlaws \cup CellFlaws, text : 1..n]] :
                \A i \in 1..n : rows[i].text = i}

PutMatrix(books) ==
    /\ saves < MaxSaves
    /\ ValidMatrix(books)
    /\ playbooks' = books
    /\ saves' = saves + 1
    /\ reports' = {}
    /\ UNCHANGED request

(* An admin's own edit: a clause added to or dropped from a playbook.      *)
Put == \E a \in Agreements :
    \/ playbooks[a] # <<>> /\ PutMatrix([playbooks EXCEPT ![a] = Tail(@)])
    \/ \E type \in RowTypes : PutMatrix([playbooks EXCEPT ![a] = Append(@, Clause(type, -1))])

(* The sheet is read, and then the current matrix; one without a usable    *)
(* row is refused.                                                         *)
ImportRead(q) ==
    /\ request[q] = NoRequest
    /\ saves < MaxSaves
    /\ \E n \in 1..MaxRows, a \in Agreements, mode \in {"replace", "merge"} : \E rows \in Sheet(n) :
          /\ ParseImport(rows) # <<>>
          /\ request' = [request EXCEPT ![q] = [step |-> "save", rows |-> rows, agreement |-> a, mode |-> mode, read |-> playbooks]]
    /\ reports' = {}
    /\ UNCHANGED <<playbooks, saves>>

Merged(r) == MergeImport(r.read, r.agreement, ParseImport(r.rows), r.mode)

ImportRefused(q) ==
    /\ request[q].step = "save" /\ ~ValidMatrix(Merged(request[q]))
    /\ request' = [request EXCEPT ![q] = NoRequest]
    /\ UNCHANGED <<playbooks, reports, saves>>

(* The whole merged matrix is saved as the next version.                   *)
ImportSave(q) ==
    /\ request[q].step = "save" /\ ValidMatrix(Merged(request[q])) /\ saves < MaxSaves
    /\ playbooks' = Merged(request[q])
    /\ saves' = saves + 1
    /\ reports' = {[agreement |-> request[q].agreement, rows |-> request[q].rows, mode |-> request[q].mode,
                    imported |-> TakenRows(request[q].rows),
                    skipped |-> Skipped(request[q].rows),
                    before |-> request[q].read, after |-> Merged(request[q])]}
    /\ request' = [request EXCEPT ![q] = NoRequest]

ImportNext == Put \/ \E q \in Importers : ImportRead(q) \/ ImportRefused(q) \/ ImportSave(q)

ImportSpec == ImportInit /\ [][ImportNext]_importVars

(***************************************************************************)
(* Properties                                                              *)
(***************************************************************************)

(* Whatever is stored passes the validation a save goes through, so that   *)
(* the next import into it is never refused for a clause it leaves alone.  *)
StoredIsValid == ValidMatrix(playbooks)

(* The answer is true of the matrix saved: every row of the sheet is       *)
(* imported, skipped or blank; an imported row is the one clause of its    *)
(* type; no skipped row left anything; nothing else changed.               *)
ReportIsTrue ==
    \A r \in reports :
        LET book == r.after[r.agreement]
        IN  /\ r.imported \cap r.skipped = {} /\ \A i \in DOMAIN r.rows : Blank(r.rows[i]) \/ i \in r.imported \cup r.skipped
            /\ \A i \in r.imported : {j \in DOMAIN book : book[j].type = r.rows[i].type} = {j \in DOMAIN book : book[j] = r.rows[i]}
            /\ \A i \in r.imported : \E j \in DOMAIN book : book[j] = r.rows[i]
            /\ \A j \in DOMAIN book : \/ \E i \in r.imported : book[j] = r.rows[i]
                                      \/ r.mode = "merge" /\ \E k \in DOMAIN r.before[r.agreement] : book[j] = r.before[r.agreement][k]
            /\ r.mode = "merge" => TypesIn(r.before[r.agreement]) \subseteq TypesIn(book)
            /\ \A other \in Agreements \ {r.agreement} : r.after[other] = r.before[other]

ImportsHold == StoredIsValid /\ ReportIsTrue
=============================================================================
