---------------------------- MODULE DocumentReview ----------------------------
(***************************************************************************)
(* A document's clauses graded against the playbook of its agreement type   *)
(* (matrix.py review_document), and the blockers its contract opens for    *)
(* what the review found (sonar_blockers).  Clauses are added one after    *)
(* another, and the document is reviewed as it stands.                     *)
(***************************************************************************)
EXTENDS Grading, DefaultMatrix

LOCAL INSTANCE SequencesExt

CONSTANTS
    ClauseTypes,    \* what the clauses of a document are classified as
    Titles,         \* types their headings suggest
    Passages,         \* the texts of clauses
    NoClause,
    MaxClauses(_)   \* bound: clauses in a document of one agreement type

ASSUME PassagesAssumption == Passages \subseteq Seq([what : STRING, n : Nat])

VARIABLES
    agreement,      \* the agreement type under which the document is reviewed
    held,           \* the matrix's playbook for it: "default", "emptied", or "absent"
    clauses         \* the document: each clause has a type, titles it suggests, and a body

documentVars == <<agreement, held, clauses>>

(* A matrix saved before the agreement type existed is completed by the    *)
(* built-in playbook; one for "other" that is absent stays empty.          *)
Book == IF held = "emptied" \/ (held = "absent" /\ agreement = "other") THEN <<>> ELSE DefaultBook(agreement)

BookKind == IF agreement = "software" THEN "software" ELSE IF agreement \in Workforce THEN "services" ELSE "campus"

Types == {Book[i].type : i \in DOMAIN Book}     \* graded_types

(* A matrix clause may borrow a clause of a related type.                  *)
Aliases(type) ==
    CASE type = "BackgroundIP" -> <<"IP">>
      [] type = "LicenseScope" -> <<"LicenseGrant">>
      [] type = "Royalties" -> <<"Fees">>
      [] type = "DataRights" -> <<"Confidentiality", "DataProtection">>
      [] type = "Confidentiality" -> <<"DataRights">>
      [] type = "GoverningLaw" -> <<"DisputeResolution">>
      [] type = "Indemnity" -> <<"Insurance">>
      [] type = "DataProcessing" -> <<"DataProtection", "BreachNotification", "DataRetention", "SubProcessors">>
      [] type = "Fees" -> <<"Payment", "Royalties">>
      [] type \in {"ExportControl", "SponsorReporting"} -> <<"Compliance">>
      [] OTHER -> <<>>

Of(type) == {i \in DOMAIN clauses : clauses[i].type = type}

(* A payment window stated in the body, wherever the clause is filed.      *)
PaysWithin(body) == SaysAny(body, {"due in days"})

First(S) == {i \in S : \A j \in S : i <= j}

(* The clauses a matrix clause grades: its own type; a related type no     *)
(* other matrix clause grades; the first clause whose heading suggests it, *)
(* if no other grades that; last, wording in any body.                     *)
Match(type) ==
    LET related == {k \in DOMAIN Aliases(type) : Aliases(type)[k] \notin Types /\ Of(Aliases(type)[k]) # {}}
        suggested == {i \in DOMAIN clauses : clauses[i].type \notin Types /\ type \in clauses[i].titles}
    IN  IF Of(type) # {} THEN Of(type)
        ELSE IF related # {} THEN UNION {Of(Aliases(type)[k]) : k \in First(related)}
        ELSE IF suggested # {} THEN First(suggested)
        ELSE IF type = "Payment" THEN {i \in DOMAIN clauses : PaysWithin(clauses[i].body)}
        ELSE {}

(* mutant: the first of the clauses alone is graded                        *)
Body_First(matched) == FlattenSeq([i \in DOMAIN clauses |-> IF i \in First(matched) THEN clauses[i].body ELSE <<>>])

Body(matched) == FlattenSeq([i \in DOMAIN clauses |-> IF i \in matched THEN clauses[i].body ELSE <<>>])

Tier(type, text) == MatrixGrade(BookKind, type, Phrases(agreement, type), text)

(* The clause whose own text carries the outcome, else the first.          *)
Anchor(type, matched, tier) ==
    LET carriers == {i \in matched : Tier(type, clauses[i].body) = tier}
    IN  CHOOSE i \in First(IF carriers = {} THEN matched ELSE carriers) : TRUE

Result(position) ==
    LET matched == Match(position.type)
        tier == IF matched = {} THEN "missing" ELSE Tier(position.type, Body(matched))
    IN  [of |-> position, tier |-> tier,
         at |-> IF matched = {} THEN NoClause ELSE Anchor(position.type, matched, tier)]

(* One result for each matrix clause found, or required and missing.       *)
ReviewDocument ==
    {Result(Book[i]) : i \in {j \in DOMAIN Book : Book[j].required \/ Match(Book[j].type) # {}}}

(* sonar_blockers: what is not acceptable, and what of a required clause   *)
(* no check could read.  Unacceptable terms, and deviations where the      *)
(* matrix asks for it, go to the clause's office.                          *)
Blocks(r) == r.tier \in {"deviates", "unacceptable", "missing"} \/ (r.tier = "review" /\ r.of.required)

Office(r) ==
    IF r.tier = "unacceptable" \/ (r.tier \in {"deviates", "missing"} /\ r.of.escalate)
    THEN r.of.office ELSE NoClause

SonarBlockers(review) == {[type |-> r.of.type, at |-> r.at, office |-> Office(r)] : r \in {s \in review : Blocks(s)}}

(***************************************************************************)
(* A document is read, clause after clause.                                *)
(***************************************************************************)

DocumentInit ==
    /\ agreement \in AgreementTypes /\ held \in {"default", "emptied", "absent"}
    /\ clauses = <<>>

AddClause ==
    /\ Len(clauses) < MaxClauses(agreement)
    /\ \E type \in ClauseTypes, titles \in {{}} \cup {{t} : t \in Titles}, body \in Passages :
          clauses' = Append(clauses, [type |-> type, titles |-> titles, body |-> body])
    /\ UNCHANGED <<agreement, held>>

DocumentNext == AddClause

(***************************************************************************)
(* Properties                                                              *)
(***************************************************************************)

(* A required clause is never passed over: it is within the matrix or its  *)
(* fallback, or the contract is blocked for it.                            *)
RequiredNeverSilent(review) ==
    \A i \in DOMAIN Book : Book[i].required =>
        \/ \E r \in review : r.of = Book[i] /\ r.tier \in {"within", "fallback"}
        \/ \E b \in SonarBlockers(review) : b.type = Book[i].type

(* A clause filed under a type the matrix grades is graded as that type,    *)
(* and for no other but a payment window written into it.                  *)
BorrowedOnlyUngraded ==
    \A type \in Types : \A c \in Match(type) :
        clauses[c].type \in Types \ {type} => type = "Payment" /\ PaysWithin(clauses[c].body)

(* Splitting a clause hides nothing: a clause of a graded type that is     *)
(* unacceptable by itself makes its result so, whatever stands beside it,  *)
(* but for the two wordings that take back what another clause says.       *)
SplitHidesNothing(review) ==
    \A r \in review : \A c \in Of(r.of.type) :
        (/\ Tier(r.of.type, clauses[c].body) = "unacceptable"
         /\ ~SaysAny(Body(Of(r.of.type)), {"we do not assign", "as law permits"}))
            => r.tier = "unacceptable" /\ Office(r) = r.of.office

(* Blockers are told apart by clause type and place, so that a later       *)
(* review replaces each and doubles none.                                  *)
BlockersToldApart(review) ==
    \A r, other \in {s \in review : Blocks(s)} : r.of.type = other.of.type /\ r.at = other.at => r = other

(* The review of a document passes nothing over, borrows no clause that is *)
(* graded, and tells its blockers apart (review_document, sonar_blockers).  *)
ReviewHolds ==
    LET review == ReviewDocument
    IN  RequiredNeverSilent(review) /\ BorrowedOnlyUngraded /\ SplitHidesNothing(review) /\ BlockersToldApart(review)
=============================================================================
