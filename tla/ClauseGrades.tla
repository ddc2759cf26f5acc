----------------------------- MODULE ClauseGrades -----------------------------
(***************************************************************************)
(* A clause is written, one sentence after another, and graded as it       *)
(* stands after each.                                                      *)
(***************************************************************************)
EXTENDS Grading

LOCAL INSTANCE SequencesExt

CONSTANTS
    Vocabulary(_, _),   \* the sentences a clause type's texts are made of, for one book
    MaxSentences        \* bound: sentences in a clause

VARIABLES
    book,               \* "campus", "software", "services" or "playbook"
    kind,               \* the clause type
    lists,              \* what the rule lists itself: "unacceptable" and "beneficial" phrases
    clause              \* the text so far

clauseVars == <<book, kind, lists, clause>>

(***************************************************************************)
(* A clause is written.                                                    *)
(***************************************************************************)

OwnType == "type.own"   \* a clause type of the workspace, with no built-in check

Lists(b) == IF b = "playbook" THEN {{}, {"unacceptable phrase"}, {"required phrase"}}
            ELSE {{}, {"unacceptable phrase"}, {"unacceptable phrase", "beneficial phrase"}}

ClausesInit ==
    /\ book \in Books
    /\ kind \in TypesOf(book) \cup {OwnType}
    /\ lists \in Lists(book)
    /\ clause = <<>>

OwnPhrases == {Sentence(phrase, 0) : phrase \in {"unacceptable phrase", "required phrase"}}

Write ==
    /\ Len(clause) < MaxSentences
    /\ \E sentence \in Vocabulary(book, kind) \cup (IF lists = {} THEN {} ELSE OwnPhrases) :
          clause' = Append(clause, sentence)
    /\ UNCHANGED <<book, kind, lists>>

ClausesNext == Write

(***************************************************************************)
(* Properties                                                              *)
(***************************************************************************)

(* What a person would stop at, in any clause.                             *)
Alarms == {"needs approval", "royalty-free exclusive", "we indemnify", "immunity waived", "nationals restricted",
           "controlled without notice", "perpetual", "they own data", "unlimited", "retroactive true-up",
           "price at will", "audit at any time", "vendor uses our data", "ours unlimited", "rates at will",
           "vendor owns work", "we pay wages", "uncapped", "revocable", "suspend at discretion"}

(* Words that take an alarm back by intent: in the buyer's indemnity the   *)
(* clause as a whole is read for "to the extent permitted by law", and a   *)
(* mutual indemnity is the playbook's standard.                            *)
TakenBack(b, type, text) == type = "Indemnity" /\ b # "campus" /\ SaysAny(text, {"as law permits", "mutual"})

(* Two checks find fault with a clause that says nothing they know.  What a *)
(* person would stop at there is what they look for, or nothing at all.    *)
ASSUME VocabularyAssumption ==
    \A a \in Alarms :
        /\ Sentence(a, 0) \notin Vocabulary("campus", "LicenseScope")
        /\ \A b \in {"software", "services"} : Sentence(a, 0) \in Vocabulary(b, "Indemnity") => a = "we indemnify"

Alarmed(b) == IF b = "playbook" THEN StatusRank("moderate") ELSE TierRank("deviates")

Hears(b, type) == {a \in Alarms : /\ Sentence(a, 0) \in Vocabulary(b, type)
                                  /\ Seriousness(b, Grade(b, type, {}, <<Sentence(a, 0)>>)) >= Alarmed(b)}

(* The checks that find the first place only: a negated mention hides a     *)
(* later one that is not, and a number hides a later number.                *)
FirstPlaceOnly(b, type) ==
    \/ b = "campus" /\ type \in {"BackgroundIP", "Warranty"}
    \/ b = "software" /\ type = "Fees"
    \/ b = "services" /\ type \in {"type.overtime", "type.expenses"}
    \/ b = "playbook" /\ type \in {"Liability", "Payment", "Fees", "Termination", "Term", "Confidentiality",
                                   "BreachNotification", "AuditRights", "Royalties"}

(* An alarm a check knows is heard wherever it stands in the clause and     *)
(* whatever else the clause says: nothing around it makes the clause pass. *)
AlarmsAreHeard ==
    \A a \in Hears(book, kind) :
        (Says(clause, a) /\ ~TakenBack(book, kind, clause))
            => Seriousness(book, Grade(book, kind, lists, clause)) >= Alarmed(book)

(* A clause says the same in any order of its sentences, but for the       *)
(* checks that read the first place only.                                  *)
OrderIsNothing ==
    FirstPlaceOnly(book, kind) \/
        Grade(book, kind, lists, clause) = Grade(book, kind, lists, Reverse(clause))

(* A workspace's own phrases add to what the built-in check finds and      *)
(* never soften it.                                                        *)
ListsOnlyAdd ==
    kind = OwnType \/
        Seriousness(book, Grade(book, kind, lists, clause)) >= Seriousness(book, Grade(book, kind, {}, clause))

GradesHold == AlarmsAreHeard /\ OrderIsNothing /\ ListsOnlyAdd
=============================================================================
