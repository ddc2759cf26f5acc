------------------------------- MODULE Grading -------------------------------
(***************************************************************************)
(* How the text of a clause is graded: by the review matrix (matrix.py     *)
(* _grade), whose checks depend on the kind of agreement, and by the       *)
(* document playbook (playbook.py _grade).                                 *)
(***************************************************************************)
EXTENDS PlaybookChecks

CONSTANT Limits(_, _)   \* the thresholds of a clause type in one book

Books == {"campus", "software", "services", "playbook"}

TypesOf(b) ==
    CASE b = "campus" -> CampusTypes [] b = "software" -> SoftwareTypes
      [] b = "services" -> WorkforceTypes [] b = "playbook" -> PlaybookTypes

(* A phrase counts where its own sentence does not negate it, and every    *)
(* place is looked at (_phrase_hit).                                       *)
PhraseHit(text, phrases) == \E phrase \in phrases : Says(text, phrase)

Check(b, type, text) ==
    CASE b = "campus" -> CampusCheck(type, text, Limits(b, type))
      [] b = "software" -> SoftwareCheck(type, text, Limits(b, type))
      [] b = "services" -> WorkforceCheck(type, text, Limits(b, type))

(* The built-in check, then the phrases the matrix lists.  A type without  *)
(* a check is within unless a listed phrase stands in it, and a person     *)
(* reads it when nothing is listed.                                        *)
MatrixGrade(b, type, own, text) ==
    IF PhraseHit(text, own \cap {"unacceptable phrase"}) THEN "unacceptable"
    ELSE IF type \in TypesOf(b) THEN Check(b, type, text)
    ELSE IF own # {} THEN "within"
    ELSE "review"

(* The built-in check, then the rule's phrases at the severity it gives    *)
(* them: the more serious of the two.  A forbidden phrase found hides what *)
(* required wording is missing.                                            *)
PlaybookGrade(type, own, severity, text) ==
    LET checked == IF type \in PlaybookTypes THEN PlaybookCheck(type, text, Limits("playbook", type).ok) ELSE "ok"
        caught == \/ PhraseHit(text, own \cap {"unacceptable phrase"})
                  \/ "required phrase" \in own /\ ~Says(text, "required phrase")
    IN  IF type \notin PlaybookTypes /\ own = {} THEN "review"
        ELSE IF caught THEN Worse(severity, checked)
        ELSE checked

Grade(b, type, own, text) ==
    IF b = "playbook" THEN PlaybookGrade(type, own, "moderate", text) ELSE MatrixGrade(b, type, own, text)

Seriousness(b, grade) == IF b = "playbook" THEN StatusRank(grade) ELSE TierRank(grade)
=============================================================================
