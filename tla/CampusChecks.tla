----------------------------- MODULE CampusChecks -----------------------------
(***************************************************************************)
(* The built-in checks of the review matrix for research and licensing     *)
(* agreements (matrix.py): one operator per clause type, from what its     *)
(* text says and the matrix clause's thresholds to a tier.                 *)
(***************************************************************************)
EXTENDS ClauseText

(* A veto anywhere; else the longest review and the longest patent delay   *)
(* together.  Periods in years are not read.                               *)
CheckPublication(text, th) ==
    LET total == Longest(text, "review days") + Longest(text, "delay days")
    IN  CASE Says(text, "needs approval") -> "unacceptable"
          [] ~Says(text, "needs approval") /\ total = 0 ->
                IF Says(text, "free to publish") THEN "within" ELSE "review"
          [] OTHER -> AtMost(total, th)

CheckBackgroundIp(text) ==
    IF FirstIs(text, "we assign", {"we do not assign"}) THEN "unacceptable"
    ELSE IF Says(text, "royalty-free exclusive") THEN "deviates"
    ELSE IF Says(text, "we retain") THEN "within"
    ELSE "review"

CheckLicenseScope(text) ==
    IF ~Says(text, "research reserved") THEN "deviates"
    ELSE IF Says(text, "all fields") THEN "fallback"
    ELSE "within"

(* The lowest royalty and the highest share of sublicense income.  A       *)
(* sentence about the minimum annual royalty is passed over.               *)
CheckRoyalties(text, th) ==
    LET rates == Stated(text, "royalty")
        shares == Stated(text, "sublicense share")
    IN  IF rates = {} /\ shares = {} THEN "review"
        ELSE MostSerious({IF rates = {} THEN "review" ELSE AtLeast(Lowest(rates), th),
                          IF shares = {} THEN "deviates" ELSE AtLeast(Highest(shares), th)})

(* mutant: a qualified indemnity is looked for first                       *)
CheckIndemnity_Softened(text) ==
    IF Says(text, "we indemnify as law permits") THEN "fallback"
    ELSE IF Says(text, "we indemnify") THEN "unacceptable"
    ELSE IF SaysAny(text, {"they indemnify", "each answers for itself"}) THEN "within"
    ELSE "review"

CheckIndemnity(text) ==
    IF Says(text, "we indemnify") THEN "unacceptable"
    ELSE IF Says(text, "we indemnify as law permits") THEN "fallback"
    ELSE IF SaysAny(text, {"they indemnify", "each answers for itself"}) THEN "within"
    ELSE "review"

(* A state named as the governing law counts before one named as a venue;  *)
(* without a home state in the matrix a person compares them.              *)
CheckGoverningLaw(text, th) ==
    LET law == {s \in {"home", "other"} : Says(text, IF s = "home" THEN "home law" ELSE "other law")}
        venue == {s \in {"home", "other"} : Says(text, IF s = "home" THEN "home court" ELSE "other court")}
        states == IF law # {} THEN law ELSE venue
    IN  IF Says(text, "immunity waived") THEN "unacceptable"
        ELSE IF states = {} THEN IF Says(text, "foreign law") THEN "review" ELSE "fallback"
        ELSE IF ~th.home THEN "review"
        ELSE IF "other" \in states THEN "deviates"
        ELSE "within"

CheckExportControl(text) ==
    IF Says(text, "nationals restricted") THEN "unacceptable"
    ELSE IF Says(text, "controlled without notice") THEN "deviates"
    ELSE IF SaysAny(text, {"nationals free", "fundamental research", "notice first"}) THEN "within"
    ELSE "review"

(* The tiers a confidentiality period gives: none when there is no period. *)
YearsTier(text, th) ==
    IF Says(text, "perpetual") THEN {"deviates"}
    ELSE IF Says(text, "years") THEN {AtMost(Longest(text, "years"), th)}
    ELSE {}

CheckConfidentiality(text, th) == MostSerious(IF YearsTier(text, th) = {} THEN {"review"} ELSE YearsTier(text, th))

CheckDataRights(text, th) ==
    LET results == YearsTier(text, th)
                   \cup {"within" : x \in {w \in {"name with consent", "we keep data"} : Says(text, w)}}
                   \cup {"deviates" : x \in {w \in {"name freely", "they own data"} : Says(text, w)}}
    IN  IF results = {} THEN "review" ELSE MostSerious(results)

CheckSponsorReporting(text, th) ==
    LET results == {AtMost(n, th) : n \in Stated(text, "reports a year")}
                   \cup (IF ~Says(text, "prime terms") THEN {}
                         ELSE IF Says(text, "terms listed") THEN {"within"} ELSE {"deviates"})
    IN  IF results = {} THEN "review" ELSE MostSerious(results)

CheckDiligence(text) ==
    LET milestones == Says(text, "milestone")
        terminate == Says(text, "terminate on failure")
        efforts == Says(text, "efforts")
    IN  CASE milestones /\ terminate -> "within"
          [] efforts /\ milestones # terminate -> "fallback"
          [] efforts /\ ~milestones /\ ~terminate -> "deviates"
          [] OTHER -> "review"

CheckTerm(text, th) == IF Says(text, "months") THEN AtMost(Longest(text, "months"), th) ELSE "review"

(* The longest window; "due on receipt" is none at all.                    *)
CheckPayment(text, th) ==
    IF Says(text, "due in days") THEN AtMost(Longest(text, "due in days"), th)
    ELSE IF Says(text, "due on receipt") THEN AtMost(0, th)
    ELSE "review"

CheckWarranty(text) ==
    IF FirstIs(text, "we warrant", {"we do not warrant"}) THEN "deviates"
    ELSE IF Says(text, "as is") THEN "within"
    ELSE "review"

CheckLiability(text) ==
    IF Says(text, "unlimited") THEN "deviates" ELSE IF Says(text, "limited") THEN "within" ELSE "review"

CheckInsurance(text) ==
    IF Says(text, "they insure") THEN "within"
    ELSE IF Says(text, "we insure") /\ ~Says(text, "self-insured") THEN "fallback"
    ELSE "review"

CheckTermination(text) == IF Says(text, "terminate on notice") THEN "within" ELSE "review"

CheckUseOfName(text) ==
    IF Says(text, "written consent") THEN "within"
    ELSE IF Says(text, "name freely") THEN "deviates"
    ELSE "review"

(* _CHECKS: which check grades a clause type.                              *)
CampusTypes == {"PublicationRights", "BackgroundIP", "LicenseScope", "Royalties", "Indemnity", "GoverningLaw",
                "ExportControl", "Confidentiality", "DataRights", "SponsorReporting", "Diligence", "Term", "Payment",
                "Warranty", "Liability", "Insurance", "Termination", "type.use-of-name"}

CampusCheck(type, text, th) ==
    CASE type = "PublicationRights" -> CheckPublication(text, th)
      [] type = "BackgroundIP" -> CheckBackgroundIp(text)
      [] type = "LicenseScope" -> CheckLicenseScope(text)
      [] type = "Royalties" -> CheckRoyalties(text, th)
      [] type = "Indemnity" -> CheckIndemnity(text)
      [] type = "GoverningLaw" -> CheckGoverningLaw(text, th)
      [] type = "ExportControl" -> CheckExportControl(text)
      [] type = "Confidentiality" -> CheckConfidentiality(text, th)
      [] type = "DataRights" -> CheckDataRights(text, th)
      [] type = "SponsorReporting" -> CheckSponsorReporting(text, th)
      [] type = "Diligence" -> CheckDiligence(text)
      [] type = "Term" -> CheckTerm(text, th)
      [] type = "Payment" -> CheckPayment(text, th)
      [] type = "Warranty" -> CheckWarranty(text)
      [] type = "Liability" -> CheckLiability(text)
      [] type = "Insurance" -> CheckInsurance(text)
      [] type = "Termination" -> CheckTermination(text)
      [] type = "type.use-of-name" -> CheckUseOfName(text)
=============================================================================
