---------------------------- MODULE PlaybookChecks ----------------------------
(***************************************************************************)
(* The built-in checks of the document playbook (playbook.py), which run   *)
(* when a document is analysed: from what a clause says, and the rule's    *)
(* threshold, to a status and no more.  Unlike the matrix checks most read *)
(* the first number of a clause only.                                      *)
(***************************************************************************)
EXTENDS BuyerChecks

(* _worse: review ranks between ok and minor.                              *)
StatusRank(status) ==
    CASE status = "ok" -> 0 [] status = "review" -> 1 [] status = "minor" -> 2
      [] status = "moderate" -> 3 [] status = "material" -> 4

Worse(one, other) == IF StatusRank(one) >= StatusRank(other) THEN one ELSE other

OkUnless(bad, status) == IF bad THEN status ELSE "ok"

(* A cap in months of fees: as a multiple of the annual fees, or as what    *)
(* was paid in so many months.                                             *)
PlaybookLiability(text, limit) ==
    LET multiple == Says(text, "cap times fees")
        months == FirstStated(text, IF multiple THEN "cap times fees" ELSE "fees paid in months")
    IN  IF Says(text, "uncapped") THEN "material"
        ELSE IF multiple \/ Says(text, "fees paid in months")
        THEN OkUnless(months > limit, IF months >= 3 * limit THEN "material" ELSE "moderate")
        ELSE IF Says(text, "fees paid") /\ ~Says(text, "an amount") THEN "ok"
        ELSE "review"

PlaybookIndemnity(text) ==
    IF Says(text, "mutual") THEN "ok"
    ELSE OkUnless(Says(text, "indemnify"), IF Says(text, "any and all") THEN "material" ELSE "moderate")

(* parse_net_days: "net N", else the first window, else due on receipt.    *)
NetDays(text) ==
    CASE Says(text, "net days") -> {FirstStated(text, "net days")}
      [] ~Says(text, "net days") /\ Says(text, "due in days") -> {FirstStated(text, "due in days")}
      [] ~SaysAny(text, {"net days", "due in days"}) ->
            IF Says(text, "due on receipt") THEN {0} ELSE {}

PlaybookPayment(text, limit) ==
    IF NetDays(text) = {} THEN "review"
    ELSE LET days == Highest(NetDays(text))
         IN  OkUnless(days > limit, IF days > limit + 30 THEN "material"
                                    ELSE IF days > limit + 15 THEN "moderate" ELSE "minor")

(* The first "increase by N %" in the clause.                              *)
Escalates(text, limit) == Says(text, "increases by") /\ FirstStated(text, "increases by") > limit

PlaybookFees(text, limit) == OkUnless(Escalates(text, limit), "moderate")

(* The notice of the sentence that ends it for convenience, and failing    *)
(* that the first duration of the same sentence.                           *)
PlaybookTermination(text, limit) ==
    IF Says(text, "convenience days")
    THEN OkUnless(FirstStated(text, "convenience days") < limit, "moderate")
    ELSE IF Says(text, "convenience") THEN "review"
    ELSE IF Says(text, "terminate") THEN "ok"
    ELSE "review"

PlaybookAutoRenewal(text, limit) ==
    OkUnless(/\ Says(text, "renews by itself")
             /\ Says(text, "notice days") => FirstStated(text, "notice days") > limit, "moderate")

PlaybookConfidentiality(text, limit) ==
    IF Says(text, "survives years") THEN OkUnless(FirstStated(text, "survives years") > limit + 2, "moderate")
    ELSE OkUnless(~Says(text, "confidential"), "review")

(* "ip" is looked for inside words too, so that little is left unread.     *)
PlaybookIp(text) ==
    IF Says(text, "assigns all") THEN OkUnless(~Says(text, "background kept"), "moderate")
    ELSE OkUnless(~SaysAny(text, {"intellectual property", "a word with ip in it"}), "review")

PlaybookDataProtection(text) ==
    OkUnless(Says(text, "personal data") /\ ~Says(text, "notify"), "minor")

PlaybookBreach(text, limit) ==
    IF ~SaysAny(text, {"notify", "hours", "breach in days", "promptly"}) THEN "review"
    ELSE IF Says(text, "hours") THEN OkUnless(FirstStated(text, "hours") > limit, "moderate")
    ELSE IF Says(text, "breach in days") THEN OkUnless(24 * FirstStated(text, "breach in days") > limit, "moderate")
    ELSE OkUnless(~Says(text, "promptly"), "review")

PlaybookRetention(text) ==
    IF Says(text, "deleted") THEN "ok" ELSE IF Says(text, "kept") THEN "minor" ELSE "review"

PlaybookAudit(text, limit) ==
    IF ~SaysAny(text, {"audit", "audit at any time", "audit days"}) THEN "ok"
    ELSE IF Says(text, "audit at any time") THEN "moderate"
    ELSE IF ~Says(text, "audit days") THEN "review"
    ELSE OkUnless(FirstStated(text, "audit days") < limit, "minor")

PlaybookGrant(text) ==
    IF ~SaysAny(text, {"grant", "exclusive", "non-exclusive", "revocable"}) THEN "review"
    ELSE OkUnless((Says(text, "exclusive") /\ ~Says(text, "non-exclusive")) \/ Says(text, "revocable"), "moderate")

PlaybookScope(text) == OkUnless(~Says(text, "bounds"), "review")

PlaybookRestrictions(text) ==
    OkUnless(Says(text, "suspend at discretion") \/ (Says(text, "discretion") /\ Says(text, "suspend")), "moderate")

PlaybookRoyalties(text, limit) ==
    IF Escalates(text, limit) THEN "moderate" ELSE OkUnless(Says(text, "retroactive true-up"), "minor")

PlaybookSublicensing(text) == OkUnless(~Says(text, "sublicense"), "review")

PlaybookOpenSource(text) == OkUnless(Says(text, "copyleft") /\ ~Says(text, "excluded"), "moderate")

PlaybookResidency(text) == OkUnless(~Says(text, "located in"), "review")

PlaybookSubprocessors(text) ==
    IF ~Says(text, "subprocessor") THEN "review" ELSE OkUnless(~Says(text, "advance notice"), "minor")

(* _DEFAULT_POSITIONS: the rule ids and their checks.                      *)
PlaybookTypes == {"Liability", "Indemnity", "Payment", "Fees", "Termination", "Term", "Confidentiality", "IP",
                  "DataProtection", "BreachNotification", "DataRetention", "AuditRights", "LicenseGrant",
                  "LicenseScope", "Restrictions", "Royalties", "Sublicensing", "OpenSource", "DataResidency",
                  "SubProcessors"}

PlaybookCheck(type, text, limit) ==
    CASE type = "Liability" -> PlaybookLiability(text, limit)
      [] type = "Indemnity" -> PlaybookIndemnity(text)
      [] type = "Payment" -> PlaybookPayment(text, limit)
      [] type = "Fees" -> PlaybookFees(text, limit)
      [] type = "Termination" -> PlaybookTermination(text, limit)
      [] type = "Term" -> PlaybookAutoRenewal(text, limit)
      [] type = "Confidentiality" -> PlaybookConfidentiality(text, limit)
      [] type = "IP" -> PlaybookIp(text)
      [] type = "DataProtection" -> PlaybookDataProtection(text)
      [] type = "BreachNotification" -> PlaybookBreach(text, limit)
      [] type = "DataRetention" -> PlaybookRetention(text)
      [] type = "AuditRights" -> PlaybookAudit(text, limit)
      [] type = "LicenseGrant" -> PlaybookGrant(text)
      [] type = "LicenseScope" -> PlaybookScope(text)
      [] type = "Restrictions" -> PlaybookRestrictions(text)
      [] type = "Royalties" -> PlaybookRoyalties(text, limit)
      [] type = "Sublicensing" -> PlaybookSublicensing(text)
      [] type = "OpenSource" -> PlaybookOpenSource(text)
      [] type = "DataResidency" -> PlaybookResidency(text)
      [] type = "SubProcessors" -> PlaybookSubprocessors(text)
=============================================================================
