-------------------------------- MODULE MCRules --------------------------------
(***************************************************************************)
(* Small instances of the rule modules: the sentences clauses are written  *)
(* of, the limits of the default positions, and a playbook to review by.   *)
(***************************************************************************)
EXTENDS ClauseGrades, DocumentReview

S(what) == {Sentence(what, 0)}
All(whats) == {Sentence(what, 0) : what \in whats}
N(what, numbers) == {Sentence(what, n) : n \in numbers}

CampusWords(type) ==
    CASE type = "PublicationRights" -> All({"needs approval", "free to publish"}) \cup N("review days", {20, 50}) \cup N("delay days", {20})
      [] type = "BackgroundIP" -> All({"we assign", "we do not assign", "royalty-free exclusive", "we retain"})
      [] type = "LicenseScope" -> All({"research reserved", "all fields"})
      [] type = "Royalties" -> N("royalty", {1, 2, 3}) \cup N("sublicense share", {1, 3})
      [] type = "Indemnity" -> All({"we indemnify", "we indemnify as law permits", "they indemnify", "each answers for itself"})
      [] type = "GoverningLaw" -> All({"immunity waived", "home law", "other law", "home court", "other court", "foreign law"})
      [] type = "ExportControl" -> All({"nationals restricted", "nationals free", "controlled without notice", "notice first"})
      [] type = "Confidentiality" -> All({"perpetual"}) \cup N("years", {5, 7, 8})
      [] type = "DataRights" -> All({"perpetual", "name freely", "name with consent", "we keep data", "they own data"}) \cup N("years", {5, 8})
      [] type = "SponsorReporting" -> All({"prime terms", "terms listed"}) \cup N("reports a year", {4, 12, 52})
      [] type = "Diligence" -> All({"milestone", "terminate on failure", "efforts"})
      [] type = "Term" -> N("months", {12, 18, 24})
      [] type = "Payment" -> All({"due on receipt"}) \cup N("due in days", {30, 45, 60})
      [] type = "Warranty" -> All({"we warrant", "we do not warrant", "as is"})
      [] type = "Liability" -> All({"unlimited", "limited"})
      [] type = "Insurance" -> All({"they insure", "we insure", "self-insured"})
      [] type = "Termination" -> All({"terminate on notice", "other"})
      [] type = "type.use-of-name" -> All({"written consent", "name freely"})

SoftwareWords(type) ==
    CASE type = "LicenseScope" -> All({"retroactive true-up", "site-wide", "per user"})
      [] type = "Fees" -> All({"price at will", "rises with cpi", "price fixed"}) \cup N("price increase", {3, 5, 9})
      [] type = "Term" -> All({"renews by itself", "successive terms", "evergreen", "does not renew", "may be cancelled"})
                             \cup N("notice days", {30, 60, 90})
      [] type = "AuditRights" -> All({"audit", "audit at any time", "we pay the audit", "discrepancy", "self-certification"})
                             \cup N("audit days", {10, 30})
      [] type = "type.service-levels" -> All({"as available", "service credits"}) \cup N("uptime", {990, 995, 999})
      [] type = "Warranty" -> All({"vendor warrants performance", "as is", "no malware"}) \cup N("warranty days", {90, 365})
      [] type = "Indemnity" -> All({"we indemnify", "as law permits", "they indemnify", "infringement"})
      [] type = "Liability" -> All({"ours unlimited", "vendor excludes all", "capped", "carve-outs"})
      [] type = "DataProcessing" -> All({"vendor uses our data", "promptly on breach", "data returned"})
                             \cup N("breach hours", {72, 120, 240})
      [] type = "SecurityControls" -> All({"attestation", "industry standard"})
      [] type = "Accessibility" -> All({"wcag", "accessible"})
      [] type = "Termination" -> All({"for convenience", "for breach"})
      [] type = "Insurance" -> All({"cyber cover", "they insure"})
      [] type = "SourceCodeEscrow" -> All({"escrow", "other"})
      [] type = "Assignment" -> All({"control ends it", "not without consent", "vendor may assign"})
      [] type \in {"GoverningLaw", "ExportControl"} -> CampusWords(type)

ServicesWords(type) ==
    CASE type = "Fees" -> All({"rates at will", "rates listed"}) \cup N("rate increase", {3, 5, 9})
      [] type = "Payment" -> CampusWords(type)
      [] type = "type.hours-cap" -> All({"hours capped", "written approval", "unlimited hours"})
      [] type = "type.overtime" -> All({"overtime", "written approval"}) \cup N("overtime multiple", {15, 20, 30})
      [] type = "IP" -> All({"vendor owns work", "made for hire", "assigned to us", "work licensed"})
      [] type = "type.co-employment" -> All({"we pay wages", "vendor employs"})
      [] type = "type.expenses" -> All({"expenses", "all expenses", "expenses capped", "travel policy"}) \cup N("expense cap", {10, 15, 20})
      [] type = "Term" -> CampusWords("Termination")
      [] OTHER -> SoftwareWords(type)

PlaybookWords(type) ==
    CASE type = "Liability" -> All({"uncapped", "fees paid", "an amount"}) \cup N("cap times fees", {12, 24, 36})
                             \cup N("fees paid in months", {12, 36})
      [] type = "Indemnity" -> All({"mutual", "indemnify", "any and all"})
      [] type = "Payment" -> All({"due on receipt"}) \cup N("net days", {30, 45, 90}) \cup N("due in days", {30, 60})
      [] type = "Fees" -> N("increases by", {5, 9})
      [] type = "Termination" -> All({"convenience", "terminate"}) \cup N("convenience days", {10, 30})
      [] type = "Term" -> All({"renews by itself"}) \cup N("notice days", {30, 90})
      [] type = "Confidentiality" -> All({"confidential"}) \cup N("survives years", {5, 6})
      [] type = "IP" -> All({"assigns all", "background kept", "intellectual property", "a word with ip in it"})
      [] type = "DataProtection" -> All({"personal data", "notify"})
      [] type = "BreachNotification" -> All({"notify", "promptly"}) \cup N("hours", {72, 96}) \cup N("breach in days", {3, 4})
      [] type = "DataRetention" -> All({"deleted", "kept"})
      [] type = "AuditRights" -> All({"audit", "audit at any time"}) \cup N("audit days", {5, 10})
      [] type = "LicenseGrant" -> All({"grant", "exclusive", "non-exclusive", "revocable"})
      [] type = "LicenseScope" -> All({"bounds", "other"})
      [] type = "Restrictions" -> All({"suspend at discretion", "discretion", "suspend"})
      [] type = "Royalties" -> All({"retroactive true-up"}) \cup N("increases by", {5, 9})
      [] type = "Sublicensing" -> All({"sublicense", "other"})
      [] type = "OpenSource" -> All({"copyleft", "excluded"})
      [] type = "DataResidency" -> All({"located in", "other"})
      [] type = "SubProcessors" -> All({"subprocessor", "advance notice"})

ClauseWords(b, type) ==
    CASE type = OwnType -> All({"other"})
      [] b = "campus" /\ type # OwnType -> CampusWords(type)
      [] b = "software" /\ type # OwnType -> SoftwareWords(type)
      [] b = "services" /\ type # OwnType -> ServicesWords(type)
      [] b = "playbook" /\ type # OwnType -> PlaybookWords(type)

Limit(ok, fb) == [ok |-> ok, fb |-> fb, home |-> TRUE]

(* THRESHOLDS of matrix.py, software.py and workforce.py, and the extra of *)
(* the default positions.                                                  *)
ClauseLimits(b, type) ==
    CASE b = "campus" ->
            (CASE type = "PublicationRights" -> Limit(30, 60) [] type = "Royalties" -> Limit(3, 2)
               [] type \in {"DataRights", "Confidentiality"} -> Limit(5, 7) [] type = "SponsorReporting" -> Limit(4, 12)
               [] type = "Term" -> Limit(12, 18) [] OTHER -> Limit(30, 45))
      [] b \in {"software", "services"} ->
            (CASE type = "Fees" -> Limit(3, 5) [] type = "Payment" -> Limit(30, 60)
               [] type = "type.service-levels" -> Limit(999, 995) [] type = "DataProcessing" -> Limit(72, 120)
               [] type = "type.overtime" -> Limit(15, 20) [] type = "type.expenses" -> Limit(10, 15)
               [] OTHER -> Limit(30, 60))
      [] b = "playbook" ->
            (CASE type = "Liability" -> Limit(12, 0) [] type \in {"Fees", "Royalties"} -> Limit(5, 0)
               [] type = "Confidentiality" -> Limit(3, 0) [] type = "BreachNotification" -> Limit(72, 0)
               [] type = "AuditRights" -> Limit(10, 0) [] OTHER -> Limit(30, 0))

(* Documents under every built-in playbook: two clauses where the          *)
(* positions differ most, one elsewhere.                                   *)
DocumentBodies ==
    {<<>>, <<Sentence("we indemnify", 0)>>, <<Sentence("they indemnify", 0)>>, <<Sentence("due in days", 30)>>,
     <<Sentence("perpetual", 0)>>, <<Sentence("unacceptable phrase", 0)>>,
     <<Sentence("royalty", 3), Sentence("sublicense share", 3), Sentence("due in days", 60)>>}

DocumentLength(a) == IF a \in {"license", "staffing"} THEN 2 ELSE 1
=============================================================================
