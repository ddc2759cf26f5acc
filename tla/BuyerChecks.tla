------------------------------ MODULE BuyerChecks ------------------------------
(***************************************************************************)
(* The checks of the review matrix for agreements the organization buys    *)
(* under: software and SaaS (software.py), where the university is the     *)
(* customer, and services and staffing (workforce.py), read from the       *)
(* client's side.  Numbers are whole: tenths of a multiple, percents.      *)
(***************************************************************************)
EXTENDS CampusChecks

CheckScope(text) ==
    IF Says(text, "retroactive true-up") THEN "deviates"
    ELSE IF Says(text, "site-wide") THEN "within"
    ELSE IF Says(text, "per user") THEN "fallback"
    ELSE "review"

(* Read sentence by sentence: an increase tied to CPI ends the reading when *)
(* no percentage came before it, and hides one that comes after.           *)
CpiFirst(text) == FirstIs(text, "rises with cpi", {"price increase"})

CheckFees(text, th) ==
    IF Says(text, "price at will") THEN "deviates"
    ELSE IF CpiFirst(text) THEN "fallback"
    ELSE IF Says(text, "price increase") THEN AtMost(Longest(text, "price increase"), th)
    ELSE IF Says(text, "price fixed") THEN "within"
    ELSE "review"

(* An agreement that says it does not renew by itself does not, unless the *)
(* same text speaks of successive terms.                                   *)
CheckRenewal(text, th) ==
    LET auto == /\ SaysAny(text, {"renews by itself", "successive terms", "evergreen"})
                /\ Says(text, "does not renew") => SaysAny(text, {"successive terms", "evergreen"})
    IN  IF ~auto THEN "within"
        ELSE IF Says(text, "notice days") THEN AtMost(Longest(text, "notice days"), th)
        ELSE IF Says(text, "evergreen") \/ ~Says(text, "may be cancelled") THEN "deviates"
        ELSE "review"

(* The longest of the notices stated, and no fallback below the limit.     *)
CheckAudit(text, th) ==
    IF ~SaysAny(text, {"audit", "audit at any time", "we pay the audit", "audit days"}) THEN "within"
    ELSE IF Says(text, "audit at any time") THEN "deviates"
    ELSE IF Says(text, "we pay the audit") /\ ~Says(text, "discrepancy") THEN "deviates"
    ELSE IF Says(text, "self-certification") THEN "within"
    ELSE IF ~Says(text, "audit days") THEN "review"
    ELSE IF Longest(text, "audit days") >= th.ok THEN "within"
    ELSE "fallback"

CheckSla(text, th) ==
    IF ~Says(text, "uptime")
    THEN IF Says(text, "as available") THEN "deviates" ELSE "review"
    ELSE LET up == Lowest(Stated(text, "uptime"))
         IN  IF up >= th.ok /\ Says(text, "service credits") THEN "within"
             ELSE IF up >= th.fb THEN "fallback"
             ELSE "deviates"

CheckVendorWarranty(text) ==
    IF Says(text, "vendor warrants performance")
    THEN IF Says(text, "warranty days") /\ Longest(text, "warranty days") < 365 /\ ~Says(text, "no malware")
         THEN "fallback" ELSE "within"
    ELSE IF Says(text, "as is") THEN "deviates"
    ELSE "review"

CheckVendorIndemnity(text) ==
    IF Says(text, "we indemnify")
    THEN IF Says(text, "as law permits") THEN "fallback" ELSE "unacceptable"
    ELSE IF Says(text, "they indemnify")
    THEN IF Says(text, "infringement") THEN "within" ELSE "fallback"
    ELSE "deviates"

CheckVendorLiability(text) ==
    IF Says(text, "ours unlimited") THEN "deviates"
    ELSE IF Says(text, "vendor excludes all") /\ ~Says(text, "capped") THEN "deviates"
    ELSE IF ~Says(text, "capped") THEN "review"
    ELSE IF Says(text, "carve-outs") THEN "within"
    ELSE "fallback"

CheckData(text, th) ==
    IF Says(text, "vendor uses our data") THEN "unacceptable"
    ELSE IF ~Says(text, "breach hours")
    THEN IF Says(text, "promptly on breach") THEN "fallback" ELSE "review"
    ELSE LET hours == Longest(text, "breach hours")
         IN  IF hours <= th.ok /\ Says(text, "data returned") THEN "within"
             ELSE IF hours <= th.fb THEN "fallback"
             ELSE "deviates"

(* Best first: one of these words settles it, then a weaker one.           *)
Attested(text, best, weaker) ==
    IF Says(text, best) THEN "within" ELSE IF Says(text, weaker) THEN "fallback" ELSE "review"

CheckSecurity(text) == Attested(text, "attestation", "industry standard")
CheckAccessibility(text) == Attested(text, "wcag", "accessible")
CheckVendorTermination(text) == Attested(text, "for convenience", "for breach")
CheckVendorInsurance(text) == Attested(text, "cyber cover", "they insure")

CheckEscrow(text) == IF Says(text, "escrow") THEN "within" ELSE "review"

CheckAssignment(text) ==
    IF SaysAny(text, {"control ends it", "not without consent"}) THEN "within"
    ELSE IF Says(text, "vendor may assign") THEN "deviates"
    ELSE "review"

(***************************************************************************)
(* Services and staffing.                                                  *)
(***************************************************************************)

CheckRates(text, th) ==
    IF Says(text, "rates at will") THEN "deviates"
    ELSE IF Says(text, "rate increase") THEN AtMost(Longest(text, "rate increase"), th)
    ELSE IF Says(text, "rates listed") THEN "within"
    ELSE "review"

CheckHoursCap(text) ==
    IF Says(text, "hours capped")
    THEN IF Says(text, "written approval") THEN "within" ELSE "fallback"
    ELSE IF Says(text, "unlimited hours") THEN "deviates"
    ELSE "review"

(* The first multiple stated is the one read.                              *)
CheckOvertime(text, th) ==
    IF ~SaysAny(text, {"overtime", "overtime multiple"}) THEN "within"
    ELSE IF ~Says(text, "written approval") THEN "deviates"
    ELSE IF ~Says(text, "overtime multiple") THEN "within"
    ELSE AtMost(FirstStated(text, "overtime multiple"), th)

CheckWorkForHire(text) ==
    IF Says(text, "vendor owns work") THEN "deviates"
    ELSE IF SaysAny(text, {"made for hire", "assigned to us"}) THEN "within"
    ELSE IF Says(text, "work licensed") THEN "fallback"
    ELSE "review"

CheckCoEmployment(text) ==
    IF Says(text, "we pay wages") THEN "deviates"
    ELSE IF Says(text, "vendor employs") THEN "within"
    ELSE "review"

(* The last percentage in the text is taken for the cap.                   *)
CheckExpenses(text, th) ==
    LET capped == SaysAny(text, {"expenses capped", "expense cap"})
        policy == Says(text, "travel policy")
        all == Says(text, "all expenses")
    IN  IF ~capped /\ ~policy /\ ~all /\ ~Says(text, "expenses") THEN "within"
        ELSE IF all /\ ~capped /\ ~policy THEN "deviates"
        ELSE IF Says(text, "expense cap") THEN AtMost(LastStated(text, "expense cap"), th)
        ELSE IF capped /\ policy THEN "within"
        ELSE IF capped \/ policy THEN "fallback"
        ELSE "review"

(* CHECKS of software.py, one clause type of those a check serves.         *)
SoftwareTypes == {"LicenseScope", "Fees", "Term", "AuditRights", "type.service-levels", "Warranty", "Indemnity",
                  "Liability", "DataProcessing", "SecurityControls", "Accessibility", "Termination", "Insurance",
                  "SourceCodeEscrow", "Assignment", "GoverningLaw", "ExportControl"}

SoftwareCheck(type, text, th) ==
    CASE type = "LicenseScope" -> CheckScope(text)
      [] type = "Fees" -> CheckFees(text, th)
      [] type = "Term" -> CheckRenewal(text, th)
      [] type = "AuditRights" -> CheckAudit(text, th)
      [] type = "type.service-levels" -> CheckSla(text, th)
      [] type = "Warranty" -> CheckVendorWarranty(text)
      [] type = "Indemnity" -> CheckVendorIndemnity(text)
      [] type = "Liability" -> CheckVendorLiability(text)
      [] type = "DataProcessing" -> CheckData(text, th)
      [] type = "SecurityControls" -> CheckSecurity(text)
      [] type = "Accessibility" -> CheckAccessibility(text)
      [] type = "Termination" -> CheckVendorTermination(text)
      [] type = "Insurance" -> CheckVendorInsurance(text)
      [] type = "SourceCodeEscrow" -> CheckEscrow(text)
      [] type = "Assignment" -> CheckAssignment(text)
      [] type = "GoverningLaw" -> CheckGoverningLaw(text, th)
      [] type = "ExportControl" -> CheckExportControl(text)

(* CHECKS of workforce.py: those of software.py, but for these.            *)
OwnTypes == {"Fees", "Payment", "type.hours-cap", "type.overtime", "IP", "type.co-employment", "type.expenses", "Term"}

WorkforceTypes == SoftwareTypes \cup OwnTypes

WorkforceCheck(type, text, th) ==
    CASE type = "Fees" -> CheckRates(text, th)
      [] type = "Payment" -> CheckPayment(text, th)
      [] type = "type.hours-cap" -> CheckHoursCap(text)
      [] type = "type.overtime" -> CheckOvertime(text, th)
      [] type = "IP" -> CheckWorkForHire(text)
      [] type = "type.co-employment" -> CheckCoEmployment(text)
      [] type = "type.expenses" -> CheckExpenses(text, th)
      [] type = "Term" -> CheckTermination(text)
      [] OTHER -> SoftwareCheck(type, text, th)
=============================================================================
