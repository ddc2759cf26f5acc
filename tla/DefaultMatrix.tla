---------------------------- MODULE DefaultMatrix ----------------------------
(***************************************************************************)
(* The built-in review matrix (matrix.py default_matrix, software.py       *)
(* default_clauses, workforce.py default_playbooks): for each agreement    *)
(* type its positions in order, each with the office it escalates to,      *)
(* whether a document must have it, and whether any deviation escalates.   *)
(***************************************************************************)
EXTENDS Sequences, FiniteSets

Position(type, office) ==
    [type |-> type, office |-> office, required |-> TRUE, escalate |-> type = "ExportControl"]

Optional(position) == [position EXCEPT !.required = FALSE]

AgreementTypes == {"sponsored_research", "clinical_trial", "grant", "license", "option", "mta", "data_use", "nda",
                   "collaboration", "consortium", "software", "sow", "msa", "staffing", "subcontract", "other"}

Workforce == {"sow", "msa", "staffing", "subcontract"}

(* The positions several agreement types share.                            *)
UseOfName(office) == Optional(Position("type.use-of-name", office))
Pub(office) == Position("PublicationRights", office)
BackgroundIp(office) == Position("BackgroundIP", office)
Indemnity == Position("Indemnity", "risk_management")
Law == Position("GoverningLaw", "legal_affairs")
Export == Position("ExportControl", "export_control")
DataRights == Position("DataRights", "legal_affairs")
Confidentiality(office) == Position("Confidentiality", office)
Reporting(office) == Position("SponsorReporting", office)
NoWarranty == Optional(Position("Warranty", "tech_commercialization"))
PaidWithin == Position("Payment", "sponsored_programs")
MayEnd(office) == Optional(Position("Termination", office))
Limited == Optional(Position("Liability", "risk_management"))

Tech == "tech_commercialization"
Programs == "sponsored_programs"
Legal == "legal_affairs"

LicenseClauses ==
    <<Position("LicenseScope", Tech), Position("Royalties", Tech), Position("Diligence", Tech), BackgroundIp(Tech),
      Indemnity, Law, DataRights, Optional(Position("Sublicensing", Tech)), Optional(Confidentiality(Tech)),
      NoWarranty, Optional(Export), Optional(Reporting(Tech))>>

OptionClauses ==
    <<Position("LicenseScope", Tech), Position("Term", Tech), Position("Royalties", Tech), BackgroundIp(Tech),
      DataRights, Indemnity, Law, Optional(Confidentiality(Tech)), NoWarranty>>

ResearchClauses ==
    <<Pub(Programs), BackgroundIp(Programs), Indemnity, Law, Export, Reporting(Programs), DataRights, PaidWithin,
      MayEnd(Programs), Limited>>

GrantClauses ==
    <<Reporting(Programs), Pub(Programs), BackgroundIp(Programs), Export, Indemnity, Law, Optional(DataRights),
      Optional(PaidWithin)>>

MtaClauses ==
    <<BackgroundIp(Tech), Pub(Tech), Indemnity, Law, NoWarranty, Optional(DataRights), Optional(Export)>>

NdaClauses ==
    <<Confidentiality(Legal), Law, Optional(Export), Optional(DataRights), Optional(Indemnity)>>

CollaborationClauses ==
    <<Pub(Programs), BackgroundIp(Programs), DataRights, Indemnity, Law, Export, Optional(Confidentiality(Legal))>>

OtherClauses ==
    <<Indemnity, Law, Limited, Optional(Confidentiality(Legal)), Optional(PaidWithin), MayEnd(Legal)>>

DataUseClauses ==
    <<DataRights, Pub(Legal), Confidentiality(Legal), Indemnity, Law, Optional(Export)>>

(* Software the university buys.                                           *)
ServiceLevels == Optional(Position("type.service-levels", "it_security"))

SoftwareClauses ==
    <<Position("LicenseScope", "procurement"), Position("Fees", "procurement"), Position("Term", "procurement"),
      Optional(Position("AuditRights", Legal)), ServiceLevels, Position("Warranty", Legal),
      Position("Indemnity", Legal), Position("Liability", "risk_management"), Position("DataProcessing", "it_security"),
      Optional(Position("SecurityControls", "it_security")), Optional(Position("Accessibility", "accessibility")),
      MayEnd("procurement"), Optional(Position("Insurance", "risk_management")), Law,
      Optional(Position("Assignment", Legal))>>

(* Services and staffing.                                                  *)
Shared ==
    <<Position("IP", Legal), Position("Indemnity", Legal), Position("Liability", "risk_management"),
      MayEnd("procurement"), Position("Payment", "procurement"), Position("type.expenses", "procurement"),
      Optional(Position("Insurance", "risk_management")), Optional(Confidentiality(Legal))>>

Rates == Position("Fees", "procurement")
Hours == Position("type.hours-cap", "procurement")
Overtime == Optional(Position("type.overtime", "procurement"))
CoEmployment == Position("type.co-employment", Legal)
FlowDown == Position("type.flow-down", "procurement")

DefaultPlaybooks(agreement) ==
    CASE agreement = "sow" -> <<Rates, Hours, Overtime, ServiceLevels>> \o Shared
      [] agreement = "msa" -> <<Rates, ServiceLevels>> \o Shared
      [] agreement = "staffing" -> <<Rates, Hours, Overtime, CoEmployment>> \o Shared
      [] agreement = "subcontract" -> <<FlowDown, Rates, Hours>> \o Shared

DefaultBook(agreement) ==
    CASE agreement \in {"sponsored_research", "clinical_trial"} -> ResearchClauses \o <<UseOfName(Legal)>>
      [] agreement = "grant" -> GrantClauses
      [] agreement = "license" -> LicenseClauses \o <<UseOfName(Tech)>>
      [] agreement = "option" -> OptionClauses
      [] agreement = "mta" -> MtaClauses
      [] agreement = "data_use" -> DataUseClauses
      [] agreement = "nda" -> NdaClauses
      [] agreement \in {"collaboration", "consortium"} -> CollaborationClauses \o <<UseOfName(Legal)>>
      [] agreement = "software" -> SoftwareClauses
      [] agreement = "other" -> OtherClauses
      [] agreement \in Workforce -> DefaultPlaybooks(agreement)

(* The positions that list no unacceptable phrases, and those that list    *)
(* none better than the standard.                                          *)
NothingUnacceptable(agreement) ==
    IF agreement \in Workforce \cup {"software"}
    THEN {"Accessibility", "Assignment", "Confidentiality", "Insurance", "SecurityControls", "Termination", "Warranty",
          "type.flow-down", "type.overtime"}
    ELSE {"Payment", "Term", "Termination"}

NothingBetter(agreement) ==
    CASE agreement \in Workforce -> {"Confidentiality", "Indemnity", "Liability", "Payment", "type.expenses",
                                     "type.flow-down", "type.hours-cap", "type.overtime"}
      [] agreement = "software" -> {"Assignment", "GoverningLaw", "Liability"}
      [] OTHER -> {"Confidentiality", "ExportControl", "GoverningLaw", "Liability", "SponsorReporting", "Term",
                   "Termination", "Warranty"}

Phrases(agreement, type) ==
    {phrase \in {"unacceptable phrase", "beneficial phrase"} :
        type \notin IF phrase = "unacceptable phrase" THEN NothingUnacceptable(agreement) ELSE NothingBetter(agreement)}
=============================================================================
