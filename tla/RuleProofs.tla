----------------------------- MODULE RuleProofs ------------------------------
(***************************************************************************)
(* Proofs about the rules: the grades of clauses (ClauseGrades), for any    *)
(* vocabulary and any limits, and the review of documents (DocumentReview), *)
(* for any texts of clauses.                                               *)
(***************************************************************************)
EXTENDS ClauseGrades, DocumentReview, LoopProofs
LOCAL INSTANCE SequencesExt
LOCAL INSTANCE FiniteSetsExt

(***************************************************************************)
(* Every check gives one of the outcomes.                                  *)
(***************************************************************************)

Tiers == {"within", "fallback", "review", "deviates", "unacceptable"}

(* The outcomes by their rank.                                           *)
LEMMA TiersRanked ==
    /\ TierRank("within") = 0 /\ TierRank("fallback") = 1 /\ TierRank("review") = 2
    /\ TierRank("deviates") = 3 /\ TierRank("unacceptable") = 4
    /\ \A tier \in Tiers : TierRank(tier) \in 0 .. 4
    /\ \A tier \in Tiers : TierRank(tier) >= 3 => tier \in {"deviates", "unacceptable"}
<1>1. /\ TierRank("within") = 0 /\ TierRank("fallback") = 1 /\ TierRank("review") = 2
      /\ TierRank("deviates") = 3 /\ TierRank("unacceptable") = 4
  BY DEF TierRank
<1> QED BY <1>1 DEF Tiers

(* Of some outcomes one is the most serious.                               *)
LEMMA MostSeriousIs ==
    ASSUME NEW T, T \subseteq Tiers, T # {}
    PROVE  MostSerious(T) \in T /\ \A tier \in T : TierRank(tier) <= TierRank(MostSerious(T))
<1> DEFINE Worst(tier) == tier \in T /\ \A other \in T : TierRank(other) <= TierRank(tier)
<1>1. \E tier : Worst(tier)
  <2>1. CASE "unacceptable" \in T
    <3>1. Worst("unacceptable")
      BY <2>1, TiersRanked
    <3> QED BY <3>1
  <2>2. CASE "unacceptable" \notin T /\ "deviates" \in T
    <3>1. Worst("deviates")
      BY <2>2, TiersRanked DEF Tiers
    <3> QED BY <3>1
  <2>3. CASE "unacceptable" \notin T /\ "deviates" \notin T /\ "review" \in T
    <3>1. Worst("review")
      BY <2>3, TiersRanked DEF Tiers
    <3> QED BY <3>1
  <2>4. CASE "unacceptable" \notin T /\ "deviates" \notin T /\ "review" \notin T /\ "fallback" \in T
    <3>1. Worst("fallback")
      BY <2>4, TiersRanked DEF Tiers
    <3> QED BY <3>1
  <2>5. CASE "unacceptable" \notin T /\ "deviates" \notin T /\ "review" \notin T /\ "fallback" \notin T
    <3>1. T = {"within"}
      BY <2>5 DEF Tiers
    <3>2. Worst("within")
      BY <3>1, TiersRanked
    <3> QED BY <3>2
  <2> QED BY <2>1, <2>2, <2>3, <2>4, <2>5
<1>2. MostSerious(T) = CHOOSE tier : Worst(tier)
  BY DEF MostSerious
<1>3. Worst(MostSerious(T))
  BY <1>1, <1>2
<1> QED BY <1>3

(* A limit never refuses, and never leaves the clause to a person.       *)
LEMMA LimitsTier ==
    /\ \A n, th : AtMost(n, th) \in Tiers \ {"unacceptable", "review"}
    /\ \A n, th : AtLeast(n, th) \in Tiers \ {"unacceptable", "review"}
BY DEF AtMost, AtLeast, Tiers

(* The sets of outcomes the checks choose from.                            *)
LEMMA PeriodsTiers ==
    ASSUME NEW text, NEW th
    PROVE  YearsTier(text, th) \subseteq Tiers \ {"unacceptable"}
<1>1. AtMost(Longest(text, "years"), th) \in Tiers \ {"unacceptable"}
  BY LimitsTier
<1> QED BY <1>1 DEF YearsTier, Tiers

(* Every check for research and licensing gives an outcome.              *)
LEMMA CampusTiers ==
    ASSUME NEW text, NEW th
    PROVE  \A type \in CampusTypes : CampusCheck(type, text, th) \in Tiers
<1> USE DEF Tiers
<1>1. CheckPublication(text, th) \in Tiers
  <2>1. AtMost(Longest(text, "review days") + Longest(text, "delay days"), th) \in Tiers
    BY LimitsTier
  <2> QED BY <2>1 DEF CheckPublication
<1>2. CheckBackgroundIp(text) \in Tiers /\ CheckLicenseScope(text) \in Tiers
  BY DEF CheckBackgroundIp, CheckLicenseScope
<1>3. CheckRoyalties(text, th) \in Tiers
  <2> DEFINE rates == Stated(text, "royalty")
             shares == Stated(text, "sublicense share")
             one == IF rates = {} THEN "review" ELSE AtLeast(Lowest(rates), th)
             other == IF shares = {} THEN "deviates" ELSE AtLeast(Highest(shares), th)
  <2>1. one \in Tiers /\ other \in Tiers
    BY LimitsTier
  <2>2. MostSerious({one, other}) \in Tiers
    <3> HIDE DEF one, other
    <3>1. {one, other} \subseteq Tiers /\ {one, other} # {}
      BY <2>1
    <3> QED BY <3>1, MostSeriousIs
  <2> QED BY <2>2 DEF CheckRoyalties
<1>4. CheckIndemnity(text) \in Tiers /\ CheckGoverningLaw(text, th) \in Tiers /\ CheckExportControl(text) \in Tiers
  BY DEF CheckIndemnity, CheckGoverningLaw, CheckExportControl
<1>5. CheckConfidentiality(text, th) \in Tiers
  <2>1. PICK T : T = IF YearsTier(text, th) = {} THEN {"review"} ELSE YearsTier(text, th)
    OBVIOUS
  <2>2. T \subseteq Tiers /\ T # {}
    BY <2>1, PeriodsTiers
  <2> QED BY <2>1, <2>2, MostSeriousIs DEF CheckConfidentiality
<1>6. CheckDataRights(text, th) \in Tiers
  <2>1. PICK T : T = YearsTier(text, th)
                   \cup {"within" : x \in {w \in {"name with consent", "we keep data"} : Says(text, w)}}
                   \cup {"deviates" : x \in {w \in {"name freely", "they own data"} : Says(text, w)}}
    OBVIOUS
  <2>2. T \subseteq Tiers
    BY <2>1, PeriodsTiers
  <2>3. CheckDataRights(text, th) = IF T = {} THEN "review" ELSE MostSerious(T)
    BY <2>1 DEF CheckDataRights
  <2> QED BY <2>2, <2>3, MostSeriousIs
<1>7. CheckSponsorReporting(text, th) \in Tiers
  <2>1. PICK T : T = {AtMost(n, th) : n \in Stated(text, "reports a year")}
                   \cup (IF ~Says(text, "prime terms") THEN {}
                         ELSE IF Says(text, "terms listed") THEN {"within"} ELSE {"deviates"})
    OBVIOUS
  <2>2. {AtMost(n, th) : n \in Stated(text, "reports a year")} \subseteq Tiers
    BY LimitsTier
  <2>3. T \subseteq Tiers
    BY <2>1, <2>2
  <2>4. CheckSponsorReporting(text, th) = IF T = {} THEN "review" ELSE MostSerious(T)
    BY <2>1 DEF CheckSponsorReporting
  <2> QED BY <2>3, <2>4, MostSeriousIs
<1>8. CheckDiligence(text) \in Tiers
  BY DEF CheckDiligence
<1>9. CheckTerm(text, th) \in Tiers /\ CheckPayment(text, th) \in Tiers
  BY LimitsTier DEF CheckTerm, CheckPayment
<1>10. /\ CheckWarranty(text) \in Tiers /\ CheckLiability(text) \in Tiers /\ CheckInsurance(text) \in Tiers
       /\ CheckTermination(text) \in Tiers /\ CheckUseOfName(text) \in Tiers
  BY DEF CheckWarranty, CheckLiability, CheckInsurance, CheckTermination, CheckUseOfName
<1> QED BY <1>1, <1>2, <1>3, <1>4, <1>5, <1>6, <1>7, <1>8, <1>9, <1>10 DEF CampusCheck, CampusTypes

(* Every check for software bought gives one.                            *)
LEMMA SoftwareTiers ==
    ASSUME NEW text, NEW th
    PROVE  \A type \in SoftwareTypes : SoftwareCheck(type, text, th) \in Tiers
<1> USE DEF Tiers
<1>1. CheckScope(text) \in Tiers
  BY DEF CheckScope
<1>2. CheckFees(text, th) \in Tiers
  BY LimitsTier DEF CheckFees
<1>3. CheckRenewal(text, th) \in Tiers
  BY LimitsTier DEF CheckRenewal
<1>4. CheckAudit(text, th) \in Tiers
  BY DEF CheckAudit
<1>5. CheckSla(text, th) \in Tiers
  BY DEF CheckSla
<1>6. CheckVendorWarranty(text) \in Tiers /\ CheckVendorIndemnity(text) \in Tiers /\ CheckVendorLiability(text) \in Tiers
  BY DEF CheckVendorWarranty, CheckVendorIndemnity, CheckVendorLiability
<1>7. CheckData(text, th) \in Tiers
  BY DEF CheckData
<1>8. \A best, weaker : Attested(text, best, weaker) \in Tiers
  BY DEF Attested
<1>9. /\ CheckSecurity(text) \in Tiers /\ CheckAccessibility(text) \in Tiers
      /\ CheckVendorTermination(text) \in Tiers /\ CheckVendorInsurance(text) \in Tiers
  BY <1>8 DEF CheckSecurity, CheckAccessibility, CheckVendorTermination, CheckVendorInsurance
<1>10. CheckEscrow(text) \in Tiers /\ CheckAssignment(text) \in Tiers
  BY DEF CheckEscrow, CheckAssignment
<1>11. CheckGoverningLaw(text, th) \in Tiers /\ CheckExportControl(text) \in Tiers
  BY DEF CheckGoverningLaw, CheckExportControl
<1> QED BY <1>1, <1>2, <1>3, <1>4, <1>5, <1>6, <1>7, <1>9, <1>10, <1>11 DEF SoftwareCheck, SoftwareTypes

(* Every check for services and staffing gives one.                      *)
LEMMA WorkforceTiers ==
    ASSUME NEW text, NEW th
    PROVE  \A type \in WorkforceTypes : WorkforceCheck(type, text, th) \in Tiers
<1> USE DEF Tiers
<1>1. CheckRates(text, th) \in Tiers /\ CheckPayment(text, th) \in Tiers
  BY LimitsTier DEF CheckRates, CheckPayment
<1>2. CheckHoursCap(text) \in Tiers
  BY DEF CheckHoursCap
<1>3. CheckOvertime(text, th) \in Tiers
  BY LimitsTier DEF CheckOvertime
<1>4. CheckWorkForHire(text) \in Tiers /\ CheckCoEmployment(text) \in Tiers /\ CheckTermination(text) \in Tiers
  BY DEF CheckWorkForHire, CheckCoEmployment, CheckTermination
<1>5. CheckExpenses(text, th) \in Tiers
  BY LimitsTier DEF CheckExpenses
<1> SUFFICES ASSUME NEW type \in WorkforceTypes PROVE WorkforceCheck(type, text, th) \in Tiers
  OBVIOUS
<1>6. CASE type \in OwnTypes
  BY <1>1, <1>2, <1>3, <1>4, <1>5, <1>6 DEF WorkforceCheck, OwnTypes
<1>7. CASE type \notin OwnTypes
  <2>1. WorkforceCheck(type, text, th) = SoftwareCheck(type, text, th)
    BY <1>7 DEF WorkforceCheck, OwnTypes
  <2>2. type \in SoftwareTypes
    BY <1>7 DEF WorkforceTypes
  <2> QED BY <2>1, <2>2, SoftwareTiers
<1> QED BY <1>6, <1>7

MatrixBooks == {"campus", "software", "services"}

(* The same of the check of any kind of agreement.                       *)
LEMMA ChecksGiveTiers ==
    ASSUME NEW b \in MatrixBooks, NEW type \in TypesOf(b), NEW text
    PROVE  Check(b, type, text) \in Tiers
<1>1. CASE b = "campus"
  BY <1>1, CampusTiers DEF Check, TypesOf
<1>2. CASE b = "software"
  BY <1>2, SoftwareTiers DEF Check, TypesOf
<1>3. CASE b = "services"
  BY <1>3, WorkforceTiers DEF Check, TypesOf
<1> QED BY <1>1, <1>2, <1>3 DEF MatrixBooks

(* The matrix gives an outcome for any clause type and any phrases.      *)
LEMMA MatrixGivesTiers ==
    ASSUME NEW b \in MatrixBooks, NEW type, NEW own, NEW text
    PROVE  MatrixGrade(b, type, own, text) \in Tiers
<1>1. {"unacceptable", "within", "review"} \subseteq Tiers
  BY DEF Tiers
<1> QED BY <1>1, ChecksGiveTiers DEF MatrixGrade

(* The same of the playbook's statuses.                                    *)
PlaybookStatuses == {"ok", "review", "minor", "moderate", "material"}

(* The statuses by their rank.                                           *)
LEMMA StatusesRanked ==
    /\ StatusRank("ok") = 0 /\ StatusRank("review") = 1 /\ StatusRank("minor") = 2
    /\ StatusRank("moderate") = 3 /\ StatusRank("material") = 4
    /\ \A status \in PlaybookStatuses : StatusRank(status) \in 0 .. 4
<1>1. /\ StatusRank("ok") = 0 /\ StatusRank("review") = 1 /\ StatusRank("minor") = 2
      /\ StatusRank("moderate") = 3 /\ StatusRank("material") = 4
  BY DEF StatusRank
<1> QED BY <1>1 DEF PlaybookStatuses

(* Every check of the playbook gives a status.                           *)
LEMMA PlaybookGivesStatuses ==
    ASSUME NEW text, NEW limit
    PROVE  \A type \in PlaybookTypes : PlaybookCheck(type, text, limit) \in PlaybookStatuses
<1> USE DEF PlaybookStatuses, OkUnless
<1>1. PlaybookLiability(text, limit) \in PlaybookStatuses
  BY DEF PlaybookLiability
<1>2. PlaybookIndemnity(text) \in PlaybookStatuses
  BY DEF PlaybookIndemnity
<1>3. PlaybookPayment(text, limit) \in PlaybookStatuses
  BY DEF PlaybookPayment
<1>4. PlaybookFees(text, limit) \in PlaybookStatuses
  BY DEF PlaybookFees
<1>5. PlaybookTermination(text, limit) \in PlaybookStatuses
  BY DEF PlaybookTermination
<1>6. PlaybookAutoRenewal(text, limit) \in PlaybookStatuses
  BY DEF PlaybookAutoRenewal
<1>7. PlaybookConfidentiality(text, limit) \in PlaybookStatuses
  BY DEF PlaybookConfidentiality
<1>8. PlaybookIp(text) \in PlaybookStatuses /\ PlaybookDataProtection(text) \in PlaybookStatuses
  BY DEF PlaybookIp, PlaybookDataProtection
<1>9. PlaybookBreach(text, limit) \in PlaybookStatuses
  BY DEF PlaybookBreach
<1>10. PlaybookRetention(text) \in PlaybookStatuses /\ PlaybookAudit(text, limit) \in PlaybookStatuses
  BY DEF PlaybookRetention, PlaybookAudit
<1>11. /\ PlaybookGrant(text) \in PlaybookStatuses /\ PlaybookScope(text) \in PlaybookStatuses
       /\ PlaybookRestrictions(text) \in PlaybookStatuses
  BY DEF PlaybookGrant, PlaybookScope, PlaybookRestrictions
<1>12. PlaybookRoyalties(text, limit) \in PlaybookStatuses
  BY DEF PlaybookRoyalties
<1>13. /\ PlaybookSublicensing(text) \in PlaybookStatuses /\ PlaybookOpenSource(text) \in PlaybookStatuses
       /\ PlaybookResidency(text) \in PlaybookStatuses /\ PlaybookSubprocessors(text) \in PlaybookStatuses
  BY DEF PlaybookSublicensing, PlaybookOpenSource, PlaybookResidency, PlaybookSubprocessors
<1> HIDE DEF PlaybookStatuses, OkUnless
<1> QED BY <1>1, <1>2, <1>3, <1>4, <1>5, <1>6, <1>7, <1>8, <1>9, <1>10, <1>11, <1>12, <1>13
        DEF PlaybookCheck, PlaybookTypes

(* The worse of two statuses is one of them, and no better than either.  *)
LEMMA WorseIs ==
    ASSUME NEW one \in PlaybookStatuses, NEW other \in PlaybookStatuses
    PROVE  /\ Worse(one, other) \in {one, other}
           /\ StatusRank(Worse(one, other)) >= StatusRank(one)
           /\ StatusRank(Worse(one, other)) >= StatusRank(other)
BY StatusesRanked DEF Worse

(***************************************************************************)
(* What a workspace lists itself never softens what the check finds.       *)
(***************************************************************************)

LEMMA OwnIsNoType == \A b \in Books : OwnType \notin TypesOf(b)
BY DEF Books, OwnType, TypesOf, CampusTypes, SoftwareTypes, WorkforceTypes, OwnTypes, PlaybookTypes

(* A workspace's phrases never soften what the check finds.              *)
LEMMA ListsDoAdd ==
    ASSUME NEW b \in Books, NEW type \in TypesOf(b), NEW own, NEW text
    PROVE  Seriousness(b, Grade(b, type, own, text)) >= Seriousness(b, Grade(b, type, {}, text))
<1>1. CASE b = "playbook"
  <2> DEFINE checked == PlaybookCheck(type, text, Limits("playbook", type).ok)
  <2>1. checked \in PlaybookStatuses /\ "moderate" \in PlaybookStatuses
    <3>1. type \in PlaybookTypes
      BY <1>1 DEF TypesOf
    <3> QED BY <3>1, PlaybookGivesStatuses DEF PlaybookStatuses
  <2>2. type \in PlaybookTypes
    BY <1>1 DEF TypesOf
  <2>3. PlaybookGrade(type, {}, "moderate", text) = checked
    BY <2>2 DEF PlaybookGrade, PhraseHit
  <2>4. PlaybookGrade(type, own, "moderate", text) \in {checked, Worse("moderate", checked)}
    BY <2>2 DEF PlaybookGrade
  <2>5. StatusRank(Worse("moderate", checked)) >= StatusRank(checked) /\ StatusRank(checked) \in 0 .. 4
    BY <2>1, WorseIs, StatusesRanked
  <2>6. StatusRank(PlaybookGrade(type, own, "moderate", text)) >= StatusRank(PlaybookGrade(type, {},
     "moderate", text))
    BY <2>3, <2>4, <2>5
  <2> QED BY <1>1, <2>6 DEF Grade, Seriousness
<1>2. CASE b # "playbook"
  <2>1. b \in MatrixBooks
    BY <1>2 DEF Books, MatrixBooks
  <2>2. MatrixGrade(b, type, {}, text) = Check(b, type, text)
    BY DEF MatrixGrade, PhraseHit
  <2>3. MatrixGrade(b, type, own, text) \in {"unacceptable", Check(b, type, text)}
    BY DEF MatrixGrade
  <2>4. TierRank("unacceptable") >= TierRank(Check(b, type, text)) /\ TierRank(Check(b, type, text)) \in 0 .. 4
    BY <2>1, ChecksGiveTiers, TiersRanked
  <2>5. TierRank(MatrixGrade(b, type, own, text)) >= TierRank(MatrixGrade(b, type, {}, text))
    BY <2>2, <2>3, <2>4
  <2> QED BY <1>2, <2>5 DEF Grade, Seriousness
<1> QED BY <1>1, <1>2

(***************************************************************************)
(* A check that reads the whole text reads the same in any order of it.    *)
(***************************************************************************)

(* The texts say the same things and state the same numbers.               *)
Alike(t, u) == \A what : (Says(t, what) <=> Says(u, what)) /\ Stated(t, what) = Stated(u, what)

(* A text and the same text backwards say the same.                      *)
LEMMA ReversedIsAlike ==
    ASSUME NEW S, NEW s \in Seq(S)
    PROVE  Alike(s, Reverse(s))
<1> DEFINE K == Len(s)
           r == Reverse(s)
<1>1. K \in Nat /\ DOMAIN s = 1 .. K /\ \A n \in 1 .. K : (K - n) + 1 \in 1 .. K /\ (K - ((K - n) + 1)) + 1 = n
  OBVIOUS
<1>2. r = [n \in 1 .. K |-> s[(K - n) + 1]]
  BY DEF Reverse
<1> HIDE DEF K, r
<1>3. DOMAIN r = 1 .. K /\ \A n \in 1 .. K : r[n] = s[(K - n) + 1]
  BY <1>2
<1>4. \A n \in 1 .. K : s[n] = r[(K - n) + 1]
  BY <1>1, <1>3
<1>5. ASSUME NEW what PROVE (Says(s, what) <=> Says(r, what)) /\ Stated(s, what) = Stated(r, what)
  <2>1. Says(s, what) <=> Says(r, what)
    <3>1. ASSUME Says(s, what) PROVE Says(r, what)
      BY <1>1, <1>3, <1>4, <3>1 DEF Says
    <3>2. ASSUME Says(r, what) PROVE Says(s, what)
      BY <1>1, <1>3, <3>2 DEF Says
    <3> QED BY <3>1, <3>2
  <2>2. ASSUME NEW n PROVE n \in Stated(s, what) <=> n \in Stated(r, what)
    <3>1. n \in Stated(s, what) <=> \E i \in 1 .. K : s[i].what = what /\ n = s[i].n
      BY <1>1 DEF Stated
    <3>2. n \in Stated(r, what) <=> \E i \in 1 .. K : r[i].what = what /\ n = r[i].n
      BY <1>3 DEF Stated
    <3>3. ASSUME NEW i \in 1 .. K, s[i].what = what, n = s[i].n PROVE \E j \in 1 .. K : r[j].what = what /\ n = r[j].n
      BY <1>1, <1>4, <3>3
    <3>4. ASSUME NEW i \in 1 .. K, r[i].what = what, n = r[i].n PROVE \E j \in 1 .. K : s[j].what = what /\ n = s[j].n
      BY <1>1, <1>3, <3>4
    <3> QED BY <3>1, <3>2, <3>3, <3>4
  <2> QED BY <2>1, <2>2
<1> QED BY <1>5 DEF Alike, r

(* Texts that say the same state the same numbers.                       *)
LEMMA AlikeReads ==
    ASSUME NEW t, NEW u, Alike(t, u)
    PROVE  /\ \A what : Says(t, what) = Says(u, what)
           /\ \A what : Stated(t, what) = Stated(u, what)
           /\ \A whats : SaysAny(t, whats) = SaysAny(u, whats)
           /\ \A what : Longest(t, what) = Longest(u, what)
<1>1. \A what : (Says(t, what) <=> Says(u, what)) /\ Stated(t, what) = Stated(u, what)
  BY DEF Alike
<1>2. \A what : Says(t, what) \in BOOLEAN /\ Says(u, what) \in BOOLEAN
  BY DEF Says
<1>3. \A whats : SaysAny(t, whats) <=> SaysAny(u, whats)
  BY <1>1 DEF SaysAny
<1>4. \A whats : SaysAny(t, whats) \in BOOLEAN /\ SaysAny(u, whats) \in BOOLEAN
  BY DEF SaysAny
<1>5. \A what : Says(t, what) = Says(u, what)
  BY <1>1, <1>2
<1>6. \A whats : SaysAny(t, whats) = SaysAny(u, whats)
  BY <1>3, <1>4
<1>7. \A what : Longest(t, what) = Longest(u, what)
  BY <1>1 DEF Longest
<1> QED BY <1>1, <1>5, <1>6, <1>7

(* Checks give texts that say the same the same outcome.                 *)
LEMMA CampusOrder ==
    ASSUME NEW t, NEW u, Alike(t, u), NEW th, NEW type \in CampusTypes \ {"BackgroundIP", "Warranty"}
    PROVE  CampusCheck(type, t, th) = CampusCheck(type, u, th)
<1>a. /\ \A what : Says(t, what) = Says(u, what)
      /\ \A what : Stated(t, what) = Stated(u, what)
      /\ \A whats : SaysAny(t, whats) = SaysAny(u, whats)
      /\ \A what : Longest(t, what) = Longest(u, what)
  BY AlikeReads
<1>y. YearsTier(t, th) = YearsTier(u, th)
  BY <1>a DEF YearsTier
<1>1. CheckPublication(t, th) = CheckPublication(u, th)
  <2>1. /\ Says(t, "needs approval") = Says(u, "needs approval")
        /\ Says(t, "free to publish") = Says(u, "free to publish")
        /\ Longest(t, "review days") = Longest(u, "review days")
        /\ Longest(t, "delay days") = Longest(u, "delay days")
    BY <1>a
  <2> QED BY <2>1, Zenon DEF CheckPublication
<1>2. CheckLicenseScope(t) = CheckLicenseScope(u)
  BY <1>a DEF CheckLicenseScope
<1>3. CheckRoyalties(t, th) = CheckRoyalties(u, th)
  <2>1. /\ Stated(t, "royalty") = Stated(u, "royalty")
        /\ Stated(t, "sublicense share") = Stated(u, "sublicense share")
    BY <1>a
  <2> QED BY <2>1, Zenon DEF CheckRoyalties
<1>4. CheckIndemnity(t) = CheckIndemnity(u)
  BY <1>a DEF CheckIndemnity
<1>5. CheckGoverningLaw(t, th) = CheckGoverningLaw(u, th)
  <2>1. {s \in {"home", "other"} : Says(t, IF s = "home" THEN "home law" ELSE "other law")}
        = {s \in {"home", "other"} : Says(u, IF s = "home" THEN "home law" ELSE "other law")}
    BY <1>a
  <2>2. {s \in {"home", "other"} : Says(t, IF s = "home" THEN "home court" ELSE "other court")}
        = {s \in {"home", "other"} : Says(u, IF s = "home" THEN "home court" ELSE "other court")}
    BY <1>a
  <2>3. Says(t, "immunity waived") = Says(u, "immunity waived") /\ Says(t, "foreign law") = Says(u, "foreign law")
    BY <1>a
  <2> QED BY <2>1, <2>2, <2>3, Zenon DEF CheckGoverningLaw
<1>6. CheckExportControl(t) = CheckExportControl(u)
  BY <1>a DEF CheckExportControl
<1>7. CheckConfidentiality(t, th) = CheckConfidentiality(u, th)
  BY <1>y DEF CheckConfidentiality
<1>8. CheckDataRights(t, th) = CheckDataRights(u, th)
  <2>1. {w \in {"name with consent", "we keep data"} : Says(t, w)}
        = {w \in {"name with consent", "we keep data"} : Says(u, w)}
    BY <1>a
  <2>2. {w \in {"name freely", "they own data"} : Says(t, w)} = {w \in {"name freely", "they own data"} : Says(u, w)}
    BY <1>a
  <2> QED BY <1>y, <2>1, <2>2, Zenon DEF CheckDataRights
<1>9. CheckSponsorReporting(t, th) = CheckSponsorReporting(u, th)
  <2>1. /\ Stated(t, "reports a year") = Stated(u, "reports a year")
        /\ Says(t, "prime terms") = Says(u, "prime terms") /\ Says(t, "terms listed") = Says(u, "terms listed")
    BY <1>a
  <2> QED BY <2>1, Zenon DEF CheckSponsorReporting
<1>10. CheckDiligence(t) = CheckDiligence(u)
  BY <1>a DEF CheckDiligence
<1>11. CheckTerm(t, th) = CheckTerm(u, th) /\ CheckPayment(t, th) = CheckPayment(u, th)
  BY <1>a DEF CheckTerm, CheckPayment
<1>12. /\ CheckLiability(t) = CheckLiability(u) /\ CheckInsurance(t) = CheckInsurance(u)
       /\ CheckTermination(t) = CheckTermination(u) /\ CheckUseOfName(t) = CheckUseOfName(u)
  BY <1>a DEF CheckLiability, CheckInsurance, CheckTermination, CheckUseOfName
<1> QED BY <1>1, <1>2, <1>3, <1>4, <1>5, <1>6, <1>7, <1>8, <1>9, <1>10, <1>11, <1>12 DEF CampusCheck, CampusTypes

LEMMA SoftwareOrder ==
    ASSUME NEW t, NEW u, Alike(t, u), NEW th, NEW type \in SoftwareTypes \ {"Fees"}
    PROVE  SoftwareCheck(type, t, th) = SoftwareCheck(type, u, th)
<1>a. /\ \A what : Says(t, what) = Says(u, what)
      /\ \A what : Stated(t, what) = Stated(u, what)
      /\ \A whats : SaysAny(t, whats) = SaysAny(u, whats)
      /\ \A what : Longest(t, what) = Longest(u, what)
  BY AlikeReads
<1>1. CheckScope(t) = CheckScope(u)
  BY <1>a DEF CheckScope
<1>2. CheckRenewal(t, th) = CheckRenewal(u, th)
  BY <1>a DEF CheckRenewal
<1>3. CheckAudit(t, th) = CheckAudit(u, th)
  <2>1. /\ Says(t, "audit at any time") = Says(u, "audit at any time")
        /\ Says(t, "we pay the audit") = Says(u, "we pay the audit")
        /\ Says(t, "discrepancy") = Says(u, "discrepancy")
        /\ Says(t, "self-certification") = Says(u, "self-certification")
        /\ Says(t, "audit days") = Says(u, "audit days")
        /\ Longest(t, "audit days") = Longest(u, "audit days")
        /\ SaysAny(t, {"audit", "audit at any time", "we pay the audit", "audit days"})
           = SaysAny(u, {"audit", "audit at any time", "we pay the audit", "audit days"})
    BY <1>a
  <2> QED BY <2>1, Zenon DEF CheckAudit
<1>4. CheckSla(t, th) = CheckSla(u, th)
  <2>1. /\ Says(t, "uptime") = Says(u, "uptime")
        /\ Says(t, "as available") = Says(u, "as available")
        /\ Says(t, "service credits") = Says(u, "service credits")
        /\ Stated(t, "uptime") = Stated(u, "uptime")
    BY <1>a
  <2> QED BY <2>1, Zenon DEF CheckSla
<1>5. CheckVendorWarranty(t) = CheckVendorWarranty(u)
  <2>1. /\ Says(t, "vendor warrants performance") = Says(u, "vendor warrants performance")
        /\ Says(t, "warranty days") = Says(u, "warranty days")
        /\ Says(t, "no malware") = Says(u, "no malware")
        /\ Says(t, "as is") = Says(u, "as is")
        /\ Longest(t, "warranty days") = Longest(u, "warranty days")
    BY <1>a
  <2> QED BY <2>1, Zenon DEF CheckVendorWarranty
<1>6. CheckVendorIndemnity(t) = CheckVendorIndemnity(u) /\ CheckVendorLiability(t) = CheckVendorLiability(u)
  BY <1>a DEF CheckVendorIndemnity, CheckVendorLiability
<1>7. CheckData(t, th) = CheckData(u, th)
  <2>1. /\ Says(t, "vendor uses our data") = Says(u, "vendor uses our data")
        /\ Says(t, "breach hours") = Says(u, "breach hours")
        /\ Says(t, "promptly on breach") = Says(u, "promptly on breach")
        /\ Says(t, "data returned") = Says(u, "data returned")
        /\ Longest(t, "breach hours") = Longest(u, "breach hours")
    BY <1>a
  <2> QED BY <2>1, Zenon DEF CheckData
<1>8. \A best, weaker : Attested(t, best, weaker) = Attested(u, best, weaker)
  BY <1>a DEF Attested
<1>9. /\ CheckSecurity(t) = CheckSecurity(u) /\ CheckAccessibility(t) = CheckAccessibility(u)
      /\ CheckVendorTermination(t) = CheckVendorTermination(u) /\ CheckVendorInsurance(t) = CheckVendorInsurance(u)
  BY <1>8 DEF CheckSecurity, CheckAccessibility, CheckVendorTermination, CheckVendorInsurance
<1>10. CheckEscrow(t) = CheckEscrow(u) /\ CheckAssignment(t) = CheckAssignment(u)
  BY <1>a DEF CheckEscrow, CheckAssignment
<1>11. CASE type \in {"GoverningLaw", "ExportControl"}
  <2>1. SoftwareCheck(type, t, th) = CampusCheck(type, t, th) /\ SoftwareCheck(type, u, th) = CampusCheck(type, u, th)
    BY <1>11 DEF SoftwareCheck, CampusCheck
  <2>2. type \in CampusTypes \ {"BackgroundIP", "Warranty"}
    BY <1>11 DEF CampusTypes
  <2> QED BY <2>1, <2>2, CampusOrder
<1>12. CASE type \notin {"GoverningLaw", "ExportControl"}
  BY <1>1, <1>2, <1>3, <1>4, <1>5, <1>6, <1>7, <1>9, <1>10, <1>12 DEF SoftwareCheck, SoftwareTypes
<1> QED BY <1>11, <1>12

LEMMA WorkforceOrder ==
    ASSUME NEW t, NEW u, Alike(t, u), NEW th, NEW type \in WorkforceTypes \ {"type.overtime", "type.expenses"}
    PROVE  WorkforceCheck(type, t, th) = WorkforceCheck(type, u, th)
<1>a. /\ \A what : Says(t, what) = Says(u, what)
      /\ \A whats : SaysAny(t, whats) = SaysAny(u, whats)
      /\ \A what : Longest(t, what) = Longest(u, what)
  BY AlikeReads
<1>1. CheckRates(t, th) = CheckRates(u, th) /\ CheckPayment(t, th) = CheckPayment(u, th)
  BY <1>a DEF CheckRates, CheckPayment
<1>2. CheckHoursCap(t) = CheckHoursCap(u) /\ CheckWorkForHire(t) = CheckWorkForHire(u)
  BY <1>a DEF CheckHoursCap, CheckWorkForHire
<1>3. CheckCoEmployment(t) = CheckCoEmployment(u) /\ CheckTermination(t) = CheckTermination(u)
  BY <1>a DEF CheckCoEmployment, CheckTermination
<1>4. CASE type \in OwnTypes
  BY <1>1, <1>2, <1>3, <1>4 DEF WorkforceCheck, OwnTypes
<1>5. CASE type \notin OwnTypes
  <2>1. WorkforceCheck(type, t, th) = SoftwareCheck(type, t, th) /\ WorkforceCheck(type, u, th) = SoftwareCheck(type, u, th)
    BY <1>5 DEF WorkforceCheck, OwnTypes
  <2>2. type \in SoftwareTypes \ {"Fees"}
    BY <1>5 DEF WorkforceTypes, OwnTypes
  <2> QED BY <2>1, <2>2, SoftwareOrder
<1> QED BY <1>4, <1>5

LEMMA PlaybookOrder ==
    ASSUME NEW t, NEW u, Alike(t, u), NEW limit,
           NEW type \in PlaybookTypes \ {"Liability", "Payment", "Fees", "Termination", "Term", "Confidentiality",
                                         "BreachNotification", "AuditRights", "Royalties"}
    PROVE  PlaybookCheck(type, t, limit) = PlaybookCheck(type, u, limit)
<1>a. /\ \A what : Says(t, what) = Says(u, what)
      /\ \A whats : SaysAny(t, whats) = SaysAny(u, whats)
  BY AlikeReads
<1>1. PlaybookIndemnity(t) = PlaybookIndemnity(u) /\ PlaybookIp(t) = PlaybookIp(u)
  <2>1. /\ Says(t, "assigns all") = Says(u, "assigns all") /\ Says(t, "background kept") = Says(u, "background kept")
        /\ SaysAny(t, {"intellectual property", "a word with ip in it"})
           = SaysAny(u, {"intellectual property", "a word with ip in it"})
    BY <1>a
  <2>2. PlaybookIp(t) = PlaybookIp(u)
    BY <2>1, Zenon DEF PlaybookIp
  <2>3. PlaybookIndemnity(t) = PlaybookIndemnity(u)
    BY <1>a DEF PlaybookIndemnity, OkUnless
  <2> QED BY <2>2, <2>3
<1>2. PlaybookDataProtection(t) = PlaybookDataProtection(u) /\ PlaybookRetention(t) = PlaybookRetention(u)
  BY <1>a DEF PlaybookDataProtection, PlaybookRetention
<1>3. PlaybookGrant(t) = PlaybookGrant(u) /\ PlaybookScope(t) = PlaybookScope(u)
  BY <1>a DEF PlaybookGrant, PlaybookScope
<1>4. PlaybookRestrictions(t) = PlaybookRestrictions(u) /\ PlaybookSublicensing(t) = PlaybookSublicensing(u)
  BY <1>a DEF PlaybookRestrictions, PlaybookSublicensing
<1>5. PlaybookOpenSource(t) = PlaybookOpenSource(u) /\ PlaybookResidency(t) = PlaybookResidency(u)
  BY <1>a DEF PlaybookOpenSource, PlaybookResidency
<1>6. PlaybookSubprocessors(t) = PlaybookSubprocessors(u)
  BY <1>a DEF PlaybookSubprocessors
<1> QED BY <1>1, <1>2, <1>3, <1>4, <1>5, <1>6 DEF PlaybookCheck, PlaybookTypes

LEMMA GradesOrder ==
    ASSUME NEW t, NEW u, Alike(t, u), NEW b \in Books, NEW type \in TypesOf(b) \cup {OwnType}, NEW own,
           ~FirstPlaceOnly(b, type)
    PROVE  Grade(b, type, own, t) = Grade(b, type, own, u)
<1>a. \A what : Says(t, what) = Says(u, what)
  BY AlikeReads
<1>b. \A phrases : PhraseHit(t, phrases) = PhraseHit(u, phrases)
  <2>1. \A phrases : PhraseHit(t, phrases) <=> PhraseHit(u, phrases)
    BY <1>a DEF PhraseHit
  <2>2. \A phrases : PhraseHit(t, phrases) \in BOOLEAN /\ PhraseHit(u, phrases) \in BOOLEAN
    BY DEF PhraseHit
  <2> QED BY <2>1, <2>2
<1>1. CASE b = "playbook"
  <2>1. type \in PlaybookTypes => PlaybookCheck(type, t, Limits("playbook", type).ok)
                                  = PlaybookCheck(type, u, Limits("playbook", type).ok)
    BY <1>1, PlaybookOrder DEF FirstPlaceOnly
  <2>2. Says(t, "required phrase") = Says(u, "required phrase")
        /\ PhraseHit(t, own \cap {"unacceptable phrase"}) = PhraseHit(u, own \cap {"unacceptable phrase"})
    BY <1>a, <1>b
  <2>3. PlaybookGrade(type, own, "moderate", t) = PlaybookGrade(type, own, "moderate", u)
    <3>1. CASE type \in PlaybookTypes
      BY <2>1, <2>2, <3>1, Zenon DEF PlaybookGrade
    <3>2. CASE type \notin PlaybookTypes
      BY <2>2, <3>2 DEF PlaybookGrade
    <3> QED BY <3>1, <3>2
  <2> QED BY <1>1, <2>3 DEF Grade
<1>2. CASE b # "playbook"
  <2>0. b \in {"campus", "software", "services"}
    BY <1>2 DEF Books
  <2>1. type \in TypesOf(b) => Check(b, type, t) = Check(b, type, u)
    <3> SUFFICES ASSUME type \in TypesOf(b) PROVE Check(b, type, t) = Check(b, type, u)
      OBVIOUS
    <3>1. CASE b = "campus"
      <4>1. type \in CampusTypes \ {"BackgroundIP", "Warranty"}
        BY <3>1 DEF TypesOf, FirstPlaceOnly
      <4> QED BY <3>1, <4>1, CampusOrder DEF Check
    <3>2. CASE b = "software"
      <4>1. type \in SoftwareTypes \ {"Fees"}
        BY <3>2 DEF TypesOf, FirstPlaceOnly
      <4> QED BY <3>2, <4>1, SoftwareOrder DEF Check
    <3>3. CASE b = "services"
      <4>1. type \in WorkforceTypes \ {"type.overtime", "type.expenses"}
        BY <3>3 DEF TypesOf, FirstPlaceOnly
      <4> QED BY <3>3, <4>1, WorkforceOrder DEF Check
    <3> QED BY <2>0, <3>1, <3>2, <3>3
  <2>2. PhraseHit(t, own \cap {"unacceptable phrase"}) = PhraseHit(u, own \cap {"unacceptable phrase"})
    BY <1>b
  <2>3. MatrixGrade(b, type, own, t) = MatrixGrade(b, type, own, u)
    BY <2>1, <2>2 DEF MatrixGrade
  <2> QED BY <1>2, <2>3 DEF Grade
<1> QED BY <1>1, <1>2

(***************************************************************************)
(* An alarm is heard whatever stands around it.                            *)
(***************************************************************************)

Grave == {"deviates", "unacceptable"}

(* The clause that says this and nothing else.                             *)
Alone(a) == <<Sentence(a, 0)>>

(* What a text of one sentence says.                                     *)
LEMMA AloneReads ==
    ASSUME NEW a
    PROVE  /\ \A what : Says(Alone(a), what) <=> what = a
           /\ \A what : what # a => Stated(Alone(a), what) = {} /\ Longest(Alone(a), what) = 0
           /\ \A whats : SaysAny(Alone(a), whats) <=> a \in whats
           /\ \A what, others : FirstIs(Alone(a), what, others) => what = a
<1>1. DOMAIN Alone(a) = {1} /\ Alone(a)[1].what = a
  BY DEF Alone, Sentence
<1>2. \A what : Says(Alone(a), what) <=> what = a
  BY <1>1 DEF Says
<1>3. \A what : what # a => Stated(Alone(a), what) = {}
  BY <1>1 DEF Stated
<1>4. \A what : what # a => Longest(Alone(a), what) = 0
  BY <1>2 DEF Longest
<1>5. \A whats : SaysAny(Alone(a), whats) <=> a \in whats
  BY <1>2 DEF SaysAny
<1>6. \A what, others : FirstIs(Alone(a), what, others) => what = a
  BY <1>1 DEF FirstIs
<1> QED BY <1>2, <1>3, <1>4, <1>5, <1>6

(* One grave outcome among several makes the whole grave.                *)
LEMMA GraveAmong ==
    ASSUME NEW T, T \subseteq Tiers, "deviates" \in T
    PROVE  MostSerious(T) \in Grave
<1>1. MostSerious(T) \in T /\ TierRank("deviates") <= TierRank(MostSerious(T))
  BY MostSeriousIs
<1>2. MostSerious(T) \in Tiers /\ TierRank(MostSerious(T)) >= 3
  BY <1>1, TiersRanked
<1> QED BY <1>2, TiersRanked DEF Grave

(* A check that finds fault with a sentence by itself does so with it in any text. *)
LEMMA CampusAlarms ==
    ASSUME NEW a \in Alarms, NEW text, Says(text, a), NEW th, NEW type \in CampusTypes \ {"LicenseScope"},
           CampusCheck(type, Alone(a), th) \in Grave
    PROVE  CampusCheck(type, text, th) \in Grave
<1>a. /\ \A what : Says(Alone(a), what) <=> what = a
      /\ \A what : what # a => Stated(Alone(a), what) = {} /\ Longest(Alone(a), what) = 0
      /\ \A whats : SaysAny(Alone(a), whats) <=> a \in whats
      /\ \A what, others : FirstIs(Alone(a), what, others) => what = a
  BY AloneReads
<1>t. YearsTier(text, th) \subseteq Tiers
  BY PeriodsTiers
<1>y. YearsTier(Alone(a), th) # {} => a = "perpetual"
  BY <1>a DEF YearsTier, Alarms
<1>p. a = "perpetual" => "deviates" \in YearsTier(text, th)
  BY DEF YearsTier
<1>1. CheckPublication(Alone(a), th) \in Grave => CheckPublication(text, th) \in Grave
  <2>1. CASE a = "needs approval"
    BY <2>1 DEF CheckPublication, Grave
  <2>2. CASE a # "needs approval"
    <3>1. ~ Says(Alone(a), "needs approval") /\ Longest(Alone(a), "review days") = 0 /\ Longest(Alone(a),
       "delay days") = 0
      BY <1>a, <2>2 DEF Alarms
    <3>2. Longest(Alone(a), "review days") + Longest(Alone(a), "delay days") = 0
      <4>1. \A n \in {0}, m \in {0} : n + m = 0
        OBVIOUS
      <4>2. Longest(Alone(a), "review days") \in {0} /\ Longest(Alone(a), "delay days") \in {0}
        BY <3>1
      <4> QED BY <4>1, <4>2, Zenon
    <3>3. CheckPublication(Alone(a), th) = IF Says(Alone(a), "free to publish") THEN "within" ELSE "review"
      <4>1. PICK total : total = Longest(Alone(a), "review days") + Longest(Alone(a), "delay days")
        OBVIOUS
      <4>2. total = 0
        BY <3>2, <4>1
      <4>3. CheckPublication(Alone(a), th)
            = CASE Says(Alone(a), "needs approval") -> "unacceptable"
                [] ~Says(Alone(a), "needs approval") /\ total = 0 ->
                      IF Says(Alone(a), "free to publish") THEN "within" ELSE "review"
                [] OTHER -> AtMost(total, th)
        BY <4>1 DEF CheckPublication
      <4> QED BY <3>1, <4>2, <4>3
    <3> QED BY <3>3 DEF Grave
  <2> QED BY <2>1, <2>2
<1>2. CheckBackgroundIp(Alone(a)) \in Grave => CheckBackgroundIp(text) \in Grave
  <2>1. CASE a = "royalty-free exclusive"
    BY <2>1 DEF CheckBackgroundIp, Grave
  <2>2. CASE a # "royalty-free exclusive"
    <3>1. ~ FirstIs(Alone(a), "we assign", {"we do not assign"}) /\ ~ Says(Alone(a), "royalty-free exclusive")
      BY <1>a, <2>2 DEF Alarms
    <3> QED BY <3>1 DEF CheckBackgroundIp, Grave
  <2> QED BY <2>1, <2>2
<1>3. CheckRoyalties(Alone(a), th) \notin Grave
  <2>1. Stated(Alone(a), "royalty") = {} /\ Stated(Alone(a), "sublicense share") = {}
    BY <1>a DEF Alarms
  <2> QED BY <2>1 DEF CheckRoyalties, Grave
<1>4. CheckIndemnity(Alone(a)) \in Grave => CheckIndemnity(text) \in Grave
  BY <1>a DEF CheckIndemnity, Grave
<1>5. CheckGoverningLaw(Alone(a), th) \in Grave => CheckGoverningLaw(text, th) \in Grave
  <2>1. CASE a = "immunity waived"
    BY <2>1 DEF CheckGoverningLaw, Grave
  <2>2. CASE a # "immunity waived"
    <3>1. /\ ~ Says(Alone(a), "immunity waived") /\ ~ Says(Alone(a), "home law") /\ ~ Says(Alone(a), "other law")
          /\ ~ Says(Alone(a), "home court") /\ ~ Says(Alone(a), "other court")
      BY <1>a, <2>2 DEF Alarms
    <3>2. /\ {s \in {"home", "other"} : Says(Alone(a), IF s = "home" THEN "home law" ELSE "other law")} = {}
          /\ {s \in {"home", "other"} : Says(Alone(a), IF s = "home" THEN "home court" ELSE "other court")} = {}
      BY <3>1
    <3>3. CheckGoverningLaw(Alone(a), th) \in {"review", "fallback"}
      BY <3>1, <3>2 DEF CheckGoverningLaw
    <3> QED BY <3>3 DEF Grave
  <2> QED BY <2>1, <2>2
<1>6. CheckExportControl(Alone(a)) \in Grave => CheckExportControl(text) \in Grave
  BY <1>a DEF CheckExportControl, Grave
<1>7. CheckConfidentiality(Alone(a), th) \in Grave => CheckConfidentiality(text, th) \in Grave
  <2>1. CASE a = "perpetual"
    <3>1. YearsTier(text, th) # {} /\ MostSerious(YearsTier(text, th)) \in Grave
      BY <1>t, <1>p, <2>1, GraveAmong
    <3> QED BY <3>1 DEF CheckConfidentiality
  <2>2. CASE a # "perpetual"
    <3>1. CheckConfidentiality(Alone(a), th) = MostSerious({"review"})
      BY <1>y, <2>2 DEF CheckConfidentiality
    <3>2. MostSerious({"review"}) = "review"
      BY MostSeriousIs DEF Tiers
    <3> QED BY <3>1, <3>2 DEF Grave
  <2> QED BY <2>1, <2>2
<1>8. CheckDataRights(Alone(a), th) \in Grave => CheckDataRights(text, th) \in Grave
  <2>1. CASE a \in {"perpetual", "they own data"}
    <3>1. PICK T : T = YearsTier(text, th)
                   \cup {"within" : x \in {w \in {"name with consent", "we keep data"} : Says(text, w)}}
                   \cup {"deviates" : x \in {w \in {"name freely", "they own data"} : Says(text, w)}}
      OBVIOUS
    <3>2. T \subseteq Tiers
      BY <1>t, <3>1 DEF Tiers
    <3>3. "deviates" \in T
      <4>1. CASE a = "perpetual"
        BY <1>p, <3>1, <4>1
      <4>2. CASE a = "they own data"
        <5>1. "they own data" \in {w \in {"name freely", "they own data"} : Says(text, w)}
          BY <4>2
        <5> QED BY <3>1, <5>1
      <4> QED BY <2>1, <4>1, <4>2
    <3>4. MostSerious(T) \in Grave /\ T # {}
      BY <3>2, <3>3, GraveAmong
    <3> QED BY <3>1, <3>4 DEF CheckDataRights
  <2>2. CASE a \notin {"perpetual", "they own data"}
    <3>1. /\ YearsTier(Alone(a), th) = {}
          /\ {w \in {"name with consent", "we keep data"} : Says(Alone(a), w)} = {}
          /\ {w \in {"name freely", "they own data"} : Says(Alone(a), w)} = {}
      BY <1>a, <1>y, <2>2 DEF Alarms
    <3>2. CheckDataRights(Alone(a), th) = "review"
      BY <3>1 DEF CheckDataRights
    <3> QED BY <3>2 DEF Grave
  <2> QED BY <2>1, <2>2
<1>9. CheckSponsorReporting(Alone(a), th) \notin Grave
  <2>1. Stated(Alone(a), "reports a year") = {} /\ ~ Says(Alone(a), "prime terms")
    BY <1>a DEF Alarms
  <2>2. CheckSponsorReporting(Alone(a), th) = "review"
    BY <2>1 DEF CheckSponsorReporting
  <2> QED BY <2>2 DEF Grave
<1>10. CheckDiligence(Alone(a)) \notin Grave
  <2>1. ~ Says(Alone(a), "milestone") /\ ~ Says(Alone(a), "terminate on failure") /\ ~ Says(Alone(a), "efforts")
    BY <1>a DEF Alarms
  <2> QED BY <2>1 DEF CheckDiligence, Grave
<1>11. CheckTerm(Alone(a), th) \notin Grave /\ CheckPayment(Alone(a), th) \notin Grave
  <2>1. ~ Says(Alone(a), "months") /\ ~ Says(Alone(a), "due in days") /\ ~ Says(Alone(a), "due on receipt")
    BY <1>a DEF Alarms
  <2> QED BY <2>1 DEF CheckTerm, CheckPayment, Grave
<1>12. CheckWarranty(Alone(a)) \notin Grave
  <2>1. ~ FirstIs(Alone(a), "we warrant", {"we do not warrant"})
    BY <1>a DEF Alarms
  <2> QED BY <2>1 DEF CheckWarranty, Grave
<1>13. CheckLiability(Alone(a)) \in Grave => CheckLiability(text) \in Grave
  BY <1>a DEF CheckLiability, Grave
<1>14. CheckInsurance(Alone(a)) \notin Grave /\ CheckTermination(Alone(a)) \notin Grave
  BY DEF CheckInsurance, CheckTermination, Grave
<1>15. CheckUseOfName(Alone(a)) \notin Grave
  <2>1. ~ Says(Alone(a), "name freely")
    BY <1>a DEF Alarms
  <2> QED BY <2>1 DEF CheckUseOfName, Grave
<1> QED BY <1>1, <1>2, <1>3, <1>4, <1>5, <1>6, <1>7, <1>8, <1>9, <1>10, <1>11, <1>12, <1>13, <1>14, <1>15
        DEF CampusCheck, CampusTypes

LEMMA SoftwareAlarms ==
    ASSUME NEW a \in Alarms, NEW text, Says(text, a), NEW th, NEW type \in SoftwareTypes,
           type = "Indemnity" => a = "we indemnify" /\ ~ Says(text, "as law permits"),
           SoftwareCheck(type, Alone(a), th) \in Grave
    PROVE  SoftwareCheck(type, text, th) \in Grave
<1>a. /\ \A what : Says(Alone(a), what) <=> what = a
      /\ \A what : what # a => Stated(Alone(a), what) = {} /\ Longest(Alone(a), what) = 0
      /\ \A whats : SaysAny(Alone(a), whats) <=> a \in whats
      /\ \A what, others : FirstIs(Alone(a), what, others) => what = a
  BY AloneReads
<1>1. CheckScope(Alone(a)) \in Grave => CheckScope(text) \in Grave
  BY <1>a DEF CheckScope, Grave
<1>2. CheckFees(Alone(a), th) \in Grave => CheckFees(text, th) \in Grave
  <2>1. CASE a = "price at will"
    BY <2>1 DEF CheckFees, Grave
  <2>2. CASE a # "price at will"
    <3>1. ~ Says(Alone(a), "price at will") /\ ~ Says(Alone(a), "price increase")
      BY <1>a, <2>2 DEF Alarms
    <3> QED BY <3>1 DEF CheckFees, Grave
  <2> QED BY <2>1, <2>2
<1>3. CheckRenewal(Alone(a), th) \notin Grave
  <2>1. ~ SaysAny(Alone(a), {"renews by itself", "successive terms", "evergreen"})
    BY <1>a DEF Alarms
  <2> QED BY <2>1 DEF CheckRenewal, Grave
<1>4. CheckAudit(Alone(a), th) \in Grave => CheckAudit(text, th) \in Grave
  <2>1. CASE a = "audit at any time"
    <3>1. SaysAny(text, {"audit", "audit at any time", "we pay the audit", "audit days"})
      BY <2>1 DEF SaysAny
    <3> QED BY <2>1, <3>1 DEF CheckAudit, Grave
  <2>2. CASE a # "audit at any time"
    <3>1. ~ SaysAny(Alone(a), {"audit", "audit at any time", "we pay the audit", "audit days"})
      BY <1>a, <2>2 DEF Alarms
    <3> QED BY <3>1 DEF CheckAudit, Grave
  <2> QED BY <2>1, <2>2
<1>5. CheckSla(Alone(a), th) \notin Grave
  <2>1. ~ Says(Alone(a), "uptime") /\ ~ Says(Alone(a), "as available")
    BY <1>a DEF Alarms
  <2> QED BY <2>1 DEF CheckSla, Grave
<1>6. CheckVendorWarranty(Alone(a)) \notin Grave
  <2>1. ~ Says(Alone(a), "as is")
    BY <1>a DEF Alarms
  <2> QED BY <2>1 DEF CheckVendorWarranty, Grave
<1>7. a = "we indemnify" /\ ~ Says(text, "as law permits") => CheckVendorIndemnity(text) \in Grave
  BY DEF CheckVendorIndemnity, Grave
<1>8. CheckVendorLiability(Alone(a)) \in Grave => CheckVendorLiability(text) \in Grave
  <2>1. CASE a = "ours unlimited"
    BY <2>1 DEF CheckVendorLiability, Grave
  <2>2. CASE a # "ours unlimited"
    <3>1. ~ Says(Alone(a), "ours unlimited") /\ ~ Says(Alone(a), "vendor excludes all")
      BY <1>a, <2>2 DEF Alarms
    <3> QED BY <3>1 DEF CheckVendorLiability, Grave
  <2> QED BY <2>1, <2>2
<1>9. CheckData(Alone(a), th) \in Grave => CheckData(text, th) \in Grave
  <2>1. CASE a = "vendor uses our data"
    BY <2>1 DEF CheckData, Grave
  <2>2. CASE a # "vendor uses our data"
    <3>1. ~ Says(Alone(a), "vendor uses our data") /\ ~ Says(Alone(a), "breach hours")
      BY <1>a, <2>2 DEF Alarms
    <3> QED BY <3>1 DEF CheckData, Grave
  <2> QED BY <2>1, <2>2
<1>10. \A best, weaker : Attested(Alone(a), best, weaker) \notin Grave
  BY DEF Attested, Grave
<1>11. /\ CheckSecurity(Alone(a)) \notin Grave /\ CheckAccessibility(Alone(a)) \notin Grave
       /\ CheckVendorTermination(Alone(a)) \notin Grave /\ CheckVendorInsurance(Alone(a)) \notin Grave
  BY <1>10 DEF CheckSecurity, CheckAccessibility, CheckVendorTermination, CheckVendorInsurance
<1>12. CheckEscrow(Alone(a)) \notin Grave /\ CheckAssignment(Alone(a)) \notin Grave
  <2>1. ~ Says(Alone(a), "vendor may assign")
    BY <1>a DEF Alarms
  <2> QED BY <2>1 DEF CheckEscrow, CheckAssignment, Grave
<1>13. CASE type \in {"GoverningLaw", "ExportControl"}
  <2>1. \A t : SoftwareCheck(type, t, th) = CampusCheck(type, t, th)
    BY <1>13 DEF SoftwareCheck, CampusCheck
  <2>2. type \in CampusTypes \ {"LicenseScope"}
    BY <1>13 DEF CampusTypes
  <2>3. CampusCheck(type, Alone(a), th) \in Grave
    BY <2>1
  <2>4. CampusCheck(type, text, th) \in Grave
    BY <2>2, <2>3, CampusAlarms
  <2> QED BY <2>1, <2>4
<1>14. CASE type = "Indemnity"
  BY <1>7, <1>14 DEF SoftwareCheck
<1>15. CASE type \notin {"GoverningLaw", "ExportControl", "Indemnity"}
  BY <1>1, <1>2, <1>3, <1>4, <1>5, <1>6, <1>8, <1>9, <1>11, <1>12, <1>15 DEF SoftwareCheck, SoftwareTypes
<1> QED BY <1>13, <1>14, <1>15

LEMMA WorkforceAlarms ==
    ASSUME NEW a \in Alarms, NEW text, Says(text, a), NEW th, NEW type \in WorkforceTypes,
           type = "Indemnity" => a = "we indemnify" /\ ~ Says(text, "as law permits"),
           WorkforceCheck(type, Alone(a), th) \in Grave
    PROVE  WorkforceCheck(type, text, th) \in Grave
<1>a. /\ \A what : Says(Alone(a), what) <=> what = a
      /\ \A whats : SaysAny(Alone(a), whats) <=> a \in whats
  BY AloneReads
<1>1. CheckRates(Alone(a), th) \in Grave => CheckRates(text, th) \in Grave
  <2>1. CASE a = "rates at will"
    BY <2>1 DEF CheckRates, Grave
  <2>2. CASE a # "rates at will"
    <3>1. ~ Says(Alone(a), "rates at will") /\ ~ Says(Alone(a), "rate increase")
      BY <1>a, <2>2 DEF Alarms
    <3> QED BY <3>1 DEF CheckRates, Grave
  <2> QED BY <2>1, <2>2
<1>2. CheckPayment(Alone(a), th) \notin Grave
  <2>1. ~ Says(Alone(a), "due in days") /\ ~ Says(Alone(a), "due on receipt")
    BY <1>a DEF Alarms
  <2> QED BY <2>1 DEF CheckPayment, Grave
<1>3. CheckHoursCap(Alone(a)) \notin Grave
  <2>1. ~ Says(Alone(a), "unlimited hours")
    BY <1>a DEF Alarms
  <2> QED BY <2>1 DEF CheckHoursCap, Grave
<1>4. CheckOvertime(Alone(a), th) \notin Grave
  <2>1. ~ SaysAny(Alone(a), {"overtime", "overtime multiple"})
    BY <1>a DEF Alarms
  <2> QED BY <2>1 DEF CheckOvertime, Grave
<1>5. CheckWorkForHire(Alone(a)) \in Grave => CheckWorkForHire(text) \in Grave
  BY <1>a DEF CheckWorkForHire, Grave
<1>6. CheckCoEmployment(Alone(a)) \in Grave => CheckCoEmployment(text) \in Grave
  BY <1>a DEF CheckCoEmployment, Grave
<1>7. CheckExpenses(Alone(a), th) \notin Grave
  <2>1. /\ ~ SaysAny(Alone(a), {"expenses capped", "expense cap"}) /\ ~ Says(Alone(a), "travel policy")
        /\ ~ Says(Alone(a), "all expenses") /\ ~ Says(Alone(a), "expenses")
    BY <1>a DEF Alarms
  <2> QED BY <2>1 DEF CheckExpenses, Grave
<1>8. CheckTermination(Alone(a)) \notin Grave
  BY DEF CheckTermination, Grave
<1>9. CASE type \in OwnTypes
  BY <1>1, <1>2, <1>3, <1>4, <1>5, <1>6, <1>7, <1>8, <1>9 DEF WorkforceCheck, OwnTypes
<1>10. CASE type \notin OwnTypes
  <2>1. \A t : WorkforceCheck(type, t, th) = SoftwareCheck(type, t, th)
    BY <1>10 DEF WorkforceCheck, OwnTypes
  <2>2. type \in SoftwareTypes
    BY <1>10 DEF WorkforceTypes
  <2>3. SoftwareCheck(type, Alone(a), th) \in Grave
    BY <2>1
  <2>4. SoftwareCheck(type, text, th) \in Grave
    BY <2>2, <2>3, SoftwareAlarms
  <2> QED BY <2>1, <2>4
<1> QED BY <1>9, <1>10

Severe == {"moderate", "material"}

LEMMA PlaybookAlarms ==
    ASSUME NEW a \in Alarms, NEW text, Says(text, a), NEW limit, NEW type \in PlaybookTypes,
           PlaybookCheck(type, Alone(a), limit) \in Severe
    PROVE  PlaybookCheck(type, text, limit) \in Severe
<1>a. /\ \A what : Says(Alone(a), what) <=> what = a
      /\ \A whats : SaysAny(Alone(a), whats) <=> a \in whats
  BY AloneReads
<1> USE DEF OkUnless, Severe
<1>1. PlaybookLiability(Alone(a), limit) \in Severe => PlaybookLiability(text, limit) \in Severe
  <2>1. CASE a = "uncapped"
    BY <2>1 DEF PlaybookLiability
  <2>2. CASE a # "uncapped"
    <3>1. ~ Says(Alone(a), "uncapped") /\ ~ Says(Alone(a), "cap times fees") /\ ~ Says(Alone(a),
       "fees paid in months")
      BY <1>a, <2>2 DEF Alarms
    <3> QED BY <3>1 DEF PlaybookLiability
  <2> QED BY <2>1, <2>2
<1>2. PlaybookIndemnity(Alone(a)) \notin Severe
  <2>1. ~ Says(Alone(a), "indemnify")
    BY <1>a DEF Alarms
  <2> QED BY <2>1 DEF PlaybookIndemnity
<1>3. PlaybookPayment(Alone(a), limit) \notin Severe
  <2>1. /\ ~ Says(Alone(a), "net days") /\ ~ Says(Alone(a), "due in days") /\ ~ Says(Alone(a), "due on receipt")
        /\ ~ SaysAny(Alone(a), {"net days", "due in days"})
    BY <1>a DEF Alarms
  <2>2. NetDays(Alone(a)) = {}
    BY <2>1 DEF NetDays
  <2> QED BY <2>2 DEF PlaybookPayment
<1>4. ~ Escalates(Alone(a), limit)
  <2>1. ~ Says(Alone(a), "increases by")
    BY <1>a DEF Alarms
  <2> QED BY <2>1 DEF Escalates
<1>5. PlaybookFees(Alone(a), limit) \notin Severe /\ PlaybookRoyalties(Alone(a), limit) \notin Severe
  BY <1>4 DEF PlaybookFees, PlaybookRoyalties
<1>6. PlaybookTermination(Alone(a), limit) \notin Severe
  <2>1. ~ Says(Alone(a), "convenience days")
    BY <1>a DEF Alarms
  <2> QED BY <2>1 DEF PlaybookTermination
<1>7. PlaybookAutoRenewal(Alone(a), limit) \notin Severe
  <2>1. ~ Says(Alone(a), "renews by itself")
    BY <1>a DEF Alarms
  <2> QED BY <2>1 DEF PlaybookAutoRenewal
<1>8. PlaybookConfidentiality(Alone(a), limit) \notin Severe
  <2>1. ~ Says(Alone(a), "survives years")
    BY <1>a DEF Alarms
  <2> QED BY <2>1 DEF PlaybookConfidentiality
<1>9. PlaybookIp(Alone(a)) \notin Severe
  <2>1. ~ Says(Alone(a), "assigns all")
    BY <1>a DEF Alarms
  <2> QED BY <2>1 DEF PlaybookIp
<1>10. PlaybookDataProtection(Alone(a)) \notin Severe /\ PlaybookRetention(Alone(a)) \notin Severe
  BY DEF PlaybookDataProtection, PlaybookRetention
<1>11. PlaybookBreach(Alone(a), limit) \notin Severe
  <2>1. ~ Says(Alone(a), "hours") /\ ~ Says(Alone(a), "breach in days")
    BY <1>a DEF Alarms
  <2> QED BY <2>1 DEF PlaybookBreach
<1>12. PlaybookAudit(Alone(a), limit) \in Severe => PlaybookAudit(text, limit) \in Severe
  <2>1. CASE a = "audit at any time"
    <3>1. SaysAny(text, {"audit", "audit at any time", "audit days"})
      BY <2>1 DEF SaysAny
    <3> QED BY <2>1, <3>1 DEF PlaybookAudit
  <2>2. CASE a # "audit at any time"
    <3>1. ~ SaysAny(Alone(a), {"audit", "audit at any time", "audit days"})
      BY <1>a, <2>2 DEF Alarms
    <3> QED BY <3>1 DEF PlaybookAudit
  <2> QED BY <2>1, <2>2
<1>13. PlaybookGrant(Alone(a)) \in Severe => PlaybookGrant(text) \in Severe
  <2>1. CASE a = "revocable"
    <3>1. SaysAny(text, {"grant", "exclusive", "non-exclusive", "revocable"})
      BY <2>1 DEF SaysAny
    <3> QED BY <2>1, <3>1 DEF PlaybookGrant
  <2>2. CASE a # "revocable"
    <3>1. ~ SaysAny(Alone(a), {"grant", "exclusive", "non-exclusive", "revocable"})
      BY <1>a, <2>2 DEF Alarms
    <3> QED BY <3>1 DEF PlaybookGrant
  <2> QED BY <2>1, <2>2
<1>14. PlaybookScope(Alone(a)) \notin Severe
  BY DEF PlaybookScope
<1>15. PlaybookRestrictions(Alone(a)) \in Severe => PlaybookRestrictions(text) \in Severe
  <2>1. CASE a = "suspend at discretion"
    BY <2>1 DEF PlaybookRestrictions
  <2>2. CASE a # "suspend at discretion"
    <3>1. ~ Says(Alone(a), "suspend at discretion") /\ ~ Says(Alone(a), "discretion")
      BY <1>a, <2>2 DEF Alarms
    <3> QED BY <3>1 DEF PlaybookRestrictions
  <2> QED BY <2>1, <2>2
<1>16. PlaybookSublicensing(Alone(a)) \notin Severe /\ PlaybookResidency(Alone(a)) \notin Severe
  BY DEF PlaybookSublicensing, PlaybookResidency
<1>17. PlaybookOpenSource(Alone(a)) \notin Severe
  <2>1. ~ Says(Alone(a), "copyleft")
    BY <1>a DEF Alarms
  <2> QED BY <2>1 DEF PlaybookOpenSource
<1>18. PlaybookSubprocessors(Alone(a)) \notin Severe
  BY DEF PlaybookSubprocessors
<1> HIDE DEF OkUnless, Severe
<1> QED BY <1>1, <1>2, <1>3, <1>5, <1>6, <1>7, <1>8, <1>9, <1>10, <1>11, <1>12, <1>13, <1>14, <1>15, <1>16,
   <1>17, <1>18
        DEF PlaybookCheck, PlaybookTypes

(* The same of the check of any kind of agreement.                       *)
LEMMA MatrixAlarms ==
    ASSUME NEW a \in Alarms, NEW text, Says(text, a), NEW b \in MatrixBooks, NEW type \in TypesOf(b),
           b = "campus" => type # "LicenseScope",
           b # "campus" /\ type = "Indemnity" => a = "we indemnify" /\ ~ Says(text, "as law permits"),
           Check(b, type, Alone(a)) \in Grave
    PROVE  Check(b, type, text) \in Grave
<1>1. PICK th : th = Limits(b, type)
  OBVIOUS
<1>2. CASE b = "campus"
  <2>1. type \in CampusTypes \ {"LicenseScope"} /\ \A t : Check(b, type, t) = CampusCheck(type, t, th)
    BY <1>1, <1>2 DEF TypesOf, Check
  <2> QED BY <2>1, CampusAlarms
<1>3. CASE b = "software"
  <2>1. type \in SoftwareTypes /\ \A t : Check(b, type, t) = SoftwareCheck(type, t, th)
    BY <1>1, <1>3 DEF TypesOf, Check
  <2> QED BY <1>3, <2>1, SoftwareAlarms
<1>4. CASE b = "services"
  <2>1. type \in WorkforceTypes /\ \A t : Check(b, type, t) = WorkforceCheck(type, t, th)
    BY <1>1, <1>4 DEF TypesOf, Check
  <2> QED BY <1>4, <2>1, WorkforceAlarms
<1> QED BY <1>2, <1>3, <1>4 DEF MatrixBooks

(* What sounds alone sounds in any text of the clause.                     *)
LEMMA AlarmHeard ==
    ASSUME NEW b \in Books, NEW type \in TypesOf(b) \cup {OwnType}, NEW own, NEW text,
           NEW a \in Hears(b, type), Says(text, a), ~ TakenBack(b, type, text)
    PROVE  Seriousness(b, Grade(b, type, own, text)) >= Alarmed(b)
<1>1. /\ a \in Alarms /\ Sentence(a, 0) \in Vocabulary(b, type)
      /\ Seriousness(b, Grade(b, type, {}, Alone(a))) >= Alarmed(b)
  BY DEF Hears, Alone
<1>2. CASE type = OwnType
  <2>1. type \notin TypesOf(b)
    BY <1>2, OwnIsNoType
  <2>2. CASE b = "playbook"
    <3>1. Grade(b, type, {}, Alone(a)) = "review"
      BY <2>1, <2>2 DEF Grade, PlaybookGrade, TypesOf
    <3> QED BY <1>1, <2>2, <3>1, StatusesRanked DEF Seriousness, Alarmed
  <2>3. CASE b # "playbook"
    <3>1. Grade(b, type, {}, Alone(a)) = "review"
      BY <2>1, <2>3 DEF Grade, MatrixGrade, PhraseHit
    <3> QED BY <1>1, <2>3, <3>1, TiersRanked DEF Seriousness, Alarmed
  <2> QED BY <2>2, <2>3
<1>3. CASE type # OwnType
  <2>1. type \in TypesOf(b)
    BY <1>3
  <2>2. Seriousness(b, Grade(b, type, own, text)) >= Seriousness(b, Grade(b, type, {}, text))
    BY <2>1, ListsDoAdd
  <2>3. CASE b = "playbook"
    <3>1. type \in PlaybookTypes /\ \A t : Grade(b, type, {}, t) = PlaybookCheck(type, t, Limits("playbook", type).ok)
      BY <2>1, <2>3 DEF Grade, PlaybookGrade, TypesOf, PhraseHit
    <3>2. PICK limit : limit = Limits("playbook", type).ok
      OBVIOUS
    <3>3. PlaybookCheck(type, Alone(a), limit) \in PlaybookStatuses /\ PlaybookCheck(type, text, limit) \in PlaybookStatuses
      BY <3>1, PlaybookGivesStatuses
    <3>4. StatusRank(PlaybookCheck(type, Alone(a), limit)) >= 3
      BY <1>1, <2>3, <3>1, <3>2, StatusesRanked DEF Seriousness, Alarmed
    <3>5. PlaybookCheck(type, Alone(a), limit) \in Severe
      BY <3>3, <3>4, StatusesRanked DEF PlaybookStatuses, Severe
    <3>6. PlaybookCheck(type, text, limit) \in Severe
      BY <1>1, <3>1, <3>5, PlaybookAlarms
    <3>7. StatusRank(PlaybookCheck(type, text, limit)) >= StatusRank("moderate")
      BY <3>6, StatusesRanked DEF Severe
    <3>8. Seriousness(b, Grade(b, type, {}, text)) >= Alarmed(b) /\ StatusRank(PlaybookCheck(type, text, limit)) \in 0 .. 4
      BY <2>3, <3>1, <3>2, <3>3, <3>7, StatusesRanked DEF Seriousness, Alarmed
    <3>9. /\ Seriousness(b, Grade(b, type, {}, text)) \in 0 .. 4 /\ Alarmed(b) = 3
          /\ Seriousness(b, Grade(b, type, own, text)) \in 0 .. 4
      <4>1. Grade(b, type, own, text) \in {PlaybookCheck(type, text, limit), Worse("moderate", PlaybookCheck(type, text, limit))}
        BY <2>3, <3>1, <3>2 DEF Grade, PlaybookGrade
      <4>2. "moderate" \in PlaybookStatuses
        BY DEF PlaybookStatuses
      <4>3. Grade(b, type, own, text) \in PlaybookStatuses
        BY <3>3, <4>1, <4>2, WorseIs
      <4> QED BY <2>3, <3>1, <3>2, <3>3, <4>3, StatusesRanked DEF Seriousness, Alarmed
    <3> QED BY <2>2, <3>8, <3>9
  <2>4. CASE b # "playbook"
    <3>0. b \in MatrixBooks
      BY <2>4 DEF Books, MatrixBooks
    <3>1. \A t : Grade(b, type, {}, t) = Check(b, type, t)
      BY <2>1, <2>4 DEF Grade, MatrixGrade, PhraseHit
    <3>2. Check(b, type, Alone(a)) \in Tiers /\ Check(b, type, text) \in Tiers
      BY <2>1, <3>0, ChecksGiveTiers
    <3>3. TierRank(Check(b, type, Alone(a))) >= 3
      BY <1>1, <2>4, <3>1, TiersRanked DEF Seriousness, Alarmed
    <3>4. Check(b, type, Alone(a)) \in Grave
      BY <3>2, <3>3, TiersRanked DEF Grave
    <3>5. b = "campus" => type # "LicenseScope"
      BY <1>1, VocabularyAssumption
    <3>6. b # "campus" /\ type = "Indemnity" => a = "we indemnify" /\ ~ Says(text, "as law permits")
      <4> SUFFICES ASSUME b # "campus", type = "Indemnity" PROVE a = "we indemnify" /\ ~ Says(text, "as law permits")
        OBVIOUS
      <4>1. a = "we indemnify"
        BY <1>1, <3>0, VocabularyAssumption DEF MatrixBooks
      <4>2. ~ Says(text, "as law permits")
        BY DEF TakenBack, SaysAny
      <4> QED BY <4>1, <4>2
    <3>7. Check(b, type, text) \in Grave
      BY <1>1, <2>1, <3>0, <3>4, <3>5, <3>6, MatrixAlarms
    <3>8. TierRank(Check(b, type, text)) \in {3, 4} /\ Alarmed(b) = 3
      BY <2>4, <3>7, TiersRanked DEF Grave, Alarmed
    <3>9. Grade(b, type, own, text) \in Tiers
      BY <2>4, <3>0, MatrixGivesTiers DEF Grade
    <3>10. Seriousness(b, Grade(b, type, own, text)) \in 0 .. 4
      BY <2>4, <3>9, TiersRanked DEF Seriousness
    <3> QED BY <2>2, <2>4, <3>1, <3>8, <3>10 DEF Seriousness
  <2> QED BY <2>3, <2>4
<1> QED BY <1>2, <1>3

(***************************************************************************)
(* A clause as it is written.                                              *)
(***************************************************************************)

GradesInv ==
    /\ book \in Books /\ kind \in TypesOf(book) \cup {OwnType}
    /\ clause \in Seq(Vocabulary(book, kind) \cup OwnPhrases)

LEMMA GradesStart == ClausesInit => GradesInv
BY DEF ClausesInit, GradesInv

LEMMA GradesStep == GradesInv /\ [ClausesNext]_clauseVars => GradesInv'
<1> SUFFICES ASSUME GradesInv, [ClausesNext]_clauseVars PROVE GradesInv'
  OBVIOUS
<1>1. CASE UNCHANGED clauseVars
  BY <1>1 DEF GradesInv, clauseVars
<1>2. CASE ClausesNext
  <2>1. PICK sentence \in Vocabulary(book, kind) \cup OwnPhrases : clause' = Append(clause, sentence)
    BY <1>2 DEF ClausesNext, Write
  <2>2. UNCHANGED <<book, kind>>
    BY <1>2 DEF ClausesNext, Write
  <2> QED BY <2>1, <2>2 DEF GradesInv
<1> QED BY <1>1, <1>2

(* What is promised of the grades follows.                               *)
LEMMA GradesGive == GradesInv => GradesHold
<1> SUFFICES ASSUME GradesInv PROVE GradesHold
  OBVIOUS
<1>0. book \in Books /\ kind \in TypesOf(book) \cup {OwnType}
  BY DEF GradesInv
<1>1. AlarmsAreHeard
  BY <1>0, AlarmHeard DEF AlarmsAreHeard
<1>2. OrderIsNothing
  <2> SUFFICES ASSUME ~ FirstPlaceOnly(book, kind)
               PROVE  Grade(book, kind, lists, clause) = Grade(book, kind, lists, Reverse(clause))
    BY DEF OrderIsNothing
  <2>1. Alike(clause, Reverse(clause))
    BY ReversedIsAlike DEF GradesInv
  <2> QED BY <1>0, <2>1, GradesOrder
<1>3. ListsOnlyAdd
  BY <1>0, ListsDoAdd DEF ListsOnlyAdd
<1> QED BY <1>1, <1>2, <1>3 DEF GradesHold

(***************************************************************************)
(* Clauses of one type are read as one text.                               *)
(***************************************************************************)

(* Texts one after another say what each of them says.                     *)
LEMMA FlatIs ==
    ASSUME NEW D, NEW K \in Nat \ {0}, NEW q \in [1 .. K -> Seq(D)]
    PROVE  /\ FlattenSeq(q) \in Seq(D)
           /\ NamesOf(FlattenSeq(q)) = UNION {NamesOf(q[i]) : i \in 1 .. K}
<1> DEFINE V == Seq(D)
           more(n, v) == v \o q[n + 1]
           step == [p \in (1 .. (K - 1)) \X V |-> more(p[1], p[2])]
<1>0. K - 1 \in Nat /\ q[1] \in V /\ Len(q) = K /\ \A i \in 1 .. K : q[i] \in V
  <2>1. q \in Seq(V) /\ Len(q) = K
    OBVIOUS
  <2> QED BY <2>1
<1>2. ASSUME NEW n \in 1 .. (K - 1), NEW v \in V PROVE more(n, v) \in V
  <2>1. n + 1 \in 1 .. K
    OBVIOUS
  <2>2. q[n + 1] \in Seq(D)
    BY <2>1
  <2> QED BY <2>2, Joined
<1> HIDE DEF V, more
<1>3. step \in Steps(V, K - 1) /\ \A n \in 1 .. (K - 1), v \in V : step[<<n, v>>] = more(n, v)
  BY <1>2 DEF Steps
<1> HIDE DEF step
<1>4. PICK J \in Nat : J = K - 1
  BY <1>0
<1>5. PICK first \in V : first = q[1]
  BY <1>0
<1>6. PICK g \in Runs(V, J) : Unfolds(g, J, first, step)
  BY <1>3, <1>4, Recursion
<1>7. g \in [0 .. J -> V] /\ g[0] = first /\ \A n \in 1 .. J : g[n] = step[<<n, g[n - 1]>>]
  BY <1>6 DEF Runs, Unfolds
<1> DEFINE f == [i \in 1 .. K |-> g[i - 1]]
<1>8. ASSUME NEW i \in 1 .. K PROVE f[i] = IF i = 1 THEN q[i] ELSE f[i - 1] \o q[i]
  <2>1. CASE i = 1
    BY <1>5, <1>7, <2>1
  <2>2. CASE i # 1
    <3>1. i - 1 \in 1 .. J /\ i - 1 \in 1 .. K /\ (i - 1) - 1 \in 0 .. J /\ (i - 1) + 1 = i
      BY <1>4, <2>2
    <3>2. f[i] = g[i - 1] /\ f[i - 1] = g[(i - 1) - 1]
      BY <3>1
    <3>3. PICK n \in 1 .. J : n = i - 1
      BY <3>1
    <3>4. n - 1 \in 0 .. J /\ n \in 1 .. (K - 1)
      BY <1>4
    <3>5. g[n - 1] \in V /\ g[n] = step[<<n, g[n - 1]>>]
      BY <1>7, <3>4
    <3>6. g[n] = g[n - 1] \o q[n + 1]
      BY <1>3, <3>4, <3>5 DEF more
    <3> QED BY <2>2, <3>1, <3>2, <3>3, <3>6
  <2> QED BY <2>1, <2>2
<1>9. f = [i \in 1 .. K |-> IF i = 1 THEN q[i] ELSE f[i - 1] \o q[i]]
  BY <1>8
<1> HIDE DEF f
<1> DEFINE F == CHOOSE h : h = [i \in 1 .. K |-> IF i = 1 THEN q[i] ELSE h[i - 1] \o q[i]]
<1>10. F = [i \in 1 .. K |-> IF i = 1 THEN q[i] ELSE F[i - 1] \o q[i]]
  BY <1>9
<1>11. FlattenSeq(q) = F[K]
  BY <1>0 DEF FlattenSeq
<1> HIDE DEF F
<1>12. F[1] = q[1]
  BY <1>10
<1>13. ASSUME NEW i \in 2 .. K PROVE F[i] = F[i - 1] \o q[i]
  <2>1. i \in 1 .. K /\ i # 1
    OBVIOUS
  <2> QED BY <1>10, <2>1
<1> DEFINE sofar(n) == UNION {NamesOf(q[i]) : i \in 1 .. (n + 1)}
           h == [n \in 0 .. J |-> F[n + 1]]
           Good == {p \in (0 .. J) \X V : NamesOf(p[2]) = sofar(p[1])}
<1>14. \A n, v : <<n, v>> \in Good <=> n \in 0 .. J /\ v \in V /\ NamesOf(v) = sofar(n)
  <2> HIDE DEF sofar
  <2> QED OBVIOUS
<1>15. \A n \in 0 .. J : h[n] = F[n + 1]
  OBVIOUS
<1>16. sofar(0) = NamesOf(q[1])
  <2>1. 1 .. (0 + 1) = {1}
    OBVIOUS
  <2> QED BY <2>1
<1>17. ASSUME NEW n \in 1 .. J PROVE sofar(n) = sofar(n - 1) \cup NamesOf(q[n + 1])
  <2>1. 1 .. (n + 1) = (1 .. ((n - 1) + 1)) \cup {n + 1}
    OBVIOUS
  <2> QED BY <2>1
<1>18. sofar(J) = UNION {NamesOf(q[i]) : i \in 1 .. K}
  <2>1. J + 1 = K
    BY <1>4
  <2>2. 1 .. (J + 1) = 1 .. K
    BY <2>1
  <2> QED BY <2>2
<1> HIDE DEF Good, h, sofar
<1>19. <<0, h[0]>> \in Good
  <2>1. 0 \in 0 .. J /\ 0 + 1 = 1
    OBVIOUS
  <2>2. h[0] = q[1]
    BY <1>12, <1>15, <2>1
  <2>3. h[0] \in V /\ NamesOf(h[0]) = sofar(0)
    BY <1>0, <1>16, <2>2
  <2> QED BY <1>14, <2>1, <2>3
<1>20. ASSUME NEW n \in 1 .. J, <<n - 1, h[n - 1]>> \in Good PROVE <<n, h[n]>> \in Good
  <2>1. n - 1 \in 0 .. J /\ n \in 0 .. J /\ n + 1 \in 2 .. K /\ n + 1 \in 1 .. K /\ (n + 1) - 1 = n /\ (n - 1) + 1 = n
    BY <1>4
  <2>2. h[n] = F[n + 1] /\ h[n - 1] = F[n]
    BY <1>15, <2>1
  <2>3. PICK i \in 2 .. K : i = n + 1
    BY <2>1
  <2>4. h[n] = h[n - 1] \o q[i]
    BY <1>13, <2>1, <2>2, <2>3
  <2>5. PICK s \in Seq(D) : s = h[n - 1] /\ NamesOf(s) = sofar(n - 1)
    BY <1>14, <1>20 DEF V
  <2>6. PICK t \in Seq(D) : t = q[i]
    BY <1>0 DEF V
  <2>7. s \o t \in Seq(D) /\ NamesOf(s \o t) = NamesOf(s) \cup NamesOf(t)
    BY NamedConcat
  <2>8. h[n] \in Seq(D) /\ NamesOf(h[n]) = sofar(n)
    BY <1>17, <2>3, <2>4, <2>5, <2>6, <2>7
  <2> QED BY <1>14, <2>1, <2>8 DEF V
<1>21. <<J, h[J]>> \in Good
  BY <1>19, <1>20, LoopKeeps
<1>22. h[J] = F[K]
  BY <1>4, <1>15
<1> QED BY <1>11, <1>14, <1>18, <1>21, <1>22 DEF V

(***************************************************************************)
(* Documents                                                               *)
(***************************************************************************)

SentenceSet == [what : STRING, n : Nat]
ClauseSet == [type : ClauseTypes, titles : SUBSET Titles, body : Passages]

DocumentInv == agreement \in AgreementTypes /\ clauses \in Seq(ClauseSet)

LEMMA DocumentStart == DocumentInit => DocumentInv
BY DEF DocumentInit, DocumentInv

LEMMA DocumentStep == DocumentInv /\ [DocumentNext]_documentVars => DocumentInv'
<1> SUFFICES ASSUME DocumentInv, [DocumentNext]_documentVars PROVE DocumentInv'
  OBVIOUS
<1>1. CASE UNCHANGED documentVars
  BY <1>1 DEF DocumentInv, documentVars
<1>2. CASE DocumentNext
  <2>1. PICK type \in ClauseTypes, titles \in {{}} \cup {{t} : t \in Titles}, body \in Passages :
           clauses' = Append(clauses, [type |-> type, titles |-> titles, body |-> body])
    BY <1>2 DEF DocumentNext, AddClause
  <2>2. [type |-> type, titles |-> titles, body |-> body] \in ClauseSet
    BY DEF ClauseSet
  <2>3. UNCHANGED agreement
    BY <1>2 DEF DocumentNext, AddClause
  <2> QED BY <2>1, <2>2, <2>3 DEF DocumentInv
<1> QED BY <1>1, <1>2

(* The clauses of a document are texts.                                  *)
LEMMA ClausesAre ==
    ASSUME DocumentInv
    PROVE  /\ Len(clauses) \in Nat /\ DOMAIN clauses = 1 .. Len(clauses)
           /\ \A c \in DOMAIN clauses : clauses[c].body \in Seq(SentenceSet)
<1>1. Len(clauses) \in Nat /\ DOMAIN clauses = 1 .. Len(clauses) /\ \A c \in DOMAIN clauses : clauses[c] \in ClauseSet
  BY DEF DocumentInv
<1>2. \A c \in DOMAIN clauses : clauses[c].body \in Passages
  BY <1>1 DEF ClauseSet
<1> QED BY <1>1, <1>2, PassagesAssumption DEF SentenceSet

(* What a text says, by the sentences it names.                          *)
LEMMA SaysIsNamed ==
    ASSUME NEW D, NEW t \in Seq(D), NEW what
    PROVE  Says(t, what) <=> \E s \in NamesOf(t) : s.what = what
<1>1. DOMAIN t = 1 .. Len(t)
  OBVIOUS
<1> QED BY <1>1 DEF Says, NamesOf

(* The body of some clauses says what they say, and nothing else.          *)
LEMMA BodySays ==
    ASSUME DocumentInv, clauses # <<>>, NEW M, M \subseteq DOMAIN clauses
    PROVE  /\ Body(M) \in Seq(SentenceSet)
           /\ \A what : Says(Body(M), what) <=> \E c \in M : Says(clauses[c].body, what)
<1> DEFINE K == Len(clauses)
           part(i) == IF i \in M THEN clauses[i].body ELSE <<>>
<1>1. /\ K \in Nat \ {0} /\ DOMAIN clauses = 1 .. K /\ M \subseteq 1 .. K
      /\ \A c \in 1 .. K : clauses[c].body \in Seq(SentenceSet)
  <2>1. K \in Nat /\ DOMAIN clauses = 1 .. K /\ \A c \in 1 .. K : clauses[c].body \in Seq(SentenceSet)
    BY ClausesAre
  <2>2. K # 0
    BY DEF DocumentInv
  <2> QED BY <2>1, <2>2
<1>2. PICK q : q = [i \in 1 .. K |-> part(i)]
  OBVIOUS
<1>3. Body(M) = FlattenSeq(q)
  BY <1>1, <1>2 DEF Body
<1> HIDE DEF K
<1>4. \A i \in 1 .. K : part(i) \in Seq(SentenceSet)
  BY <1>1
<1>5. q \in [1 .. K -> Seq(SentenceSet)] /\ \A i \in 1 .. K : q[i] = part(i)
  <2> HIDE DEF part
  <2> QED BY <1>2, <1>4
<1>6. FlattenSeq(q) \in Seq(SentenceSet) /\ NamesOf(FlattenSeq(q)) = UNION {NamesOf(q[i]) : i \in 1 .. K}
  BY <1>1, <1>5, FlatIs
<1>7. ASSUME NEW what PROVE Says(Body(M), what) <=> \E c \in M : Says(clauses[c].body, what)
  <2>1. Says(Body(M), what) <=> \E s \in NamesOf(FlattenSeq(q)) : s.what = what
    BY <1>3, <1>6, SaysIsNamed
  <2>2. (\E s \in NamesOf(FlattenSeq(q)) : s.what = what) <=> \E i \in 1 .. K : \E s \in NamesOf(q[i]) : s.what = what
    BY <1>6
  <2>3. \A i \in 1 .. K : (\E s \in NamesOf(q[i]) : s.what = what) <=> i \in M /\ Says(clauses[i].body, what)
    <3> SUFFICES ASSUME NEW i \in 1 .. K
                 PROVE  (\E s \in NamesOf(q[i]) : s.what = what) <=> i \in M /\ Says(clauses[i].body, what)
      OBVIOUS
    <3>1. CASE i \in M
      <4>1. q[i] = clauses[i].body /\ clauses[i].body \in Seq(SentenceSet)
        BY <1>1, <1>5, <3>1
      <4> QED BY <3>1, <4>1, SaysIsNamed
    <3>2. CASE i \notin M
      <4>1. q[i] = <<>>
        BY <1>5, <3>2
      <4>2. NamesOf(q[i]) = {}
        BY <4>1 DEF NamesOf
      <4> QED BY <3>2, <4>2
    <3> QED BY <3>1, <3>2
  <2>4. (\E i \in 1 .. K : i \in M /\ Says(clauses[i].body, what)) <=> \E c \in M : Says(clauses[c].body, what)
    BY <1>1
  <2> QED BY <2>1, <2>2, <2>3, <2>4
<1> QED BY <1>3, <1>6, <1>7

(***************************************************************************)
(* The playbooks name each clause type once.                               *)
(***************************************************************************)

TypesNamed(s) == {s[i].type : i \in DOMAIN s}

NamedOnce(s) == \A i, j \in DOMAIN s : s[i].type = s[j].type => i = j

(* Two lists that name each type once and share none do so together.     *)
LEMMA OnceTogether ==
    ASSUME NEW D, NEW s \in Seq(D), NEW t \in Seq(D), NamedOnce(s), NamedOnce(t), TypesNamed(s) \cap TypesNamed(t) = {}
    PROVE  NamedOnce(s \o t) /\ TypesNamed(s \o t) = TypesNamed(s) \cup TypesNamed(t)
<1> DEFINE st == s \o t
           K == Len(s)
           L == Len(t)
<1>1. /\ K \in Nat /\ L \in Nat /\ DOMAIN s = 1 .. K /\ DOMAIN t = 1 .. L /\ DOMAIN st = 1 .. (K + L)
      /\ \A i \in 1 .. K : st[i] = s[i]
      /\ \A i \in 1 .. L : st[K + i] = t[i]
  OBVIOUS
<1> HIDE DEF st, K, L
<1>2. \A i \in 1 .. (K + L) : i \in 1 .. K \/ (i - K \in 1 .. L /\ K + (i - K) = i)
  BY <1>1
<1>3. \A i \in 1 .. (K + L) : i \notin 1 .. K => i - K \in 1 .. L /\ st[i] = t[i - K]
  <2> SUFFICES ASSUME NEW i \in 1 .. (K + L), i \notin 1 .. K PROVE i - K \in 1 .. L /\ st[i] = t[i - K]
    OBVIOUS
  <2>1. PICK j \in 1 .. L : j = i - K /\ K + j = i
    BY <1>2
  <2> QED BY <1>1, <2>1
<1>4. \A i \in 1 .. K : s[i].type \in TypesNamed(s)
  BY <1>1 DEF TypesNamed
<1>5. \A i \in 1 .. L : t[i].type \in TypesNamed(t)
  BY <1>1 DEF TypesNamed
<1>6. NamedOnce(st)
  <2> SUFFICES ASSUME NEW i \in 1 .. (K + L), NEW j \in 1 .. (K + L), st[i].type = st[j].type PROVE i = j
    BY <1>1 DEF NamedOnce
  <2>1. CASE i \in 1 .. K /\ j \in 1 .. K
    BY <1>1, <2>1 DEF NamedOnce
  <2>2. CASE i \notin 1 .. K /\ j \notin 1 .. K
    <3>1. PICK a \in 1 .. L : a = i - K /\ st[i] = t[a]
      BY <1>3, <2>2
    <3>2. PICK b \in 1 .. L : b = j - K /\ st[j] = t[b]
      BY <1>3, <2>2
    <3>3. a = b
      BY <1>1, <3>1, <3>2 DEF NamedOnce
    <3> QED BY <1>1, <3>1, <3>2, <3>3
  <2>3. CASE i \in 1 .. K /\ j \notin 1 .. K
    BY <1>1, <1>3, <1>4, <1>5, <2>3
  <2>4. CASE i \notin 1 .. K /\ j \in 1 .. K
    BY <1>1, <1>3, <1>4, <1>5, <2>4
  <2> QED BY <2>1, <2>2, <2>3, <2>4
<1>7. ASSUME NEW k PROVE k \in TypesNamed(st) <=> k \in TypesNamed(s) \cup TypesNamed(t)
  <2>1. ASSUME k \in TypesNamed(st) PROVE k \in TypesNamed(s) \cup TypesNamed(t)
    <3>1. PICK i \in 1 .. (K + L) : k = st[i].type
      BY <1>1, <2>1 DEF TypesNamed
    <3> QED BY <1>1, <1>3, <1>4, <1>5, <3>1
  <2>2. ASSUME k \in TypesNamed(s) PROVE k \in TypesNamed(st)
    <3>1. PICK i \in 1 .. K : k = s[i].type
      BY <1>1, <2>2 DEF TypesNamed
    <3>2. i \in 1 .. (K + L)
      BY <1>1
    <3> QED BY <1>1, <3>1, <3>2 DEF TypesNamed
  <2>3. ASSUME k \in TypesNamed(t) PROVE k \in TypesNamed(st)
    <3>1. PICK i \in 1 .. L : k = t[i].type
      BY <1>1, <2>3 DEF TypesNamed
    <3>2. K + i \in 1 .. (K + L)
      BY <1>1
    <3> QED BY <1>1, <3>1, <3>2 DEF TypesNamed
  <2> QED BY <2>1, <2>2, <2>3
<1> QED BY <1>6, <1>7 DEF st

(* The positions, by what they say of themselves.                          *)
PositionOffices == {"tech_commercialization", "sponsored_programs", "legal_affairs", "risk_management",
   "export_control",
            "procurement", "it_security", "accessibility"}

PositionTypes == {"LicenseScope", "Royalties", "Diligence", "BackgroundIP", "Indemnity", "GoverningLaw", "DataRights",
          "Sublicensing", "Confidentiality", "Warranty", "ExportControl", "SponsorReporting", "Term",
          "PublicationRights", "Payment", "Termination", "Liability", "type.use-of-name", "type.service-levels",
             "Fees",
          "AuditRights", "DataProcessing", "SecurityControls", "Accessibility", "Insurance", "Assignment", "IP",
          "type.expenses", "type.hours-cap", "type.overtime", "type.co-employment", "type.flow-down"}

PositionSet == [type : PositionTypes, office : PositionOffices, required : BOOLEAN, escalate : BOOLEAN]

(* Each of the built-in lists names each type once.                      *)
LEMMA LicenseOnce ==
    /\ LicenseClauses \in Seq(PositionSet) /\ NamedOnce(LicenseClauses)
    /\ TypesNamed(LicenseClauses) \subseteq
           {"LicenseScope", "Royalties", "Diligence", "BackgroundIP", "Indemnity",
            "GoverningLaw", "DataRights", "Sublicensing", "Confidentiality", "Warranty",
            "ExportControl", "SponsorReporting"}
<1> DEFINE p1 == Position("LicenseScope", Tech)
           p2 == Position("Royalties", Tech)
           p3 == Position("Diligence", Tech)
           p4 == BackgroundIp(Tech)
           p5 == Indemnity
           p6 == Law
           p7 == DataRights
           p8 == Optional(Position("Sublicensing", Tech))
           p9 == Optional(Confidentiality(Tech))
           p10 == NoWarranty
           p11 == Optional(Export)
           p12 == Optional(Reporting(Tech))
           s == LicenseClauses
<1>1. p1 \in PositionSet /\ p1.type = "LicenseScope"
  BY DEF Position, Tech, PositionSet, PositionTypes, PositionOffices
<1>2. p2 \in PositionSet /\ p2.type = "Royalties"
  BY DEF Position, Tech, PositionSet, PositionTypes, PositionOffices
<1>3. p3 \in PositionSet /\ p3.type = "Diligence"
  BY DEF Position, Tech, PositionSet, PositionTypes, PositionOffices
<1>4. p4 \in PositionSet /\ p4.type = "BackgroundIP"
  BY DEF BackgroundIp, Tech, Position, PositionSet, PositionTypes, PositionOffices
<1>5. p5 \in PositionSet /\ p5.type = "Indemnity"
  BY DEF Indemnity, Position, PositionSet, PositionTypes, PositionOffices
<1>6. p6 \in PositionSet /\ p6.type = "GoverningLaw"
  BY DEF Law, Position, PositionSet, PositionTypes, PositionOffices
<1>7. p7 \in PositionSet /\ p7.type = "DataRights"
  BY DEF DataRights, Position, PositionSet, PositionTypes, PositionOffices
<1>8. p8 \in PositionSet /\ p8.type = "Sublicensing"
  BY DEF Optional, Position, Tech, PositionSet, PositionTypes, PositionOffices
<1>9. p9 \in PositionSet /\ p9.type = "Confidentiality"
  BY DEF Optional, Confidentiality, Tech, Position, PositionSet, PositionTypes, PositionOffices
<1>10. p10 \in PositionSet /\ p10.type = "Warranty"
  BY DEF NoWarranty, Optional, Position, PositionSet, PositionTypes, PositionOffices
<1>11. p11 \in PositionSet /\ p11.type = "ExportControl"
  BY DEF Optional, Export, Position, PositionSet, PositionTypes, PositionOffices
<1>12. p12 \in PositionSet /\ p12.type = "SponsorReporting"
  BY DEF Optional, Reporting, Tech, Position, PositionSet, PositionTypes, PositionOffices
<1>13. s = <<p1, p2, p3, p4, p5, p6, p7, p8, p9, p10, p11, p12>>
  BY DEF LicenseClauses
<1> HIDE DEF s, p1, p2, p3, p4, p5, p6, p7, p8, p9, p10, p11, p12
<1>14. s \in Seq(PositionSet) /\ DOMAIN s = 1 .. 12
  BY <1>1, <1>2, <1>3, <1>4, <1>5, <1>6, <1>7, <1>8, <1>9, <1>10, <1>11, <1>12, <1>13
<1>15. /\ s[1].type = "LicenseScope"
      /\ s[2].type = "Royalties"
      /\ s[3].type = "Diligence"
      /\ s[4].type = "BackgroundIP"
      /\ s[5].type = "Indemnity"
      /\ s[6].type = "GoverningLaw"
      /\ s[7].type = "DataRights"
      /\ s[8].type = "Sublicensing"
      /\ s[9].type = "Confidentiality"
      /\ s[10].type = "Warranty"
      /\ s[11].type = "ExportControl"
      /\ s[12].type = "SponsorReporting"
  BY <1>1, <1>2, <1>3, <1>4, <1>5, <1>6, <1>7, <1>8, <1>9, <1>10, <1>11, <1>12, <1>13
<1>16. NamedOnce(s)
  BY <1>14, <1>15 DEF NamedOnce
<1>17. TypesNamed(s) \subseteq {"LicenseScope", "Royalties", "Diligence", "BackgroundIP", "Indemnity",
          "GoverningLaw", "DataRights", "Sublicensing", "Confidentiality", "Warranty",
          "ExportControl", "SponsorReporting"}
  BY <1>14, <1>15 DEF TypesNamed
<1> QED BY <1>14, <1>16, <1>17 DEF s

LEMMA OptionOnce ==
    /\ OptionClauses \in Seq(PositionSet) /\ NamedOnce(OptionClauses)
    /\ TypesNamed(OptionClauses) \subseteq
           {"LicenseScope", "Term", "Royalties", "BackgroundIP", "DataRights", "Indemnity",
            "GoverningLaw", "Confidentiality", "Warranty"}
<1> DEFINE p1 == Position("LicenseScope", Tech)
           p2 == Position("Term", Tech)
           p3 == Position("Royalties", Tech)
           p4 == BackgroundIp(Tech)
           p5 == DataRights
           p6 == Indemnity
           p7 == Law
           p8 == Optional(Confidentiality(Tech))
           p9 == NoWarranty
           s == OptionClauses
<1>1. p1 \in PositionSet /\ p1.type = "LicenseScope"
  BY DEF Position, Tech, PositionSet, PositionTypes, PositionOffices
<1>2. p2 \in PositionSet /\ p2.type = "Term"
  BY DEF Position, Tech, PositionSet, PositionTypes, PositionOffices
<1>3. p3 \in PositionSet /\ p3.type = "Royalties"
  BY DEF Position, Tech, PositionSet, PositionTypes, PositionOffices
<1>4. p4 \in PositionSet /\ p4.type = "BackgroundIP"
  BY DEF BackgroundIp, Tech, Position, PositionSet, PositionTypes, PositionOffices
<1>5. p5 \in PositionSet /\ p5.type = "DataRights"
  BY DEF DataRights, Position, PositionSet, PositionTypes, PositionOffices
<1>6. p6 \in PositionSet /\ p6.type = "Indemnity"
  BY DEF Indemnity, Position, PositionSet, PositionTypes, PositionOffices
<1>7. p7 \in PositionSet /\ p7.type = "GoverningLaw"
  BY DEF Law, Position, PositionSet, PositionTypes, PositionOffices
<1>8. p8 \in PositionSet /\ p8.type = "Confidentiality"
  BY DEF Optional, Confidentiality, Tech, Position, PositionSet, PositionTypes, PositionOffices
<1>9. p9 \in PositionSet /\ p9.type = "Warranty"
  BY DEF NoWarranty, Optional, Position, PositionSet, PositionTypes, PositionOffices
<1>10. s = <<p1, p2, p3, p4, p5, p6, p7, p8, p9>>
  BY DEF OptionClauses
<1> HIDE DEF s, p1, p2, p3, p4, p5, p6, p7, p8, p9
<1>11. s \in Seq(PositionSet) /\ DOMAIN s = 1 .. 9
  BY <1>1, <1>2, <1>3, <1>4, <1>5, <1>6, <1>7, <1>8, <1>9, <1>10
<1>12. /\ s[1].type = "LicenseScope"
      /\ s[2].type = "Term"
      /\ s[3].type = "Royalties"
      /\ s[4].type = "BackgroundIP"
      /\ s[5].type = "DataRights"
      /\ s[6].type = "Indemnity"
      /\ s[7].type = "GoverningLaw"
      /\ s[8].type = "Confidentiality"
      /\ s[9].type = "Warranty"
  BY <1>1, <1>2, <1>3, <1>4, <1>5, <1>6, <1>7, <1>8, <1>9, <1>10
<1> QED BY <1>11, <1>12 DEF s, NamedOnce, TypesNamed

LEMMA ResearchOnce ==
    /\ ResearchClauses \in Seq(PositionSet) /\ NamedOnce(ResearchClauses)
    /\ TypesNamed(ResearchClauses) \subseteq
           {"PublicationRights", "BackgroundIP", "Indemnity", "GoverningLaw", "ExportControl",
            "SponsorReporting", "DataRights", "Payment", "Termination", "Liability"}
<1> DEFINE p1 == Pub(Programs)
           p2 == BackgroundIp(Programs)
           p3 == Indemnity
           p4 == Law
           p5 == Export
           p6 == Reporting(Programs)
           p7 == DataRights
           p8 == PaidWithin
           p9 == MayEnd(Programs)
           p10 == Limited
           s == ResearchClauses
<1>1. p1 \in PositionSet /\ p1.type = "PublicationRights"
  BY DEF Pub, Programs, Position, PositionSet, PositionTypes, PositionOffices
<1>2. p2 \in PositionSet /\ p2.type = "BackgroundIP"
  BY DEF BackgroundIp, Programs, Position, PositionSet, PositionTypes, PositionOffices
<1>3. p3 \in PositionSet /\ p3.type = "Indemnity"
  BY DEF Indemnity, Position, PositionSet, PositionTypes, PositionOffices
<1>4. p4 \in PositionSet /\ p4.type = "GoverningLaw"
  BY DEF Law, Position, PositionSet, PositionTypes, PositionOffices
<1>5. p5 \in PositionSet /\ p5.type = "ExportControl"
  BY DEF Export, Position, PositionSet, PositionTypes, PositionOffices
<1>6. p6 \in PositionSet /\ p6.type = "SponsorReporting"
  BY DEF Reporting, Programs, Position, PositionSet, PositionTypes, PositionOffices
<1>7. p7 \in PositionSet /\ p7.type = "DataRights"
  BY DEF DataRights, Position, PositionSet, PositionTypes, PositionOffices
<1>8. p8 \in PositionSet /\ p8.type = "Payment"
  BY DEF PaidWithin, Position, PositionSet, PositionTypes, PositionOffices
<1>9. p9 \in PositionSet /\ p9.type = "Termination"
  BY DEF MayEnd, Programs, Optional, Position, PositionSet, PositionTypes, PositionOffices
<1>10. p10 \in PositionSet /\ p10.type = "Liability"
  BY DEF Limited, Optional, Position, PositionSet, PositionTypes, PositionOffices
<1>11. s = <<p1, p2, p3, p4, p5, p6, p7, p8, p9, p10>>
  BY DEF ResearchClauses
<1> HIDE DEF s, p1, p2, p3, p4, p5, p6, p7, p8, p9, p10
<1>12. s \in Seq(PositionSet) /\ DOMAIN s = 1 .. 10
  BY <1>1, <1>2, <1>3, <1>4, <1>5, <1>6, <1>7, <1>8, <1>9, <1>10, <1>11
<1>13. /\ s[1].type = "PublicationRights"
      /\ s[2].type = "BackgroundIP"
      /\ s[3].type = "Indemnity"
      /\ s[4].type = "GoverningLaw"
      /\ s[5].type = "ExportControl"
      /\ s[6].type = "SponsorReporting"
      /\ s[7].type = "DataRights"
      /\ s[8].type = "Payment"
      /\ s[9].type = "Termination"
      /\ s[10].type = "Liability"
  BY <1>1, <1>2, <1>3, <1>4, <1>5, <1>6, <1>7, <1>8, <1>9, <1>10, <1>11
<1> QED BY <1>12, <1>13 DEF s, NamedOnce, TypesNamed

LEMMA GrantOnce ==
    /\ GrantClauses \in Seq(PositionSet) /\ NamedOnce(GrantClauses)
    /\ TypesNamed(GrantClauses) \subseteq
           {"SponsorReporting", "PublicationRights", "BackgroundIP", "ExportControl",
            "Indemnity", "GoverningLaw", "DataRights", "Payment"}
<1> DEFINE p1 == Reporting(Programs)
           p2 == Pub(Programs)
           p3 == BackgroundIp(Programs)
           p4 == Export
           p5 == Indemnity
           p6 == Law
           p7 == Optional(DataRights)
           p8 == Optional(PaidWithin)
           s == GrantClauses
<1>1. p1 \in PositionSet /\ p1.type = "SponsorReporting"
  BY DEF Reporting, Programs, Position, PositionSet, PositionTypes, PositionOffices
<1>2. p2 \in PositionSet /\ p2.type = "PublicationRights"
  BY DEF Pub, Programs, Position, PositionSet, PositionTypes, PositionOffices
<1>3. p3 \in PositionSet /\ p3.type = "BackgroundIP"
  BY DEF BackgroundIp, Programs, Position, PositionSet, PositionTypes, PositionOffices
<1>4. p4 \in PositionSet /\ p4.type = "ExportControl"
  BY DEF Export, Position, PositionSet, PositionTypes, PositionOffices
<1>5. p5 \in PositionSet /\ p5.type = "Indemnity"
  BY DEF Indemnity, Position, PositionSet, PositionTypes, PositionOffices
<1>6. p6 \in PositionSet /\ p6.type = "GoverningLaw"
  BY DEF Law, Position, PositionSet, PositionTypes, PositionOffices
<1>7. p7 \in PositionSet /\ p7.type = "DataRights"
  BY DEF Optional, DataRights, Position, PositionSet, PositionTypes, PositionOffices
<1>8. p8 \in PositionSet /\ p8.type = "Payment"
  BY DEF Optional, PaidWithin, Position, PositionSet, PositionTypes, PositionOffices
<1>9. s = <<p1, p2, p3, p4, p5, p6, p7, p8>>
  BY DEF GrantClauses
<1> HIDE DEF s, p1, p2, p3, p4, p5, p6, p7, p8
<1>10. s \in Seq(PositionSet) /\ DOMAIN s = 1 .. 8
  BY <1>1, <1>2, <1>3, <1>4, <1>5, <1>6, <1>7, <1>8, <1>9
<1>11. /\ s[1].type = "SponsorReporting"
      /\ s[2].type = "PublicationRights"
      /\ s[3].type = "BackgroundIP"
      /\ s[4].type = "ExportControl"
      /\ s[5].type = "Indemnity"
      /\ s[6].type = "GoverningLaw"
      /\ s[7].type = "DataRights"
      /\ s[8].type = "Payment"
  BY <1>1, <1>2, <1>3, <1>4, <1>5, <1>6, <1>7, <1>8, <1>9
<1> QED BY <1>10, <1>11 DEF s, NamedOnce, TypesNamed

LEMMA MtaOnce ==
    /\ MtaClauses \in Seq(PositionSet) /\ NamedOnce(MtaClauses)
    /\ TypesNamed(MtaClauses) \subseteq
           {"BackgroundIP", "PublicationRights", "Indemnity", "GoverningLaw", "Warranty",
            "DataRights", "ExportControl"}
<1> DEFINE p1 == BackgroundIp(Tech)
           p2 == Pub(Tech)
           p3 == Indemnity
           p4 == Law
           p5 == NoWarranty
           p6 == Optional(DataRights)
           p7 == Optional(Export)
           s == MtaClauses
<1>1. p1 \in PositionSet /\ p1.type = "BackgroundIP"
  BY DEF BackgroundIp, Tech, Position, PositionSet, PositionTypes, PositionOffices
<1>2. p2 \in PositionSet /\ p2.type = "PublicationRights"
  BY DEF Pub, Tech, Position, PositionSet, PositionTypes, PositionOffices
<1>3. p3 \in PositionSet /\ p3.type = "Indemnity"
  BY DEF Indemnity, Position, PositionSet, PositionTypes, PositionOffices
<1>4. p4 \in PositionSet /\ p4.type = "GoverningLaw"
  BY DEF Law, Position, PositionSet, PositionTypes, PositionOffices
<1>5. p5 \in PositionSet /\ p5.type = "Warranty"
  BY DEF NoWarranty, Optional, Position, PositionSet, PositionTypes, PositionOffices
<1>6. p6 \in PositionSet /\ p6.type = "DataRights"
  BY DEF Optional, DataRights, Position, PositionSet, PositionTypes, PositionOffices
<1>7. p7 \in PositionSet /\ p7.type = "ExportControl"
  BY DEF Optional, Export, Position, PositionSet, PositionTypes, PositionOffices
<1>8. s = <<p1, p2, p3, p4, p5, p6, p7>>
  BY DEF MtaClauses
<1> HIDE DEF s, p1, p2, p3, p4, p5, p6, p7
<1>9. s \in Seq(PositionSet) /\ DOMAIN s = 1 .. 7
  BY <1>1, <1>2, <1>3, <1>4, <1>5, <1>6, <1>7, <1>8
<1>10. /\ s[1].type = "BackgroundIP"
      /\ s[2].type = "PublicationRights"
      /\ s[3].type = "Indemnity"
      /\ s[4].type = "GoverningLaw"
      /\ s[5].type = "Warranty"
      /\ s[6].type = "DataRights"
      /\ s[7].type = "ExportControl"
  BY <1>1, <1>2, <1>3, <1>4, <1>5, <1>6, <1>7, <1>8
<1> QED BY <1>9, <1>10 DEF s, NamedOnce, TypesNamed

LEMMA NdaOnce ==
    /\ NdaClauses \in Seq(PositionSet) /\ NamedOnce(NdaClauses)
    /\ TypesNamed(NdaClauses) \subseteq
           {"Confidentiality", "GoverningLaw", "ExportControl", "DataRights", "Indemnity"}
<1> DEFINE p1 == Confidentiality(Legal)
           p2 == Law
           p3 == Optional(Export)
           p4 == Optional(DataRights)
           p5 == Optional(Indemnity)
           s == NdaClauses
<1>1. p1 \in PositionSet /\ p1.type = "Confidentiality"
  BY DEF Confidentiality, Legal, Position, PositionSet, PositionTypes, PositionOffices
<1>2. p2 \in PositionSet /\ p2.type = "GoverningLaw"
  BY DEF Law, Position, PositionSet, PositionTypes, PositionOffices
<1>3. p3 \in PositionSet /\ p3.type = "ExportControl"
  BY DEF Optional, Export, Position, PositionSet, PositionTypes, PositionOffices
<1>4. p4 \in PositionSet /\ p4.type = "DataRights"
  BY DEF Optional, DataRights, Position, PositionSet, PositionTypes, PositionOffices
<1>5. p5 \in PositionSet /\ p5.type = "Indemnity"
  BY DEF Optional, Indemnity, Position, PositionSet, PositionTypes, PositionOffices
<1>6. s = <<p1, p2, p3, p4, p5>>
  BY DEF NdaClauses
<1> HIDE DEF s, p1, p2, p3, p4, p5
<1>7. s \in Seq(PositionSet) /\ DOMAIN s = 1 .. 5
  BY <1>1, <1>2, <1>3, <1>4, <1>5, <1>6
<1>8. /\ s[1].type = "Confidentiality"
      /\ s[2].type = "GoverningLaw"
      /\ s[3].type = "ExportControl"
      /\ s[4].type = "DataRights"
      /\ s[5].type = "Indemnity"
  BY <1>1, <1>2, <1>3, <1>4, <1>5, <1>6
<1> QED BY <1>7, <1>8 DEF s, NamedOnce, TypesNamed

LEMMA CollaborationOnce ==
    /\ CollaborationClauses \in Seq(PositionSet) /\ NamedOnce(CollaborationClauses)
    /\ TypesNamed(CollaborationClauses) \subseteq
           {"PublicationRights", "BackgroundIP", "DataRights", "Indemnity", "GoverningLaw",
            "ExportControl", "Confidentiality"}
<1> DEFINE p1 == Pub(Programs)
           p2 == BackgroundIp(Programs)
           p3 == DataRights
           p4 == Indemnity
           p5 == Law
           p6 == Export
           p7 == Optional(Confidentiality(Legal))
           s == CollaborationClauses
<1>1. p1 \in PositionSet /\ p1.type = "PublicationRights"
  BY DEF Pub, Programs, Position, PositionSet, PositionTypes, PositionOffices
<1>2. p2 \in PositionSet /\ p2.type = "BackgroundIP"
  BY DEF BackgroundIp, Programs, Position, PositionSet, PositionTypes, PositionOffices
<1>3. p3 \in PositionSet /\ p3.type = "DataRights"
  BY DEF DataRights, Position, PositionSet, PositionTypes, PositionOffices
<1>4. p4 \in PositionSet /\ p4.type = "Indemnity"
  BY DEF Indemnity, Position, PositionSet, PositionTypes, PositionOffices
<1>5. p5 \in PositionSet /\ p5.type = "GoverningLaw"
  BY DEF Law, Position, PositionSet, PositionTypes, PositionOffices
<1>6. p6 \in PositionSet /\ p6.type = "ExportControl"
  BY DEF Export, Position, PositionSet, PositionTypes, PositionOffices
<1>7. p7 \in PositionSet /\ p7.type = "Confidentiality"
  BY DEF Optional, Confidentiality, Legal, Position, PositionSet, PositionTypes, PositionOffices
<1>8. s = <<p1, p2, p3, p4, p5, p6, p7>>
  BY DEF CollaborationClauses
<1> HIDE DEF s, p1, p2, p3, p4, p5, p6, p7
<1>9. s \in Seq(PositionSet) /\ DOMAIN s = 1 .. 7
  BY <1>1, <1>2, <1>3, <1>4, <1>5, <1>6, <1>7, <1>8
<1>10. /\ s[1].type = "PublicationRights"
      /\ s[2].type = "BackgroundIP"
      /\ s[3].type = "DataRights"
      /\ s[4].type = "Indemnity"
      /\ s[5].type = "GoverningLaw"
      /\ s[6].type = "ExportControl"
      /\ s[7].type = "Confidentiality"
  BY <1>1, <1>2, <1>3, <1>4, <1>5, <1>6, <1>7, <1>8
<1> QED BY <1>9, <1>10 DEF s, NamedOnce, TypesNamed

LEMMA OtherOnce ==
    /\ OtherClauses \in Seq(PositionSet) /\ NamedOnce(OtherClauses)
    /\ TypesNamed(OtherClauses) \subseteq
           {"Indemnity", "GoverningLaw", "Liability", "Confidentiality", "Payment",
            "Termination"}
<1> DEFINE p1 == Indemnity
           p2 == Law
           p3 == Limited
           p4 == Optional(Confidentiality(Legal))
           p5 == Optional(PaidWithin)
           p6 == MayEnd(Legal)
           s == OtherClauses
<1>1. p1 \in PositionSet /\ p1.type = "Indemnity"
  BY DEF Indemnity, Position, PositionSet, PositionTypes, PositionOffices
<1>2. p2 \in PositionSet /\ p2.type = "GoverningLaw"
  BY DEF Law, Position, PositionSet, PositionTypes, PositionOffices
<1>3. p3 \in PositionSet /\ p3.type = "Liability"
  BY DEF Limited, Optional, Position, PositionSet, PositionTypes, PositionOffices
<1>4. p4 \in PositionSet /\ p4.type = "Confidentiality"
  BY DEF Optional, Confidentiality, Legal, Position, PositionSet, PositionTypes, PositionOffices
<1>5. p5 \in PositionSet /\ p5.type = "Payment"
  BY DEF Optional, PaidWithin, Position, PositionSet, PositionTypes, PositionOffices
<1>6. p6 \in PositionSet /\ p6.type = "Termination"
  BY DEF MayEnd, Legal, Optional, Position, PositionSet, PositionTypes, PositionOffices
<1>7. s = <<p1, p2, p3, p4, p5, p6>>
  BY DEF OtherClauses
<1> HIDE DEF s, p1, p2, p3, p4, p5, p6
<1>8. s \in Seq(PositionSet) /\ DOMAIN s = 1 .. 6
  BY <1>1, <1>2, <1>3, <1>4, <1>5, <1>6, <1>7
<1>9. /\ s[1].type = "Indemnity"
      /\ s[2].type = "GoverningLaw"
      /\ s[3].type = "Liability"
      /\ s[4].type = "Confidentiality"
      /\ s[5].type = "Payment"
      /\ s[6].type = "Termination"
  BY <1>1, <1>2, <1>3, <1>4, <1>5, <1>6, <1>7
<1> QED BY <1>8, <1>9 DEF s, NamedOnce, TypesNamed

LEMMA DataUseOnce ==
    /\ DataUseClauses \in Seq(PositionSet) /\ NamedOnce(DataUseClauses)
    /\ TypesNamed(DataUseClauses) \subseteq
           {"DataRights", "PublicationRights", "Confidentiality", "Indemnity", "GoverningLaw",
            "ExportControl"}
<1> DEFINE p1 == DataRights
           p2 == Pub(Legal)
           p3 == Confidentiality(Legal)
           p4 == Indemnity
           p5 == Law
           p6 == Optional(Export)
           s == DataUseClauses
<1>1. p1 \in PositionSet /\ p1.type = "DataRights"
  BY DEF DataRights, Position, PositionSet, PositionTypes, PositionOffices
<1>2. p2 \in PositionSet /\ p2.type = "PublicationRights"
  BY DEF Pub, Legal, Position, PositionSet, PositionTypes, PositionOffices
<1>3. p3 \in PositionSet /\ p3.type = "Confidentiality"
  BY DEF Confidentiality, Legal, Position, PositionSet, PositionTypes, PositionOffices
<1>4. p4 \in PositionSet /\ p4.type = "Indemnity"
  BY DEF Indemnity, Position, PositionSet, PositionTypes, PositionOffices
<1>5. p5 \in PositionSet /\ p5.type = "GoverningLaw"
  BY DEF Law, Position, PositionSet, PositionTypes, PositionOffices
<1>6. p6 \in PositionSet /\ p6.type = "ExportControl"
  BY DEF Optional, Export, Position, PositionSet, PositionTypes, PositionOffices
<1>7. s = <<p1, p2, p3, p4, p5, p6>>
  BY DEF DataUseClauses
<1> HIDE DEF s, p1, p2, p3, p4, p5, p6
<1>8. s \in Seq(PositionSet) /\ DOMAIN s = 1 .. 6
  BY <1>1, <1>2, <1>3, <1>4, <1>5, <1>6, <1>7
<1>9. /\ s[1].type = "DataRights"
      /\ s[2].type = "PublicationRights"
      /\ s[3].type = "Confidentiality"
      /\ s[4].type = "Indemnity"
      /\ s[5].type = "GoverningLaw"
      /\ s[6].type = "ExportControl"
  BY <1>1, <1>2, <1>3, <1>4, <1>5, <1>6, <1>7
<1> QED BY <1>8, <1>9 DEF s, NamedOnce, TypesNamed

LEMMA SoftwareOnce ==
    /\ SoftwareClauses \in Seq(PositionSet) /\ NamedOnce(SoftwareClauses)
    /\ TypesNamed(SoftwareClauses) \subseteq
           {"LicenseScope", "Fees", "Term", "AuditRights", "type.service-levels", "Warranty",
            "Indemnity", "Liability", "DataProcessing", "SecurityControls", "Accessibility",
            "Termination", "Insurance", "GoverningLaw", "Assignment"}
<1> DEFINE p1 == Position("LicenseScope", "procurement")
           p2 == Position("Fees", "procurement")
           p3 == Position("Term", "procurement")
           p4 == Optional(Position("AuditRights", Legal))
           p5 == ServiceLevels
           p6 == Position("Warranty", Legal)
           p7 == Position("Indemnity", Legal)
           p8 == Position("Liability", "risk_management")
           p9 == Position("DataProcessing", "it_security")
           p10 == Optional(Position("SecurityControls", "it_security"))
           p11 == Optional(Position("Accessibility", "accessibility"))
           p12 == MayEnd("procurement")
           p13 == Optional(Position("Insurance", "risk_management"))
           p14 == Law
           p15 == Optional(Position("Assignment", Legal))
           s == SoftwareClauses
<1>1. p1 \in PositionSet /\ p1.type = "LicenseScope"
  BY DEF Position, PositionSet, PositionTypes, PositionOffices
<1>2. p2 \in PositionSet /\ p2.type = "Fees"
  BY DEF Position, PositionSet, PositionTypes, PositionOffices
<1>3. p3 \in PositionSet /\ p3.type = "Term"
  BY DEF Position, PositionSet, PositionTypes, PositionOffices
<1>4. p4 \in PositionSet /\ p4.type = "AuditRights"
  BY DEF Optional, Position, Legal, PositionSet, PositionTypes, PositionOffices
<1>5. p5 \in PositionSet /\ p5.type = "type.service-levels"
  BY DEF ServiceLevels, Optional, Position, PositionSet, PositionTypes, PositionOffices
<1>6. p6 \in PositionSet /\ p6.type = "Warranty"
  BY DEF Position, Legal, PositionSet, PositionTypes, PositionOffices
<1>7. p7 \in PositionSet /\ p7.type = "Indemnity"
  BY DEF Position, Legal, PositionSet, PositionTypes, PositionOffices
<1>8. p8 \in PositionSet /\ p8.type = "Liability"
  BY DEF Position, PositionSet, PositionTypes, PositionOffices
<1>9. p9 \in PositionSet /\ p9.type = "DataProcessing"
  BY DEF Position, PositionSet, PositionTypes, PositionOffices
<1>10. p10 \in PositionSet /\ p10.type = "SecurityControls"
  BY DEF Optional, Position, PositionSet, PositionTypes, PositionOffices
<1>11. p11 \in PositionSet /\ p11.type = "Accessibility"
  BY DEF Optional, Position, PositionSet, PositionTypes, PositionOffices
<1>12. p12 \in PositionSet /\ p12.type = "Termination"
  BY DEF MayEnd, Optional, Position, PositionSet, PositionTypes, PositionOffices
<1>13. p13 \in PositionSet /\ p13.type = "Insurance"
  BY DEF Optional, Position, PositionSet, PositionTypes, PositionOffices
<1>14. p14 \in PositionSet /\ p14.type = "GoverningLaw"
  BY DEF Law, Position, PositionSet, PositionTypes, PositionOffices
<1>15. p15 \in PositionSet /\ p15.type = "Assignment"
  BY DEF Optional, Position, Legal, PositionSet, PositionTypes, PositionOffices
<1>16. s = <<p1, p2, p3, p4, p5, p6, p7, p8, p9, p10, p11, p12, p13, p14, p15>>
  BY DEF SoftwareClauses
<1> HIDE DEF s, p1, p2, p3, p4, p5, p6, p7, p8, p9, p10, p11, p12, p13, p14, p15
<1>17. s \in Seq(PositionSet) /\ DOMAIN s = 1 .. 15
  BY <1>1, <1>2, <1>3, <1>4, <1>5, <1>6, <1>7, <1>8, <1>9, <1>10, <1>11, <1>12, <1>13, <1>14, <1>15, <1>16
<1>18. /\ s[1].type = "LicenseScope"
      /\ s[2].type = "Fees"
      /\ s[3].type = "Term"
      /\ s[4].type = "AuditRights"
      /\ s[5].type = "type.service-levels"
      /\ s[6].type = "Warranty"
      /\ s[7].type = "Indemnity"
      /\ s[8].type = "Liability"
      /\ s[9].type = "DataProcessing"
      /\ s[10].type = "SecurityControls"
      /\ s[11].type = "Accessibility"
      /\ s[12].type = "Termination"
      /\ s[13].type = "Insurance"
      /\ s[14].type = "GoverningLaw"
      /\ s[15].type = "Assignment"
  BY <1>1, <1>2, <1>3, <1>4, <1>5, <1>6, <1>7, <1>8, <1>9, <1>10, <1>11, <1>12, <1>13, <1>14, <1>15, <1>16
<1>19. \A i \in 1 .. 15 : i = 1 \/ i = 2 \/ i = 3 \/ i = 4 \/ i = 5 \/ i = 6 \/ i = 7 \/ i = 8 \/ i = 9
       \/ i = 10 \/ i = 11 \/ i = 12 \/ i = 13 \/ i = 14 \/ i = 15
  OBVIOUS
<1>20. ASSUME NEW i \in 1 .. 15, NEW j \in 1 .. 15, s[i].type = s[j].type PROVE i = j
  BY <1>18, <1>19, <1>20, SMTT(60)
<1>21. TypesNamed(s) \subseteq {s[1].type, s[2].type, s[3].type, s[4].type, s[5].type, s[6].type, s[7].type,
       s[8].type, s[9].type, s[10].type, s[11].type, s[12].type, s[13].type, s[14].type, s[15].type}
  BY <1>17, <1>18, <1>19 DEF TypesNamed
<1> QED BY <1>17, <1>18, <1>20, <1>21 DEF s, NamedOnce

LEMMA SharedOnce ==
    /\ Shared \in Seq(PositionSet) /\ NamedOnce(Shared)
    /\ TypesNamed(Shared) \subseteq
           {"IP", "Indemnity", "Liability", "Termination", "Payment", "type.expenses",
            "Insurance", "Confidentiality"}
<1> DEFINE p1 == Position("IP", Legal)
           p2 == Position("Indemnity", Legal)
           p3 == Position("Liability", "risk_management")
           p4 == MayEnd("procurement")
           p5 == Position("Payment", "procurement")
           p6 == Position("type.expenses", "procurement")
           p7 == Optional(Position("Insurance", "risk_management"))
           p8 == Optional(Confidentiality(Legal))
           s == Shared
<1>1. p1 \in PositionSet /\ p1.type = "IP"
  BY DEF Position, Legal, PositionSet, PositionTypes, PositionOffices
<1>2. p2 \in PositionSet /\ p2.type = "Indemnity"
  BY DEF Position, Legal, PositionSet, PositionTypes, PositionOffices
<1>3. p3 \in PositionSet /\ p3.type = "Liability"
  BY DEF Position, PositionSet, PositionTypes, PositionOffices
<1>4. p4 \in PositionSet /\ p4.type = "Termination"
  BY DEF MayEnd, Optional, Position, PositionSet, PositionTypes, PositionOffices
<1>5. p5 \in PositionSet /\ p5.type = "Payment"
  BY DEF Position, PositionSet, PositionTypes, PositionOffices
<1>6. p6 \in PositionSet /\ p6.type = "type.expenses"
  BY DEF Position, PositionSet, PositionTypes, PositionOffices
<1>7. p7 \in PositionSet /\ p7.type = "Insurance"
  BY DEF Optional, Position, PositionSet, PositionTypes, PositionOffices
<1>8. p8 \in PositionSet /\ p8.type = "Confidentiality"
  BY DEF Optional, Confidentiality, Legal, Position, PositionSet, PositionTypes, PositionOffices
<1>9. s = <<p1, p2, p3, p4, p5, p6, p7, p8>>
  BY DEF Shared
<1> HIDE DEF s, p1, p2, p3, p4, p5, p6, p7, p8
<1>10. s \in Seq(PositionSet) /\ DOMAIN s = 1 .. 8
  BY <1>1, <1>2, <1>3, <1>4, <1>5, <1>6, <1>7, <1>8, <1>9
<1>11. /\ s[1].type = "IP"
      /\ s[2].type = "Indemnity"
      /\ s[3].type = "Liability"
      /\ s[4].type = "Termination"
      /\ s[5].type = "Payment"
      /\ s[6].type = "type.expenses"
      /\ s[7].type = "Insurance"
      /\ s[8].type = "Confidentiality"
  BY <1>1, <1>2, <1>3, <1>4, <1>5, <1>6, <1>7, <1>8, <1>9
<1> QED BY <1>10, <1>11 DEF s, NamedOnce, TypesNamed

LEMMA SowOnce ==
    /\ <<Rates, Hours, Overtime, ServiceLevels>> \in Seq(PositionSet) /\ NamedOnce(<<Rates, Hours, Overtime, ServiceLevels>>)
    /\ TypesNamed(<<Rates, Hours, Overtime, ServiceLevels>>) \subseteq
           {"Fees", "type.hours-cap", "type.overtime", "type.service-levels"}
<1> DEFINE p1 == Rates
           p2 == Hours
           p3 == Overtime
           p4 == ServiceLevels
           s == <<Rates, Hours, Overtime, ServiceLevels>>
<1>1. p1 \in PositionSet /\ p1.type = "Fees"
  BY DEF Rates, Position, PositionSet, PositionTypes, PositionOffices
<1>2. p2 \in PositionSet /\ p2.type = "type.hours-cap"
  BY DEF Hours, Position, PositionSet, PositionTypes, PositionOffices
<1>3. p3 \in PositionSet /\ p3.type = "type.overtime"
  BY DEF Overtime, Optional, Position, PositionSet, PositionTypes, PositionOffices
<1>4. p4 \in PositionSet /\ p4.type = "type.service-levels"
  BY DEF ServiceLevels, Optional, Position, PositionSet, PositionTypes, PositionOffices
<1>5. s = <<p1, p2, p3, p4>>
  OBVIOUS
<1> HIDE DEF s, p1, p2, p3, p4
<1>6. s \in Seq(PositionSet) /\ DOMAIN s = 1 .. 4
  BY <1>1, <1>2, <1>3, <1>4, <1>5
<1>7. /\ s[1].type = "Fees"
      /\ s[2].type = "type.hours-cap"
      /\ s[3].type = "type.overtime"
      /\ s[4].type = "type.service-levels"
  BY <1>1, <1>2, <1>3, <1>4, <1>5
<1> QED BY <1>6, <1>7 DEF s, NamedOnce, TypesNamed

LEMMA MsaOnce ==
    /\ <<Rates, ServiceLevels>> \in Seq(PositionSet) /\ NamedOnce(<<Rates, ServiceLevels>>)
    /\ TypesNamed(<<Rates, ServiceLevels>>) \subseteq
           {"Fees", "type.service-levels"}
<1> DEFINE p1 == Rates
           p2 == ServiceLevels
           s == <<Rates, ServiceLevels>>
<1>1. p1 \in PositionSet /\ p1.type = "Fees"
  BY DEF Rates, Position, PositionSet, PositionTypes, PositionOffices
<1>2. p2 \in PositionSet /\ p2.type = "type.service-levels"
  BY DEF ServiceLevels, Optional, Position, PositionSet, PositionTypes, PositionOffices
<1>3. s = <<p1, p2>>
  OBVIOUS
<1> HIDE DEF s, p1, p2
<1>4. s \in Seq(PositionSet) /\ DOMAIN s = 1 .. 2
  BY <1>1, <1>2, <1>3
<1>5. /\ s[1].type = "Fees"
      /\ s[2].type = "type.service-levels"
  BY <1>1, <1>2, <1>3
<1> QED BY <1>4, <1>5 DEF s, NamedOnce, TypesNamed

LEMMA StaffingOnce ==
    /\ <<Rates, Hours, Overtime, CoEmployment>> \in Seq(PositionSet) /\ NamedOnce(<<Rates, Hours, Overtime, CoEmployment>>)
    /\ TypesNamed(<<Rates, Hours, Overtime, CoEmployment>>) \subseteq
           {"Fees", "type.hours-cap", "type.overtime", "type.co-employment"}
<1> DEFINE p1 == Rates
           p2 == Hours
           p3 == Overtime
           p4 == CoEmployment
           s == <<Rates, Hours, Overtime, CoEmployment>>
<1>1. p1 \in PositionSet /\ p1.type = "Fees"
  BY DEF Rates, Position, PositionSet, PositionTypes, PositionOffices
<1>2. p2 \in PositionSet /\ p2.type = "type.hours-cap"
  BY DEF Hours, Position, PositionSet, PositionTypes, PositionOffices
<1>3. p3 \in PositionSet /\ p3.type = "type.overtime"
  BY DEF Overtime, Optional, Position, PositionSet, PositionTypes, PositionOffices
<1>4. p4 \in PositionSet /\ p4.type = "type.co-employment"
  BY DEF CoEmployment, Legal, Position, PositionSet, PositionTypes, PositionOffices
<1>5. s = <<p1, p2, p3, p4>>
  OBVIOUS
<1> HIDE DEF s, p1, p2, p3, p4
<1>6. s \in Seq(PositionSet) /\ DOMAIN s = 1 .. 4
  BY <1>1, <1>2, <1>3, <1>4, <1>5
<1>7. /\ s[1].type = "Fees"
      /\ s[2].type = "type.hours-cap"
      /\ s[3].type = "type.overtime"
      /\ s[4].type = "type.co-employment"
  BY <1>1, <1>2, <1>3, <1>4, <1>5
<1> QED BY <1>6, <1>7 DEF s, NamedOnce, TypesNamed

LEMMA SubOnce ==
    /\ <<FlowDown, Rates, Hours>> \in Seq(PositionSet) /\ NamedOnce(<<FlowDown, Rates, Hours>>)
    /\ TypesNamed(<<FlowDown, Rates, Hours>>) \subseteq
           {"type.flow-down", "Fees", "type.hours-cap"}
<1> DEFINE p1 == FlowDown
           p2 == Rates
           p3 == Hours
           s == <<FlowDown, Rates, Hours>>
<1>1. p1 \in PositionSet /\ p1.type = "type.flow-down"
  BY DEF FlowDown, Position, PositionSet, PositionTypes, PositionOffices
<1>2. p2 \in PositionSet /\ p2.type = "Fees"
  BY DEF Rates, Position, PositionSet, PositionTypes, PositionOffices
<1>3. p3 \in PositionSet /\ p3.type = "type.hours-cap"
  BY DEF Hours, Position, PositionSet, PositionTypes, PositionOffices
<1>4. s = <<p1, p2, p3>>
  OBVIOUS
<1> HIDE DEF s, p1, p2, p3
<1>5. s \in Seq(PositionSet) /\ DOMAIN s = 1 .. 3
  BY <1>1, <1>2, <1>3, <1>4
<1>6. /\ s[1].type = "type.flow-down"
      /\ s[2].type = "Fees"
      /\ s[3].type = "type.hours-cap"
  BY <1>1, <1>2, <1>3, <1>4
<1> QED BY <1>5, <1>6 DEF s, NamedOnce, TypesNamed

(* The position on the use of names, by itself.                          *)
LEMMA UseOfNameOnce ==
    \A office \in {Legal, Tech} :
        /\ <<UseOfName(office)>> \in Seq(PositionSet) /\ NamedOnce(<<UseOfName(office)>>)
        /\ TypesNamed(<<UseOfName(office)>>) \subseteq {"type.use-of-name"}
<1> SUFFICES ASSUME NEW office \in {Legal, Tech}
             PROVE  /\ <<UseOfName(office)>> \in Seq(PositionSet) /\ NamedOnce(<<UseOfName(office)>>)
                    /\ TypesNamed(<<UseOfName(office)>>) \subseteq {"type.use-of-name"}
  OBVIOUS
<1> DEFINE p == UseOfName(office)
<1>1. p \in PositionSet /\ p.type = "type.use-of-name"
  BY DEF Optional, Position, UseOfName, Legal, Tech, PositionSet, PositionTypes, PositionOffices
<1> HIDE DEF p
<1>2. <<p>> \in Seq(PositionSet) /\ DOMAIN <<p>> = 1 .. 1 /\ <<p>>[1] = p
  BY <1>1
<1>3. <<p>> \in Seq(PositionSet) /\ NamedOnce(<<p>>) /\ TypesNamed(<<p>>) \subseteq {"type.use-of-name"}
  BY <1>1, <1>2 DEF NamedOnce, TypesNamed
<1> QED BY <1>3 DEF p

(* Two lists of positions that share no type, one after the other.         *)
LEMMA ListsTogether ==
    ASSUME NEW s \in Seq(PositionSet), NEW t \in Seq(PositionSet), NamedOnce(s), NamedOnce(t),
           NEW A, NEW B, TypesNamed(s) \subseteq A, TypesNamed(t) \subseteq B, A \cap B = {}
    PROVE  s \o t \in Seq(PositionSet) /\ NamedOnce(s \o t)
<1>1. TypesNamed(s) \cap TypesNamed(t) = {}
  OBVIOUS
<1> QED BY <1>1, OnceTogether

(* The playbooks for services and staffing name each type once.          *)
LEMMA WorkforceBooks ==
    \A type \in Workforce :
        DefaultPlaybooks(type) \in Seq(PositionSet) /\ NamedOnce(DefaultPlaybooks(type))
<1> DEFINE B == {"IP", "Indemnity", "Liability", "Termination", "Payment", "type.expenses", "Insurance",
                 "Confidentiality"}
           A == {"Fees", "type.hours-cap", "type.overtime", "type.service-levels", "type.co-employment",
                 "type.flow-down"}
           t == Shared
           sow == <<Rates, Hours, Overtime, ServiceLevels>>
           msa == <<Rates, ServiceLevels>>
           staffing == <<Rates, Hours, Overtime, CoEmployment>>
           subcontract == <<FlowDown, Rates, Hours>>
<1>1. t \in Seq(PositionSet) /\ NamedOnce(t) /\ TypesNamed(t) \subseteq B
  BY SharedOnce
<1>2. sow \in Seq(PositionSet) /\ NamedOnce(sow) /\ TypesNamed(sow) \subseteq A
  BY SowOnce
<1>3. msa \in Seq(PositionSet) /\ NamedOnce(msa) /\ TypesNamed(msa) \subseteq A
  BY MsaOnce
<1>4. staffing \in Seq(PositionSet) /\ NamedOnce(staffing) /\ TypesNamed(staffing) \subseteq A
  BY StaffingOnce
<1>5. subcontract \in Seq(PositionSet) /\ NamedOnce(subcontract) /\ TypesNamed(subcontract) \subseteq A
  BY SubOnce
<1>6. A \cap B = {}
  OBVIOUS
<1>7. \A type \in Workforce :
          \/ type = "sow" /\ DefaultPlaybooks(type) = sow \o t
          \/ type = "msa" /\ DefaultPlaybooks(type) = msa \o t
          \/ type = "staffing" /\ DefaultPlaybooks(type) = staffing \o t
          \/ type = "subcontract" /\ DefaultPlaybooks(type) = subcontract \o t
  BY Zenon DEF DefaultPlaybooks, Workforce
<1> HIDE DEF A, B, t, sow, msa, staffing, subcontract
<1>8. \A s \in {sow, msa, staffing, subcontract} : s \o t \in Seq(PositionSet) /\ NamedOnce(s \o t)
  BY <1>1, <1>2, <1>3, <1>4, <1>5, <1>6, ListsTogether
<1> QED BY <1>7, <1>8, Zenon

(* So does every built-in playbook.                                      *)
LEMMA BooksNameOnce ==
    \A type \in AgreementTypes : DefaultBook(type) \in Seq(PositionSet) /\ NamedOnce(DefaultBook(type))
<1> DEFINE A == PositionTypes \ {"type.use-of-name"}
           B == {"type.use-of-name"}
           named == <<UseOfName(Legal)>>
           used == <<UseOfName(Tech)>>
           research == ResearchClauses
           license == LicenseClauses
           together == CollaborationClauses
<1>1. /\ named \in Seq(PositionSet) /\ NamedOnce(named) /\ TypesNamed(named) \subseteq B
      /\ used \in Seq(PositionSet) /\ NamedOnce(used) /\ TypesNamed(used) \subseteq B
  BY UseOfNameOnce
<1>2. research \in Seq(PositionSet) /\ NamedOnce(research) /\ TypesNamed(research) \subseteq A
  BY ResearchOnce DEF PositionTypes
<1>3. license \in Seq(PositionSet) /\ NamedOnce(license) /\ TypesNamed(license) \subseteq A
  BY LicenseOnce DEF PositionTypes
<1>4. together \in Seq(PositionSet) /\ NamedOnce(together) /\ TypesNamed(together) \subseteq A
  BY CollaborationOnce DEF PositionTypes
<1>5. A \cap B = {}
  OBVIOUS
<1>6. \A type \in AgreementTypes :
          \/ DefaultBook(type) = research \o named
          \/ DefaultBook(type) = license \o used
          \/ DefaultBook(type) = together \o named
          \/ DefaultBook(type) \in {GrantClauses, OptionClauses, MtaClauses, DataUseClauses, NdaClauses,
                                    SoftwareClauses, OtherClauses}
          \/ type \in Workforce /\ DefaultBook(type) = DefaultPlaybooks(type)
  <2> SUFFICES ASSUME NEW type \in AgreementTypes
               PROVE  \/ DefaultBook(type) = research \o named
                      \/ DefaultBook(type) = license \o used
                      \/ DefaultBook(type) = together \o named
                      \/ DefaultBook(type) \in {GrantClauses, OptionClauses, MtaClauses, DataUseClauses, NdaClauses,
                                                SoftwareClauses, OtherClauses}
                      \/ type \in Workforce /\ DefaultBook(type) = DefaultPlaybooks(type)
    OBVIOUS
  <2>1. CASE type \in {"sponsored_research", "clinical_trial"}
    BY <2>1, Zenon DEF DefaultBook, Workforce
  <2>2. CASE type \in {"collaboration", "consortium"}
    BY <2>2, Zenon DEF DefaultBook, Workforce
  <2>3. CASE type \in Workforce
    BY <2>3, Zenon DEF DefaultBook, Workforce
  <2>4. CASE type \in {"grant", "license", "option", "mta", "data_use", "nda", "software", "other"}
    BY <2>4, Zenon DEF DefaultBook, Workforce
  <2> QED BY <2>1, <2>2, <2>3, <2>4 DEF AgreementTypes, Workforce
<1> HIDE DEF A, B, named, used, research, license, together
<1>7. /\ research \o named \in Seq(PositionSet) /\ NamedOnce(research \o named)
      /\ license \o used \in Seq(PositionSet) /\ NamedOnce(license \o used)
      /\ together \o named \in Seq(PositionSet) /\ NamedOnce(together \o named)
  BY <1>1, <1>2, <1>3, <1>4, <1>5, ListsTogether
<1>8. \A s \in {GrantClauses, OptionClauses, MtaClauses, DataUseClauses, NdaClauses, SoftwareClauses, OtherClauses} :
          s \in Seq(PositionSet) /\ NamedOnce(s)
  BY GrantOnce, OptionOnce, MtaOnce, DataUseOnce, NdaOnce, SoftwareOnce, OtherOnce
<1> QED BY <1>6, <1>7, <1>8, WorkforceBooks, Zenon

(***************************************************************************)
(* What is refused, and by which words.                                    *)
(***************************************************************************)

Mild == Tiers \ {"unacceptable"}

(* Limits do not refuse.                                                 *)
LEMMA MildLimits ==
    /\ \A n, th : AtMost(n, th) \in Mild
    /\ \A n, th : AtLeast(n, th) \in Mild
    /\ \A text, best, weaker : Attested(text, best, weaker) \in Mild
BY DEF AtMost, AtLeast, Attested, Mild, Tiers

(* Of mild outcomes the most serious is mild.                            *)
LEMMA MildAmong ==
    ASSUME NEW T, T \subseteq Mild, T # {}
    PROVE  MostSerious(T) \in Mild
BY MostSeriousIs DEF Mild

CampusMild == CampusTypes \ {"PublicationRights", "BackgroundIP", "Indemnity", "GoverningLaw", "ExportControl"}

(* Which checks of research and licensing refuse a clause, and for what. *)
LEMMA CampusRefuses ==
    ASSUME NEW text, NEW th
    PROVE  /\ \A type \in CampusMild : CampusCheck(type, text, th) \in Mild
           /\ CampusCheck("PublicationRights", text, th) = "unacceptable" <=> Says(text, "needs approval")
           /\ CampusCheck("BackgroundIP", text, th) = "unacceptable"
                 <=> FirstIs(text, "we assign", {"we do not assign"})
           /\ CampusCheck("Indemnity", text, th) = "unacceptable" <=> Says(text, "we indemnify")
           /\ CheckGoverningLaw(text, th) = "unacceptable" <=> Says(text, "immunity waived")
           /\ CheckExportControl(text) = "unacceptable" <=> Says(text, "nationals restricted")
           /\ CampusCheck("GoverningLaw", text, th) = CheckGoverningLaw(text, th)
           /\ CampusCheck("ExportControl", text, th) = CheckExportControl(text)
<1>m. {"within", "fallback", "review", "deviates"} \subseteq Mild
  BY DEF Mild, Tiers
<1>1. CheckLicenseScope(text) \in Mild
  BY <1>m DEF CheckLicenseScope
<1>2. CheckRoyalties(text, th) \in Mild
  <2> DEFINE rates == Stated(text, "royalty")
             shares == Stated(text, "sublicense share")
             one == IF rates = {} THEN "review" ELSE AtLeast(Lowest(rates), th)
             other == IF shares = {} THEN "deviates" ELSE AtLeast(Highest(shares), th)
  <2>1. one \in Mild /\ other \in Mild
    BY <1>m, MildLimits
  <2>2. MostSerious({one, other}) \in Mild
    <3> HIDE DEF one, other
    <3>1. {one, other} \subseteq Mild /\ {one, other} # {}
      BY <2>1
    <3> QED BY <3>1, MildAmong
  <2> QED BY <1>m, <2>2 DEF CheckRoyalties
<1>3. CheckConfidentiality(text, th) \in Mild
  <2>1. PICK T : T = IF YearsTier(text, th) = {} THEN {"review"} ELSE YearsTier(text, th)
    OBVIOUS
  <2>2. T \subseteq Mild /\ T # {}
    BY <1>m, <2>1, PeriodsTiers DEF Mild
  <2> QED BY <2>1, <2>2, MildAmong DEF CheckConfidentiality
<1>4. CheckDataRights(text, th) \in Mild
  <2>1. PICK T : T = YearsTier(text, th)
                   \cup {"within" : x \in {w \in {"name with consent", "we keep data"} : Says(text, w)}}
                   \cup {"deviates" : x \in {w \in {"name freely", "they own data"} : Says(text, w)}}
    OBVIOUS
  <2>2. YearsTier(text, th) \subseteq Mild
    BY PeriodsTiers DEF Mild
  <2>3. T \subseteq Mild
    BY <1>m, <2>1, <2>2
  <2>4. CheckDataRights(text, th) = IF T = {} THEN "review" ELSE MostSerious(T)
    BY <2>1 DEF CheckDataRights
  <2> QED BY <1>m, <2>3, <2>4, MildAmong
<1>5. CheckSponsorReporting(text, th) \in Mild
  <2>1. PICK T : T = {AtMost(n, th) : n \in Stated(text, "reports a year")}
                   \cup (IF ~Says(text, "prime terms") THEN {}
                         ELSE IF Says(text, "terms listed") THEN {"within"} ELSE {"deviates"})
    OBVIOUS
  <2>2. {AtMost(n, th) : n \in Stated(text, "reports a year")} \subseteq Mild
    BY MildLimits
  <2>3. T \subseteq Mild
    BY <1>m, <2>1, <2>2
  <2>4. CheckSponsorReporting(text, th) = IF T = {} THEN "review" ELSE MostSerious(T)
    BY <2>1 DEF CheckSponsorReporting
  <2> QED BY <1>m, <2>3, <2>4, MildAmong
<1>6. CheckDiligence(text) \in Mild
  BY <1>m DEF CheckDiligence
<1>7. CheckTerm(text, th) \in Mild /\ CheckPayment(text, th) \in Mild
  BY <1>m, MildLimits DEF CheckTerm, CheckPayment
<1>8. /\ CheckWarranty(text) \in Mild /\ CheckLiability(text) \in Mild /\ CheckInsurance(text) \in Mild
      /\ CheckTermination(text) \in Mild /\ CheckUseOfName(text) \in Mild
  BY <1>m DEF CheckWarranty, CheckLiability, CheckInsurance, CheckTermination, CheckUseOfName
<1>9. \A type \in CampusMild : CampusCheck(type, text, th) \in Mild
  BY <1>1, <1>2, <1>3, <1>4, <1>5, <1>6, <1>7, <1>8 DEF CampusCheck, CampusMild, CampusTypes
<1>10. CampusCheck("PublicationRights", text, th) = "unacceptable" <=> Says(text, "needs approval")
  <2>1. PICK total : total = Longest(text, "review days") + Longest(text, "delay days")
    OBVIOUS
  <2>2. AtMost(total, th) # "unacceptable"
    BY MildLimits DEF Mild
  <2> QED BY <2>1, <2>2 DEF CampusCheck, CheckPublication
<1>11. CampusCheck("BackgroundIP", text, th) = "unacceptable" <=> FirstIs(text, "we assign", {"we do not assign"})
  BY DEF CampusCheck, CheckBackgroundIp
<1>12. CampusCheck("Indemnity", text, th) = "unacceptable" <=> Says(text, "we indemnify")
  BY DEF CampusCheck, CheckIndemnity
<1>13. CheckGoverningLaw(text, th) = "unacceptable" <=> Says(text, "immunity waived")
  BY DEF CheckGoverningLaw
<1>14. CheckExportControl(text) = "unacceptable" <=> Says(text, "nationals restricted")
  BY DEF CheckExportControl
<1>15. /\ CampusCheck("GoverningLaw", text, th) = CheckGoverningLaw(text, th)
       /\ CampusCheck("ExportControl", text, th) = CheckExportControl(text)
  BY DEF CampusCheck
<1> QED BY <1>9, <1>10, <1>11, <1>12, <1>13, <1>14, <1>15

SoftwareMild == SoftwareTypes \ {"Indemnity", "DataProcessing", "GoverningLaw", "ExportControl"}

(* Which checks of software bought do.                                   *)
LEMMA SoftwareRefuses ==
    ASSUME NEW text, NEW th
    PROVE  /\ \A type \in SoftwareMild : SoftwareCheck(type, text, th) \in Mild
           /\ SoftwareCheck("Indemnity", text, th) = "unacceptable"
                 <=> Says(text, "we indemnify") /\ ~ Says(text, "as law permits")
           /\ SoftwareCheck("DataProcessing", text, th) = "unacceptable" <=> Says(text, "vendor uses our data")
           /\ SoftwareCheck("GoverningLaw", text, th) = CheckGoverningLaw(text, th)
           /\ SoftwareCheck("ExportControl", text, th) = CheckExportControl(text)
<1>m. {"within", "fallback", "review", "deviates"} \subseteq Mild
  BY DEF Mild, Tiers
<1>1. CheckScope(text) \in Mild
  BY <1>m DEF CheckScope
<1>2. CheckFees(text, th) \in Mild
  BY <1>m, MildLimits DEF CheckFees
<1>3. CheckRenewal(text, th) \in Mild
  BY <1>m, MildLimits DEF CheckRenewal
<1>4. CheckAudit(text, th) \in Mild
  BY <1>m DEF CheckAudit
<1>5. CheckSla(text, th) \in Mild
  BY <1>m DEF CheckSla
<1>6. CheckVendorWarranty(text) \in Mild /\ CheckVendorLiability(text) \in Mild
  BY <1>m DEF CheckVendorWarranty, CheckVendorLiability
<1>7. /\ CheckSecurity(text) \in Mild /\ CheckAccessibility(text) \in Mild
      /\ CheckVendorTermination(text) \in Mild /\ CheckVendorInsurance(text) \in Mild
  BY MildLimits DEF CheckSecurity, CheckAccessibility, CheckVendorTermination, CheckVendorInsurance
<1>8. CheckEscrow(text) \in Mild /\ CheckAssignment(text) \in Mild
  BY <1>m DEF CheckEscrow, CheckAssignment
<1>9. \A type \in SoftwareMild : SoftwareCheck(type, text, th) \in Mild
  BY <1>1, <1>2, <1>3, <1>4, <1>5, <1>6, <1>7, <1>8 DEF SoftwareCheck, SoftwareMild, SoftwareTypes
<1>10. SoftwareCheck("Indemnity", text, th) = "unacceptable"
          <=> Says(text, "we indemnify") /\ ~ Says(text, "as law permits")
  BY DEF SoftwareCheck, CheckVendorIndemnity
<1>11. SoftwareCheck("DataProcessing", text, th) = "unacceptable" <=> Says(text, "vendor uses our data")
  BY DEF SoftwareCheck, CheckData
<1>12. /\ SoftwareCheck("GoverningLaw", text, th) = CheckGoverningLaw(text, th)
       /\ SoftwareCheck("ExportControl", text, th) = CheckExportControl(text)
  BY DEF SoftwareCheck
<1> QED BY <1>9, <1>10, <1>11, <1>12

(* The checks services have of their own refuse nothing.                 *)
LEMMA WorkforceRefuses ==
    ASSUME NEW text, NEW th
    PROVE  /\ \A type \in OwnTypes : WorkforceCheck(type, text, th) \in Mild
           /\ \A type \in WorkforceTypes \ OwnTypes : WorkforceCheck(type, text, th) = SoftwareCheck(type, text, th)
<1>m. {"within", "fallback", "review", "deviates"} \subseteq Mild
  BY DEF Mild, Tiers
<1>1. CheckRates(text, th) \in Mild /\ CheckPayment(text, th) \in Mild
  BY <1>m, MildLimits DEF CheckRates, CheckPayment
<1>2. CheckHoursCap(text) \in Mild
  BY <1>m DEF CheckHoursCap
<1>3. CheckOvertime(text, th) \in Mild
  BY <1>m, MildLimits DEF CheckOvertime
<1>4. CheckWorkForHire(text) \in Mild /\ CheckCoEmployment(text) \in Mild /\ CheckTermination(text) \in Mild
  BY <1>m DEF CheckWorkForHire, CheckCoEmployment, CheckTermination
<1>5. CheckExpenses(text, th) \in Mild
  BY <1>m, MildLimits DEF CheckExpenses
<1>6. \A type \in OwnTypes : WorkforceCheck(type, text, th) \in Mild
  BY <1>1, <1>2, <1>3, <1>4, <1>5 DEF WorkforceCheck, OwnTypes
<1>7. \A type \in WorkforceTypes \ OwnTypes : WorkforceCheck(type, text, th) = SoftwareCheck(type, text, th)
  BY DEF WorkforceCheck, OwnTypes
<1> QED BY <1>6, <1>7

(***************************************************************************)
(* What stands in the matrix is looked for, and told apart.                *)
(***************************************************************************)

LEMMA BookIs ==
    ASSUME DocumentInv
    PROVE  Book \in Seq(PositionSet) /\ NamedOnce(Book) /\ \A i \in DOMAIN Book : Book[i] \in PositionSet
<1>1. DefaultBook(agreement) \in Seq(PositionSet) /\ NamedOnce(DefaultBook(agreement))
  BY BooksNameOnce DEF DocumentInv
<1>2. <<>> \in Seq(PositionSet) /\ NamedOnce(<<>>)
  BY DEF NamedOnce
<1>3. Book \in {<<>>, DefaultBook(agreement)}
  BY Zenon DEF Book
<1>4. Book \in Seq(PositionSet) /\ NamedOnce(Book)
  <2> HIDE DEF Book
  <2> QED BY <1>1, <1>2, <1>3
<1>5. \A i \in DOMAIN Book : Book[i] \in PositionSet
  <2>1. PICK s \in Seq(PositionSet) : s = Book
    BY <1>4
  <2>2. \A i \in DOMAIN s : s[i] \in PositionSet
    OBVIOUS
  <2> QED BY <2>1, <2>2
<1> QED BY <1>4, <1>5

(* A result, by its parts.                                               *)
LEMMA ResultIs ==
    ASSUME NEW p
    PROVE  /\ Result(p).of = p
           /\ Match(p.type) = {} => Result(p).tier = "missing"
           /\ Match(p.type) # {} => Result(p).tier = Tier(p.type, Body(Match(p.type)))
BY DEF Result

(* A clause found has an outcome.                                        *)
LEMMA GradedTiers == \A type, text : Tier(type, text) \in Tiers
<1>1. BookKind \in MatrixBooks
  BY DEF BookKind, MatrixBooks
<1> QED BY <1>1, MatrixGivesTiers DEF Tier

(* A required clause is within the matrix, or blocks the contract.       *)
LEMMA NeverSilent ==
    ASSUME DocumentInv
    PROVE  RequiredNeverSilent(ReviewDocument)
<1> SUFFICES ASSUME NEW i \in DOMAIN Book, Book[i].required
             PROVE  \/ \E r \in ReviewDocument : r.of = Book[i] /\ r.tier \in {"within", "fallback"}
                    \/ \E b \in SonarBlockers(ReviewDocument) : b.type = Book[i].type
  BY DEF RequiredNeverSilent
<1>1. PICK r : r = Result(Book[i])
  OBVIOUS
<1>2. r \in ReviewDocument
  BY <1>1 DEF ReviewDocument
<1>3. r.of = Book[i] /\ r.tier \in Tiers \cup {"missing"}
  BY <1>1, ResultIs, GradedTiers
<1>4. CASE r.tier \in {"within", "fallback"}
  BY <1>2, <1>3, <1>4
<1>5. CASE r.tier \notin {"within", "fallback"}
  <2>1. Blocks(r)
    BY <1>3, <1>5 DEF Blocks, Tiers
  <2>2. PICK b : b = [type |-> r.of.type, at |-> r.at, office |-> Office(r)]
    OBVIOUS
  <2>3. b \in SonarBlockers(ReviewDocument)
    BY <1>2, <2>1, <2>2 DEF SonarBlockers
  <2>4. b.type = Book[i].type
    BY <1>3, <2>2
  <2> QED BY <2>3, <2>4
<1> QED BY <1>4, <1>5

(* No clause that is graded as its own type is borrowed for another.     *)
LEMMA NoneBorrowed == BorrowedOnlyUngraded
<1> SUFFICES ASSUME NEW type \in Types, NEW c \in Match(type), clauses[c].type \in Types \ {type}
             PROVE  type = "Payment" /\ PaysWithin(clauses[c].body)
  BY DEF BorrowedOnlyUngraded
<1> DEFINE related == {k \in DOMAIN Aliases(type) : Aliases(type)[k] \notin Types /\ Of(Aliases(type)[k]) # {}}
           suggested == {i \in DOMAIN clauses : clauses[i].type \notin Types /\ type \in clauses[i].titles}
           lent == UNION {Of(Aliases(type)[k]) : k \in First(related)}
           paid == {i \in DOMAIN clauses : PaysWithin(clauses[i].body)}
<1>1. \/ c \in Of(type)
      \/ c \in lent
      \/ c \in First(suggested)
      \/ type = "Payment" /\ c \in paid
  <2>1. Match(type) = IF Of(type) # {} THEN Of(type)
                      ELSE IF related # {} THEN lent
                      ELSE IF suggested # {} THEN First(suggested)
                      ELSE IF type = "Payment" THEN paid ELSE {}
    BY DEF Match
  <2> HIDE DEF related, suggested, lent, paid
  <2> QED BY <2>1
<1>2. c \notin Of(type)
  BY DEF Of
<1>3. c \notin lent
  <2> SUFFICES ASSUME NEW k \in First(related), c \in Of(Aliases(type)[k]) PROVE FALSE
    OBVIOUS
  <2>1. Aliases(type)[k] \notin Types
    BY DEF First
  <2>2. clauses[c].type = Aliases(type)[k]
    BY DEF Of
  <2> QED BY <2>1, <2>2
<1>4. c \notin First(suggested)
  BY DEF First
<1> QED BY <1>1, <1>2, <1>3, <1>4

(* One result for a type, so one blocker.                                *)
LEMMA BlockersApart ==
    ASSUME DocumentInv
    PROVE  BlockersToldApart(ReviewDocument)
<1> SUFFICES ASSUME NEW r \in ReviewDocument, NEW other \in ReviewDocument, r.of.type = other.of.type
             PROVE  r = other
  BY DEF BlockersToldApart
<1>1. PICK i \in DOMAIN Book : r = Result(Book[i])
  BY DEF ReviewDocument
<1>2. PICK j \in DOMAIN Book : other = Result(Book[j])
  BY DEF ReviewDocument
<1>3. Book[i].type = Book[j].type
  BY <1>1, <1>2, ResultIs
<1>4. i = j
  BY <1>3, BookIs DEF NamedOnce
<1> QED BY <1>1, <1>2, <1>4

(* The words a type of clause is refused for.                              *)
RefusedFor(type, what) ==
    \/ type = "PublicationRights" /\ what = "needs approval"
    \/ type = "BackgroundIP" /\ what = "we assign"
    \/ type = "Indemnity" /\ what = "we indemnify"
    \/ type = "GoverningLaw" /\ what = "immunity waived"
    \/ type = "ExportControl" /\ what = "nationals restricted"
    \/ type = "DataProcessing" /\ what = "vendor uses our data"

TakesBack(text) == Says(text, "we do not assign") \/ Says(text, "as law permits")

(* Where nothing denies an assignment, the first place it stands counts.   *)
LEMMA FirstPlace ==
    ASSUME NEW D, NEW text \in Seq(D), NEW what, NEW other
    PROVE  /\ FirstIs(text, what, {other}) => Says(text, what)
           /\ Says(text, what) /\ ~ Says(text, other) => FirstIs(text, what, {other})
<1>1. FirstIs(text, what, {other}) => Says(text, what)
  BY DEF FirstIs, Says
<1>2. ASSUME Says(text, what), ~ Says(text, other) PROVE FirstIs(text, what, {other})
  <2> DEFINE T == {i \in DOMAIN text : text[i].what = what}
  <2>0. Len(text) \in Nat /\ DOMAIN text = 1 .. Len(text)
    OBVIOUS
  <2>1. T \subseteq Nat /\ T # {}
    BY <1>2, <2>0 DEF Says
  <2> HIDE DEF T
  <2>2. PICK n \in T : \A m \in T : n <= m
    BY <2>1, LeastNumber
  <2>3. n \in DOMAIN text /\ text[n].what = what
    BY DEF T
  <2>4. \A j \in 1 .. (n - 1) : j \in DOMAIN text /\ ~ (n <= j)
    BY <2>0, <2>3
  <2>5. \A j \in 1 .. (n - 1) : text[j].what # what /\ text[j].what # other
    BY <1>2, <2>2, <2>4 DEF T, Says
  <2> QED BY <2>3, <2>5 DEF FirstIs
<1> QED BY <1>1, <1>2

(* A check refuses a text for a word, and any text that says it.         *)
LEMMA SoftwareRefusals ==
    ASSUME NEW text, NEW th, NEW type \in SoftwareTypes
    PROVE  /\ SoftwareCheck(type, text, th) = "unacceptable" => \E what : RefusedFor(type, what) /\ Says(text, what)
           /\ \A what : RefusedFor(type, what) /\ Says(text, what) /\ ~ TakesBack(text)
                 => SoftwareCheck(type, text, th) = "unacceptable"
<1>1. CASE type \in SoftwareMild
  <2>1. SoftwareCheck(type, text, th) # "unacceptable"
    BY <1>1, SoftwareRefuses DEF Mild
  <2>2. \A what : ~ RefusedFor(type, what)
    BY <1>1 DEF RefusedFor, SoftwareMild, SoftwareTypes
  <2> QED BY <2>1, <2>2
<1>2. CASE type = "Indemnity"
  BY <1>2, SoftwareRefuses, Zenon DEF RefusedFor, TakesBack
<1>3. CASE type = "DataProcessing"
  BY <1>3, SoftwareRefuses, Zenon DEF RefusedFor
<1>4. CASE type = "GoverningLaw"
  <2>1. SoftwareCheck(type, text, th) = "unacceptable" <=> Says(text, "immunity waived")
    BY <1>4, SoftwareRefuses, CampusRefuses
  <2> QED BY <1>4, <2>1 DEF RefusedFor
<1>5. CASE type = "ExportControl"
  <2>1. SoftwareCheck(type, text, th) = "unacceptable" <=> Says(text, "nationals restricted")
    BY <1>5, SoftwareRefuses, CampusRefuses
  <2> QED BY <1>5, <2>1 DEF RefusedFor
<1> QED BY <1>1, <1>2, <1>3, <1>4, <1>5 DEF SoftwareMild

LEMMA CampusRefusals ==
    ASSUME NEW D, NEW text \in Seq(D), NEW th, NEW type \in CampusTypes
    PROVE  /\ CampusCheck(type, text, th) = "unacceptable" => \E what : RefusedFor(type, what) /\ Says(text, what)
           /\ \A what : RefusedFor(type, what) /\ Says(text, what) /\ ~ TakesBack(text)
                 => CampusCheck(type, text, th) = "unacceptable"
<1>1. CASE type \in CampusMild
  <2>1. CampusCheck(type, text, th) # "unacceptable"
    BY <1>1, CampusRefuses DEF Mild
  <2>2. \A what : ~ RefusedFor(type, what)
    BY <1>1 DEF RefusedFor, CampusMild, CampusTypes
  <2> QED BY <2>1, <2>2
<1>2. CASE type = "PublicationRights"
  <2>1. CampusCheck(type, text, th) = "unacceptable" <=> Says(text, "needs approval")
    BY <1>2, CampusRefuses
  <2> QED BY <1>2, <2>1 DEF RefusedFor
<1>3. CASE type = "BackgroundIP"
  <2>1. CampusCheck(type, text, th) = "unacceptable" <=> FirstIs(text, "we assign", {"we do not assign"})
    BY <1>3, CampusRefuses
  <2>2. PICK what : what = "we assign"
    OBVIOUS
  <2>3. PICK other : other = "we do not assign"
    OBVIOUS
  <2>4. /\ FirstIs(text, what, {other}) => Says(text, what)
        /\ Says(text, what) /\ ~ Says(text, other) => FirstIs(text, what, {other})
    BY FirstPlace
  <2> QED BY <1>3, <2>1, <2>2, <2>3, <2>4 DEF RefusedFor, TakesBack
<1>4. CASE type = "Indemnity"
  <2>1. CampusCheck(type, text, th) = "unacceptable" <=> Says(text, "we indemnify")
    BY <1>4, CampusRefuses
  <2> QED BY <1>4, <2>1 DEF RefusedFor
<1>5. CASE type = "GoverningLaw"
  <2>1. CampusCheck(type, text, th) = "unacceptable" <=> Says(text, "immunity waived")
    BY <1>5, CampusRefuses
  <2> QED BY <1>5, <2>1 DEF RefusedFor
<1>6. CASE type = "ExportControl"
  <2>1. CampusCheck(type, text, th) = "unacceptable" <=> Says(text, "nationals restricted")
    BY <1>6, CampusRefuses
  <2> QED BY <1>6, <2>1 DEF RefusedFor
<1> QED BY <1>1, <1>2, <1>3, <1>4, <1>5, <1>6 DEF CampusMild

LEMMA CheckRefusals ==
    ASSUME NEW D, NEW text \in Seq(D), NEW b \in MatrixBooks, NEW type \in TypesOf(b)
    PROVE  /\ Check(b, type, text) = "unacceptable" => \E what : RefusedFor(type, what) /\ Says(text, what)
           /\ \A what : RefusedFor(type, what) /\ Says(text, what) /\ ~ TakesBack(text)
                 => Check(b, type, text) = "unacceptable"
<1>1. PICK th : th = Limits(b, type)
  OBVIOUS
<1>2. CASE b = "campus"
  <2>1. type \in CampusTypes /\ Check(b, type, text) = CampusCheck(type, text, th)
    BY <1>1, <1>2 DEF TypesOf, Check
  <2> QED BY <2>1, CampusRefusals
<1>3. CASE b = "software"
  <2>1. type \in SoftwareTypes /\ Check(b, type, text) = SoftwareCheck(type, text, th)
    BY <1>1, <1>3 DEF TypesOf, Check
  <2> QED BY <2>1, SoftwareRefusals
<1>4. CASE b = "services"
  <2>1. type \in WorkforceTypes /\ Check(b, type, text) = WorkforceCheck(type, text, th)
    BY <1>1, <1>4 DEF TypesOf, Check
  <2>2. CASE type \in OwnTypes
    <3>1. WorkforceCheck(type, text, th) # "unacceptable"
      BY <2>2, WorkforceRefuses DEF Mild
    <3>2. \A what : ~ RefusedFor(type, what)
      BY <2>2 DEF RefusedFor, OwnTypes
    <3> QED BY <2>1, <3>1, <3>2
  <2>3. CASE type \notin OwnTypes
    <3>1. type \in SoftwareTypes
      BY <2>1, <2>3 DEF WorkforceTypes
    <3>2. WorkforceCheck(type, text, th) = SoftwareCheck(type, text, th)
      BY <2>1, <2>3, WorkforceRefuses
    <3> QED BY <2>1, <3>1, <3>2, SoftwareRefusals
  <2> QED BY <2>2, <2>3
<1> QED BY <1>2, <1>3, <1>4 DEF MatrixBooks

(* A longer text of the same clause is no better.                          *)
LEMMA RefusalStands ==
    ASSUME NEW D, NEW text \in Seq(D), NEW more \in Seq(D), \A what : Says(text, what) => Says(more, what),
           ~ TakesBack(more), NEW b \in MatrixBooks, NEW type, NEW own,
           MatrixGrade(b, type, own, text) = "unacceptable"
    PROVE  MatrixGrade(b, type, own, more) = "unacceptable"
<1> DEFINE listed == own \cap {"unacceptable phrase"}
<1>1. PhraseHit(text, listed) => PhraseHit(more, listed)
  BY DEF PhraseHit
<1>2. CASE PhraseHit(text, listed)
  BY <1>1, <1>2 DEF MatrixGrade
<1>3. CASE ~ PhraseHit(text, listed)
  <2>1. type \in TypesOf(b) /\ Check(b, type, text) = "unacceptable"
    BY <1>3 DEF MatrixGrade
  <2>2. PICK what : RefusedFor(type, what) /\ Says(text, what)
    BY <2>1, CheckRefusals
  <2>3. Check(b, type, more) = "unacceptable"
    BY <2>1, <2>2, CheckRefusals
  <2> QED BY <2>1, <2>3 DEF MatrixGrade
<1> QED BY <1>2, <1>3

(* A list with a place in it is not empty.                               *)
LEMMA SomethingStands ==
    ASSUME NEW s, NEW i \in DOMAIN s
    PROVE  s # <<>>
<1> SUFFICES ASSUME s = <<>> PROVE FALSE
  OBVIOUS
<1>1. DOMAIN s = 1 .. 0
  OBVIOUS
<1>2. 1 .. 0 = {}
  OBVIOUS
<1> QED BY <1>1, <1>2

(* A clause refused by itself is refused beside others of its type.      *)
LEMMA NothingHidden ==
    ASSUME DocumentInv
    PROVE  SplitHidesNothing(ReviewDocument)
<1> SUFFICES ASSUME NEW r \in ReviewDocument, NEW c \in Of(r.of.type),
                    Tier(r.of.type, clauses[c].body) = "unacceptable",
                    ~ SaysAny(Body(Of(r.of.type)), {"we do not assign", "as law permits"})
             PROVE  r.tier = "unacceptable" /\ Office(r) = r.of.office
  BY DEF SplitHidesNothing
<1>1. PICK i \in DOMAIN Book : r = Result(Book[i])
  BY DEF ReviewDocument
<1>2. PICK p : p = Book[i]
  OBVIOUS
<1>3. PICK type : type = p.type
  OBVIOUS
<1>4. r.of = p /\ r.of.type = type
  BY <1>1, <1>2, <1>3, ResultIs
<1>5. c \in Of(type) /\ Of(type) \subseteq DOMAIN clauses /\ c \in DOMAIN clauses
  BY <1>4 DEF Of
<1>6. clauses # <<>> /\ clauses[c].body \in Seq(SentenceSet)
  BY <1>5, ClausesAre, SomethingStands
<1>7. Match(type) = Of(type) /\ Of(type) # {}
  BY <1>5 DEF Match
<1> DEFINE M == Of(type)
           text == clauses[c].body
           more == Body(M)
<1>8. /\ more \in Seq(SentenceSet)
      /\ \A what : Says(more, what) <=> \E d \in M : Says(clauses[d].body, what)
  BY <1>5, <1>6, BodySays
<1>9. \A what : Says(text, what) => Says(more, what)
  BY <1>5, <1>8
<1>10. ~ TakesBack(more)
  BY <1>4 DEF TakesBack, SaysAny
<1>11. BookKind \in MatrixBooks
  BY DEF BookKind, MatrixBooks
<1>12. PICK own : own = Phrases(agreement, type)
  OBVIOUS
<1>13. Tier(type, text) = MatrixGrade(BookKind, type, own, text) /\ Tier(type, more) = MatrixGrade(BookKind, type, own, more)
  BY <1>12 DEF Tier
<1>14. text \in Seq(SentenceSet) /\ Tier(type, text) = "unacceptable"
  BY <1>4, <1>6
<1>15. r.tier = Tier(type, more)
  BY <1>1, <1>2, <1>3, <1>7, ResultIs
<1> HIDE DEF M, text, more
<1>16. Tier(type, more) = "unacceptable"
  BY <1>8, <1>9, <1>10, <1>11, <1>13, <1>14, RefusalStands
<1> QED BY <1>15, <1>16 DEF Office

(* What is promised of a document's review follows.                      *)
LEMMA DocumentGives == DocumentInv => ReviewHolds
BY NeverSilent, NoneBorrowed, NothingHidden, BlockersApart DEF ReviewHolds
=============================================================================
