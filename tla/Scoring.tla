------------------------------ MODULE Scoring ------------------------------
(***************************************************************************)
(* ai_verification/document_scoring: one score and one colour for the      *)
(* documents of a bidder, from what was extracted, checked and found.      *)
(*   documents [id, type], requirements [cap, applicability],              *)
(*   results [req, cap, status, flags (in order), evidence, cites].        *)
(* Scores run from 0 to 100 and weights are hundredths.                    *)
(***************************************************************************)
EXTENDS CrossBidder, Sums

(* policy.py.                                                                   *)
DEFAULT_DOCUMENT_IMPORTANCE ==
    [CRITICAL |-> {"GST", "PAN", "DEBARMENT", "BIDDER_IDENTITY"},
     HIGH |-> {"UDYAM", "MCA21", "BIS", "ITR", "FINANCIAL", "MAKE_IN_INDIA", "OEM"},
     MEDIUM |-> {"DIGILOCKER", "EPFO", "ESIC", "STARTUP", "NSIC", "CA_UDIN"},
     LOW |-> {"UNKNOWN"}]
Weight == [CRITICAL |-> 100, HIGH |-> 80, MEDIUM |-> 55, LOW |-> 25]
DEFAULT_DOCUMENT_ALIASES ==
    [GST |-> {"GSTN", "GST_CERTIFICATE", "GST_REGISTRATION"}, PAN |-> {"PAN_CARD"},
     UDYAM |-> {"UDYAM_REGISTRATION", "MSME"},
     MCA21 |-> {"MCA", "MCA21_REGISTRATION", "COMPANY_REGISTRATION"},
     DEBARMENT |-> {"BLACKLIST", "PROCUREMENT_ELIGIBILITY", "DEBARMENT_REGISTRY"},
     BIS |-> {"BIS_CERTIFICATION", "BIS_LICENCE"},
     FINANCIAL |-> {"ITR", "INCOME_TAX_RETURN", "BALANCE_SHEET", "FINANCIAL_STATEMENTS"},
     MAKE_IN_INDIA |-> {"LOCAL_CONTENT", "MII", "MAKE_IN_INDIA_DECLARATION"},
     OEM |-> {"OEM_AUTHORIZATION", "AUTHORIZATION_LETTER"}, DIGILOCKER |-> {"DIGILOCKER_DOCUMENT"},
     STARTUP |-> {"DPIIT", "STARTUP_INDIA"}, CA_UDIN |-> {"UDIN"}]
DEFAULT_REQUIRED_DOCUMENTS ==
    [GST |-> {"GST"}, GST_RETURN_FILING |-> {"GST"}, PAN_INCOME_TAX |-> {"PAN", "FINANCIAL"},
     UDYAM |-> {"UDYAM"}, FINANCIAL |-> {"FINANCIAL"}, MAKE_IN_INDIA |-> {"MAKE_IN_INDIA"},
     BIS |-> {"BIS"}, DIGILOCKER |-> {"DIGILOCKER"}, OEM_AUTHORIZATION |-> {"OEM"},
     MCA21 |-> {"MCA21"}, DEBARMENT |-> {"DEBARMENT"}]

NormalizeDocumentType(type) ==
    LET of == {t \in DOMAIN DEFAULT_DOCUMENT_ALIASES : type \in DEFAULT_DOCUMENT_ALIASES[t]}
    IN  IF of = {} THEN type ELSE CHOOSE t \in of : TRUE
CanonicalType(type) ==
    LET name == NormalizeDocumentType(type)
    IN  IF \E p \in DOMAIN Weight : name \in DEFAULT_DOCUMENT_IMPORTANCE[p] THEN name ELSE "UNKNOWN"
Priority(canonical) == CHOOSE p \in DOMAIN Weight : canonical \in DEFAULT_DOCUMENT_IMPORTANCE[p]
ExpectedDocumentsFor(capability) ==
    IF capability \in DOMAIN DEFAULT_REQUIRED_DOCUMENTS THEN DEFAULT_REQUIRED_DOCUMENTS[capability] ELSE {}
ExpectedTypes(requirements, results) ==
    LET required == {r.cap : r \in {q \in ToSet(requirements) : q.applicability # "NOT_APPLICABLE"}}
        judged == {r.cap : r \in {q \in ToSet(results) : q.status # "NOT_APPLICABLE"}}
    IN  UNION {ExpectedDocumentsFor(cap) : cap \in required \cup judged}

(* What each adverse record takes from the score of a document.                 *)
ComplianceDeduction == [FAIL |-> 60, MISSING |-> 45, UNVERIFIABLE |-> 30, WARNING |-> 20, NOT_CHECKED |-> 20]
VerificationDeduction ==
    [INVALID |-> 45, INACTIVE |-> 45, NOT_FOUND |-> 40, UNAVAILABLE |-> 30, ERROR |-> 30]
QualityDeduction == [DEGRADED |-> 15, UNKNOWN |-> 25]
Deduction(table, key) == IF key \in DOMAIN table THEN table[key] ELSE 0
OfType(canonical, records) == {r \in ToSet(records) : canonical \in ExpectedDocumentsFor(r.cap)}
Deductions(table, canonical, records) ==
    Sum([i \in DOMAIN records |-> IF canonical \in ExpectedDocumentsFor(records[i].cap)
                                  THEN Deduction(table, records[i].status) ELSE 0])

NoConfidence == 999
LowConfidence(evidence) ==
    LET rated == SelectSeq(evidence, LAMBDA e : e.confidence # NoConfidence)
    IN  rated # <<>> /\ FoldSeq(LAMBDA e, sum : sum + e.confidence, 0, rated) < 70 * Len(rated)

(* A finding about documents (kind "documents") has no trace.                   *)
FlagsForType(document, evidence, findings) ==
    LET own == {e.id : e \in ToSet(evidence)}
    IN  {f.flag : f \in {g \in findings : \/ g.evidence \cap own # {}
                                          \/ g.kind # "documents" /\ document.id \in ToSet(g.docs)}}
Material(flag) == SeverityOf(flag) \in {"CRITICAL", "HIGH"}

Clamp(score) == IF score < 0 THEN 0 ELSE score
ScoreDocument(document, evidence, results, verifications, findings, quality) ==
    LET type == CanonicalType(document.type)
        mine == SelectSeq(evidence, LAMBDA e : e.document = document.id)
        judged == OfType(type, results)
        verified == OfType(type, verifications)
        material == {f \in FlagsForType(document, mine, findings) \cup UNION {ToSet(r.flags) : r \in judged} :
                        Material(f)}
        lost == (IF mine = <<>> THEN 35 ELSE 0) + (IF LowConfidence(mine) THEN 15 ELSE 0)
                + Deductions(ComplianceDeduction, type, results)
                + Deductions(VerificationDeduction, type, verifications)
                + 25 * Cardinality(material) + Deduction(QualityDeduction, quality)
    IN  [type |-> type, score |-> Clamp(100 - lost), material |-> material # {},
         failed |-> \/ \E r \in judged : r.status \in {"FAIL", "MISSING"}
                    \/ \E v \in verified : v.status \in {"INVALID", "INACTIVE", "NOT_FOUND"}]
(* A type that is missing scores nothing and weighs as much as a document.      *)
MissingWeight(missing) ==
    LET of(p) == Weight[p] * Cardinality({t \in missing : Priority(t) = p})
    IN  of("CRITICAL") + of("HIGH") + of("MEDIUM") + of("LOW")

(* The weighted mean, as <<sum, sum of weights>>.                               *)
WeightedScore(details) ==
    LET present == details.present
        weight(i) == Weight[Priority(present[i].type)]
    IN  <<Sum([i \in DOMAIN present |-> weight(i) * present[i].score]),
          Sum([i \in DOMAIN present |-> weight(i)]) + MissingWeight(details.missing)>>
Below(mean, limit) == mean[1] < limit * mean[2]

Categorize(details) ==
    LET present == ToSet(details.present)
        Important(type) == Priority(type) \in {"CRITICAL", "HIGH"}
    IN  IF \/ Below(WeightedScore(details), 50)
           \/ \E t \in details.missing : Important(t)
           \/ \E d \in present : d.material \/ (d.failed /\ Important(d.type))
        THEN "RED"
        ELSE IF Below(WeightedScore(details), 80) \/ \E d \in present : d.type = "UNKNOWN"
        THEN "YELLOW" ELSE "GREEN"

(* What is present, in the order of the documents, and the types that are not.  *)
Details(documents, requirements, evidence, results, verifications, findings, quality) ==
    [present |-> [i \in DOMAIN documents |->
                     ScoreDocument(documents[i], evidence, results, verifications, findings, quality[documents[i].id])],
     missing |-> ExpectedTypes(requirements, results) \ {CanonicalType(d.type) : d \in ToSet(documents)}]
DocumentScore(documents, requirements, evidence, results, verifications, findings, quality) ==
    LET details == Details(documents, requirements, evidence, results, verifications, findings, quality)
    IN  [details |-> details,
         category |-> IF details.present = <<>> /\ details.missing = {} THEN "RED" ELSE Categorize(details)]
=============================================================================
