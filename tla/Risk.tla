-------------------------------- MODULE Risk --------------------------------
(***************************************************************************)
(* ai_verification/risk and finding_risk_scorer.py: how risky a bidder is. *)
(* A signal is [key, severity, actionable, place]: records that are about  *)
(* the same thing have the same key and count once, and only actionable    *)
(* signals carry a score.  The place is that of its result in the list,    *)
(* which decides between signals of one signal_id; 0 for no result.        *)
(* Scores are percents of percents, 0..10000.                              *)
(***************************************************************************)
EXTENDS Scoring

(* severity.py and policy.py.                                                   *)
SEVERITY_WEIGHTS == [CRITICAL |-> 100, HIGH |-> 90, MEDIUM |-> 60, LOW |-> 30, INFO |-> 10]
SUPPORTING_BOOST_PER_SIGNAL == 5
SUPPORTING_BOOST_CAP == 30
REVIEW_THRESHOLD == 3000
HIGH_RISK_THRESHOLD == 6000

(* correlation.py: the category a flag falls into.                              *)
DocumentReuseFlags ==
    {"CROSS_BIDDER_DOCUMENT_REUSED", "CROSS_BIDDER_DOCUMENT_NEAR_DUPLICATE", "ADDRESS_SHARING_SUSPICIOUS",
     "EXACT_DUPLICATE_BIDDER_DETECTED", "NEAR_DUPLICATE_BIDDER_DETECTED",
     "SUSPICIOUS_BIDDER_RELATIONSHIP_DETECTED", "DIRECTOR_SHARING_SUSPICIOUS", "FINANCIAL_PROFILE_ANOMALY",
     "CROSS_BIDDER_VERIFICATION_INCOMPLETE"}
IdentityFlags ==
    {"CROSS_SOURCE_IDENTITY_MISMATCH", "BIDDER_NAME_MISMATCH", "ADDRESS_MISMATCH", "GST_IDENTITY_MISMATCH",
     "UDYAM_IDENTITY_MISMATCH", "STARTUP_IDENTITY_MISMATCH", "CROSS_DOCUMENT_ADDRESS_CONFLICT",
     "CROSS_DOCUMENT_ENTITY_TYPE_CONFLICT", "CROSS_DOCUMENT_IDENTIFIER_CONFLICT",
     "CROSS_DOCUMENT_DATE_SEQUENCE_INVALID", "CROSS_DOCUMENT_PRODUCT_MISMATCH",
     "CROSS_DOCUMENT_MANUFACTURER_MISMATCH"}
EvidenceQualityFlags ==
    {"EVIDENCE_GROUNDING_UNRELIABLE", "EVIDENCE_PROVENANCE_UNCLEAR", "EVIDENCE_QUALITY_VERIFICATION_INCOMPLETE",
     "EVIDENCE_LINKAGE_BROKEN", "GROUNDING_INSUFFICIENT", "SOURCE_DOCUMENT_UNRECOVERABLE",
     "VERIFICATION_NON_REPRODUCIBLE", "AUDITABILITY_VERIFICATION_INCOMPLETE"}
AvailabilityFlags ==
    {"VERIFICATION_PROVIDER_UNAVAILABLE", "VERIFICATION_PROVIDER_TIMEOUT", "VERIFICATION_PROVIDER_ERROR",
     "CRITICAL_SOURCE_UNAVAILABLE", "GST_VERIFICATION_UNAVAILABLE", "UDYAM_VERIFICATION_UNAVAILABLE",
     "STARTUP_VERIFICATION_UNAVAILABLE", "STATUTORY_VERIFICATION_UNAVAILABLE",
     "TENDER_SPECIFIC_VERIFICATION_UNAVAILABLE", "FINANCIAL_VERIFICATION_UNAVAILABLE",
     "DEBARMENT_VERIFICATION_UNAVAILABLE", "PROCUREMENT_ELIGIBILITY_UNVERIFIABLE",
     "FALLBACK_VERIFICATION_INCOMPLETE"}
CategoryForFlag(flag) ==
    CASE flag \in DocumentReuseFlags -> "DOCUMENT_REUSE" [] flag \in IdentityFlags -> "IDENTITY"
      [] flag \in EvidenceQualityFlags -> "EVIDENCE_QUALITY"
      [] flag \in AvailabilityFlags -> "VERIFICATION_AVAILABILITY" [] OTHER -> "COMPLIANCE"
Key(category, flag, cites, evidence, docs, related) ==
    [category |-> category, flag |-> flag, cites |-> cites, evidence |-> evidence, docs |-> docs, related |-> related]
-----------------------------------------------------------------------------
(* signals.py.  A result is as severe as its first flag, when that is known.    *)
Signal(key, severity, actionable, place) ==
    [key |-> key, severity |-> severity, actionable |-> actionable, place |-> place]
FirstFlag(r) == IF r.flags = <<>> THEN "none" ELSE r.flags[1]
SeverityForResult(r) ==
    IF Known(FirstFlag(r)) THEN SeverityOf(FirstFlag(r))
    ELSE IF r.status = "FAIL" THEN "HIGH" ELSE "MEDIUM"
SignalFromResult(r, i) ==
    Signal(Key("COMPLIANCE", FirstFlag(r), r.cites, [evidence |-> r.evidence, req |-> r.req], {}, {}),
           SeverityForResult(r), r.status \in {"FAIL", "WARNING"}, i)
ComplianceSignals(results) ==
    {SignalFromResult(results[i], i) :
        i \in {k \in DOMAIN results : results[k].status \in {"FAIL", "WARNING", "MISSING"}}}

IdentitySignal(f) ==
    Signal(Key("IDENTITY", f.flag, {}, [evidence |-> f.evidence, req |-> 0], ToSet(f.docs), {}),
           SeverityOf(f.flag), TRUE, 0)

(* A trace is [left, right, docs].  A finding takes the first trace between the *)
(* two bidders it is about, or else the first the bidder occurs in, so that a   *)
(* finding about the bidder alone is given the trace of another.  Traces are a  *)
(* set here: which of several is the first is any choice.                       *)
Related(f) == IF f.kind = "cross_bidder" THEN {f.about} ELSE {}
TracesFor(bidder, f, traces) ==
    LET between == {t \in traces : t.left = bidder /\ t.right \in Related(f)}
    IN  IF between # {} THEN between ELSE {t \in traces : bidder \in {t.left, t.right}}
FindingSignal(bidder, f, traces) ==
    LET for == TracesFor(bidder, f, traces)
        trace == CHOOSE t \in for : TRUE
        known == [evidence |-> f.evidence, req |-> 0]
    IN  Signal(IF for = {} THEN Key(CategoryForFlag(f.flag), f.flag, f.cites, known, {}, Related(f))
               ELSE Key("DOCUMENT_REUSE", f.flag, f.cites, known, ToSet(trace.docs), Related(f) \cup {trace.right}),
               SeverityOf(f.flag), TRUE, 0)

(* Sources that did not answer, and evidence that is not good: told, not scored.*)
AvailabilitySignal(verifications) ==
    LET out == {v \in ToSet(verifications) : v.status \in {"UNAVAILABLE", "ERROR", "NOT_FOUND"}}
        known == [evidence |-> {v.evidence : v \in out} \ {0}, req |-> 0]
    IN  IF out = {} THEN {}
        ELSE {Signal(Key("VERIFICATION_AVAILABILITY", "none", {v.id : v \in out}, known, {}, {}), "MEDIUM", FALSE, 0)}
QualitySignal(qualities) ==
    IF qualities \subseteq {"GOOD"} THEN {}
    ELSE {Signal(Key("EVIDENCE_QUALITY", "none", {}, [evidence |-> {}, req |-> 0], {}, {}), "HIGH", FALSE, 0)}
-----------------------------------------------------------------------------
(* engine.py.  The names of the critical capabilities are those the documents   *)
(* show, which no verification carries: they never count as verified.           *)
CRITICAL_CAPABILITIES == {"GST / GSTN", "PAN / Income Tax", "Bidder Identity"}
EvidenceAvailability(verifications, qualities) ==
    LET with(statuses) == {v \in ToSet(verifications) : v.status \in statuses}
        failed == with({"UNAVAILABLE", "ERROR", "NOT_FOUND", "INVALID", "INACTIVE"})
        verified == with({"VERIFIED"})
    IN  [critical |-> CRITICAL_CAPABILITIES \subseteq {v.cap : v \in verified},
         overall |-> IF qualities # {}
                     THEN CASE "UNKNOWN" \in qualities -> "UNAVAILABLE"
                            [] "UNKNOWN" \notin qualities /\ "DEGRADED" \in qualities -> "INSUFFICIENT"
                            [] OTHER -> "VERIFIED"
                     ELSE IF failed # {} /\ verified = {} THEN "UNAVAILABLE"
                     ELSE IF failed # {} \/ verified = {} THEN "INSUFFICIENT" ELSE "VERIFIED"]

(* aggregation.py: of every key the strongest survives, of several as strong    *)
(* the one of the first signal_id.  Of the signals of a key only those of       *)
(* results can differ in more than their place, and theirs is one requirement.  *)
Outranks(s, t) ==
    \/ SEVERITY_WEIGHTS[t.severity] < SEVERITY_WEIGHTS[s.severity]
    \/ SEVERITY_WEIGHTS[t.severity] = SEVERITY_WEIGHTS[s.severity] /\ s.place <= t.place
DeduplicateSignals(signals) ==
    {s \in signals : \A t \in signals : t.key = s.key => Outranks(s, t)}
Strongest(signals) ==
    IF signals = {} THEN "none"
    ELSE CHOOSE s \in FlagSeverity : /\ \E t \in signals : t.severity = s
                                     /\ \A t \in signals : SEVERITY_WEIGHTS[t.severity] <= SEVERITY_WEIGHTS[s]
(* Variant for the mutation runs: the mean of all signals.                       *)
MeanScore(signals) ==
    IF signals = {} THEN 0
    ELSE (100 * FoldSet(LAMBDA s, sum : sum + SEVERITY_WEIGHTS[s.severity], 0, signals)) \div Cardinality(signals)
AggregateScore(signals) ==
    IF signals = {} THEN 0
    ELSE Lower(10000, SEVERITY_WEIGHTS[Strongest(signals)]
             * (100 + Lower(SUPPORTING_BOOST_CAP, SUPPORTING_BOOST_PER_SIGNAL * (Cardinality(signals) - 1))))
IsIndeterminate(availability, verifications, strongest) ==
    /\ verifications # <<>> /\ strongest = "none"
    /\ ~availability.critical \/ availability.overall = "UNAVAILABLE"
RiskState(availability, verifications, signals) ==
    LET strongest == Strongest(signals) IN
    IF IsIndeterminate(availability, verifications, strongest) THEN "INDETERMINATE"
    ELSE IF strongest \in {"none", "LOW", "INFO"} THEN "CLEAR"
    ELSE IF AggregateScore(signals) > HIGH_RISK_THRESHOLD THEN "HIGH_RISK"
    ELSE IF AggregateScore(signals) >= REVIEW_THRESHOLD THEN "REVIEW" ELSE "CLEAR"

(* named are the findings of verify_cross_document_identity.                    *)
Assess(bidder, results, verifications, findings, named, traces, qualities) ==
    LET signals == DeduplicateSignals(
            ComplianceSignals(results) \cup {IdentitySignal(f) : f \in named}
            \cup {FindingSignal(bidder, f, traces) : f \in findings}
            \cup AvailabilitySignal(verifications) \cup QualitySignal(qualities))
        actionable == {s \in signals : s.actionable}
    IN  [state |-> RiskState(EvidenceAvailability(verifications, qualities), verifications, actionable),
         score |-> AggregateScore(actionable), signals |-> signals]
-----------------------------------------------------------------------------
(* finding_risk_scorer.py: a case, its findings by weight, each counting half   *)
(* as much as the one before.  Weighted risks are hundredths, so the ceilings   *)
(* are 300 and 650; a score is rounded to the nearest hundredth, a half to the  *)
(* even one, so it is above an even ceiling when it exceeds it by over a half.  *)
FindingWeight == [LOW |-> 2, MEDIUM |-> 4, HIGH |-> 7, CRITICAL |-> 10]
FromSeverity(severity) == IF severity \in DOMAIN FindingWeight THEN severity ELSE "LOW"
WeightedRisk(f) == FindingWeight[FromSeverity(SeverityOf(f.flag))] * f.confidence
AsHeavy(findings, f) == {g \in findings : WeightedRisk(g) >= WeightedRisk(f)}
Ranked(findings) ==
    [i \in 1..Cardinality(findings) |->
        Max({WeightedRisk(f) : f \in {g \in findings : Cardinality(AsHeavy(findings, g)) >= i}})]
Halved(risks) ==
    LET weighed[i \in 0..Len(risks)] == IF i = 0 THEN 0 ELSE 2 * weighed[i - 1] + risks[i]
    IN  weighed[Len(risks)]
PowerOfTwo(n) ==
    LET power[i \in 0..n] == IF i = 0 THEN 1 ELSE 2 * power[i - 1]
    IN  power[n]
(* The score is 2 Halved(risks) over PowerOfTwo(n).                             *)
ScoreAbove(findings, ceiling) ==
    4 * Halved(Ranked(findings)) > (2 * ceiling + 1) * PowerOfTwo(Cardinality(findings))
OverrideTriggered(findings) ==
    \E f \in findings : SeverityOf(f.flag) = "CRITICAL" /\ f.confidence >= 85
CaseCategory(findings) ==
    IF OverrideTriggered(findings) \/ ScoreAbove(findings, 650) THEN "RED"
    ELSE IF ScoreAbove(findings, 300) THEN "YELLOW" ELSE "GREEN"
=============================================================================
