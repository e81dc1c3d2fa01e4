-------------------------- MODULE ComplianceRules --------------------------
(***************************************************************************)
(* The rules of compliance_engine/rules that turn evidence, a requirement  *)
(* and the verification a provider returned into a compliance result.  A   *)
(* requirement r carries what the rule reads: the identifier found in the  *)
(* evidence ("absent", "null", "empty" or "value"), the parameters, and,   *)
(* for a parameter that is compared with a document, whether it is unset,  *)
(* met or unmet.  Dates are days: 0 is no date, BadDate one that does not  *)
(* parse, Today the evaluation date.                                       *)
(***************************************************************************)
EXTENDS Providers, Financial

Today == 2
BadDate == 9
Dates == {0, 1, 2, 3, BadDate}

(* The status RAISES stands for an exception that leaves the rule; cites says   *)
(* that the result refers to the verification.                                  *)
Raises == Result("RAISES", {}, FALSE)
Missing(flags) == Result("MISSING", flags, FALSE)
NotRequired == Result("NOT_APPLICABLE", {}, FALSE)

FromSource == [VERIFIED |-> "PASS", INACTIVE |-> "FAIL", INVALID |-> "FAIL",
               NOT_FOUND |-> "UNVERIFIABLE", UNAVAILABLE |-> "UNVERIFIABLE", ERROR |-> "UNVERIFIABLE"]
FlagBy(status, prefix, inactive, invalid, lost, down) ==
    CASE status = "VERIFIED" -> {} [] status = "INACTIVE" -> {inactive} [] status = "INVALID" -> {invalid}
      [] status = "NOT_FOUND" -> {lost} [] OTHER -> {down}

(* A parameter the rule does not know is refused when the parameters are read.  *)
BadParameters(r) == r.params = "unknown"
HasIdentifier(r) == r.id \in {"value", "empty"}

GstOutcome == FromSource
GSTRegistrationRule(r, v) ==
    IF ~HasIdentifier(r) THEN Missing({"GSTIN_MISSING"}) ELSE Result(GstOutcome[v.status], {}, TRUE)

PanFlag(status) == FlagBy(status, "PAN", "PAN_INACTIVE", "PAN_INVALID", "PAN_NOT_FOUND",
                          "PAN_VERIFICATION_UNAVAILABLE")
PANValidationRule(r, v) ==
    IF ~HasIdentifier(r) THEN Missing({"REQUIRED_FIELD_MISSING"})
    ELSE Result(FromSource[v.status], PanFlag(v.status), TRUE)

UdyamFlag(status) == FlagBy(status, "UDYAM", "UDYAM_INACTIVE", "UDYAM_INVALID", "UDYAM_NOT_FOUND",
                            "UDYAM_VERIFICATION_UNAVAILABLE")
UdyamRegistrationRule(r, v) ==
    IF ~HasIdentifier(r) THEN Missing({"REQUIRED_FIELD_MISSING"})
    ELSE Result(FromSource[v.status], UdyamFlag(v.status), TRUE)

(* A company verified as active fails when the tender asks for another status. *)
McaFlag(status) == FlagBy(status, "MCA", "COMPANY_INACTIVE", "CIN_INVALID", "CIN_NOT_FOUND",
                          "MCA_VERIFICATION_UNAVAILABLE")
McaContradicts(r, v) ==
    v.status = "VERIFIED" /\ r.required # "None" /\ v.data.company_status \notin {"None", r.required}
McaRegistrationRule(r, v) ==
    IF BadParameters(r) THEN Raises ELSE IF r.waived THEN NotRequired
    ELSE IF ~HasIdentifier(r) THEN Missing({"REQUIRED_FIELD_MISSING"})
    ELSE IF McaContradicts(r, v) THEN Result("FAIL", {"COMPANY_INACTIVE"}, TRUE)
    ELSE Result(FromSource[v.status], McaFlag(v.status), TRUE)

(* A return the source verified but whose payload could not be read is          *)
(* UNVERIFIABLE, and the table of reasons has no entry for that pair.           *)
ReturnFilingStatus(v) ==
    IF v.status # "VERIFIED" THEN FromSource[v.status]
    ELSE CASE v.data.filing_status = "FILED" -> "PASS"
           [] v.data.filing_status = "NOT_FILED" -> "FAIL"
           [] OTHER -> "UNVERIFIABLE"
ReturnReasonKnown(v, status) == status \in {"PASS", "FAIL"} \/ v.status \in
    {"NOT_FOUND", "INVALID", "UNAVAILABLE", "ERROR"}
ReturnFlags(v, status) ==
    CASE status = "FAIL" -> {"GST_RETURN_COMPLIANCE_ISSUE"}
      [] status = "UNVERIFIABLE" -> {IF v.status = "UNAVAILABLE" THEN "GST_VERIFICATION_UNAVAILABLE"
                                     ELSE "GST_RETURN_EVIDENCE_MISSING"}
      [] OTHER -> {}
GSTReturnFilingRule(r, v) ==
    IF ~HasIdentifier(r) THEN Missing({})
    ELSE LET status == ReturnFilingStatus(v) IN
         IF ReturnReasonKnown(v, status) THEN Result(status, ReturnFlags(v, status), TRUE) ELSE Raises

(* The evaluation date of a BIS or OEM requirement is a date or its ISO text;   *)
(* anything else raises.                                                        *)
CoercionFails(on) == on = "bad"
Readable(date) == date # BadDate
Validity(from, until, on) ==
    IF (from = 0 /\ until = 0) \/ on = "none" THEN "OPEN"
    ELSE IF ~Readable(from) \/ ~Readable(until) THEN "MALFORMED"
    ELSE IF from # 0 /\ Today < from THEN "FUTURE"
    ELSE IF until # 0 /\ Today > until THEN "EXPIRED" ELSE "OPEN"

(* The tables of BIS and debarment have no entry for INACTIVE.                  *)
BisOutcome(v) ==
    CASE v.status = "INACTIVE" -> Raises
      [] v.status = "INVALID" -> Result("FAIL", {"BIS_CERTIFICATE_INVALID"}, TRUE)
      [] v.status = "NOT_FOUND" -> Result("UNVERIFIABLE", {"BIS_CERTIFICATE_NOT_FOUND"}, TRUE)
      [] OTHER -> Result("UNVERIFIABLE", {"BIS_VERIFICATION_UNAVAILABLE"}, TRUE)
BisLadder(r, d) ==
    LET validity == Validity(d.from, d.until, r.on) IN <<
        <<CoercionFails(r.on), Raises>>,
        <<d.body \in {"SUSPENDED", "REVOKED"}, Result("FAIL", {"BIS_CERTIFICATE_SUSPENDED_REVOKED"}, TRUE)>>,
        <<r.required \notin {"None", d.body}, Result("FAIL", {"BIS_CERTIFICATE_INVALID"}, TRUE)>>,
        <<r.checks.standard = "unmet", Result("FAIL", {}, TRUE)>>,
        <<r.checks.product = "unmet", Result("FAIL", {"BIS_PRODUCT_SCOPE_MISMATCH"}, TRUE)>>,
        <<r.checks.manufacturer = "unmet", Result("FAIL", {}, TRUE)>>,
        <<r.checks.facility = "unmet", Result("FAIL", {"BIS_FACILITY_LOCATION_INELIGIBLE"}, TRUE)>>,
        <<validity = "MALFORMED", Result("UNVERIFIABLE", {}, TRUE)>>,
        <<validity = "FUTURE", Result("FAIL", {"BIS_CERTIFICATE_INVALID"}, TRUE)>>,
        <<validity = "EXPIRED", Result("FAIL", {"BIS_CERTIFICATE_EXPIRED"}, TRUE)>>,
        <<TRUE, Result("PASS", {}, TRUE)>> >>
BisInterpretVerified(r, d) == FirstRow(BisLadder(r, d))
BisCertificationRule(r, v) ==
    IF BadParameters(r) THEN Raises ELSE IF r.waived THEN NotRequired
    ELSE IF ~HasIdentifier(r) THEN Missing({"REQUIRED_FIELD_MISSING"})
    ELSE IF v.status # "VERIFIED" THEN BisOutcome(v) ELSE BisInterpretVerified(r, v.data)

DocumentFlag(result) ==
    CASE result = "SIGNATURE_INVALID" -> "DIGITAL_DOCUMENT_SIGNATURE_INVALID"
      [] result = "HASH_MISMATCH" -> "DIGITAL_DOCUMENT_HASH_MISMATCH"
      [] result = "REVOKED" -> "DIGITAL_DOCUMENT_REVOKED"
      [] result = "EXPIRED" -> "DIGITAL_DOCUMENT_EXPIRED"
      [] result = "ISSUER_NOT_RECOGNIZED" -> "ISSUING_AUTHORITY_NOT_RECOGNIZED"
      [] OTHER -> "DIGITAL_SIGNATURE_VERIFICATION_FAILED"
DigiLockerOutcome(v) ==
    CASE v.status = "INVALID" -> Result("FAIL", {DocumentFlag(v.data.body)}, TRUE)
      [] v.status = "NOT_FOUND" -> Result("UNVERIFIABLE", {"DIGITAL_DOCUMENT_NOT_FOUND"}, TRUE)
      [] OTHER -> Result("UNVERIFIABLE", {"DIGILOCKER_VERIFICATION_UNAVAILABLE"}, TRUE)
DigiLockerLadder(r, d) == <<
        <<BadParameters(r), Raises>>,
        <<r.checks.issuer = "unmet", Result("FAIL", {"ISSUING_AUTHORITY_INVALID"}, TRUE)>>,
        <<r.checks.type = "unmet", Result("FAIL", {}, TRUE)>>,
        <<"None" \notin {d.hash, r.hash} /\ d.hash # r.hash, Result("FAIL", {"DIGITAL_DOCUMENT_HASH_MISMATCH"}, TRUE)>>,
        <<TRUE, Result("PASS", {}, TRUE)>> >>
DigiLockerInterpretVerified(r, d) == FirstRow(DigiLockerLadder(r, d))
DigiLockerVerificationRule(r, v) ==
    IF ~HasIdentifier(r) THEN Missing({"REQUIRED_FIELD_MISSING"})
    ELSE IF v.status # "VERIFIED" THEN DigiLockerOutcome(v) ELSE DigiLockerInterpretVerified(r, v.data)

(* The identifiers of the evidence in the order of preference: the first that   *)
(* is present is taken, even when its value is null.                            *)
SubjectIdentifier(ids) ==
    LET present == {i \in DOMAIN ids : ids[i] # "absent"}
    IN  IF present = {} THEN "absent" ELSE ids[CHOOSE i \in present : \A j \in present : i <= j]
EvaluationDateFails(on) == on \in {"text", "bad"}
IsActiveOn(from, until) == from # 0 /\ from <= Today /\ (until # 0 => Today < until)
WeakMatches == {"INSUFFICIENT_EVIDENCE", "EXACT_NAME", "NORMALIZED_NAME"}
Unverifiable == Result("UNVERIFIABLE", {"PROCUREMENT_ELIGIBILITY_UNVERIFIABLE"}, TRUE)
RestrictedLadder(r, d) == <<
        <<d.match \in WeakMatches, Unverifiable>>,
        <<r.on = "none", Unverifiable>>,
        <<IsActiveOn(d.from, d.until), Result("FAIL", {"PROCUREMENT_DEBARMENT_ACTIVE"}, TRUE)>>,
        <<TRUE, Result("PASS", {}, TRUE)>> >>
DecideRestricted(r, d) == FirstRow(RestrictedLadder(r, d))
DebarmentDecide(r, v) ==
    CASE v.status = "INACTIVE" -> Raises
      [] v.status \notin {"INACTIVE", "VERIFIED"} -> Unverifiable
      [] v.status = "VERIFIED" /\ v.data.restriction = "CLEAR" -> Result("PASS", {}, TRUE)
      [] v.status = "VERIFIED" /\ v.data.restriction = "RESTRICTED" -> DecideRestricted(r, v.data)
      [] OTHER -> Unverifiable
DebarmentEligibilityRule(r, v) ==
    IF SubjectIdentifier(r.ids) \in {"absent", "null"} THEN Missing({"REQUIRED_FIELD_MISSING"})
    ELSE IF EvaluationDateFails(r.on) THEN Raises ELSE DebarmentDecide(r, v)

(* The two rules that ask no provider.                                          *)
OemLadder(r) ==
    LET validity == Validity(r.from, r.until, r.on)
        Fails(flag) == Result("FAIL", {flag}, FALSE)
    IN <<
        <<BadParameters(r), Raises>>,
        <<r.waived, NotRequired>>,
        <<r.id \in {"absent", "null"}, Missing({"OEM_AUTHORIZATION_NOT_PROVIDED"})>>,
        <<r.checks.bidder = "unmet" \/ r.checks.oem = "unmet", Fails("OEM_NAME_MISMATCH")>>,
        <<r.checks.type = "unmet", Fails("AUTHORIZATION_TYPE_MISMATCH")>>,
        <<r.checks.product = "unmet", Fails("AUTHORIZED_PRODUCT_RANGE_INSUFFICIENT")>>,
        <<r.checks.territory = "unmet", Fails("AUTHORIZATION_TERRITORY_MISMATCH")>>,
        <<(r.from # 0 \/ r.until # 0) /\ CoercionFails(r.on), Raises>>,
        <<validity = "MALFORMED", Result("UNVERIFIABLE", {}, FALSE)>>,
        <<validity = "FUTURE", Fails("OEM_AUTHORIZATION_INVALID")>>,
        <<validity = "EXPIRED", Fails("OEM_AUTHORIZATION_EXPIRED")>>,
        <<TRUE, Result("PASS", {}, FALSE)>> >>
OemAuthorizationRule(r) == FirstRow(OemLadder(r))

(* Percentages: a set of declared values, NoNumber for one that does not parse;*)
(* threshold 0 stands for none configured.                                      *)
MakeInIndiaLadder(r) ==
    LET declared == CHOOSE p \in r.percentages \cup {NoNumber} : r.percentages # {} => p \in r.percentages
    IN <<
        <<BadParameters(r), Raises>>,
        <<r.percentages = {}, Missing({"LOCAL_CONTENT_EVIDENCE_MISSING"})>>,
        <<NoNumber \in r.percentages, Says("UNVERIFIABLE", {})>>,
        <<Cardinality(r.percentages) > 1, Says("UNVERIFIABLE", {"LOCAL_CONTENT_CLAIM_INCONSISTENT"})>>,
        <<r.checks.certificate = "unmet", Missing({"LOCAL_CONTENT_EVIDENCE_MISSING"})>>,
        <<r.checks.country = "unmet", Says("FAIL", {"SOURCING_LOCATION_MISMATCH"})>>,
        <<r.checks.location = "unmet", Says("FAIL", {"MANUFACTURING_LOCATION_INELIGIBLE"})>>,
        <<r.threshold = 0, Says("NOT_CHECKED", {})>>,
        <<r.op \notin Operators, Says("UNVERIFIABLE", {})>>,
        <<r.op \in Operators /\ EvaluateThreshold(declared, r.op, r.threshold), Says("PASS", {})>>,
        <<TRUE, Says("FAIL", {"LOCAL_CONTENT_BELOW_THRESHOLD"})>> >>
MakeInIndiaRule(r) == FirstRow(MakeInIndiaLadder(r))
=============================================================================
