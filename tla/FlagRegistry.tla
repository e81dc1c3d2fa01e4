---------------------------- MODULE FlagRegistry ----------------------------
(***************************************************************************)
(* compliance_engine/flags/registry.py: every flag the system may raise    *)
(* and how serious it is.  The registry is one table in the order of the   *)
(* ids; it is cut here into the pieces FlagsA .. FlagsK.  A definition is  *)
(* looked up by id, and an id the table does not hold raises               *)
(* UnknownFlagError, a KeyError, in whoever asked.                         *)
(***************************************************************************)
FlagSeverity == {"INFO", "LOW", "MEDIUM", "HIGH", "CRITICAL"}

FlagsA ==
    [CRITICAL |-> {"BIDDER_BLACKLISTED", "BIDDER_DEBARRED", "BIDDER_SUSPENDED",
                   "BID_LEVEL_NON_COMPLIANT"},
     HIGH |-> {"AGGREGATED_REGISTRATION_STATUS_INVALID", "ALTERNATIVE_EVIDENCE_INSUFFICIENT",
                   "AUTHORIZED_PRODUCT_RANGE_INSUFFICIENT", "BIDDER_NAME_MISMATCH", "BIDDER_UNDER_INVESTIGATION",
                   "BID_LEVEL_MISSING_EVIDENCE"},
     MEDIUM |-> {"ADDRESS_MISMATCH", "ADDRESS_SHARING_SUSPICIOUS", "AUDITED_STATUS_MISSING",
                   "AUDIT_EVIDENCE_MISSING", "AUDIT_TRAIL_INCOMPLETE", "AUTHORIZATION_TERRITORY_MISMATCH",
                   "AUTHORIZATION_TYPE_MISMATCH", "BID_LEVEL_PARTIAL_COMPLIANCE"},
     LOW |-> {"AUDITABILITY_VERIFICATION_INCOMPLETE", "BID_ASSESSMENT_INCOMPLETE"},
     INFO |-> {"BID_LEVEL_COMPLIANT"}]
FlagsB ==
    [CRITICAL |-> {"BIS_CERTIFICATE_SUSPENDED_REVOKED"},
     HIGH |-> {"BIS_CERTIFICATE_EXPIRED", "BIS_CERTIFICATE_INVALID", "BIS_CERTIFICATE_NOT_FOUND",
                   "BIS_FACILITY_LOCATION_INELIGIBLE", "BIS_PRODUCT_SCOPE_MISMATCH",
                   "BIS_QUALITY_GRADE_BELOW_REQUIREMENT", "BUSINESS_TYPE_INELIGIBLE", "CA_IDENTITY_MISMATCH",
                   "CA_NOT_REGISTERED", "CA_PROFESSIONAL_STATUS_INVALID", "CA_UDIN_EXPIRED", "CA_UDIN_INVALID",
                   "CA_UDIN_NOT_FOUND"},
     MEDIUM |-> {"BID_LEVEL_UNVERIFIABLE", "BALANCE_SHEET_INCOMPLETE", "BIS_VERIFICATION_UNAVAILABLE",
                   "BLACKLIST_STATUS_UNKNOWN", "CAPABILITY_NOT_APPLICABLE_UNCLEAR", "CA_VERIFICATION_UNAVAILABLE",
                   "CERTIFICATE_TYPE_MISMATCH"},
     LOW |-> {},
     INFO |-> {}]
FlagsC ==
    [CRITICAL |-> {"COMPANY_STRIKE_OFF", "COMPANY_UNDER_LIQUIDATION", "CRITICAL_CAPABILITY_FAILED"},
     HIGH |-> {"CERTIFICATE_VALIDITY_EXPIRED", "CIN_INVALID", "CIN_NOT_FOUND",
                   "COMPANY_IDENTITY_MISMATCH", "COMPANY_INACTIVE", "CONFLICTING_EXEMPTIONS",
                   "COVERED_EMPLOYEE_COUNT_BELOW_THRESHOLD", "CROSS_SOURCE_IDENTITY_MISMATCH",
                   "CRITICAL_SOURCE_UNAVAILABLE", "CROSS_BIDDER_DOCUMENT_REUSED", "CROSS_DOCUMENT_ADDRESS_CONFLICT"},
     MEDIUM |-> {"COMPLIANCE_SCORE_LOW", "CONDITIONAL_APPLICABILITY_UNCLEAR",
                   "CONDITIONAL_FIELD_MISSING", "CROSS_BIDDER_DOCUMENT_NEAR_DUPLICATE"},
     LOW |-> {"COMPLETENESS_VERIFICATION_INCOMPLETE", "CROSS_BIDDER_VERIFICATION_INCOMPLETE"},
     INFO |-> {}]
FlagsD ==
    [CRITICAL |-> {"CROSS_DOCUMENT_IDENTIFIER_CONFLICT", "DIGITAL_DOCUMENT_REVOKED"},
     HIGH |-> {"CROSS_DOCUMENT_DATE_SEQUENCE_INVALID", "CROSS_DOCUMENT_ENTITY_TYPE_CONFLICT",
                   "CROSS_DOCUMENT_IDENTITY_MISMATCH", "CROSS_DOCUMENT_NAME_CONFLICT", "DEBARMENT_CLEARANCE_INVALID",
                   "DEBARMENT_CLEARANCE_MISSING", "DIGITAL_DOCUMENT_EXPIRED", "DIGITAL_DOCUMENT_HASH_MISMATCH",
                   "DIGITAL_DOCUMENT_NOT_FOUND", "DIGITAL_DOCUMENT_SIGNATURE_INVALID",
                   "DIGITAL_SIGNATURE_VERIFICATION_FAILED", "DIRECTOR_SHARING_SUSPICIOUS"},
     MEDIUM |-> {"CROSS_DOCUMENT_FINANCIAL_YEAR_MISMATCH", "CROSS_DOCUMENT_PRODUCT_MISMATCH",
                   "CROSS_DOCUMENT_MANUFACTURER_MISMATCH", "CROSS_DOCUMENT_TEMPORAL_GAP",
                   "DEBARMENT_VERIFICATION_UNAVAILABLE", "DIGILOCKER_VERIFICATION_UNAVAILABLE"},
     LOW |-> {"CROSS_DOCUMENT_VERIFICATION_INCOMPLETE"},
     INFO |-> {}]
FlagsE ==
    [CRITICAL |-> {},
     HIGH |-> {"EMPLOYEE_COUNT_BELOW_THRESHOLD", "ENTITY_TYPE_MISMATCH", "EPFO_CONTRIBUTION_DEFAULT",
                   "EPFO_REGISTRATION_INACTIVE", "EPFO_REGISTRATION_INVALID", "EPFO_REGISTRATION_NOT_FOUND",
                   "ESIC_CONTRIBUTION_DEFAULT", "ESIC_REGISTRATION_INACTIVE", "ESIC_REGISTRATION_INVALID",
                   "ESIC_REGISTRATION_NOT_FOUND", "EVIDENCE_LINKAGE_BROKEN"},
     MEDIUM |-> {"EPFO_OUTSTANDING_LIABILITY_EXCESSIVE", "EPFO_VERIFICATION_UNAVAILABLE",
                   "ESIC_VERIFICATION_UNAVAILABLE", "EVIDENCE_AGE_EXCESSIVE", "EVIDENCE_CHAIN_INCOMPLETE",
                   "EVIDENCE_CONFIDENCE_BELOW_THRESHOLD", "EVIDENCE_GROUNDING_INSUFFICIENT",
                   "EVIDENCE_GROUNDING_UNRELIABLE", "EVIDENCE_PROVENANCE_UNCLEAR"},
     LOW |-> {"DOCUMENT_TYPE_CONFIDENCE_LOW"},
     INFO |-> {}]
FlagsF ==
    [CRITICAL |-> {"EXACT_DUPLICATE_BIDDER_DETECTED"},
     HIGH |-> {"EXEMPTION_CONDITION_NOT_MET", "EXEMPTION_EVIDENCE_INSUFFICIENT",
                   "EXEMPTION_NOT_RECOGNIZED_FOR_TENDER", "FINANCIAL_CAPACITY_MISSING", "FINANCIAL_DATA_INCONSISTENCY",
                   "FINANCIAL_YEAR_MISSING", "GSTIN_INVALID", "GSTIN_MISSING", "GSTIN_NOT_FOUND",
                   "GST_IDENTITY_MISMATCH", "GST_INACTIVE", "GST_RETURN_COMPLIANCE_ISSUE",
                   "GST_RETURN_EVIDENCE_MISSING"},
     MEDIUM |-> {"FALLBACK_VERIFICATION_INCOMPLETE", "FINANCIAL_PROFILE_ANOMALY",
                   "FINANCIAL_VERIFICATION_UNAVAILABLE", "FINANCIAL_YEAR_MISMATCH", "GROUNDING_INSUFFICIENT",
                   "GST_VERIFICATION_UNAVAILABLE"},
     LOW |-> {"EVIDENCE_QUALITY_VERIFICATION_INCOMPLETE"},
     INFO |-> {}]
FlagsG ==
    [CRITICAL |-> {"IDENTIFIER_ENTITY_MISMATCH"},
     HIGH |-> {"INCORPORATION_DATE_NON_COMPLIANT", "INTEGRITY_UNDERTAKING_MISSING",
                   "ISSUING_AUTHORITY_INVALID", "ISSUING_AUTHORITY_NOT_RECOGNIZED", "ITR_DATA_INCONSISTENCY",
                   "ITR_MISSING", "ITR_NOT_FILED", "LOCAL_CONTENT_BELOW_THRESHOLD", "LOCAL_CONTENT_CLAIM_INCONSISTENT",
                   "LOCAL_CONTENT_EVIDENCE_MISSING", "MAKE_IN_INDIA_EXEMPTION_INVALID", "MANDATORY_CAPABILITY_MISSING",
                   "MANUFACTURING_LOCATION_INELIGIBLE", "MULTIPLE_INACTIVE_REGISTRATIONS",
                   "NEAR_DUPLICATE_BIDDER_DETECTED"},
     MEDIUM |-> {"ITR_OUTDATED", "LOCAL_CONTENT_VERIFICATION_UNAVAILABLE",
                   "MCA_VERIFICATION_UNAVAILABLE"},
     LOW |-> {"INFRASTRUCTURE_VERIFICATION_INCOMPLETE", "MISSING_REASON_NOT_SPECIFIED"},
     INFO |-> {}]
FlagsH ==
    [CRITICAL |-> {},
     HIGH |-> {"NET_WORTH_BELOW_THRESHOLD", "NSIC_ENTITY_IDENTITY_MISMATCH",
                   "NSIC_REGISTRATION_EXPIRED", "NSIC_REGISTRATION_INVALID", "NSIC_REGISTRATION_NOT_FOUND",
                   "OEM_AUTHORIZATION_EXPIRED", "OEM_AUTHORIZATION_INVALID", "OEM_AUTHORIZATION_NOT_PROVIDED",
                   "OEM_NAME_MISMATCH", "PAN_IDENTITY_MISMATCH", "PAN_INACTIVE", "PAN_INVALID", "PAN_NOT_FOUND",
                   "PROCUREMENT_DEBARMENT_ACTIVE"},
     MEDIUM |-> {"NSIC_REGISTRATION_TYPE_MISMATCH", "NSIC_VERIFICATION_UNAVAILABLE",
                   "OCR_CONFIDENCE_BELOW_THRESHOLD", "OEM_VERIFICATION_UNAVAILABLE", "PAN_VERIFICATION_UNAVAILABLE",
                   "PROCUREMENT_ELIGIBILITY_UNVERIFIABLE"},
     LOW |-> {},
     INFO |-> {"RECOMMENDATION_AUTOMATIC_ACCEPT"}]
FlagsI ==
    [CRITICAL |-> {"RECOMMENDATION_AUTOMATIC_REJECT"},
     HIGH |-> {"REGISTRATION_CHANGE_UNEXPLAINED", "REGISTRATION_STATUS_INCONSISTENT",
                   "REQUIRED_EVIDENCE_MISSING", "REQUIRED_FIELD_MISSING", "RISK_LEVEL_HIGH",
                   "SOLVENCY_THRESHOLD_NOT_MET", "SOLVENCY_REQUIREMENT_FAILED", "SOURCE_DOCUMENT_UNRECOVERABLE",
                   "STARTUP_IDENTITY_MISMATCH", "STARTUP_INELIGIBLE_FOR_EXEMPTION"},
     MEDIUM |-> {"RECOMMENDATION_ESCALATE_TO_REVIEW", "REGISTRATION_RECENTLY_CHANGED",
                   "REGISTRATION_STALE_NOT_VERIFIED", "RISK_TREND_DETERIORATING", "SCORING_FORMULA_UNDEFINED",
                   "SOURCING_LOCATION_MISMATCH"},
     LOW |-> {"RECOMMENDATION_CONFIDENCE_LOW", "RECOMMENDATION_INCOMPLETE",
                   "REGISTRATION_VERIFICATION_INCOMPLETE", "RISK_ASSESSMENT_INCOMPLETE"},
     INFO |-> {}]
FlagsJ ==
    [CRITICAL |-> {"STATUTORY_REQUIREMENT_SUSPENDED_REVOKED"},
     HIGH |-> {"STARTUP_RECOGNITION_EXPIRED", "STARTUP_RECOGNITION_INVALID",
                   "STARTUP_RECOGNITION_NOT_FOUND", "STATUTORY_REQUIREMENT_EXPIRED", "STATUTORY_REQUIREMENT_INVALID",
                   "STATUTORY_REQUIREMENT_MISSING", "SUSPICIOUS_BIDDER_RELATIONSHIP_DETECTED", "TAX_DATA_MISMATCH",
                   "TENDER_REQUIREMENT_EVIDENCE_INVALID", "TENDER_REQUIREMENT_EVIDENCE_MISSING",
                   "TENDER_REQUIREMENT_THRESHOLD_NOT_MET", "TURNOVER_BELOW_THRESHOLD"},
     MEDIUM |-> {"STARTUP_SECTOR_MISMATCH", "STARTUP_VERIFICATION_UNAVAILABLE",
                   "STATUTORY_REQUIREMENT_SCOPE_MISMATCH", "STATUTORY_VERIFICATION_UNAVAILABLE",
                   "TENDER_APPLICABILITY_UNDEFINED", "TENDER_REQUIREMENT_COMPLIANCE_UNCLEAR",
                   "TENDER_SPECIFIC_VERIFICATION_UNAVAILABLE", "TURNOVER_PERIOD_MISMATCH"},
     LOW |-> {},
     INFO |-> {}]
FlagsK ==
    [CRITICAL |-> {},
     HIGH |-> {"UDYAM_CATEGORY_MISMATCH", "UDYAM_IDENTITY_MISMATCH", "UDYAM_INACTIVE", "UDYAM_INVALID",
                   "UDYAM_NOT_FOUND", "VERIFICATION_NON_REPRODUCIBLE"},
     MEDIUM |-> {"TURNOVER_DATA_MISSING", "TURNOVER_TREND_ANOMALY", "UDYAM_VERIFICATION_UNAVAILABLE",
                   "UDYAM_SCOPE_MISMATCH", "VERIFICATION_DATA_STALE", "VERIFICATION_PROVIDER_ERROR",
                   "VERIFICATION_PROVIDER_TIMEOUT", "VERIFICATION_PROVIDER_UNAVAILABLE"},
     LOW |-> {},
     INFO |-> {}]

FLAG_REGISTRY ==
    LET parts == {FlagsA, FlagsB, FlagsC, FlagsD, FlagsE, FlagsF, FlagsG, FlagsH, FlagsI, FlagsJ, FlagsK}
    IN  [s \in FlagSeverity |-> UNION {part[s] : part \in parts}]

Known(flag) == \E s \in FlagSeverity : flag \in FLAG_REGISTRY[s]
SeverityOf(flag) == CHOOSE s \in FlagSeverity : flag \in FLAG_REGISTRY[s]
=============================================================================
