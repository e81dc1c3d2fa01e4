----------------------------- MODULE Documents -----------------------------
(***************************************************************************)
(* The checks of one bidder's own papers: ai_verification/identity (do the *)
(* registries agree on the name), ai_verification/cross_document (do the   *)
(* extracted fields agree) and compliance_engine/anomalies/identity.py (do *)
(* the documents agree on the name).                                       *)
(*                                                                         *)
(* A text is <<>> for null, <<lines>> of an address, or <<word, style>>:   *)
(* what it says, and the spaces, capitals and edge punctuation it is       *)
(* written with, which normalisation drops; the style "unusable" marks a   *)
(* text nothing is left of, or one that is no date, and "typed" a value    *)
(* that is no text.  Words of dates are days.  A line of an address is a   *)
(* sequence of words and a word a sequence of letters.                     *)
(***************************************************************************)
EXTENDS Naturals, SequencesExt, FlagRegistry

(* A finding rests on evidence ids, may name the two documents it compared, and *)
(* cites verification ids.                                                      *)
Finding(kind, about, flag, confidence, evidence, docs, cites) ==
    [kind |-> kind, about |-> about, flag |-> flag, confidence |-> confidence,
     evidence |-> evidence, docs |-> docs, cites |-> cites]

(* Normalisation: <<>> when nothing is left.  An address line loses every comma *)
(* and every blank, not only those at its edges.                                *)
NormalizeLegalName(text) == IF text = <<>> \/ text[2] = "unusable" THEN <<>> ELSE <<text[1]>>
NormalizeIdentifier(text) == NormalizeLegalName(text)
NormalizeProduct(text) == IF text # <<>> /\ text[2] = "typed" THEN <<>> ELSE NormalizeLegalName(text)
NormalizeDate(text) == NormalizeProduct(text)
NormalizeAddressLine(line) == FlattenSeq(line)
NormalizeAddress(lines) ==
    SelectSeq([i \in DOMAIN lines |-> NormalizeAddressLine(lines[i])], LAMBDA line : line # <<>>)
-----------------------------------------------------------------------------
(* identity: a verification is [id, cap, bidder, status, name, evidence] *)
(* (evidence 0 for none).                                                       *)
CAPABILITY_TO_SOURCE == [GST |-> "GST", GSTN |-> "GST", PAN |-> "PAN", PAN_INCOME_TAX |-> "PAN",
                         UDYAM |-> "UDYAM", MCA |-> "MCA", MCA21 |-> "MCA"]
SUPPORTED_SOURCES == <<"GST", "PAN", "UDYAM", "MCA">>

Classify(status) == IF status \in {"VERIFIED", "NOT_FOUND", "INACTIVE"} THEN status ELSE "UNAVAILABLE"
ReadIdentityField(v) == IF v.name # <<>> /\ v.name[2] \in {"typed", "unusable"} THEN <<>> ELSE v.name
IdentityObservation(v) ==
    LET name == NormalizeLegalName(ReadIdentityField(v))
    IN  [id |-> v.id, evidence |-> v.evidence, source |-> CAPABILITY_TO_SOURCE[v.cap], name |-> name,
         status |-> IF Classify(v.status) = "VERIFIED" /\ name = <<>> THEN "VERIFIED_WITHOUT_NAME"
                    ELSE Classify(v.status)]
(* Observations keep the position of what they are drawn from.                  *)
IdentityObservations(verifications, bidder) ==
    LET Own(v) == v.bidder = bidder /\ v.cap \in DOMAIN CAPABILITY_TO_SOURCE
    IN  [i \in {k \in DOMAIN verifications : Own(verifications[k])} |-> IdentityObservation(verifications[i])]

(* Only the first observation of a source takes part.                           *)
BySource(obs, n) == {i \in DOMAIN obs : obs[i].source = SUPPORTED_SOURCES[n]}
IdentityPairs(obs) ==
    {<<obs[Min(BySource(obs, p[1]))], obs[Min(BySource(obs, p[2]))]>> :
        p \in {q \in (1..4) \X (1..4) : q[1] < q[2] /\ BySource(obs, q[1]) # {} /\ BySource(obs, q[2]) # {}}}
(* Mutant: an answer that was not verified takes part.                          *)
CompareNamesOfAny(l, r) == IF l.name = r.name THEN "MATCH" ELSE "MISMATCH"
CompareNames(l, r) ==
    IF l.status # "VERIFIED" \/ r.status # "VERIFIED" THEN "INSUFFICIENT_EVIDENCE"
    ELSE IF l.name = r.name THEN "MATCH" ELSE "MISMATCH"
DisagreeingPairs(obs) == {p \in IdentityPairs(obs) : CompareNames(p[1], p[2]) = "MISMATCH"}
IdentityFindings(verifications, bidder) ==
    {Finding("identity", "name", "CROSS_SOURCE_IDENTITY_MISMATCH", 90, {p[1].evidence, p[2].evidence} \ {0},
             <<>>, {p[1].id, p[2].id}) :
        p \in DisagreeingPairs(IdentityObservations(verifications, bidder))}
-----------------------------------------------------------------------------
(* cross_document: evidence is [id, bidder, document, type, field, text,        *)
(* quality, confidence].  A finding cites the evidence ids as verifications.    *)
(* Only ITR carries dates, so the families of dates never separate   *)
(* two of them; a field name fixes the kind of an identifier and the role of a  *)
(* date, and the two years of an ITR have no role.                              *)
FIELD_CLASSIFICATION ==
    [IDENTIFIER |-> ({"GST", "GSTN"} \X {"gstin"}) \cup ({"PAN", "PAN_INCOME_TAX"} \X {"pan_number"})
                    \cup ({"MCA", "MCA21"} \X {"cin"})
                    \cup {<<"UDYAM", "udyam_registration_number">>, <<"BS", "ca_udin">>},
     ADDRESS |-> {"GST", "GSTN", "PAN", "UDYAM", "MCA21"} \X {"registered_address"},
     DATE |-> {"ITR"} \X {"filing_date", "assessment_year", "financial_year"},
     MANUFACTURER |-> {"OEM", "OEM_AUTHORIZATION", "BIS", "BIS_CERTIFICATION"} \X {"manufacturer"},
     PRODUCT |-> ({"BIS", "BIS_CERTIFICATION", "PRODUCT"} \X {"product_description"})
                 \cup {<<"MAKE_IN_INDIA", "supplier_class">>}]
Dimensions == DOMAIN FIELD_CLASSIFICATION
ClassifyField(e) ==
    LET of == {d \in Dimensions : <<e.type, e.field>> \in FIELD_CLASSIFICATION[d]}
    IN  IF of = {} THEN "none" ELSE CHOOSE d \in of : TRUE

NormalizeForSpec(dimension, text) ==
    CASE dimension = "IDENTIFIER" -> NormalizeIdentifier(text)
      [] dimension = "ADDRESS" -> NormalizeAddress(text)
      [] dimension = "DATE" -> NormalizeDate(text)
      [] dimension \in {"PRODUCT", "MANUFACTURER"} -> NormalizeProduct(text)
StatusFor(dimension, text, normalized) ==
    IF dimension = "none" THEN "NOT_QUERIED" ELSE IF text = <<>> THEN "MISSING"
    ELSE IF normalized = <<>> THEN "INVALID" ELSE "AVAILABLE"
ExtractObservation(e) ==
    LET dimension == ClassifyField(e)
        normalized == IF dimension = "none" THEN <<>> ELSE NormalizeForSpec(dimension, e.text)
    IN  [id |-> e.id, field |-> e.field, dimension |-> dimension, value |-> normalized,
         quality |-> e.quality, status |-> StatusFor(dimension, e.text, normalized)]
ExtractObservations(evidence, bidder) ==
    [i \in {k \in DOMAIN evidence : evidence[k].bidder = bidder} |-> ExtractObservation(evidence[i])]

AreComparable(l, r) ==
    /\ l.dimension = r.dimension
    /\ l.status = "AVAILABLE" /\ r.status = "AVAILABLE"
    /\ l.field = r.field
    /\ l.dimension = "DATE" => l.field = "filing_date"

(* Pairs of positions; a pair of evidence ids is taken once in each direction.  *)
EnumeratePairs(obs) ==
    LET open == {i \in DOMAIN obs : obs[i].status = "AVAILABLE"}
        pairs == {p \in open \X open : p[1] < p[2]}
        earlier(p, q) == p[1] < q[1] \/ (p[1] = q[1] /\ p[2] < q[2])
    IN  {q \in pairs : ~\E p \in pairs :
            earlier(p, q) /\ obs[p[1]].id = obs[q[1]].id /\ obs[p[2]].id = obs[q[2]].id}

CompareValues(l, r) == IF l.value = r.value THEN "MATCH" ELSE "MISMATCH"
(* Mutant: only one of the two dates must be past.                              *)
CompareLeftDate(l, r, today) ==
    IF l.value # r.value /\ today # 0 /\ today > l.value[1] THEN "VALIDITY_CONFLICT" ELSE CompareValues(l, r)
CompareDates(l, r, today) ==
    IF l.value # r.value /\ today # 0 /\ today > l.value[1] /\ today > r.value[1]
    THEN "VALIDITY_CONFLICT" ELSE CompareValues(l, r)
ComparePair(l, r, today) ==
    IF l.id = r.id \/ ~AreComparable(l, r) THEN "INSUFFICIENT_EVIDENCE"
    ELSE IF l.dimension = "DATE" THEN CompareDates(l, r, today) ELSE CompareValues(l, r)

FLAG_ID_BY_DIMENSION ==
    [IDENTIFIER |-> "CROSS_DOCUMENT_IDENTIFIER_CONFLICT", ADDRESS |-> "CROSS_DOCUMENT_ADDRESS_CONFLICT",
     DATE |-> "CROSS_DOCUMENT_DATE_SEQUENCE_INVALID", PRODUCT |-> "CROSS_DOCUMENT_PRODUCT_MISMATCH",
     MANUFACTURER |-> "CROSS_DOCUMENT_MANUFACTURER_MISMATCH"]
QualityDelta == [none |-> 0, GOOD |-> 0, DEGRADED |-> 10, UNKNOWN |-> 20]
ConfidenceFor(outcome, l, r) ==
    (IF outcome = "VALIDITY_CONFLICT" THEN 95 ELSE 90) - QualityDelta[l.quality] - QualityDelta[r.quality]
CrossDocumentFindings(evidence, bidder, today) ==
    LET obs == ExtractObservations(evidence, bidder)
        outcome(p) == ComparePair(obs[p[1]], obs[p[2]], today)
    IN  {Finding("cross_document", obs[p[1]].dimension, FLAG_ID_BY_DIMENSION[obs[p[1]].dimension],
                 ConfidenceFor(outcome(p), obs[p[1]], obs[p[2]]),
                 {obs[p[1]].id, obs[p[2]].id}, <<>>, {obs[p[1]].id, obs[p[2]].id}) :
            p \in {q \in EnumeratePairs(obs) : outcome(q) \in {"MISMATCH", "VALIDITY_CONFLICT"}}}
-----------------------------------------------------------------------------
(* anomalies/identity.py: the name most documents carry, of the names carried   *)
(* equally often the one met first, against the first record that differs.  A   *)
(* name nothing is left of is a name like any other.                            *)
IdentityFields == {"legal_name", "name_on_pan", "enterprise_name", "company_name",
                   "establishment_name", "employer_name", "startup_name", "authorized_bidder"}
NormalizeIdentityName(text) == NormalizeProduct(text)
IdentityRecords(evidence) ==
    {i \in DOMAIN evidence :
        /\ evidence[i].field \in IdentityFields
        /\ evidence[i].text # <<>> /\ evidence[i].text[2] # "typed"}
Carrying(evidence, i) ==
    {k \in IdentityRecords(evidence) : NormalizeIdentityName(evidence[k].text) = NormalizeIdentityName(evidence[i].text)}
DominantRecord(evidence) ==
    LET carriers(i) == Cardinality(Carrying(evidence, i)) IN
    CHOOSE i \in IdentityRecords(evidence) : \A k \in IdentityRecords(evidence) :
        carriers(i) > carriers(k) \/ (carriers(i) = carriers(k) /\ i <= k)
VerifyCrossDocumentIdentity(evidence) ==
    LET d == DominantRecord(evidence)
        differing == IdentityRecords(evidence) \ Carrying(evidence, d)
        c == Min(differing)
    IN  IF differing = {} THEN {}
        ELSE {Finding("documents", "name", "CROSS_DOCUMENT_IDENTITY_MISMATCH", 90,
                      {evidence[d].id, evidence[c].id}, <<evidence[d].document, evidence[c].document>>, {})}
=============================================================================
