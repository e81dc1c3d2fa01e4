----------------------------- MODULE Providers -----------------------------
(***************************************************************************)
(* The verification providers of compliance_engine/verification: what each *)
(* adapter makes of the answer of its registry.  An answer is a record     *)
(*   code  "down"  the transport raised its transport error (also a time   *)
(*                 out, a TLS or socket error, an endpoint that is not     *)
(*                 HTTPS, an adapter with no transport wired)              *)
(*         "cut"   the connection ended inside an answer, so http.client   *)
(*                 raised an HTTPException; HTTP routes only               *)
(*         "2xx", "3xx", "4xx", "5xx"   the registry answered              *)
(*   body  "absent" no JSON object, "silent" an object without the status  *)
(*         field, "null" the field is null, "odd" an unknown value, or the *)
(*         value of the field                                              *)
(* and the payload fields of the capability.  A verification is            *)
(* [status, data]; the status RAISES stands for an exception that leaves   *)
(* the adapter.                                                            *)
(***************************************************************************)
EXTENDS Naturals, FiniteSets

Statuses == {"VERIFIED", "INACTIVE", "INVALID", "NOT_FOUND", "UNAVAILABLE", "ERROR"}
NoData == [empty |-> TRUE]

Verification(status, data) == [status |-> status, data |-> data]
(* An id is allocated for every answer, and allocate_id refuses an empty identifier. *)
Identified(identifier, v) == IF identifier = "empty" THEN [v EXCEPT !.status = "RAISES"] ELSE v
Bare(status) == Verification(status, NoData)

(* What GstHttpClient and PanHttpClient make of the network: the timeouts and   *)
(* OSErrors become transport errors, an HTTPException is not caught, and the    *)
(* PAN client refuses to be built from an incomplete configuration.             *)
GstHttpClient(a) == IF a.url # "https" THEN [a EXCEPT !.code = "down"] ELSE a
PanConfigured(a) == a.missing = {}
PanHttpClient(a) == IF PanConfigured(a) THEN GstHttpClient(a) ELSE [a EXCEPT !.code = "cut"]

(* The skeleton of the REST parsers: refused and served are the statuses an     *)
(* answer with a body gets under a 4xx and under a 2xx code.                    *)
(* Variant for the mutation runs: a server error is graded by its body.         *)
ByCodeTrustingErrors(a, refused, served) ==
    CASE a.code = "down" -> "UNAVAILABLE"
      [] a.code = "cut" -> "RAISES"
      [] a.code \in {"4xx", "5xx"} -> IF a.body = "absent" THEN "NOT_FOUND" ELSE refused
      [] a.code = "2xx" -> IF a.body = "absent" THEN "ERROR" ELSE served
      [] OTHER -> "ERROR"
ByCode(a, refused, served) ==
    CASE a.code \in {"down", "5xx"} -> "UNAVAILABLE"
      [] a.code = "cut" -> "RAISES"
      [] a.code = "4xx" -> IF a.body = "absent" THEN "NOT_FOUND" ELSE refused
      [] a.code = "2xx" -> IF a.body = "absent" THEN "ERROR" ELSE served
      [] OTHER -> "ERROR"

RegistryStatus == [ACTIVE |-> "VERIFIED", INACTIVE |-> "INACTIVE", INVALID |-> "INVALID",
                   null |-> "NOT_FOUND", odd |-> "ERROR"]
Named(a, silent) == IF a.body = "silent" THEN silent ELSE RegistryStatus[a.body]

GstStatus(a) == ByCode(a, Named(a, "INVALID"), Named(a, "ERROR"))
GSTNAdapter(a) == Bare(GstStatus(IF a.route = "http" THEN GstHttpClient(a) ELSE a))

UdyamStatus(a) == ByCode(a, Named(a, "INVALID"), Named(a, "NOT_FOUND"))
UdyamAdapter(a) == Bare(UdyamStatus(a))

(* Extraction can fail; the status then stands and the data is empty.           *)
McaStatus(a) == ByCode(a, Named(a, "INVALID"), Named(a, "NOT_FOUND"))
McaData(a, status) ==
    IF status \in {"VERIFIED", "INACTIVE"} /\ a.usable THEN [company_status |-> a.body]
                                                       ELSE [company_status |-> "None"]
McaAdapter(a) == LET s == McaStatus(a) IN Verification(s, McaData(a, s))

(* PAN has two routes: the REST one, and the SOAP service whose reply is graded *)
(* field by field and whose HTTP status code is not looked at.                  *)
PanStatus(a) == ByCode(a, Named(a, "INVALID"), Named(a, "NOT_FOUND"))
PanSoapStatus(x) ==
    IF x.serviceError THEN "ERROR"
    ELSE IF x.panStatus \notin {"None", "E"} THEN "NOT_FOUND"
    ELSE IF x.matches = {} THEN "ERROR"
    ELSE IF "panMatch:N" \in x.matches THEN "INVALID" ELSE "VERIFIED"
PanVerifyReal(a) ==
    CASE a.code = "down" -> "UNAVAILABLE"
      [] a.code = "cut" -> "RAISES"
      [] OTHER -> IF a.body = "soap" THEN PanSoapStatus(a.soap) ELSE "ERROR"
PanAdapter(a) == Bare(IF a.route = "soap" THEN PanVerifyReal(PanHttpClient(a)) ELSE PanStatus(a))

(* Returns: both FILED and NOT_FILED are verified answers; an identifier the    *)
(* source calls INVALID counts under a 4xx only.                                *)
FilingStatus(a) == IF a.body \in {"FILED", "NOT_FILED"} THEN "VERIFIED" ELSE "ERROR"
GstReturnStatus(a) ==
    ByCode(a, IF a.idInvalid THEN "INVALID" ELSE IF a.body = "silent" THEN "NOT_FOUND" ELSE FilingStatus(a),
           FilingStatus(a))
GstReturnData(a, status) ==
    [filing_status |-> IF status = "VERIFIED" /\ a.usable THEN a.body ELSE "None"]
GSTNReturnsAdapter(a) ==
    LET s == GstReturnStatus(IF a.route = "http" THEN GstHttpClient(a) ELSE a)
    IN  Verification(s, GstReturnData(a, s))

(* BIS and DigiLocker never look at the status code: an answer without a body   *)
(* is NOT_FOUND whatever the code says.  The payload models are built outside   *)
(* any handler, so a payload they reject raises.                                *)
Unanswered(a) == CASE a.code = "down" -> "UNAVAILABLE" [] a.code = "cut" -> "RAISES"
                   [] OTHER -> "NOT_FOUND"
NoAnswer(a) == a.code \in {"down", "cut"} \/ a.body = "absent"
BisStatus(a) ==
    IF NoAnswer(a) THEN Unanswered(a)
    ELSE CASE a.body \in {"ACTIVE", "VALID", "SUSPENDED", "REVOKED", "EXPIRED"} ->
                IF a.usable THEN "VERIFIED" ELSE "RAISES"
           [] a.body = "INVALID" -> "INVALID"
           [] OTHER -> "ERROR"
BisAdapter(a) == Verification(BisStatus(a), a)

BadDocuments == {"SIGNATURE_INVALID", "HASH_MISMATCH", "REVOKED", "EXPIRED",
                 "ISSUER_NOT_RECOGNIZED", "INVALID"}
DigiLockerStatus(a) ==
    IF NoAnswer(a) THEN Unanswered(a)
    ELSE CASE a.body \in {"VALID", "silent", "null"} -> IF a.usable THEN "VERIFIED" ELSE "RAISES"
           [] a.body \in BadDocuments -> IF a.usable THEN "INVALID" ELSE "RAISES"
           [] OTHER -> "ERROR"
DigiLockerAdapter(a) == Verification(DigiLockerStatus(a), a)

(* Debarment: an UNKNOWN restriction is an ERROR; a record whose fields cannot  *)
(* be read stays VERIFIED with the restriction UNKNOWN; a record that names no  *)
(* match method is taken as one that matched nobody.                            *)
RestrictionStatus(a) == IF a.body \in {"CLEAR", "RESTRICTED"} THEN "VERIFIED" ELSE "ERROR"
DebarmentStatus(a) ==
    ByCode(a, IF a.idInvalid THEN "INVALID" ELSE IF a.body = "silent" THEN "NOT_FOUND" ELSE RestrictionStatus(a),
           RestrictionStatus(a))
DebarmentData(a) ==
    LET known == IF a.match = "odd" \/ a.match = "None" THEN "INSUFFICIENT_EVIDENCE" ELSE a.match
    IN  IF a.usable THEN [restriction |-> a.body, match |-> known, from |-> a.from, until |-> a.until]
        ELSE [restriction |-> "UNKNOWN", match |-> "INSUFFICIENT_EVIDENCE", from |-> 0, until |-> 0]
DebarmentAdapter(a) == Verification(DebarmentStatus(a), DebarmentData(a))

(* The in-memory providers the demo and the tests wire: a canned record, or     *)
(* NOT_FOUND for an identifier they do not know.                                *)
MockProvider(a) == Bare(IF a.body = "unknown" THEN "NOT_FOUND" ELSE a.body)
=============================================================================
