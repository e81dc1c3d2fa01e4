-------------------------- MODULE ComplianceEngine --------------------------
(***************************************************************************)
(* compliance_engine/engine.py and rules/executor.py: one assessment of a  *)
(* bid.  The requirements are grouped by capability in the order in which  *)
(* the capabilities first occur; a group with a provider goes through the  *)
(* executor in order, a group without one is answered without asking.  The *)
(* verifications of a group are collected by the tracking provider and     *)
(* added to the audit trail when the group is finished.  An exception of a *)
(* rule or of an adapter ends the assessment with nothing to show.         *)
(***************************************************************************)
EXTENDS ComplianceRules

CONSTANTS Bids,     \* the bids: [reqs, providers, rules, world]
          Answers   \* by world and by rule that asks, the answers its source may give

VARIABLES bid,      \* the requirements and what is registered
          results,  \* the compliance results so far
          tracked,  \* the verifications the open group collected
          records,  \* EngineResult.verification_records
          heard,    \* what the sources answered so far: [req, answer] for every call
          pc        \* "run", "done" or "raised"

vars == <<bid, results, tracked, records, heard, pc>>

Asking == {"gst", "pan", "udyam", "mca", "gst_returns", "bis", "digilocker", "debarment"}
Free == {"oem", "make_in_india", "financial"}
Registering == Asking \ {"pan", "udyam", "mca"}

(* An answer and a requirement the code can meet: a mock provider holds a       *)
(* verification or does not know the identifier, a registry says one of the     *)
(* words its adapter tells apart, solvency is required, waived or not set.      *)
Worded == {"absent", "silent", "null", "odd", "ACTIVE", "INACTIVE", "INVALID"}
IsAnswer(a, rule) ==
    /\ {"code", "body"} \subseteq DOMAIN a /\ a = [f \in DOMAIN a |-> a[f]]
    /\ a.code \in {"down", "cut", "2xx", "3xx", "4xx", "5xx", "mock"}
    /\ a.code = "mock" => a.body \in Statuses \cup {"unknown"}
    /\ a.code # "mock" /\ rule \in {"gst", "pan", "udyam", "mca"} =>
           a.body \in Worded \/ (rule = "pan" /\ a.route = "soap")
IsBid(b) ==
    /\ b.reqs \in Seq(ToSet(b.reqs))
    /\ b.providers \subseteq Asking /\ b.rules \subseteq Asking \cup Free
    /\ b.world \in DOMAIN Answers
    /\ \A r \in ToSet(b.reqs) :
          /\ r.rule = "financial" =>
                /\ r.p.solvency \in {"unset", "no", "yes"} /\ r.p.turnover \in Int /\ r.p.netWorth \in Int
                /\ r.docs \in Seq(ToSet(r.docs)) /\ \A d \in ToSet(r.docs) : IsDocument(d)
          /\ r.rule \in Asking => r.rule \in DOMAIN Answers[b.world]
ASSUME EngineAssumption ==
    /\ \A b \in Bids : IsBid(b)
    /\ \A w \in DOMAIN Answers : \A rule \in DOMAIN Answers[w] :
          \A a \in Answers[w][rule] : IsAnswer(a, rule)

(* The order in which _evaluate_requirements comes to the requirements: by the  *)
(* first requirement of their capability, and within a group without provider   *)
(* as it is split.                                                              *)
Provided(r) == r.cap \in bid.providers
Registered(r) == r.rule \in bid.rules
Applicable(r) == r.applicability = "APPLICABLE"
FirstOfCapability(i) ==
    CHOOSE j \in DOMAIN bid.reqs : /\ bid.reqs[j].cap = bid.reqs[i].cap
                                   /\ \A k \in 1..(j-1) : bid.reqs[k].cap # bid.reqs[i].cap
Place(r) ==
    IF Provided(r) \/ ~Applicable(r) THEN 0 ELSE IF Registered(r) /\ r.rule \in Free THEN 1 ELSE 2
(* Variant for the mutation runs: the groups forgotten, free rules still first. *)
BeforeUngrouped(i, j) ==
    Place(bid.reqs[i]) < Place(bid.reqs[j]) \/ (Place(bid.reqs[i]) = Place(bid.reqs[j]) /\ i < j)
Before(i, j) ==
    LET key(k) == <<FirstOfCapability(k), Place(bid.reqs[k]), k>>
    IN  \E n \in 1..3 : key(i)[n] < key(j)[n] /\ \A m \in 1..(n-1) : key(i)[m] = key(j)[m]
Open == DOMAIN bid.reqs \ {res.req : res \in ToSet(results)}
UpNext(i) == i \in Open /\ \A j \in Open \ {i} : Before(i, j)

Init ==
    /\ bid \in Bids
    /\ results = <<>> /\ tracked = <<>> /\ records = <<>> /\ heard = <<>>
    /\ pc = "run"

(* What the rules ask and decide.                                               *)
AsksSource(r) ==
    CASE r.rule \in {"mca", "bis"} -> ~BadParameters(r) /\ ~r.waived /\ HasIdentifier(r)
      [] r.rule = "debarment" ->
            SubjectIdentifier(r.ids) \notin {"absent", "null"} /\ ~EvaluationDateFails(r.on)
      [] r.rule \in Asking \ {"mca", "bis", "debarment"} -> HasIdentifier(r)
      [] OTHER -> FALSE
Queried(r) == IF r.rule = "debarment" THEN SubjectIdentifier(r.ids) ELSE r.id
Ask(r, a) ==
    IF a.code = "mock" THEN MockProvider(a)
    ELSE Identified(Queried(r),
         CASE r.rule = "gst" -> GSTNAdapter(a)            [] r.rule = "pan" -> PanAdapter(a)
           [] r.rule = "udyam" -> UdyamAdapter(a)         [] r.rule = "mca" -> McaAdapter(a)
           [] r.rule = "gst_returns" -> GSTNReturnsAdapter(a) [] r.rule = "bis" -> BisAdapter(a)
           [] r.rule = "digilocker" -> DigiLockerAdapter(a) [] r.rule = "debarment" -> DebarmentAdapter(a))
RuleResult(r, v) ==
    CASE r.rule = "gst" -> GSTRegistrationRule(r, v)      [] r.rule = "pan" -> PANValidationRule(r, v)
      [] r.rule = "udyam" -> UdyamRegistrationRule(r, v)  [] r.rule = "mca" -> McaRegistrationRule(r, v)
      [] r.rule = "gst_returns" -> GSTReturnFilingRule(r, v) [] r.rule = "bis" -> BisCertificationRule(r, v)
      [] r.rule = "digilocker" -> DigiLockerVerificationRule(r, v)
      [] r.rule = "debarment" -> DebarmentEligibilityRule(r, v)
      [] r.rule = "oem" -> OemAuthorizationRule(r)        [] r.rule = "make_in_india" -> MakeInIndiaRule(r)
      [] r.rule = "financial" -> FinancialCapacityRule(r)

GroupFinished ==
    /\ tracked # <<>>
    /\ \A i \in Open : UpNext(i) => bid.reqs[i].cap # bid.reqs[Last(results).req].cap
Ready(i) == pc = "run" /\ ~GroupFinished /\ UpNext(i)

(* The result joins the list, or its exception ends the run.                    *)
Emit(i, out, id) ==
    IF out.status = "RAISES"
    THEN pc' = "raised" /\ UNCHANGED <<bid, results>>
    ELSE /\ results' = Append(results, [req |-> i, status |-> out.status, flags |-> out.flags,
                                        cites |-> IF out.cites THEN {id} ELSE {}])
         /\ UNCHANGED <<bid, pc>>
Quietly(i, out) == Ready(i) /\ Emit(i, out, <<>>) /\ UNCHANGED <<tracked, records, heard>>

NotApplicable(i) ==
    LET r == bid.reqs[i] IN
    /\ ~Applicable(r)
    /\ Quietly(i, Result(IF r.applicability = "UNKNOWN" THEN "UNVERIFIABLE" ELSE "NOT_APPLICABLE", {}, FALSE))
WithoutProvider(i) ==
    LET r == bid.reqs[i] IN
    /\ Applicable(r) /\ ~Provided(r) /\ ~(Registered(r) /\ r.rule \in Free)
    /\ Quietly(i, Result("UNVERIFIABLE", {}, FALSE))
WithoutRule(i) ==
    LET r == bid.reqs[i] IN
    Applicable(r) /\ Provided(r) /\ ~Registered(r) /\ Quietly(i, Result("NOT_CHECKED", {}, FALSE))
Reachable(r) == Applicable(r) /\ Registered(r) /\ (Provided(r) \/ r.rule \in Free)
WithoutAsking(i) ==
    LET r == bid.reqs[i] IN
    Reachable(r) /\ ~AsksSource(r) /\ Quietly(i, RuleResult(r, Bare("ERROR")))

(* The provider answers; the tracking provider records the verification; the    *)
(* rule may replace the record by one that names its evidence, and decides.     *)
Call(cap, a) == <<cap, IF a.code = "mock" THEN 0 ELSE Len(records) + Len(tracked) + 1>>
Decided(i, a, v) ==
    LET r == bid.reqs[i]
        id == Call(r.cap, a)
        record == [id |-> id, status |-> v.status, evidence |-> r.rule \in Registering]
    IN  /\ Emit(i, RuleResult(r, v), id)
        /\ tracked' = Append(tracked, record)
        /\ UNCHANGED records
AskProvider(i) ==
    LET r == bid.reqs[i] IN
    /\ Ready(i) /\ Reachable(r) /\ AsksSource(r)
    /\ \E a \in Answers[bid.world][r.rule] :
         /\ heard' = Append(heard, [req |-> i, answer |-> a])
         /\ IF Ask(r, a).status = "RAISES"
            THEN pc' = "raised" /\ UNCHANGED <<bid, results, tracked, records>>
            ELSE Decided(i, a, Ask(r, a))

(* Variant for the mutation runs: each group replaces the trail of the last.    *)
CloseGroupReplacing ==
    /\ pc = "run" /\ GroupFinished
    /\ records' = tracked
    /\ tracked' = <<>>
    /\ UNCHANGED <<bid, results, heard, pc>>
CloseGroup ==
    /\ pc = "run" /\ GroupFinished
    /\ records' = records \o tracked
    /\ tracked' = <<>>
    /\ UNCHANGED <<bid, results, heard, pc>>

Finish ==
    /\ pc = "run" /\ ~GroupFinished /\ Open = {}
    /\ pc' = "done"
    /\ UNCHANGED <<bid, results, tracked, records, heard>>

Next ==
    \/ \E i \in DOMAIN bid.reqs :
          NotApplicable(i) \/ WithoutProvider(i) \/ WithoutRule(i) \/ WithoutAsking(i) \/ AskProvider(i)
    \/ CloseGroup
    \/ Finish

Spec == Init /\ [][Next]_vars
-----------------------------------------------------------------------------
TypeOK ==
    /\ bid.providers \subseteq Asking /\ bid.rules \subseteq Asking \cup Free
    /\ \A res \in ToSet(results) :
          /\ res.req \in DOMAIN bid.reqs
          /\ res.status \in {"PASS", "FAIL", "MISSING", "UNVERIFIABLE", "NOT_CHECKED", "NOT_APPLICABLE"}
    /\ \A rec \in ToSet(records) \cup ToSet(tracked) : rec.status \in Statuses
    /\ pc \in {"run", "done", "raised"}

(* However the requirements are grouped and whatever is registered, a finished  *)
(* assessment holds one result for every requirement, and the requirements of a *)
(* capability stay together.                                                    *)
OneResultEach ==
    pc = "done" =>
        /\ Len(results) = Len(bid.reqs)
        /\ {res.req : res \in ToSet(results)} = DOMAIN bid.reqs
        /\ \A i, j, k \in DOMAIN results :
              i < j /\ j < k /\ bid.reqs[results[i].req].cap = bid.reqs[results[k].req].cap
              => bid.reqs[results[j].req].cap = bid.reqs[results[i].req].cap

(* The audit trail of a finished assessment: no requirement was asked about     *)
(* twice, a call that was made left exactly one record, the result of its       *)
(* requirement cites that record and no result cites anything else, and the     *)
(* records of the rules that register theirs name the evidence.                 *)
AuditTrail ==
    pc = "done" =>
        /\ Len(records) = Len(heard)
        /\ \A k, l \in DOMAIN heard : heard[k].req = heard[l].req => k = l
        /\ \A k \in DOMAIN heard : \E res \in ToSet(results) :
              /\ res.req = heard[k].req /\ res.cites = {records[k].id}
              /\ bid.reqs[res.req].rule \in Registering => records[k].evidence
        /\ \A res \in ToSet(results) : res.cites # {} =>
              \E k \in DOMAIN heard : heard[k].req = res.req

(* A source that cannot be reached, answers with a server error or answers with *)
(* nothing decides no requirement, neither for the bidder nor against.  BIS,    *)
(* DigiLocker and the SOAP service are exempt from the second case: they grade  *)
(* the body whatever the status code.                                           *)
LooksAtCode(rule, a) == rule \notin {"bis", "digilocker"} /\ ~(rule = "pan" /\ a.route = "soap")
Outage(rule, a) ==
    \/ a.code \in {"down", "cut"}
    \/ a.body = "absent"
    \/ a.code = "5xx" /\ LooksAtCode(rule, a)
OutageNeverDecides ==
    \A k \in DOMAIN heard, res \in ToSet(results) :
        res.req = heard[k].req /\ Outage(bid.reqs[res.req].rule, heard[k].answer)
        => res.status \notin {"PASS", "FAIL"}

(* The verdict on turnover depends on the order of the documents only where the *)
(* exact average equals the limit, so that the rounding of the sum decides.     *)
(* That on net worth does only where the consistency check reports the          *)
(* conflict, where a net worth names no year, where statements of several years *)
(* qualify, or where two documents agree within the tolerance but the limit     *)
(* lies between them: the first statement decides alone.                        *)
AverageIsLimit(p, points) ==
    p.mode # "MINIMUM_YEAR" /\ Excess(points, Chosen(points, p.years), p.turnover) = 0
AgreeAcross(entries, limit) ==
    \E i, j \in DOMAIN entries :
        /\ entries[i].year = entries[j].year /\ entries[i].doc # entries[j].doc
        /\ WithinTolerance(entries[i].value, entries[j].value)
        /\ entries[i].value < limit /\ limit <= entries[j].value
OrderMattersOnlyIfReported ==
    pc = "done" => \A i \in {k \in DOMAIN bid.reqs : bid.reqs[k].rule = "financial"} :
        LET r == bid.reqs[i]
            worths == Profile(r.docs).netWorth
            backwards == [params |-> r.params, p |-> r.p, docs |-> Reverse(r.docs)]
            same == FinancialCapacityRule(r) = FinancialCapacityRule(backwards)
        IN  /\ DetermineFocus(r.p) = "TURNOVER" => same \/ AverageIsLimit(r.p, Profile(r.docs).turnovers)
            /\ DetermineFocus(r.p) = "NET_WORTH" =>
                  \/ same \/ Inconsistent(r.docs) # {} \/ 0 \in Years(worths)
                  \/ Cardinality(r.p.years \cap Years(worths)) > 1
                  \/ AgreeAcross(worths, r.p.netWorth)

(* What gst_http_transport.py promises: the rules never see a raw exception of  *)
(* the transport, so a connection cut inside an answer aborts no assessment.    *)
(* http.client's HTTPException is not an OSError and passes through (a run with *)
(* MCNoOutageAborts.cfg shows it).                                              *)
NoOutageAborts == pc = "raised" /\ heard # <<>> => Last(heard).answer.code # "cut"
=============================================================================
