------------------------- MODULE BidderVerification -------------------------
(***************************************************************************)
(* What becomes of one bidder after the compliance engine: the names on    *)
(* the documents, ai_verification/engine.py (registries, own documents,    *)
(* documents of others), financial_bridge.py, and the three verdicts,      *)
(* document score, risk and finding score, drawn from the findings.        *)
(* A case is                                                               *)
(*   bidder, evidence, verifications, docs, books, requirements, results   *)
(*   corpus    the other bidders: [bidder, docs, verifications]            *)
(*   engines   the optional engines the service was built with             *)
(*   store     whether there is an artifact store                          *)
(*   graded    whether the quality of the documents is assessed            *)
(*   today     the date dates are judged at, 0 for none                    *)
(***************************************************************************)
EXTENDS Risk

CONSTANT Cases    \* the cases that are verified

(* The evidence and the documents of a case are its bidder's, those of the corpus belong *)
(* to the bidder they are listed under; an id of an evidence or of a verification *)
(* stands for one record.                                                       *)
Lists(c) ==
    {c.evidence, c.verifications, c.docs, c.corpus, c.results}
    \cup UNION {{o.docs, o.verifications} : o \in ToSet(c.corpus)}
AllVerifications(c) == ToSet(c.verifications) \cup UNION {ToSet(o.verifications) : o \in ToSet(c.corpus)}
ASSUME CaseAssumption == \A c \in Cases :
    /\ DOMAIN c = {"bidder", "evidence", "verifications", "docs", "books", "requirements", "results",
                   "corpus", "engines", "store", "graded", "today"}
    /\ \A list \in Lists(c) : list \in Seq(ToSet(list))
    /\ \A r \in ToSet(c.results) : r.flags \in Seq(ToSet(r.flags))
    /\ \A d \in ToSet(c.docs) : IsDocument(d) /\ d.bidder = c.bidder
    /\ \A o \in ToSet(c.corpus) : \A d \in ToSet(o.docs) : IsDocument(d) /\ d.bidder = o.bidder
    /\ \A e \in ToSet(c.evidence) : e.bidder = c.bidder /\ e.quality \in DOMAIN QualityDelta
    /\ \A e, f \in ToSet(c.evidence) : e.id = f.id => e = f
    /\ \A v, w \in AllVerifications(c) : v.id = w.id => v = w

VARIABLES case,      \* the case
          pc,        \* the next stage
          named,     \* the findings of verify_cross_document_identity
          findings,  \* the findings of the verification engine and the bridge
          document,  \* the document score
          risk,      \* the risk assessment
          verdict    \* the category the finding scorer gives the case

vars == <<case, pc, named, findings, document, risk, verdict>>

(* No requirement is judged here, so no average is rounded.                     *)
F == INSTANCE Financial WITH SumError <- [amounts \in Seq(Int) |-> 0]

(* The engines of one case.  A finding is a set element: an engine that returns *)
(* the same finding twice says nothing more.                                    *)
Reconciled(c) == IF "identity" \in c.engines THEN IdentityFindings(c.verifications, c.bidder) ELSE {}
Consistent(c) ==
    IF "cross_document" \in c.engines THEN CrossDocumentFindings(c.evidence, c.bidder, c.today) ELSE {}
Reused(c) == IF c.store THEN CrossBidderFindings(c.docs, c.verifications, c.corpus) ELSE {}

(* The bridge: a finding for every metric two documents disagree on, and one    *)
(* for a turnover history with a gap or a jump.  Books are numbered from 100.   *)
Books(c) == [i \in DOMAIN c.books |-> 100 + i]
Bridged(c) ==
    {Finding("financial", m, "FINANCIAL_DATA_INCONSISTENCY", 90, Range(Books(c)), <<>>, {}) : m \in F!Inconsistent(c.books)}
    \cup (IF F!TrendAnomaly(F!Profile(c.books).turnovers)
          THEN {Finding("financial", "trend", "TURNOVER_TREND_ANOMALY", 70, Range(Books(c)), <<>>, {})} ELSE {})

AllFindings(c) == Reconciled(c) \cup Consistent(c) \cup Reused(c) \cup Bridged(c)

(* What the verdicts are drawn from.                                            *)
Quality(c) == [id \in {d.id : d \in ToSet(c.docs)} |->
    IF c.graded THEN QualityState(CHOOSE d \in ToSet(c.docs) : d.id = id) ELSE "none"]
Traces(c, found) ==
    {[left |-> c.bidder, right |-> f.about, docs |-> f.docs] : f \in {g \in found : g.kind = "cross_bidder"}}
Scored(c, found, anomalies) ==
    DocumentScore(c.docs, c.requirements, c.evidence, c.results, c.verifications, found \cup anomalies, Quality(c))
Assessed(c, found, anomalies) ==
    Assess(c.bidder, c.results, c.verifications, found, anomalies, Traces(c, found),
           IF c.graded THEN Range(Quality(c)) ELSE {})
Graded(found) == CaseCategory(found)
-----------------------------------------------------------------------------
Init ==
    /\ case \in Cases
    /\ pc = "names"
    /\ named = {} /\ findings = {}
    /\ document = [details |-> [present |-> <<>>, missing |-> {}], category |-> "none"]
    /\ risk = [state |-> "none", score |-> 0, signals |-> {}]
    /\ verdict = "none"

Stage(from, to) == pc = from /\ pc' = to /\ UNCHANGED case
Finds(some) == findings' = findings \cup some /\ UNCHANGED <<named, document, risk, verdict>>

CompareNamesOnDocuments ==
    /\ Stage("names", "identity")
    /\ named' = VerifyCrossDocumentIdentity(case.evidence)
    /\ UNCHANGED <<findings, document, risk, verdict>>
ReconcileIdentity == Stage("identity", "cross_document") /\ Finds(Reconciled(case))
CheckConsistency == Stage("cross_document", "cross_bidder") /\ Finds(Consistent(case))
CompareBidders == Stage("cross_bidder", "financial") /\ Finds(Reused(case))
BridgeFinancial == Stage("financial", "score") /\ Finds(Bridged(case))
ScoreDocuments ==
    /\ Stage("score", "risk")
    /\ document' = Scored(case, findings, named)
    /\ UNCHANGED <<named, findings, risk, verdict>>
AssessRisk ==
    /\ Stage("risk", "case")
    /\ risk' = Assessed(case, findings, named)
    /\ UNCHANGED <<named, findings, document, verdict>>
ScoreCase ==
    /\ Stage("case", "done")
    /\ verdict' = Graded(findings)
    /\ UNCHANGED <<named, findings, document, risk>>

Next ==
    \/ CompareNamesOnDocuments \/ ReconcileIdentity \/ CheckConsistency \/ CompareBidders
    \/ BridgeFinancial \/ ScoreDocuments \/ AssessRisk \/ ScoreCase

Spec == Init /\ [][Next]_vars /\ WF_vars(Next)
-----------------------------------------------------------------------------
TypeOK ==
    /\ pc \in {"names", "identity", "cross_document", "cross_bidder", "financial", "score", "risk", "case", "done"}
    /\ document.category \in {"none", "GREEN", "YELLOW", "RED"}
    /\ risk.state \in {"none", "CLEAR", "REVIEW", "HIGH_RISK", "INDETERMINATE"} /\ risk.score \in 0..10000
    /\ verdict \in {"none", "GREEN", "YELLOW", "RED"}

(* Whatever a finding is made of is on file: its flag is registered (scoring    *)
(* raises on any other), a mismatch of names is between verified answers of two *)
(* registries about this bidder, a copy is of a document of the other bidder,   *)
(* and every verification it cites exists.  The consistency engine is exempt    *)
(* from the last: it cites its evidence.                                        *)
OwnEvidence(c) == {e \in ToSet(c.evidence) : e.bidder = c.bidder}
Cited(c, f) == {v \in AllVerifications(c) : v.id \in f.cites}
Grounded(c, f) ==
    /\ Known(f.flag)
    /\ f.kind # "cross_document" => {v.id : v \in Cited(c, f)} = f.cites
    /\ f.kind \in {"cross_document", "documents"} => f.evidence \subseteq {e.id : e \in OwnEvidence(c)}
    /\ f.kind = "identity" =>
          /\ Cited(c, f) \subseteq {v \in ToSet(c.verifications) : v.bidder = c.bidder /\ v.status = "VERIFIED"}
          /\ Cardinality({CAPABILITY_TO_SOURCE[v.cap] : v \in Cited(c, f)}) = 2
    /\ f.kind = "cross_bidder" =>
          /\ f.about # c.bidder
          /\ f.docs[1] \in {d.id : d \in ToSet(c.docs)}
          /\ \E o \in ToSet(c.corpus) : o.bidder = f.about /\ f.docs[2] \in {d.id : d \in ToSet(o.docs)}
FindingsAreGrounded == \A f \in findings \cup named : Grounded(case, f)

(* Two bidders are treated alike: what is found of a document of another bidder *)
(* is found, with the same confidence, when the other bidder is verified with   *)
(* this one in its corpus.  Document ids are taken to be unique.                *)
AllDocuments(c) == ToSet(c.docs) \cup UNION {ToSet(o.docs) : o \in ToSet(c.corpus)}
DistinctIds(c) == \A d, e \in AllDocuments(c) : d.id = e.id => d = e
SeenFrom(c, other) ==
    CrossBidderFindings(other.docs, other.verifications,
                        <<[bidder |-> c.bidder, docs |-> c.docs, verifications |-> c.verifications]>>)
AboutDocumentOf(other, f) == f.kind = "cross_bidder" /\ f.docs[2] \in {d.id : d \in ToSet(other.docs)}
SeenFromBothSides ==
    pc = "done" /\ DistinctIds(case) =>
        \A other \in ToSet(case.corpus) :
            {<<f.flag, f.confidence, f.docs>> : f \in {g \in findings : AboutDocumentOf(other, g)}}
            = (IF case.store THEN {<<f.flag, f.confidence, Reverse(f.docs)>> : f \in SeenFrom(case, other)} ELSE {})

(* A document another bidder filed byte for byte, under the same particulars    *)
(* and another name, is reported as reused as soon as those include a number or *)
(* a date of issue, however badly it was read.                                  *)
Particulars == {"type", "issuer", "number", "territory", "issued", "until"}
IsCopy(d, e) ==
    /\ SameBytes(d, e) /\ d.meta /\ e.meta
    /\ \A p \in Particulars : d[p] = e[p]
    /\ d.number # "none" \/ d.issued # 0
    /\ d.name = "none" \/ d.name # e.name
CopyIsReported ==
    pc = "done" /\ case.store /\ DistinctIds(case) =>
        \A c \in ToSet(case.corpus) : \A d \in ToSet(case.docs), e \in ToSet(c.docs) :
            IsCopy(d, e) /\ d.id # e.id /\ d.bidder # e.bidder /\ c.bidder # case.bidder =>
                \E f \in findings : f.docs = <<d.id, e.id>> /\ f.flag = "CROSS_BIDDER_DOCUMENT_REUSED"

(* The consistency engine compares every pair: neither the order in which the   *)
(* evidence was extracted nor an item that occurs twice changes what it finds.  *)
OrderIsIrrelevant ==
    pc = "done" =>
        \A other \in {Reverse(case.evidence), case.evidence \o case.evidence} :
            Consistent([case EXCEPT !.evidence = other]) = {f \in findings : f.kind = "cross_document"}

(* Bad news never helps: when no requirement has two results, the verdicts on a *)
(* case are no better than those it would get with one adverse result, one      *)
(* failed verification or one finding less.  An indeterminate risk is no        *)
(* verdict and ranks with a clear one.                                          *)
Rank == [none |-> 0, INDETERMINATE |-> 0, CLEAR |-> 0, GREEN |-> 0, REVIEW |-> 1, YELLOW |-> 1,
         HIGH_RISK |-> 2, RED |-> 2]
Adverse == {"FAIL", "WARNING", "MISSING", "UNVERIFIABLE", "NOT_CHECKED",
            "INVALID", "INACTIVE", "NOT_FOUND", "UNAVAILABLE", "ERROR"}
NoBetter(c, found) ==
    /\ Rank[Scored(c, found, named).category] <= Rank[document.category]
    /\ Rank[Assessed(c, found, named).state] <= Rank[risk.state]
    /\ Rank[Graded(found)] <= Rank[verdict]
NothingAdverseHelps ==
    /\ \A i \in {k \in DOMAIN case.results : case.results[k].status \in Adverse} :
          NoBetter([case EXCEPT !.results = RemoveAt(@, i)], findings)
    /\ \A i \in {k \in DOMAIN case.verifications : case.verifications[k].status \in Adverse} :
          NoBetter([case EXCEPT !.verifications = RemoveAt(@, i)], findings)
    /\ \A f \in findings : NoBetter(case, findings \ {f})
AnsweredOnce(results) == \A i, j \in DOMAIN results : results[i].req = results[j].req => i = j
BadNewsNeverHelps == pc = "done" /\ AnsweredOnce(case.results) => NothingAdverseHelps

(* The same of a requirement with two results does not hold (a run with         *)
(* MCMissingMasks.cfg shows it): a MISSING result has the key and the weight of *)
(* a WARNING without flags, survives in its stead when it is the first of the   *)
(* two, and is told but not scored.                                             *)
BadNewsNeverHelpsAtAll == pc = "done" => NothingAdverseHelps
=============================================================================
