---------------------------- MODULE CrossBidder ----------------------------
(***************************************************************************)
(* ai_verification/cross_bidder and ai_verification/evidence_quality: is a *)
(* document of one bidder a copy of a document of another.  A document is  *)
(*   id, bidder, evidence, type, bytes     ("none" where unknown)          *)
(*   text    [letters, style], the style dropped by normalize_text, or     *)
(*           NoText                                                        *)
(*   answer  what the embedding service says of its text, a vector scaled  *)
(*           to whole numbers                                              *)
(*   meta    whether the store has metadata, and then                      *)
(*   ocr, typed         confidences in percent                             *)
(*   issuer, number, territory, name ("none"), issued, until (0)           *)
(* Scores are percents, products of scores fractions <<num, den>>.         *)
(***************************************************************************)
EXTENDS Documents, Integers

IsDocument(d) ==
    /\ DOMAIN d = {"id", "bidder", "evidence", "type", "bytes", "text", "answer", "meta", "ocr", "typed",
                   "issuer", "number", "territory", "name", "issued", "until"}
    /\ DOMAIN d.text = {"letters", "style"} /\ d.text.letters \in Seq(ToSet(d.text.letters))
    /\ DOMAIN d.answer = {"https", "code", "finite", "vector"} /\ d.answer.vector \in Seq(Int)
    /\ d.meta \in BOOLEAN /\ {d.ocr, d.typed} \subseteq 0..100 /\ {d.issued, d.until} \subseteq Nat

NoText == [letters |-> <<>>, style |-> "absent"]
HasText(d) == d.text.style # "absent"
NormalizeText(d) == d.text.letters
SameBytes(l, r) == l.bytes # "none" /\ l.bytes = r.bytes
(* Two texts of which nothing is left are the same text.                        *)
SameNormalized(l, r) == HasText(l) /\ HasText(r) /\ NormalizeText(l) = NormalizeText(r)
Grams(d) == {SubSeq(NormalizeText(d), i, i + 3) : i \in 1..(Len(NormalizeText(d)) - 3)}
LexicalDice(l, r) ==
    LET size == Cardinality(Grams(l)) + Cardinality(Grams(r))
    IN  IF Grams(l) = {} \/ Grams(r) = {} THEN <<0, 1>>
        ELSE <<2 * Cardinality(Grams(l) \cap Grams(r)), size>>
Percent(fraction) == (100 * fraction[1]) \div fraction[2]

(* The embedding adapter: no vector unless an HTTPS endpoint answered with one  *)
(* whose numbers are finite.                                                    *)
Embed(d) ==
    IF NormalizeText(d) # <<>> /\ d.answer.https /\ d.answer.code = "2xx" /\ d.answer.finite
    THEN d.answer.vector ELSE <<>>
Dot(u, v) ==
    LET sum[i \in 0..Len(u)] == IF i = 0 THEN 0 ELSE sum[i - 1] + u[i] * v[i]
    IN  sum[Len(u)]
CosinePercent(dot, norms) ==
    IF dot <= 0 THEN 0
    ELSE Cardinality({m \in 1..100 : m * m * norms <= 10000 * dot * dot})
CosineSimilarity(u, v) == CosinePercent(Dot(u, v), Dot(u, u) * Dot(v, v))
SemanticSimilarity(l, r) ==
    LET u == Embed(l)  v == Embed(r)
    IN  IF u = <<>> \/ v = <<>> \/ Len(u) # Len(v) THEN 0 ELSE CosineSimilarity(u, v)
-----------------------------------------------------------------------------
(* evidence_quality: the signals of a document without field confidence, so a   *)
(* document is never GOOD, UNKNOWN without its text, and DEGRADED otherwise.    *)
MissingFields(d) ==
    (IF d.issuer = "none" THEN 1 ELSE 0) + (IF d.number = "none" THEN 1 ELSE 0)
    + (IF d.territory = "none" THEN 1 ELSE 0) + (IF d.issued = 0 THEN 1 ELSE 0)
TextPresent(d) == d.text.letters # <<>>
FieldQuality(d) == IF MissingFields(d) = 0 THEN 50 ELSE 0
Completeness400(d) == 85 * (4 - MissingFields(d)) + (IF TextPresent(d) THEN 40 ELSE 0) + 20
OverallQuality(d) == (120 * d.ocr + 120 * FieldQuality(d) + 25 * Completeness400(d) + 60 * d.typed) \div 400
QualityState(d) == IF TextPresent(d) THEN "DEGRADED" ELSE "UNKNOWN"
Lower(a, b) == IF a < b THEN a ELSE b
CombinePair(l, r) ==
    [state |-> IF QualityState(l) = "UNKNOWN" THEN "UNKNOWN" ELSE QualityState(r),
     score |-> Lower(OverallQuality(l), OverallQuality(r)),
     ocr |-> Lower(l.ocr, r.ocr), field |-> Lower(FieldQuality(l), FieldQuality(r))]
ShouldAllowSemanticFinding(q) == q.state = "DEGRADED" /\ q.score >= 50
-----------------------------------------------------------------------------
(* detector.py.                                                                 *)
WithMeta(d) ==
    IF d.meta THEN d
    ELSE [d EXCEPT !.type = "UNKNOWN", !.evidence = 0, !.ocr = 100, !.typed = 100, !.issuer = "none",
                   !.number = "none", !.issued = 0, !.until = 0, !.name = "none", !.territory = "none"]
CandidateBlocking(l, r) == (l.name = "none" \/ l.name # r.name) /\ l.type = r.type

(* What is known on both sides, and of that what agrees.                        *)
Both(x, y, none) == x # none /\ y # none
Compared(l, r) ==
    {f \in {"issuer", "number"} : Both(l[f], r[f], "none")}
    \cup (IF Both(l.issued, r.issued, 0) THEN {"issued"} ELSE {})
    \cup (IF Both(l.issued, r.issued, 0) /\ Both(l.until, r.until, 0) THEN {"overlap"} ELSE {})
Overlap(l, r) == \A d \in {l, r}, e \in {l, r} : d.issued <= e.until
Agrees(l, r, f) == IF f = "overlap" THEN Overlap(l, r) ELSE l[f] = r[f]
(* Mutant: what is unknown counts as a disagreement.                            *)
CorroborationOfAll(l, r) == <<Cardinality({f \in Compared(l, r) : Agrees(l, r, f)}), 4>>
Corroboration(l, r) ==
    IF Compared(l, r) = {} THEN <<0, 1>>
    ELSE <<Cardinality({f \in Compared(l, r) : Agrees(l, r, f)}), Cardinality(Compared(l, r))>>

Template == {"number", "issued", "territory"}
Unset(d, f) == d[f] = (IF f = "issued" THEN 0 ELSE "none")
(* Mutant: the score is over what the left document knows.                      *)
TemplateGateOfLeft(l, r) ==
    LET known == {f \in Template : ~Unset(l, f)}
        matched == {f \in known : l[f] = r[f]}
    IN  [match |-> matched # {}, score |-> <<Cardinality(matched), IF known = {} THEN 1 ELSE Cardinality(known)>>]
TemplateGate(l, r) ==
    LET known == {f \in Template : ~Unset(l, f) /\ ~Unset(r, f)}
        matched == {f \in known : l[f] = r[f]}
        partly == {f \in Template : ~Unset(l, f) \/ ~Unset(r, f)}
    IN  [match |-> matched # {}, score |-> <<Cardinality(matched), IF partly = {} THEN 1 ELSE Cardinality(partly)>>]

(* (60 S + 25 C + 15 Q) T: the denominators of C and T are cleared.             *)
Confidence(S, C, Q, T) ==
    Percent(<<(C[2] * (60 * S + 15 * Q) + 2500 * C[1]) * T[1], 10000 * C[2] * T[2]>>)

SemanticThreshold == 85
Layer(l, r) ==
    LET dice == LexicalDice(l, r) IN
    CASE SameBytes(l, r) -> <<"EXACT", 100>>
      [] ~SameBytes(l, r) /\ SameNormalized(l, r) -> <<"NORMALIZED", 100>>
      [] ~SameBytes(l, r) /\ ~SameNormalized(l, r) /\ 10 * dice[1] >= 8 * dice[2] -> <<"LEXICAL", Percent(dice)>>
      [] OTHER ->
            IF /\ ShouldAllowSemanticFinding(CombinePair(l, r))
               /\ SemanticSimilarity(l, r) >= SemanticThreshold
            THEN <<"SEMANTIC", SemanticSimilarity(l, r)>> ELSE <<"UNKNOWN", 0>>
FlagOfLayer(layer) ==
    IF layer \in {"EXACT", "NORMALIZED"} THEN "CROSS_BIDDER_DOCUMENT_REUSED"
                                         ELSE "CROSS_BIDDER_DOCUMENT_NEAR_DUPLICATE"

(* Both flags ask for a matching template and for a confidence of 70.           *)
DetectCrossBidderAnomalies(left, right) ==
    LET l == WithMeta(left)
        r == WithMeta(right)
        layer == Layer(l, r)
        gate == TemplateGate(l, r)
        quality == CombinePair(l, r)
        confidence == Confidence(layer[2], Corroboration(l, r), Lower(quality.ocr, quality.field), gate.score)
    IN  IF /\ CandidateBlocking(l, r) /\ layer[1] # "UNKNOWN"
           /\ gate.match /\ confidence >= 70
           /\ l.bidder # r.bidder
        THEN {Finding("cross_bidder", r.bidder, FlagOfLayer(layer[1]), confidence,
                      {l.evidence, r.evidence} \ {0}, <<l.id, r.id>>, {})}
        ELSE {}
-----------------------------------------------------------------------------
(* orchestrator.py: the documents of the bidder against those of every other    *)
(* bidder of the corpus, a sequence of [bidder, docs, verifications].  A pair   *)
(* of document ids is compared once, whoever holds them.                        *)
UniqueDocuments(docs) == {i \in DOMAIN docs : \A k \in DOMAIN docs : docs[k].id = docs[i].id => i <= k}
Pairs(docs, corpus) ==
    {p \in UNION {{c} \X UniqueDocuments(docs) \X UniqueDocuments(corpus[c].docs) : c \in DOMAIN corpus} :
        docs[p[2]].id # corpus[p[1]].docs[p[3]].id /\ corpus[p[1]].bidder # docs[p[2]].bidder}
Earlier(p, q) == p[1] < q[1] \/ (p[1] = q[1] /\ (p[2] < q[2] \/ (p[2] = q[2] /\ p[3] < q[3])))
OrderedPairs(docs, corpus) ==
    LET ids(p) == {docs[p[2]].id, corpus[p[1]].docs[p[3]].id}
    IN  {<<docs[p[2]], corpus[p[1]].docs[p[3]]>> : p \in {q \in Pairs(docs, corpus) :
            ~\E o \in Pairs(docs, corpus) : Earlier(o, q) /\ ids(o) = ids(q)}}

(* The verifications a finding cites are looked up by evidence, the first of    *)
(* an evidence id, on the bidder's side and on the other one's.                 *)
VerificationIndex(verifications, evidence) ==
    LET at == SelectInSeq(verifications, LAMBDA v : v.evidence = evidence)
    IN  IF at = 0 THEN {} ELSE {verifications[at].id}
AttachVerificationRefs(finding, verifications, corpus) ==
    LET other == SelectInSeq(corpus, LAMBDA c : c.bidder = finding.about)
        refs(e) == VerificationIndex(verifications, e) \cup VerificationIndex(corpus[other].verifications, e)
    IN  [finding EXCEPT !.cites = UNION {refs(e) : e \in finding.evidence}]
CrossBidderFindings(docs, verifications, corpus) ==
    {AttachVerificationRefs(f, verifications, corpus) :
        f \in UNION {DetectCrossBidderAnomalies(p[1], p[2]) : p \in OrderedPairs(docs, corpus)}}
=============================================================================
