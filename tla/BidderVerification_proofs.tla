---------------------- MODULE BidderVerification_proofs ----------------------
(***************************************************************************)
(* Proofs about the verification of one bidder: where findings come from,  *)
(* that they depend neither on the order of the evidence nor on which      *)
(* bidder is looked at, and that no verdict gets better by more of them.   *)
(***************************************************************************)
EXTENDS BidderVerification, FiniteSetTheorems, WellFoundedInduction, SequenceTheorems, TLAPS

-------------------------------------------------------------------------------
(* Sequences and least elements.                                           *)

\* Every nonempty set of numbers has a least element, which is its Min.
LEMMA MinIsLeast ==
    ASSUME NEW T \in SUBSET Nat, T # {}
    PROVE  Min(T) \in T /\ \A y \in T : Min(T) <= y
<1> DEFINE R == OpToRel(<, Nat)
<1>1. IsWellFoundedOn(R, Nat)
  BY NatLessThanWellFounded
<1>2. \A x, y \in Nat : x < y => <<x, y>> \in R
  BY DEF OpToRel
<1> HIDE DEF R
<1>3. PICK x \in T : \A y \in T : ~(<<y, x>> \in R)
  BY <1>1, WFMin
<1>4. ASSUME NEW y \in T PROVE x <= y
  <2>1. x \in Nat /\ y \in Nat
    OBVIOUS
  <2>2. ~(y < x)
    BY <1>2, <1>3, <2>1
  <2> QED  BY <2>1, <2>2
<1> QED  BY <1>4 DEF Min

LEMMA PlacesOfSeq ==
    ASSUME NEW s, s \in Seq(ToSet(s))
    PROVE  /\ Len(s) \in Nat /\ DOMAIN s = 1 .. Len(s) /\ DOMAIN s \in SUBSET Nat
           /\ \A i \in DOMAIN s : s[i] \in ToSet(s)
           /\ \A x \in ToSet(s) : \E i \in DOMAIN s : s[i] = x
<1>1. Len(s) \in Nat /\ DOMAIN s = 1 .. Len(s)
  OBVIOUS
<1> QED  BY <1>1 DEF ToSet

LEMMA FirstNumbers ==
    ASSUME NEW n \in Nat
    PROVE  IsFiniteSet(1 .. n) /\ Cardinality(1 .. n) = n
<1>1. 1 \in Int /\ n \in Int /\ (1 > n <=> n = 0)
  OBVIOUS
<1>2. /\ IsFiniteSet(1 .. n)
      /\ Cardinality(1 .. n) = IF 1 > n THEN 0 ELSE n - 1 + 1
  BY <1>1, FS_Interval
<1> QED  BY <1>1, <1>2

\* What a case holds, once the lists of it are unfolded.
LEMMA CaseLists ==
    ASSUME NEW c \in Cases
    PROVE  /\ c.evidence \in Seq(ToSet(c.evidence))
           /\ c.verifications \in Seq(ToSet(c.verifications))
           /\ c.docs \in Seq(ToSet(c.docs)) /\ c.corpus \in Seq(ToSet(c.corpus))
           /\ \A o \in ToSet(c.corpus) : /\ o.docs \in Seq(ToSet(o.docs))
                                         /\ o.verifications \in Seq(ToSet(o.verifications))
<1>1. \A list \in Lists(c) : list \in Seq(ToSet(list))
  BY CaseAssumption
<1>2. /\ c.evidence \in Lists(c) /\ c.verifications \in Lists(c)
      /\ c.docs \in Lists(c) /\ c.corpus \in Lists(c)
      /\ \A o \in ToSet(c.corpus) : o.docs \in Lists(c) /\ o.verifications \in Lists(c)
  BY DEF Lists
<1> QED  BY <1>1, <1>2

-------------------------------------------------------------------------------
(* Where findings come from, engine by engine.                             *)

LEMMA FlagsAreKnown ==
    /\ Known("CROSS_SOURCE_IDENTITY_MISMATCH") /\ Known("CROSS_DOCUMENT_IDENTITY_MISMATCH")
    /\ Known("CROSS_BIDDER_DOCUMENT_REUSED") /\ Known("CROSS_BIDDER_DOCUMENT_NEAR_DUPLICATE")
    /\ Known("FINANCIAL_DATA_INCONSISTENCY") /\ Known("TURNOVER_TREND_ANOMALY")
    /\ Known("CROSS_DOCUMENT_IDENTIFIER_CONFLICT") /\ Known("CROSS_DOCUMENT_ADDRESS_CONFLICT")
    /\ Known("CROSS_DOCUMENT_DATE_SEQUENCE_INVALID") /\ Known("CROSS_DOCUMENT_PRODUCT_MISMATCH")
    /\ Known("CROSS_DOCUMENT_MANUFACTURER_MISMATCH")
<1> DEFINE parts == {FlagsA, FlagsB, FlagsC, FlagsD, FlagsE, FlagsF, FlagsG, FlagsH, FlagsI, FlagsJ, FlagsK}
<1>1. ASSUME NEW part \in parts, NEW s \in FlagSeverity, NEW f \in part[s]
      PROVE  Known(f)
  BY DEF Known, FLAG_REGISTRY
<1>2. ASSUME NEW f, \E part \in parts : \E s \in FlagSeverity : f \in part[s]
      PROVE  Known(f)
  BY <1>1, <1>2
<1>3. "HIGH" \in FlagSeverity /\ "MEDIUM" \in FlagSeverity /\ "CRITICAL" \in FlagSeverity
  BY DEF FlagSeverity
<1> QED  BY <1>2, <1>3
            DEF FlagsA, FlagsB, FlagsC, FlagsD, FlagsE, FlagsF, FlagsG, FlagsH, FlagsI,
                FlagsJ, FlagsK

\* Two registries: both answers are verified and about this bidder.
LEMMA IdentityIsGrounded ==
    ASSUME NEW c \in Cases, NEW f \in IdentityFindings(c.verifications, c.bidder)
    PROVE  Grounded(c, f) /\ f.kind = "identity"
<1> DEFINE vs == c.verifications
           obs == IdentityObservations(vs, c.bidder)
<1>1. PICK p \in DisagreeingPairs(obs) :
         f = Finding("identity", "name", "CROSS_SOURCE_IDENTITY_MISMATCH", 90,
                     {p[1].evidence, p[2].evidence} \ {0}, <<>>, {p[1].id, p[2].id})
  BY DEF IdentityFindings
<1>2. PICK q \in (1 .. 4) \X (1 .. 4) :
         /\ q[1] < q[2] /\ BySource(obs, q[1]) # {} /\ BySource(obs, q[2]) # {}
         /\ p = <<obs[Min(BySource(obs, q[1]))], obs[Min(BySource(obs, q[2]))]>>
  BY <1>1 DEF DisagreeingPairs, IdentityPairs
<1>3. PICK m, n : m = q[1] /\ n = q[2]
  OBVIOUS
<1>4. PICK i, j : i = Min(BySource(obs, m)) /\ j = Min(BySource(obs, n))
  OBVIOUS
<1>5. /\ DOMAIN obs = {k \in DOMAIN vs : vs[k].bidder = c.bidder
                                          /\ vs[k].cap \in DOMAIN CAPABILITY_TO_SOURCE}
      /\ \A k \in DOMAIN obs : obs[k] = IdentityObservation(vs[k])
  BY DEF IdentityObservations
<1> HIDE DEF obs
<1>6. /\ DOMAIN vs \in SUBSET Nat /\ \A k \in DOMAIN vs : vs[k] \in ToSet(vs)
  BY CaseLists, PlacesOfSeq
<1>7. /\ i \in BySource(obs, m) /\ j \in BySource(obs, n)
  <2>1. /\ BySource(obs, m) \in SUBSET Nat /\ BySource(obs, m) # {}
        /\ BySource(obs, n) \in SUBSET Nat /\ BySource(obs, n) # {}
    BY <1>2, <1>3, <1>5, <1>6 DEF BySource
  <2> QED  BY <1>4, <2>1, MinIsLeast
<1>8. /\ i \in DOMAIN vs /\ vs[i].bidder = c.bidder
      /\ j \in DOMAIN vs /\ vs[j].bidder = c.bidder
      /\ obs[i].source = SUPPORTED_SOURCES[m] /\ obs[j].source = SUPPORTED_SOURCES[n]
      /\ obs[i] = IdentityObservation(vs[i]) /\ obs[j] = IdentityObservation(vs[j])
  BY <1>5, <1>7 DEF BySource
<1>9. p = <<obs[i], obs[j]>>
  BY <1>2, <1>3, <1>4
<1>10. obs[i].status = "VERIFIED" /\ obs[j].status = "VERIFIED"
  BY <1>1, <1>9 DEF DisagreeingPairs, CompareNames
<1>11. ASSUME NEW v, IdentityObservation(v).status = "VERIFIED"
       PROVE  v.status = "VERIFIED"
  BY <1>11 DEF IdentityObservation, Classify
<1>12. /\ vs[i].status = "VERIFIED" /\ vs[j].status = "VERIFIED"
       /\ f.cites = {vs[i].id, vs[j].id}
       /\ CAPABILITY_TO_SOURCE[vs[i].cap] = SUPPORTED_SOURCES[m]
       /\ CAPABILITY_TO_SOURCE[vs[j].cap] = SUPPORTED_SOURCES[n]
       /\ f.kind = "identity" /\ f.flag = "CROSS_SOURCE_IDENTITY_MISMATCH"
  <2>1. vs[i].status = "VERIFIED" /\ vs[j].status = "VERIFIED"
    BY <1>8, <1>10, <1>11
  <2>2. /\ f.cites = {p[1].id, p[2].id} /\ f.kind = "identity"
        /\ f.flag = "CROSS_SOURCE_IDENTITY_MISMATCH"
    BY <1>1 DEF Finding
  <2>3. \A v : /\ IdentityObservation(v).id = v.id
               /\ IdentityObservation(v).source = CAPABILITY_TO_SOURCE[v.cap]
    BY DEF IdentityObservation
  <2>4. p[1] = obs[i] /\ p[2] = obs[j]
    BY <1>9
  <2> QED  BY <1>8, <2>1, <2>2, <2>3, <2>4
<1>13. Cited(c, f) = {vs[i], vs[j]}
  <2>1. {vs[i], vs[j]} \subseteq AllVerifications(c)
    BY <1>6, <1>8 DEF AllVerifications
  <2>2. \A v, w \in AllVerifications(c) : v.id = w.id => v = w
    BY CaseAssumption
  <2> QED  BY <1>12, <2>1, <2>2 DEF Cited
<1>14. SUPPORTED_SOURCES[m] # SUPPORTED_SOURCES[n]
  <2>1. m \in {1, 2, 3, 4} /\ n \in {1, 2, 3, 4} /\ m < n
    BY <1>2, <1>3
  <2> QED  BY <2>1, SMT DEF SUPPORTED_SOURCES
<1>15. Cardinality({CAPABILITY_TO_SOURCE[v.cap] : v \in Cited(c, f)}) = 2
  <2>1. {CAPABILITY_TO_SOURCE[v.cap] : v \in Cited(c, f)}
           = {SUPPORTED_SOURCES[m]} \cup {SUPPORTED_SOURCES[n]}
    BY <1>12, <1>13
  <2>2. /\ IsFiniteSet({SUPPORTED_SOURCES[m]})
        /\ Cardinality({SUPPORTED_SOURCES[m]}) = 1
    BY FS_Singleton
  <2>3. Cardinality({SUPPORTED_SOURCES[m]} \cup {SUPPORTED_SOURCES[n]})
           = IF SUPPORTED_SOURCES[n] \in {SUPPORTED_SOURCES[m]}
             THEN Cardinality({SUPPORTED_SOURCES[m]})
             ELSE Cardinality({SUPPORTED_SOURCES[m]}) + 1
    BY <2>2, FS_AddElement
  <2>4. SUPPORTED_SOURCES[n] \notin {SUPPORTED_SOURCES[m]}
    BY <1>14
  <2>5. Cardinality({SUPPORTED_SOURCES[m]} \cup {SUPPORTED_SOURCES[n]}) = 2
    BY <2>2, <2>3, <2>4
  <2> QED  BY <2>1, <2>5
<1>16. /\ Cited(c, f) \subseteq {v \in ToSet(vs) : v.bidder = c.bidder /\ v.status = "VERIFIED"}
       /\ {v.id : v \in Cited(c, f)} = f.cites
  BY <1>6, <1>8, <1>12, <1>13
<1> QED  BY <1>12, <1>15, <1>16, FlagsAreKnown DEF Grounded

\* The record carried by most is one of the records.
LEMMA DominantIsRecord ==
    ASSUME NEW ev, ev \in Seq(ToSet(ev)), IdentityRecords(ev) # {}
    PROVE  DominantRecord(ev) \in IdentityRecords(ev)
<1> DEFINE R == IdentityRecords(ev)
           carriers(i) == Cardinality(Carrying(ev, i))
           short == {Len(ev) - carriers(i) : i \in R}
<1>1. /\ Len(ev) \in Nat /\ R \subseteq 1 .. Len(ev)
  BY PlacesOfSeq DEF IdentityRecords
<1>2. \A i \in R : carriers(i) \in Nat /\ carriers(i) <= Len(ev)
  <2> TAKE i \in R
  <2>1. Carrying(ev, i) \in SUBSET (1 .. Len(ev))
    BY <1>1 DEF Carrying
  <2>2. IsFiniteSet(1 .. Len(ev)) /\ Cardinality(1 .. Len(ev)) = Len(ev)
    BY <1>1, FirstNumbers
  <2>3. /\ IsFiniteSet(Carrying(ev, i))
        /\ Cardinality(Carrying(ev, i)) <= Cardinality(1 .. Len(ev))
    BY <2>1, <2>2, FS_Subset
  <2>4. Cardinality(Carrying(ev, i)) \in Nat
    BY <2>3, FS_CardinalityType
  <2> QED  BY <2>2, <2>3, <2>4
<1> HIDE DEF carriers
<1>3. short \in SUBSET Nat /\ short # {}
  BY <1>1, <1>2
<1>4. PICK a \in R : Len(ev) - carriers(a) = Min(short)
  BY <1>3, MinIsLeast
<1>5. \A k \in R : carriers(a) >= carriers(k)
  <2> TAKE k \in R
  <2>1. Min(short) <= Len(ev) - carriers(k)
    <3>1. Len(ev) - carriers(k) \in short
      OBVIOUS
    <3> HIDE DEF short
    <3>2. \A y \in short : Min(short) <= y
      BY <1>3, MinIsLeast
    <3> QED  BY <3>1, <3>2
  <2> QED  BY <1>1, <1>2, <1>4, <2>1
<1> DEFINE top == {i \in R : carriers(i) = carriers(a)}
<1>6. top \in SUBSET Nat /\ top # {}
  BY <1>1
<1>7. Min(top) \in top /\ \A y \in top : Min(top) <= y
  BY <1>6, MinIsLeast
<1>8. \A k \in R : carriers(Min(top)) > carriers(k)
                   \/ (carriers(Min(top)) = carriers(k) /\ Min(top) <= k)
  BY <1>2, <1>5, <1>7
<1>9. \E i \in R : \A k \in R : carriers(i) > carriers(k) \/ (carriers(i) = carriers(k) /\ i <= k)
  BY <1>7, <1>8
<1> QED  BY <1>9 DEF DominantRecord, carriers

\* The names on two documents of the bidder.
LEMMA NamesAreGrounded ==
    ASSUME NEW c \in Cases, NEW f \in VerifyCrossDocumentIdentity(c.evidence)
    PROVE  Grounded(c, f) /\ f.kind = "documents"
<1> DEFINE ev == c.evidence
<1>1. PICK d, k : d = DominantRecord(ev) /\ k = Min(IdentityRecords(ev) \ Carrying(ev, d))
  OBVIOUS
<1>2. /\ IdentityRecords(ev) \ Carrying(ev, d) # {}
      /\ f = Finding("documents", "name", "CROSS_DOCUMENT_IDENTITY_MISMATCH", 90,
                     {ev[d].id, ev[k].id}, <<ev[d].document, ev[k].document>>, {})
  BY <1>1 DEF VerifyCrossDocumentIdentity
<1>3. /\ ev \in Seq(ToSet(ev)) /\ DOMAIN ev \in SUBSET Nat
      /\ \A i \in DOMAIN ev : ev[i] \in OwnEvidence(c)
  BY CaseAssumption, CaseLists, PlacesOfSeq DEF OwnEvidence
<1>4. d \in IdentityRecords(ev)
  BY <1>1, <1>2, <1>3, DominantIsRecord
<1>5. k \in IdentityRecords(ev)
  <2>1. IdentityRecords(ev) \ Carrying(ev, d) \in SUBSET Nat
    BY <1>3 DEF IdentityRecords
  <2> QED  BY <1>1, <1>2, <2>1, MinIsLeast
<1>6. ev[d] \in OwnEvidence(c) /\ ev[k] \in OwnEvidence(c)
  BY <1>3, <1>4, <1>5 DEF IdentityRecords
<1>7. /\ f.kind = "documents" /\ f.flag = "CROSS_DOCUMENT_IDENTITY_MISMATCH"
      /\ f.cites = {} /\ f.evidence = {ev[d].id, ev[k].id}
  BY <1>2 DEF Finding
<1> QED  BY <1>6, <1>7, FlagsAreKnown DEF Grounded, Cited

\* An observation that takes part is of a field that is classified.
LEMMA AvailableIsClassified ==
    ASSUME NEW e, ExtractObservation(e).status = "AVAILABLE"
    PROVE  ExtractObservation(e).dimension \in Dimensions
<1>1. ExtractObservation(e).dimension = ClassifyField(e)
  BY DEF ExtractObservation
<1>2. ClassifyField(e) # "none"
  BY DEF ExtractObservation, StatusFor
<1>3. ClassifyField(e) = "none" \/ ClassifyField(e) \in Dimensions
  BY DEF ClassifyField
<1> QED  BY <1>1, <1>2, <1>3

LEMMA DimensionFlagsAreKnown ==
    ASSUME NEW d \in Dimensions
    PROVE  Known(FLAG_ID_BY_DIMENSION[d])
<1>1. d \in {"IDENTIFIER", "ADDRESS", "DATE", "MANUFACTURER", "PRODUCT"}
  BY DEF Dimensions, FIELD_CLASSIFICATION
<1> QED  BY <1>1, FlagsAreKnown DEF FLAG_ID_BY_DIMENSION

LEMMA ConsistencyIsGrounded ==
    ASSUME NEW c \in Cases, NEW f \in CrossDocumentFindings(c.evidence, c.bidder, c.today)
    PROVE  Grounded(c, f) /\ f.kind = "cross_document"
<1> DEFINE ev == c.evidence
           obs == ExtractObservations(ev, c.bidder)
<1>1. PICK p \in EnumeratePairs(obs) :
         /\ f.kind = "cross_document" /\ f.flag = FLAG_ID_BY_DIMENSION[obs[p[1]].dimension]
         /\ f.evidence = {obs[p[1]].id, obs[p[2]].id}
  BY DEF CrossDocumentFindings, Finding
<1>2. /\ DOMAIN obs = {k \in DOMAIN ev : ev[k].bidder = c.bidder}
      /\ \A k \in DOMAIN obs : obs[k] = ExtractObservation(ev[k])
  BY DEF ExtractObservations
<1> HIDE DEF obs
<1>3. /\ p[1] \in DOMAIN obs /\ obs[p[1]].status = "AVAILABLE"
      /\ p[2] \in DOMAIN obs /\ obs[p[2]].status = "AVAILABLE"
  BY <1>1 DEF EnumeratePairs
<1>4. Known(f.flag)
  BY <1>1, <1>2, <1>3, AvailableIsClassified, DimensionFlagsAreKnown
<1>5. \A k \in DOMAIN obs : ev[k] \in OwnEvidence(c) /\ obs[k].id = ev[k].id
  <2>1. \A k \in DOMAIN ev : ev[k] \in ToSet(ev)
    BY CaseLists, PlacesOfSeq
  <2>2. \A e : ExtractObservation(e).id = e.id
    BY DEF ExtractObservation
  <2> QED  BY <1>2, <2>1, <2>2 DEF OwnEvidence
<1>6. f.evidence \subseteq {e.id : e \in OwnEvidence(c)}
  BY <1>1, <1>3, <1>5
<1> QED  BY <1>1, <1>4, <1>6 DEF Grounded

LEMMA BridgeIsGrounded ==
    ASSUME NEW c \in Cases, NEW f \in Bridged(c)
    PROVE  Grounded(c, f) /\ f.kind = "financial"
<1>1. /\ f.kind = "financial" /\ f.cites = {}
      /\ f.flag \in {"FINANCIAL_DATA_INCONSISTENCY", "TURNOVER_TREND_ANOMALY"}
  BY DEF Bridged, Finding
<1> QED  BY <1>1, FlagsAreKnown DEF Grounded, Cited

\* Where the store has nothing on a document, its identity, its bytes and its
\* text are the same.
LEMMA WithMetaKeeps ==
    ASSUME NEW d, IsDocument(d), NEW w, w = WithMeta(d)
    PROVE  /\ IsDocument(w)
           /\ w.id = d.id /\ w.bidder = d.bidder /\ w.bytes = d.bytes
           /\ w.text = d.text /\ w.answer = d.answer /\ w.meta = d.meta
           /\ d.meta => w = d
<1>1. CASE d.meta
  BY <1>1 DEF WithMeta
<1>2. CASE ~d.meta
  <2>1. w = [d EXCEPT !.type = "UNKNOWN", !.evidence = 0, !.ocr = 100, !.typed = 100,
                !.issuer = "none", !.number = "none", !.issued = 0, !.until = 0,
                !.name = "none", !.territory = "none"]
    BY <1>2 DEF WithMeta
  <2>2. DOMAIN w = DOMAIN d
    BY <2>1
  <2>3. /\ w.id = d.id /\ w.bidder = d.bidder /\ w.bytes = d.bytes
        /\ w.text = d.text /\ w.answer = d.answer /\ w.meta = d.meta
    BY <2>1 DEF IsDocument
  <2>4. w.ocr = 100 /\ w.typed = 100 /\ w.issued = 0 /\ w.until = 0
    BY <2>1 DEF IsDocument
  <2>5. IsDocument(w)
    BY <1>2, <2>2, <2>3, <2>4 DEF IsDocument
  <2> QED  BY <1>2, <2>3, <2>5
<1> QED  BY <1>1, <1>2

\* The first verification of an evidence is one of the list.
LEMMA IndexIsListed ==
    ASSUME NEW vs, vs \in Seq(ToSet(vs)), NEW e
    PROVE  VerificationIndex(vs, e) \subseteq {v.id : v \in ToSet(vs)}
<1> DEFINE I == {i \in 1 .. Len(vs) : vs[i].evidence = e}
           at == SelectInSeq(vs, LAMBDA v : v.evidence = e)
<1>1. at = IF I # {} THEN Min(I) ELSE 0
  BY DEF SelectInSeq
<1>2. /\ DOMAIN vs = 1 .. Len(vs) /\ \A i \in DOMAIN vs : vs[i] \in ToSet(vs)
      /\ Len(vs) \in Nat
  BY PlacesOfSeq
<1>3. at # 0 => at \in DOMAIN vs
  <2>1. I \in SUBSET Nat
    OBVIOUS
  <2> HIDE DEF at
  <2>2. I # {} => Min(I) \in I
    BY <2>1, MinIsLeast
  <2> QED  BY <1>1, <1>2, <2>2
<1>4. VerificationIndex(vs, e) = IF at = 0 THEN {} ELSE {vs[at].id}
  BY DEF VerificationIndex
<1> HIDE DEF at
<1> QED  BY <1>2, <1>3, <1>4

\* What is compared is a document of this bidder with one of another.
LEMMA PairsAreOfTwo ==
    ASSUME NEW c \in Cases, NEW p \in OrderedPairs(c.docs, c.corpus)
    PROVE  /\ p[1] \in ToSet(c.docs)
           /\ \E k \in DOMAIN c.corpus : p[2] \in ToSet(c.corpus[k].docs)
<1>1. PICK q \in Pairs(c.docs, c.corpus) : p = <<c.docs[q[2]], c.corpus[q[1]].docs[q[3]]>>
  BY DEF OrderedPairs
<1>2. /\ q[1] \in DOMAIN c.corpus /\ q[2] \in UniqueDocuments(c.docs)
      /\ q[3] \in UniqueDocuments(c.corpus[q[1]].docs)
  BY DEF Pairs
<1>3. q[2] \in DOMAIN c.docs /\ q[3] \in DOMAIN c.corpus[q[1]].docs
  BY <1>2 DEF UniqueDocuments
<1>4. c.corpus[q[1]] \in ToSet(c.corpus)
  BY <1>2 DEF ToSet
<1>5. /\ c.docs[q[2]] \in ToSet(c.docs)
      /\ c.corpus[q[1]].docs[q[3]] \in ToSet(c.corpus[q[1]].docs)
  BY <1>3 DEF ToSet
<1> QED  BY <1>1, <1>2, <1>5

\* A finding about two documents names them and the other bidder.
LEMMA DetectedAreNamed ==
    ASSUME NEW l, NEW r, IsDocument(l), IsDocument(r),
           NEW f \in DetectCrossBidderAnomalies(l, r)
    PROVE  /\ f.kind = "cross_bidder" /\ f.about = r.bidder /\ l.bidder # r.bidder
           /\ f.docs = <<l.id, r.id>>
           /\ f.flag \in {"CROSS_BIDDER_DOCUMENT_REUSED", "CROSS_BIDDER_DOCUMENT_NEAR_DUPLICATE"}
           /\ DOMAIN f = {"kind", "about", "flag", "confidence", "evidence", "docs", "cites"}
<1>1. /\ WithMeta(l).id = l.id /\ WithMeta(l).bidder = l.bidder
      /\ WithMeta(r).id = r.id /\ WithMeta(r).bidder = r.bidder
  BY WithMetaKeeps
<1>2. PICK flag, confidence, evidence :
         /\ f = Finding("cross_bidder", WithMeta(r).bidder, flag, confidence, evidence,
                        <<WithMeta(l).id, WithMeta(r).id>>, {})
         /\ flag \in {"CROSS_BIDDER_DOCUMENT_REUSED", "CROSS_BIDDER_DOCUMENT_NEAR_DUPLICATE"}
         /\ WithMeta(l).bidder # WithMeta(r).bidder
  BY DEF DetectCrossBidderAnomalies, FlagOfLayer
<1> QED  BY <1>1, <1>2 DEF Finding

LEMMA AttachKeeps ==
    ASSUME NEW f, NEW vs, NEW corpus, NEW g, g = AttachVerificationRefs(f, vs, corpus),
           DOMAIN f = {"kind", "about", "flag", "confidence", "evidence", "docs", "cites"}
    PROVE  /\ g.kind = f.kind /\ g.about = f.about /\ g.flag = f.flag /\ g.docs = f.docs
           /\ g.confidence = f.confidence /\ g.evidence = f.evidence
BY DEF AttachVerificationRefs

LEMMA ReuseIsGrounded ==
    ASSUME NEW c \in Cases, NEW f \in CrossBidderFindings(c.docs, c.verifications, c.corpus)
    PROVE  Grounded(c, f) /\ f.kind = "cross_bidder"
<1>1. PICK p \in OrderedPairs(c.docs, c.corpus) :
         \E g \in DetectCrossBidderAnomalies(p[1], p[2]) :
            f = AttachVerificationRefs(g, c.verifications, c.corpus)
  BY DEF CrossBidderFindings
<1>2. PICK g \in DetectCrossBidderAnomalies(p[1], p[2]) :
         f = AttachVerificationRefs(g, c.verifications, c.corpus)
  BY <1>1
<1>3. PICK k \in DOMAIN c.corpus :
         p[1] \in ToSet(c.docs) /\ p[2] \in ToSet(c.corpus[k].docs)
  BY PairsAreOfTwo
<1> DEFINE o == c.corpus[k]
<1>4. /\ o \in ToSet(c.corpus) /\ IsDocument(p[1]) /\ IsDocument(p[2])
      /\ p[1].bidder = c.bidder /\ p[2].bidder = o.bidder
  BY <1>3, CaseAssumption DEF ToSet
<1>5. /\ g.kind = "cross_bidder" /\ g.about = o.bidder /\ o.bidder # c.bidder
      /\ g.docs = <<p[1].id, p[2].id>>
      /\ g.flag \in {"CROSS_BIDDER_DOCUMENT_REUSED", "CROSS_BIDDER_DOCUMENT_NEAR_DUPLICATE"}
      /\ DOMAIN g = {"kind", "about", "flag", "confidence", "evidence", "docs", "cites"}
  BY <1>4, DetectedAreNamed
<1>6. /\ f.kind = "cross_bidder" /\ f.about = o.bidder /\ f.docs = <<p[1].id, p[2].id>>
      /\ f.flag = g.flag /\ f.evidence = g.evidence
  BY <1>2, <1>5, AttachKeeps
<1> DEFINE at == SelectInSeq(c.corpus, LAMBDA x : x.bidder = g.about)
<1>7. at \in DOMAIN c.corpus
  <2> DEFINE I == {i \in 1 .. Len(c.corpus) : c.corpus[i].bidder = g.about}
  <2>1. at = IF I # {} THEN Min(I) ELSE 0
    BY DEF SelectInSeq
  <2>2. DOMAIN c.corpus = 1 .. Len(c.corpus) /\ Len(c.corpus) \in Nat
    BY CaseLists, PlacesOfSeq
  <2> HIDE DEF at
  <2>3. I \in SUBSET Nat /\ k \in I
    BY <1>5, <2>2
  <2>4. Min(I) \in I
    BY <2>3, MinIsLeast
  <2> QED  BY <2>1, <2>2, <2>3, <2>4
<1>8. f.cites = UNION {VerificationIndex(c.verifications, e)
                          \cup VerificationIndex(c.corpus[at].verifications, e) : e \in g.evidence}
  BY <1>2, <1>5 DEF AttachVerificationRefs
<1> HIDE DEF at
<1>9. f.cites \subseteq {v.id : v \in AllVerifications(c)}
  <2>1. c.corpus[at] \in ToSet(c.corpus)
    BY <1>7 DEF ToSet
  <2>2. /\ c.verifications \in Seq(ToSet(c.verifications))
        /\ c.corpus[at].verifications \in Seq(ToSet(c.corpus[at].verifications))
    BY <2>1, CaseLists
  <2>3. \A e : /\ VerificationIndex(c.verifications, e) \subseteq {v.id : v \in ToSet(c.verifications)}
               /\ VerificationIndex(c.corpus[at].verifications, e)
                     \subseteq {v.id : v \in ToSet(c.corpus[at].verifications)}
    BY <2>2, IndexIsListed
  <2>4. /\ ToSet(c.verifications) \subseteq AllVerifications(c)
        /\ ToSet(c.corpus[at].verifications) \subseteq AllVerifications(c)
    BY <2>1 DEF AllVerifications
  <2> QED  BY <1>8, <2>3, <2>4
<1>10. {v.id : v \in Cited(c, f)} = f.cites
  BY <1>9 DEF Cited
<1>11. /\ f.docs[1] \in {d.id : d \in ToSet(c.docs)}
       /\ f.docs[2] \in {d.id : d \in ToSet(o.docs)}
  BY <1>3, <1>6
<1> QED  BY <1>4, <1>5, <1>6, <1>10, <1>11, FlagsAreKnown DEF Grounded

-------------------------------------------------------------------------------
(* Each stage adds what its engine finds and nothing else.                  *)

Stages == {"names", "identity", "cross_document", "cross_bidder", "financial",
           "score", "risk", "case", "done"}

FoundInv ==
    /\ case \in Cases /\ pc \in Stages
    /\ named = IF pc = "names" THEN {} ELSE VerifyCrossDocumentIdentity(case.evidence)
    /\ findings =
          (IF pc \in {"names", "identity"} THEN {} ELSE Reconciled(case))
          \cup (IF pc \in {"names", "identity", "cross_document"} THEN {} ELSE Consistent(case))
          \cup (IF pc \in {"names", "identity", "cross_document", "cross_bidder"}
                THEN {} ELSE Reused(case))
          \cup (IF pc \in {"names", "identity", "cross_document", "cross_bidder", "financial"}
                THEN {} ELSE Bridged(case))

LEMMA NextFoundInv == FoundInv /\ [Next]_vars => FoundInv'
<1> SUFFICES ASSUME FoundInv, [Next]_vars PROVE FoundInv'
  OBVIOUS
<1> USE DEF FoundInv, Stages
<1>1. CASE CompareNamesOnDocuments
  BY <1>1 DEF CompareNamesOnDocuments, Stage
<1>2. CASE ReconcileIdentity
  BY <1>2 DEF ReconcileIdentity, Stage, Finds
<1>3. CASE CheckConsistency
  BY <1>3 DEF CheckConsistency, Stage, Finds
<1>4. CASE CompareBidders
  BY <1>4 DEF CompareBidders, Stage, Finds
<1>5. CASE BridgeFinancial
  BY <1>5 DEF BridgeFinancial, Stage, Finds
<1>6. CASE ScoreDocuments
  BY <1>6 DEF ScoreDocuments, Stage
<1>7. CASE AssessRisk
  BY <1>7 DEF AssessRisk, Stage
<1>8. CASE ScoreCase
  BY <1>8 DEF ScoreCase, Stage
<1>9. CASE UNCHANGED vars
  BY <1>9 DEF vars
<1> QED  BY <1>1, <1>2, <1>3, <1>4, <1>5, <1>6, <1>7, <1>8, <1>9 DEF Next

LEMMA FoundInvariant == Spec => []FoundInv
<1>1. Init => FoundInv
  BY DEF Init, FoundInv, Stages
<1> QED  BY <1>1, NextFoundInv, PTL DEF Spec

\* What each engine adds is grounded and bears the name of the engine.
LEMMA EnginesAreGrounded ==
    ASSUME NEW c \in Cases
    PROVE  /\ \A f \in Reconciled(c) : Grounded(c, f) /\ f.kind = "identity"
           /\ \A f \in Consistent(c) : Grounded(c, f) /\ f.kind = "cross_document"
           /\ \A f \in Reused(c) : Grounded(c, f) /\ f.kind = "cross_bidder"
           /\ \A f \in Bridged(c) : Grounded(c, f) /\ f.kind = "financial"
           /\ \A f \in VerifyCrossDocumentIdentity(c.evidence) : Grounded(c, f)
<1>1. \A f \in Reconciled(c) : Grounded(c, f) /\ f.kind = "identity"
  BY IdentityIsGrounded DEF Reconciled
<1>2. \A f \in Consistent(c) : Grounded(c, f) /\ f.kind = "cross_document"
  BY ConsistencyIsGrounded DEF Consistent
<1>3. \A f \in Reused(c) : Grounded(c, f) /\ f.kind = "cross_bidder"
  BY ReuseIsGrounded DEF Reused
<1>4. \A f \in Bridged(c) : Grounded(c, f) /\ f.kind = "financial"
  BY BridgeIsGrounded
<1>5. \A f \in VerifyCrossDocumentIdentity(c.evidence) : Grounded(c, f)
  BY NamesAreGrounded
<1> QED  BY <1>1, <1>2, <1>3, <1>4, <1>5

\* A finding is made of what is on file, for any evidence, answers, documents,
\* corpus and books, after every stage: a mismatch of names is between verified
\* answers of two registries about this bidder, a copy is of a document of the
\* bidder it names, and every flag is registered, so that scoring never raises.
THEOREM AllFindingsGrounded == Spec => []FindingsAreGrounded
<1>1. FoundInv => FindingsAreGrounded
  <2> SUFFICES ASSUME FoundInv, NEW f \in findings \cup named PROVE Grounded(case, f)
    BY DEF FindingsAreGrounded
  <2>1. case \in Cases
    BY DEF FoundInv
  <2>2. \/ f \in Reconciled(case) \/ f \in Consistent(case) \/ f \in Reused(case)
        \/ f \in Bridged(case) \/ f \in VerifyCrossDocumentIdentity(case.evidence)
    BY DEF FoundInv
  <2> QED  BY <2>1, <2>2, EnginesAreGrounded
<1> QED  BY <1>1, FoundInvariant, PTL

-------------------------------------------------------------------------------
(* The consistency engine compares records, wherever they stand.            *)

Before(p, q) == p[1] < q[1] \/ (p[1] = q[1] /\ p[2] < q[2])

\* A nonempty set of pairs of numbers has a first one.
LEMMA FirstPair ==
    ASSUME NEW T \in SUBSET (Nat \X Nat), T # {}
    PROVE  \E p \in T : \A q \in T : ~Before(q, p)
<1> DEFINE A == {p[1] : p \in T}
<1>1. A \in SUBSET Nat /\ A # {}
  OBVIOUS
<1>2. Min(A) \in A /\ \A y \in A : Min(A) <= y
  BY <1>1, MinIsLeast
<1> DEFINE B == {p[2] : p \in {q \in T : q[1] = Min(A)}}
<1>3. B \in SUBSET Nat /\ B # {}
  BY <1>2
<1>4. Min(B) \in B /\ \A y \in B : Min(B) <= y
  BY <1>3, MinIsLeast
<1>5. PICK a, b : a = Min(A) /\ b = Min(B)
  OBVIOUS
<1>6. PICK p \in T : p[1] = a /\ p[2] = b
  BY <1>4, <1>5
<1>7. ASSUME NEW q \in T PROVE ~Before(q, p)
  <2>1. /\ q[1] \in Nat /\ q[2] \in Nat /\ a \in Nat /\ b \in Nat
        /\ a <= q[1] /\ (q[1] = a => b <= q[2])
    BY <1>1, <1>2, <1>3, <1>4, <1>5
  <2> QED  BY <1>6, <2>1 DEF Before
<1> QED  BY <1>6, <1>7

Obs(e) == ExtractObservation(e)

\* The finding about two observations, and when there is one.
FindingOn(l, r, today) ==
    Finding("cross_document", l.dimension, FLAG_ID_BY_DIMENSION[l.dimension],
            ConfidenceFor(ComparePair(l, r, today), l, r), {l.id, r.id}, <<>>, {l.id, r.id})
Disagree(l, r, today) ==
    /\ l.status = "AVAILABLE" /\ r.status = "AVAILABLE"
    /\ ComparePair(l, r, today) \in {"MISMATCH", "VALIDITY_CONFLICT"}

LEMMA ComparisonIsSymmetric ==
    ASSUME NEW l, NEW r, NEW today, Disagree(l, r, today),
           l.quality \in DOMAIN QualityDelta, r.quality \in DOMAIN QualityDelta
    PROVE  /\ Disagree(r, l, today) /\ FindingOn(r, l, today) = FindingOn(l, r, today)
           /\ l.id # r.id
<1>1. l.id # r.id /\ AreComparable(l, r)
  BY DEF Disagree, ComparePair
<1>2. AreComparable(r, l) /\ l.dimension = r.dimension
  BY <1>1 DEF AreComparable
<1>3. CompareValues(l, r) = CompareValues(r, l)
  BY DEF CompareValues
<1>4. CompareDates(l, r, today) = CompareDates(r, l, today)
  BY <1>3 DEF CompareDates
<1>5. ComparePair(l, r, today) = ComparePair(r, l, today)
  BY <1>1, <1>2, <1>3, <1>4 DEF ComparePair
<1>6. QualityDelta[l.quality] \in Int /\ QualityDelta[r.quality] \in Int
  BY DEF QualityDelta
<1>7. ConfidenceFor(ComparePair(l, r, today), l, r) = ConfidenceFor(ComparePair(r, l, today), r, l)
  BY <1>5, <1>6 DEF ConfidenceFor
<1>8. {l.id, r.id} = {r.id, l.id}
  OBVIOUS
<1> QED  BY <1>1, <1>2, <1>5, <1>7, <1>8 DEF FindingOn, Disagree

\* The records of evidence, each of its own id.
Records(ev) ==
    /\ ev \in Seq(ToSet(ev))
    /\ \A e, f \in ToSet(ev) : e.id = f.id => e = f
    /\ \A e \in ToSet(ev) : e.quality \in DOMAIN QualityDelta

\* What is found is what is found of each two records of the bidder.
LEMMA FoundByRecords ==
    ASSUME NEW ev, NEW b, NEW today, Records(ev), NEW f
    PROVE  f \in CrossDocumentFindings(ev, b, today) <=>
              \E l, r \in {e \in ToSet(ev) : e.bidder = b} :
                  Disagree(Obs(l), Obs(r), today) /\ f = FindingOn(Obs(l), Obs(r), today)
<1> DEFINE obs == ExtractObservations(ev, b)
           own == {e \in ToSet(ev) : e.bidder = b}
<1>1. /\ DOMAIN obs = {k \in DOMAIN ev : ev[k].bidder = b}
      /\ \A k \in DOMAIN obs : obs[k] = Obs(ev[k])
  BY DEF ExtractObservations, Obs
<1>2. CrossDocumentFindings(ev, b, today) =
         {FindingOn(obs[p[1]], obs[p[2]], today) :
             p \in {q \in EnumeratePairs(obs) :
                       ComparePair(obs[q[1]], obs[q[2]], today) \in {"MISMATCH", "VALIDITY_CONFLICT"}}}
  BY DEF CrossDocumentFindings, FindingOn
<1> HIDE DEF obs
<1>3. /\ DOMAIN ev \in SUBSET Nat /\ \A k \in DOMAIN ev : ev[k] \in ToSet(ev)
      /\ \A x \in ToSet(ev) : \E i \in DOMAIN ev : ev[i] = x
  BY PlacesOfSeq DEF Records
<1> DEFINE open == {i \in DOMAIN obs : obs[i].status = "AVAILABLE"}
           pairs == {p \in open \X open : p[1] < p[2]}
           same(p, q) == obs[p[1]].id = obs[q[1]].id /\ obs[p[2]].id = obs[q[2]].id
<1>4. EnumeratePairs(obs) = {q \in pairs : ~\E p \in pairs : Before(p, q) /\ same(p, q)}
  BY DEF EnumeratePairs, Before
<1>5. \A k \in DOMAIN obs : k \in Nat /\ ev[k] \in own /\ obs[k].id = ev[k].id
  <2>1. \A e : Obs(e).id = e.id /\ Obs(e).quality = e.quality
    BY DEF Obs, ExtractObservation
  <2> QED  BY <1>1, <1>3, <2>1
<1>6. ASSUME f \in CrossDocumentFindings(ev, b, today)
      PROVE  \E l, r \in own : Disagree(Obs(l), Obs(r), today) /\ f = FindingOn(Obs(l), Obs(r), today)
  <2>1. PICK p \in EnumeratePairs(obs) :
           /\ ComparePair(obs[p[1]], obs[p[2]], today) \in {"MISMATCH", "VALIDITY_CONFLICT"}
           /\ f = FindingOn(obs[p[1]], obs[p[2]], today)
    BY <1>2, <1>6
  <2>2. /\ p[1] \in DOMAIN obs /\ p[2] \in DOMAIN obs
        /\ obs[p[1]].status = "AVAILABLE" /\ obs[p[2]].status = "AVAILABLE"
    BY <1>4
  <2>3. /\ ev[p[1]] \in own /\ obs[p[1]] = Obs(ev[p[1]])
        /\ ev[p[2]] \in own /\ obs[p[2]] = Obs(ev[p[2]])
    BY <1>1, <1>5, <2>2
  <2> QED  BY <2>1, <2>2, <2>3 DEF Disagree
<1>7. ASSUME NEW l \in own, NEW r \in own, Disagree(Obs(l), Obs(r), today),
             f = FindingOn(Obs(l), Obs(r), today),
             NEW i \in DOMAIN ev, ev[i] = l, NEW j \in DOMAIN ev, ev[j] = r, i < j
      PROVE  f \in CrossDocumentFindings(ev, b, today)
  <2>1. /\ i \in open /\ obs[i] = Obs(l) /\ j \in open /\ obs[j] = Obs(r)
    BY <1>1, <1>7 DEF Disagree
  <2> DEFINE T == {p \in pairs : same(p, <<i, j>>)}
  <2>2. <<i, j>> \in T
    BY <1>7, <2>1
  <2>3. T \in SUBSET (Nat \X Nat) /\ T # {}
    BY <1>5, <2>2
  <2>4. PICK p \in T : \A q \in T : ~Before(q, p)
    BY <2>3, FirstPair
  <2>5. p \in EnumeratePairs(obs)
    <3>1. \A q \in pairs : same(q, p) => q \in T
      BY <2>4
    <3> QED  BY <1>4, <2>4, <3>1
  <2>6. /\ p[1] \in DOMAIN obs /\ p[2] \in DOMAIN obs
        /\ obs[p[1]].id = obs[i].id /\ obs[p[2]].id = obs[j].id
    BY <2>4
  <2>7. ev[p[1]] = ev[i] /\ ev[p[2]] = ev[j]
    BY <1>5, <2>1, <2>6 DEF Records
  <2>8. obs[p[1]] = Obs(l) /\ obs[p[2]] = Obs(r)
    BY <1>1, <1>7, <2>6, <2>7
  <2> QED  BY <1>2, <1>7, <2>5, <2>8 DEF Disagree
<1>8. ASSUME NEW l \in own, NEW r \in own, Disagree(Obs(l), Obs(r), today),
             f = FindingOn(Obs(l), Obs(r), today)
      PROVE  f \in CrossDocumentFindings(ev, b, today)
  <2>1. PICK i \in DOMAIN ev, j \in DOMAIN ev : ev[i] = l /\ ev[j] = r
    BY <1>3
  <2>2. Obs(l).quality \in DOMAIN QualityDelta /\ Obs(r).quality \in DOMAIN QualityDelta
    BY DEF Obs, ExtractObservation, Records
  <2>3. /\ Disagree(Obs(r), Obs(l), today) /\ f = FindingOn(Obs(r), Obs(l), today)
        /\ Obs(l).id # Obs(r).id
    BY <1>8, <2>2, ComparisonIsSymmetric
  <2>4. i < j \/ j < i
    <3>1. i # j
      BY <2>1, <2>3
    <3> QED  BY <1>3, <3>1
  <2> QED  BY <1>7, <1>8, <2>1, <2>3, <2>4
<1> QED  BY <1>6, <1>8

LEMMA SameRecords ==
    ASSUME NEW s, s \in Seq(ToSet(s)), NEW t \in {Reverse(s), s \o s}
    PROVE  ToSet(t) = ToSet(s) /\ t \in Seq(ToSet(t))
<1>1. /\ Len(s) \in Nat /\ DOMAIN s = 1 .. Len(s)
      /\ \A i \in DOMAIN s : s[i] \in ToSet(s)
  BY PlacesOfSeq
<1>2. CASE t = Reverse(s)
  <2>1. t = [i \in 1 .. Len(s) |-> s[Len(s) - i + 1]]
    BY <1>2 DEF Reverse
  <2>2. ASSUME NEW i \in 1 .. Len(s) PROVE Len(s) - i + 1 \in 1 .. Len(s) /\ t[Len(s) - i + 1] = s[i]
    <3>1. Len(s) - i + 1 \in 1 .. Len(s) /\ Len(s) - (Len(s) - i + 1) + 1 = i
      BY <1>1
    <3> QED  BY <2>1, <3>1
  <2>3. DOMAIN t = 1 .. Len(s) /\ \A i \in 1 .. Len(s) : t[i] \in ToSet(s)
    BY <1>1, <2>1, <2>2
  <2>4. ToSet(s) \subseteq ToSet(t)
    <3> SUFFICES ASSUME NEW i \in 1 .. Len(s) PROVE s[i] \in ToSet(t)
      BY <1>1 DEF ToSet
    <3> QED  BY <2>2, <2>3 DEF ToSet
  <2>5. ToSet(t) \subseteq ToSet(s)
    BY <2>3 DEF ToSet
  <2>6. t \in Seq(ToSet(s))
    <3>1. t \in [1 .. Len(s) -> ToSet(s)]
      BY <2>1, <2>3
    <3> QED  BY <1>1, <3>1, SeqDef
  <2>7. ToSet(t) = ToSet(s)
    BY <2>4, <2>5
  <2> QED  BY <2>6, <2>7
<1>3. CASE t = s \o s
  <2>1. t \in Seq(ToSet(s)) /\ Len(t) = Len(s) + Len(s)
    BY <1>3
  <2>2. \A i \in 1 .. Len(s) : i \in 1 .. Len(t) /\ t[i] = s[i]
    BY <1>1, <1>3, <2>1
  <2>3. DOMAIN t = 1 .. Len(t) /\ \A i \in 1 .. Len(t) : t[i] \in ToSet(s)
    BY <2>1
  <2>4. ToSet(s) \subseteq ToSet(t)
    BY <1>1, <2>2, <2>3 DEF ToSet
  <2>5. ToSet(t) \subseteq ToSet(s)
    BY <2>3 DEF ToSet
  <2>6. ToSet(t) = ToSet(s)
    BY <2>4, <2>5
  <2>7. t \in Seq(ToSet(t))
    BY <2>1, <2>6
  <2> QED  BY <2>6, <2>7
<1> QED  BY <1>2, <1>3

\* For any evidence: neither the order in which it was extracted nor an item
\* that occurs twice changes what the consistency engine finds, although it
\* walks through pairs of positions and drops a pair of ids it has met.
THEOREM EvidenceOrderIsIrrelevant == Spec => []OrderIsIrrelevant
<1>1. FoundInv => OrderIsIrrelevant
  <2> SUFFICES ASSUME FoundInv, pc = "done",
                      NEW other \in {Reverse(case.evidence), case.evidence \o case.evidence}
               PROVE  Consistent([case EXCEPT !.evidence = other])
                         = {f \in findings : f.kind = "cross_document"}
    BY DEF OrderIsIrrelevant
  <2>1. case \in Cases
    BY DEF FoundInv
  <2>2. PICK c \in Cases : c = case
    BY <2>1
  <2>3. {f \in findings : f.kind = "cross_document"} = Consistent(c)
    <3>1. findings = Reconciled(c) \cup Consistent(c) \cup Reused(c) \cup Bridged(c)
      BY <2>2 DEF FoundInv
    <3> QED  BY <3>1, EnginesAreGrounded
  <2> DEFINE d == [c EXCEPT !.evidence = other]
  <2>4. /\ d.evidence = other /\ d.engines = c.engines /\ d.bidder = c.bidder
        /\ d.today = c.today
    BY CaseAssumption
  <2>5. ToSet(other) = ToSet(c.evidence) /\ Records(c.evidence) /\ Records(other)
    <3>1. Records(c.evidence)
      BY CaseAssumption, CaseLists DEF Records
    <3>2. ToSet(other) = ToSet(c.evidence) /\ other \in Seq(ToSet(other))
      BY <2>2, <3>1, SameRecords DEF Records
    <3> QED  BY <3>1, <3>2 DEF Records
  <2>6. CrossDocumentFindings(other, c.bidder, c.today)
           = CrossDocumentFindings(c.evidence, c.bidder, c.today)
    <3> SUFFICES ASSUME NEW f
                 PROVE  f \in CrossDocumentFindings(other, c.bidder, c.today)
                           <=> f \in CrossDocumentFindings(c.evidence, c.bidder, c.today)
      <4>1. \A S, T : (\A f : f \in S <=> f \in T) => S = T
        OBVIOUS
      <4> QED  BY <4>1
    <3> QED  BY <2>5, FoundByRecords
  <2>7. Consistent(d) = Consistent(c)
    BY <2>4, <2>6 DEF Consistent
  <2> QED  BY <2>2, <2>3, <2>7
<1> QED  BY <1>1, FoundInvariant, PTL

-------------------------------------------------------------------------------
(* The detector treats two documents alike.                                *)

\* The partial sums of a dot product, which is the last of them.
PartialSums(f, u, v, n) ==
    /\ DOMAIN f = 0 .. n
    /\ f[0] = 0 /\ \A i \in 1 .. n : f[i] = f[i - 1] + u[i] * v[i]
    /\ \A i \in 0 .. n : f[i] \in Int

LEMMA SumsExist ==
    ASSUME NEW n \in Nat, NEW u, NEW v, \A i \in 1 .. n : u[i] \in Int /\ v[i] \in Int,
           NEW m \in 0 .. n
    PROVE  \E f : PartialSums(f, u, v, m)
<1> DEFINE A == {k \in 0 .. n : ~\E f : PartialSums(f, u, v, k)}
<1> SUFFICES ASSUME m \in A PROVE FALSE
  OBVIOUS
<1>1. A \in SUBSET Nat /\ A # {}
  OBVIOUS
<1>2. PICK k : k = Min(A)
  OBVIOUS
<1>3. k \in A /\ \A y \in A : k <= y
  BY <1>1, <1>2, MinIsLeast
<1>4. k \in 0 .. n /\ k \in Nat /\ ~\E f : PartialSums(f, u, v, k)
  BY <1>3
<1>5. CASE k = 0
  <2> DEFINE g == [i \in 0 .. 0 |-> 0]
  <2>1. PartialSums(g, u, v, 0)
    BY DEF PartialSums
  <2> QED  BY <1>4, <1>5, <2>1
<1>6. CASE k # 0
  <2>1. k - 1 \in 0 .. n /\ k - 1 \in Nat /\ ~(k <= k - 1)
    BY <1>4, <1>6
  <2>2. PICK f : PartialSums(f, u, v, k - 1)
    BY <1>3, <2>1
  <2> DEFINE step == f[k - 1] + u[k] * v[k]
             g == [i \in 0 .. k |-> IF i = k THEN step ELSE f[i]]
  <2>3. u[k] * v[k] \in Int /\ f[k - 1] \in Int
    <3>1. k \in 1 .. n /\ k - 1 \in 0 .. k - 1
      BY <1>4, <1>6
    <3>2. u[k] \in Int /\ v[k] \in Int
      BY <3>1
    <3> QED  BY <2>2, <3>1, <3>2 DEF PartialSums
  <2>4. step \in Int
    BY <2>3
  <2> HIDE DEF step
  <2>5. /\ DOMAIN g = 0 .. k /\ g[k] = step
        /\ \A i \in 0 .. k - 1 : g[i] = f[i]
    BY <1>4, <2>1
  <2>6. g[0] = 0
    <3>1. 0 \in 0 .. k - 1
      BY <2>1
    <3> QED  BY <2>2, <2>5, <3>1 DEF PartialSums
  <2>7. ASSUME NEW i \in 1 .. k PROVE g[i] = g[i - 1] + u[i] * v[i]
    <3>1. i - 1 \in 0 .. k - 1 /\ g[i - 1] = f[i - 1]
      BY <1>4, <2>5
    <3>2. CASE i = k
      BY <2>5, <3>1, <3>2 DEF step
    <3>3. CASE i # k
      <4>1. i \in 1 .. k - 1 /\ i \in 0 .. k - 1
        BY <1>4, <3>3
      <4>2. f[i] = f[i - 1] + u[i] * v[i]
        BY <2>2, <4>1 DEF PartialSums
      <4> QED  BY <2>5, <3>1, <4>1, <4>2
    <3> QED  BY <3>2, <3>3
  <2>8. ASSUME NEW i \in 0 .. k PROVE g[i] \in Int
    <3>1. i = k \/ i \in 0 .. k - 1
      BY <1>4
    <3> QED  BY <2>2, <2>4, <2>5, <3>1 DEF PartialSums
  <2> HIDE DEF g
  <2>9. PartialSums(g, u, v, k)
    BY <2>5, <2>6, <2>7, <2>8 DEF PartialSums
  <2> QED  BY <1>4, <2>9
<1> QED  BY <1>5, <1>6

Numbers(u, n) == \A i \in 1 .. n : u[i] \in Int
Sums(f, u, v, n) == f[0] = 0 /\ \A i \in 1 .. n : f[i] = f[i - 1] + u[i] * v[i]

\* The partial sums do not depend on the order of the factors.
LEMMA SumsAreSymmetric ==
    ASSUME NEW n \in Nat, NEW u, NEW v, Numbers(u, n), Numbers(v, n),
           NEW f, NEW g, Sums(f, u, v, n), Sums(g, v, u, n)
    PROVE  f[n] = g[n] /\ f[n] \in Int
<1> DEFINE A == {k \in 0 .. n : ~(f[k] = g[k] /\ f[k] \in Int)}
<1> SUFFICES ASSUME n \in A PROVE FALSE
  OBVIOUS
<1>1. A \in SUBSET Nat /\ A # {}
  OBVIOUS
<1>2. PICK k : k = Min(A)
  OBVIOUS
<1>3. k \in A /\ \A y \in A : k <= y
  BY <1>1, <1>2, MinIsLeast
<1>4. k \in 0 .. n /\ k # 0
  BY <1>3 DEF Sums
<1>5. k - 1 \in 0 .. n /\ ~(k <= k - 1) /\ k \in 1 .. n
  BY <1>4
<1>6. f[k - 1] = g[k - 1] /\ f[k - 1] \in Int
  BY <1>3, <1>5
<1>7. PICK x \in Int, y \in Int : x = u[k] /\ y = v[k]
  BY <1>5 DEF Numbers
<1>8. x * y = y * x /\ x * y \in Int
  OBVIOUS
<1>9. f[k] = f[k - 1] + x * y /\ g[k] = g[k - 1] + y * x
  BY <1>5, <1>7 DEF Sums
<1>10. f[k] = g[k] /\ f[k] \in Int
  BY <1>6, <1>8, <1>9
<1> QED  BY <1>3, <1>10

LEMMA DotIsSum ==
    ASSUME NEW u \in Seq(Int), NEW v \in Seq(Int), Len(u) = Len(v)
    PROVE  \E f : Dot(u, v) = f[Len(u)] /\ Sums(f, u, v, Len(u))
<1> DEFINE n == Len(u)
           Adds(f) == f = [i \in 0 .. n |-> IF i = 0 THEN 0 ELSE f[i - 1] + u[i] * v[i]]
<1>1. n \in Nat /\ \A i \in 1 .. n : u[i] \in Int /\ v[i] \in Int
  OBVIOUS
<1>2. Dot(u, v) = (CHOOSE f : Adds(f))[n]
  BY DEF Dot
<1>3. PICK g : PartialSums(g, u, v, n)
  <2>1. n \in 0 .. n
    BY <1>1
  <2> QED  BY <1>1, <2>1, SumsExist
<1>4. \E f : Adds(f)
  <2> DEFINE h == [i \in 0 .. n |-> g[i]]
  <2>1. \A i \in 0 .. n : h[i] = IF i = 0 THEN 0 ELSE h[i - 1] + u[i] * v[i]
    <3> SUFFICES ASSUME NEW i \in 0 .. n
                 PROVE  h[i] = IF i = 0 THEN 0 ELSE h[i - 1] + u[i] * v[i]
      OBVIOUS
    <3>1. CASE i = 0
      BY <1>3, <3>1 DEF PartialSums
    <3>2. CASE i # 0
      <4>1. i \in 1 .. n /\ i - 1 \in 0 .. n
        BY <1>1, <3>2
      <4> QED  BY <1>3, <3>2, <4>1 DEF PartialSums
    <3> QED  BY <3>1, <3>2
  <2>2. Adds(h)
    <3>1. h = [i \in 0 .. n |-> h[i]]
      OBVIOUS
    <3> HIDE DEF h
    <3> QED  BY <2>1, <3>1
  <2> QED  BY <2>2
<1>5. PICK f : f = CHOOSE x : Adds(x)
  OBVIOUS
<1>6. Adds(f)
  <2> HIDE DEF Adds
  <2> QED  BY <1>4, <1>5
<1>7. /\ f[0] = 0
      /\ \A i \in 1 .. n : f[i] = f[i - 1] + u[i] * v[i]
  <2>1. 0 \in 0 .. n /\ \A i \in 1 .. n : i \in 0 .. n /\ i # 0
    BY <1>1
  <2>2. \A i \in 0 .. n : f[i] = IF i = 0 THEN 0 ELSE f[i - 1] + u[i] * v[i]
    BY <1>6
  <2> QED  BY <2>1, <2>2
<1> QED  BY <1>2, <1>5, <1>7 DEF Sums

LEMMA DotIsSymmetric ==
    ASSUME NEW u \in Seq(Int), NEW v \in Seq(Int), Len(u) = Len(v)
    PROVE  Dot(u, v) = Dot(v, u) /\ Dot(u, v) \in Int
<1>1. PICK n \in Nat : n = Len(u)
  OBVIOUS
<1>2. Numbers(u, n) /\ Numbers(v, n)
  BY <1>1 DEF Numbers
<1>3. PICK f : Dot(u, v) = f[n] /\ Sums(f, u, v, n)
  BY <1>1, DotIsSum
<1>4. PICK g : Dot(v, u) = g[n] /\ Sums(g, v, u, n)
  BY <1>1, DotIsSum
<1>5. f[n] = g[n] /\ f[n] \in Int
  BY <1>2, <1>3, <1>4, SumsAreSymmetric
<1> QED  BY <1>3, <1>4, <1>5

LEMMA SimilarityIsSymmetric ==
    ASSUME NEW l, NEW r, IsDocument(l), IsDocument(r)
    PROVE  SemanticSimilarity(l, r) = SemanticSimilarity(r, l)
<1>1. PICK u, v : u = Embed(l) /\ v = Embed(r)
  OBVIOUS
<1>2. u \in Seq(Int) /\ v \in Seq(Int)
  BY <1>1 DEF Embed, IsDocument
<1>3. ASSUME Len(u) = Len(v)
      PROVE  CosineSimilarity(u, v) = CosineSimilarity(v, u)
  <2>1. Dot(u, v) = Dot(v, u) /\ Dot(u, u) \in Int /\ Dot(v, v) \in Int
    BY <1>2, <1>3, DotIsSymmetric
  <2>2. PICK x \in Int, y \in Int : x = Dot(u, u) /\ y = Dot(v, v)
    BY <2>1
  <2>3. x * y = y * x
    OBVIOUS
  <2> QED  BY <2>1, <2>2, <2>3 DEF CosineSimilarity
<1> QED  BY <1>1, <1>3 DEF SemanticSimilarity

\* The letters of a text have finitely many grams.
LEMMA GramsAreFinite ==
    ASSUME NEW d, IsDocument(d)
    PROVE  IsFiniteSet(Grams(d)) /\ Cardinality(Grams(d)) \in Nat
<1> DEFINE s == NormalizeText(d)
           places == 1 .. (Len(s) - 3)
           f == [i \in places |-> SubSeq(s, i, i + 3)]
<1>1. Len(s) \in Nat
  BY DEF IsDocument, NormalizeText
<1>2. IsFiniteSet(places)
  <2>1. 1 \in Int /\ Len(s) - 3 \in Int
    BY <1>1
  <2> QED  BY <2>1, FS_Interval
<1>3. f \in Surjection(places, Grams(d))
  BY DEF Surjection, Grams
<1> QED  BY <1>2, <1>3, FS_Surjection, FS_CardinalityType

LEMMA QualityIsNumber ==
    ASSUME NEW d, IsDocument(d)
    PROVE  /\ OverallQuality(d) \in Int /\ FieldQuality(d) \in 0 .. 100 /\ d.ocr \in 0 .. 100
           /\ QualityState(d) \in {"DEGRADED", "UNKNOWN"}
<1>1. d.ocr \in 0 .. 100 /\ d.typed \in 0 .. 100
  BY DEF IsDocument
<1>2. MissingFields(d) \in Int
  BY DEF MissingFields
<1>3. Completeness400(d) \in Int
  BY <1>2 DEF Completeness400
<1>4. FieldQuality(d) \in 0 .. 100
  BY DEF FieldQuality
<1>5. OverallQuality(d) \in Int
  <2>0. \A x \in 0 .. 100 : x \in Int
    OBVIOUS
  <2>1. PICK a \in Int, b \in Int, e \in Int, t \in Int :
           a = d.ocr /\ b = FieldQuality(d) /\ e = Completeness400(d) /\ t = d.typed
    <3>1. d.ocr \in Int /\ FieldQuality(d) \in Int /\ d.typed \in Int
      BY <1>1, <1>4, <2>0
    <3> QED  BY <1>3, <3>1
  <2>2. \A q \in Int : q \div 400 \in Int
    OBVIOUS
  <2>3. 120 * a + 120 * b + 25 * e + 60 * t \in Int
    OBVIOUS
  <2> QED  BY <2>1, <2>2, <2>3 DEF OverallQuality
<1> QED  BY <1>1, <1>4, <1>5 DEF QualityState

LEMMA CombinedIsSymmetric ==
    ASSUME NEW l, NEW r, IsDocument(l), IsDocument(r)
    PROVE  CombinePair(l, r) = CombinePair(r, l)
<1>1. \A a, b \in Int : Lower(a, b) = Lower(b, a)
  BY DEF Lower
<1>2. /\ OverallQuality(l) \in Int /\ FieldQuality(l) \in Int /\ l.ocr \in Int
      /\ QualityState(l) \in {"DEGRADED", "UNKNOWN"}
  BY QualityIsNumber
<1>3. /\ OverallQuality(r) \in Int /\ FieldQuality(r) \in Int /\ r.ocr \in Int
      /\ QualityState(r) \in {"DEGRADED", "UNKNOWN"}
  BY QualityIsNumber
<1> QED  BY <1>1, <1>2, <1>3 DEF CombinePair

LEMMA LayerIsSymmetric ==
    ASSUME NEW l, NEW r, IsDocument(l), IsDocument(r)
    PROVE  Layer(l, r) = Layer(r, l)
<1>1. SameBytes(l, r) <=> SameBytes(r, l)
  BY DEF SameBytes
<1>2. SameNormalized(l, r) <=> SameNormalized(r, l)
  BY DEF SameNormalized
<1>3. LexicalDice(l, r) = LexicalDice(r, l)
  <2>1. PICK G, H : G = Grams(l) /\ H = Grams(r)
    OBVIOUS
  <2>2. PICK m \in Nat, n \in Nat : m = Cardinality(G) /\ n = Cardinality(H)
    BY <2>1, GramsAreFinite
  <2>3. G \cap H = H \cap G /\ m + n = n + m
    OBVIOUS
  <2> QED  BY <2>1, <2>2, <2>3 DEF LexicalDice
<1>4. SemanticSimilarity(l, r) = SemanticSimilarity(r, l) /\ CombinePair(l, r) = CombinePair(r, l)
  BY SimilarityIsSymmetric, CombinedIsSymmetric
<1> QED  BY <1>1, <1>2, <1>3, <1>4 DEF Layer

LEMMA CorroborationIsSymmetric ==
    ASSUME NEW l, NEW r
    PROVE  Corroboration(l, r) = Corroboration(r, l)
<1>1. Compared(l, r) = Compared(r, l)
  BY DEF Compared, Both
<1>2. \A f : Agrees(l, r, f) <=> Agrees(r, l, f)
  BY DEF Agrees, Overlap
<1>3. {f \in Compared(l, r) : Agrees(l, r, f)} = {f \in Compared(r, l) : Agrees(r, l, f)}
  BY <1>1, <1>2
<1> QED  BY <1>1, <1>3 DEF Corroboration

LEMMA GateIsSymmetric ==
    ASSUME NEW l, NEW r
    PROVE  TemplateGate(l, r) = TemplateGate(r, l)
<1> DEFINE known(a, b) == {f \in Template : ~Unset(a, f) /\ ~Unset(b, f)}
           matched(a, b) == {f \in known(a, b) : a[f] = b[f]}
           partly(a, b) == {f \in Template : ~Unset(a, f) \/ ~Unset(b, f)}
<1>1. matched(l, r) = matched(r, l) /\ partly(l, r) = partly(r, l)
  OBVIOUS
<1>2. \A a, b : TemplateGate(a, b) =
         [match |-> matched(a, b) # {},
          score |-> <<Cardinality(matched(a, b)), IF partly(a, b) = {} THEN 1 ELSE Cardinality(partly(a, b))>>]
  BY DEF TemplateGate
<1> HIDE DEF matched, partly
<1> QED  BY <1>1, <1>2

\* What is found of two documents is found the other way round, too.
LEMMA DetectionIsSymmetric ==
    ASSUME NEW l, NEW r, IsDocument(l), IsDocument(r),
           NEW f \in DetectCrossBidderAnomalies(l, r)
    PROVE  \E g \in DetectCrossBidderAnomalies(r, l) :
              g.flag = f.flag /\ g.confidence = f.confidence
<1>1. PICK a, b : a = WithMeta(l) /\ b = WithMeta(r)
  OBVIOUS
<1>2. IsDocument(a) /\ IsDocument(b)
  BY <1>1, WithMetaKeeps
<1>3. PICK layer, gate, quality, corroboration, lower :
         /\ layer = Layer(a, b) /\ gate = TemplateGate(a, b) /\ quality = CombinePair(a, b)
         /\ corroboration = Corroboration(a, b) /\ lower = Lower(quality.ocr, quality.field)
  OBVIOUS
<1>4. /\ layer = Layer(b, a) /\ gate = TemplateGate(b, a) /\ quality = CombinePair(b, a)
      /\ corroboration = Corroboration(b, a)
  BY <1>2, <1>3, LayerIsSymmetric, GateIsSymmetric, CombinedIsSymmetric, CorroborationIsSymmetric
<1>5. CandidateBlocking(a, b) <=> CandidateBlocking(b, a)
  BY DEF CandidateBlocking
<1> DEFINE confidence == Confidence(layer[2], corroboration, lower, gate.score)
           holds == /\ CandidateBlocking(a, b) /\ layer[1] # "UNKNOWN"
                    /\ gate.match /\ confidence >= 70 /\ a.bidder # b.bidder
           on(x, y) == Finding("cross_bidder", y.bidder, FlagOfLayer(layer[1]), confidence,
                               {x.evidence, y.evidence} \ {0}, <<x.id, y.id>>, {})
<1>6. DetectCrossBidderAnomalies(l, r) = IF holds THEN {on(a, b)} ELSE {}
  BY <1>1, <1>3 DEF DetectCrossBidderAnomalies
<1>7. DetectCrossBidderAnomalies(r, l) = IF holds THEN {on(b, a)} ELSE {}
  BY <1>1, <1>3, <1>4, <1>5 DEF DetectCrossBidderAnomalies
<1>8. on(a, b).flag = on(b, a).flag /\ on(a, b).confidence = on(b, a).confidence
  BY DEF Finding
<1> QED  BY <1>6, <1>7, <1>8

-------------------------------------------------------------------------------
(* Where ids are distinct, every document is compared with every document  *)
(* of another bidder.                                                      *)

LEMMA FirstTriple ==
    ASSUME NEW T \in SUBSET (Nat \X Nat \X Nat), T # {}
    PROVE  \E p \in T : \A q \in T : ~Earlier(q, p)
<1> DEFINE A == {p[1] : p \in T}
<1>1. A \in SUBSET Nat /\ A # {}
  OBVIOUS
<1>2. PICK a \in A : \A y \in A : a <= y
  <2>1. Min(A) \in A /\ \A y \in A : Min(A) <= y
    BY <1>1, MinIsLeast
  <2> HIDE DEF A
  <2> QED  BY <2>1
<1> DEFINE B == {<<p[2], p[3]>> : p \in {q \in T : q[1] = a}}
<1>3. B \in SUBSET (Nat \X Nat) /\ B # {}
  <2>1. PICK t \in T : t[1] = a
    BY <1>2
  <2>2. <<t[2], t[3]>> \in B
    BY <2>1
  <2>3. \A q \in T : <<q[2], q[3]>> \in Nat \X Nat
    OBVIOUS
  <2>4. \A y \in B : y \in Nat \X Nat
    <3> SUFFICES ASSUME NEW y \in B PROVE y \in Nat \X Nat
      OBVIOUS
    <3>1. PICK q \in T : y = <<q[2], q[3]>>
      OBVIOUS
    <3> QED  BY <2>3, <3>1
  <2> HIDE DEF B
  <2> QED  BY <2>2, <2>4
<1>4. PICK b \in B : \A y \in B : ~Before(y, b)
  BY <1>3, FirstPair
<1>5. PICK p \in T : p[1] = a /\ b = <<p[2], p[3]>>
  BY <1>4
<1>6. ASSUME NEW q \in T PROVE ~Earlier(q, p)
  <2>1. /\ q[1] \in Nat /\ q[2] \in Nat /\ q[3] \in Nat /\ a \in Nat
        /\ a <= q[1]
    BY <1>1, <1>2
  <2>2. q[1] = a => ~Before(<<q[2], q[3]>>, b)
    BY <1>4
  <2> QED  BY <1>5, <2>1, <2>2 DEF Before, Earlier
<1> QED  BY <1>6

\* Documents listed under the bidder they belong to, each with an id of its own.
Filed(docs, corpus, b) ==
    /\ docs \in Seq(ToSet(docs)) /\ corpus \in Seq(ToSet(corpus))
    /\ \A o \in ToSet(corpus) : o.docs \in Seq(ToSet(o.docs))
    /\ \A d \in ToSet(docs) : IsDocument(d) /\ d.bidder = b
    /\ \A o \in ToSet(corpus) : \A e \in ToSet(o.docs) : IsDocument(e) /\ e.bidder = o.bidder
    /\ \A d, e \in ToSet(docs) \cup UNION {ToSet(o.docs) : o \in ToSet(corpus)} : d.id = e.id => d = e

\* The first place of a document.
LEMMA FirstPlace ==
    ASSUME NEW docs, docs \in Seq(ToSet(docs)), \A d, e \in ToSet(docs) : d.id = e.id => d = e,
           NEW d \in ToSet(docs)
    PROVE  \E i \in UniqueDocuments(docs) : docs[i] = d
<1>1. /\ DOMAIN docs \in SUBSET Nat /\ \A i \in DOMAIN docs : docs[i] \in ToSet(docs)
      /\ \E i \in DOMAIN docs : docs[i] = d
  BY PlacesOfSeq
<1> DEFINE I == {i \in DOMAIN docs : docs[i].id = d.id}
<1>2. I \in SUBSET Nat /\ I # {}
  BY <1>1
<1>3. PICK i \in I : \A k \in I : i <= k
  BY <1>2, MinIsLeast
<1>4. docs[i] = d
  BY <1>1, <1>3
<1>5. i \in UniqueDocuments(docs)
  BY <1>3, <1>4 DEF UniqueDocuments
<1> QED  BY <1>4, <1>5

LEMMA PairsAreAll ==
    ASSUME NEW docs, NEW corpus, NEW b, Filed(docs, corpus, b),
           NEW d \in ToSet(docs), NEW o \in ToSet(corpus), NEW e \in ToSet(o.docs), o.bidder # b
    PROVE  <<d, e>> \in OrderedPairs(docs, corpus)
<1>1. /\ docs \in Seq(ToSet(docs)) /\ corpus \in Seq(ToSet(corpus)) /\ o.docs \in Seq(ToSet(o.docs))
      /\ d.bidder = b /\ e.bidder = o.bidder /\ d.id # e.id
  <2>1. d.bidder = b /\ e.bidder = o.bidder
    BY DEF Filed
  <2>2. d.id # e.id
    BY <2>1 DEF Filed
  <2> QED  BY <2>1, <2>2 DEF Filed
<1>2. PICK i \in UniqueDocuments(docs) : docs[i] = d
  BY <1>1, FirstPlace DEF Filed
<1>3. PICK k \in DOMAIN corpus : corpus[k] = o
  BY <1>1, PlacesOfSeq
<1>4. PICK j \in UniqueDocuments(o.docs) : o.docs[j] = e
  <2>1. \A x, y \in ToSet(o.docs) : x.id = y.id => x = y
    BY DEF Filed
  <2> QED  BY <1>1, <2>1, FirstPlace
<1> DEFINE ids(p) == {docs[p[2]].id, corpus[p[1]].docs[p[3]].id}
           T == {q \in Pairs(docs, corpus) : ids(q) = {d.id, e.id}}
           t == <<k, i, j>>
<1>5. t \in T
  <2>1. t[1] = k /\ t[2] = i /\ t[3] = j
    OBVIOUS
  <2>2. t \in {k} \X UniqueDocuments(docs) \X UniqueDocuments(corpus[k].docs)
    BY <1>2, <1>3, <1>4
  <2>3. t \in Pairs(docs, corpus)
    BY <1>1, <1>2, <1>3, <1>4, <2>1, <2>2 DEF Pairs
  <2> QED  BY <1>2, <1>3, <1>4, <2>1, <2>3
<1>6. \A q \in Pairs(docs, corpus) :
         /\ q[1] \in DOMAIN corpus /\ q[2] \in DOMAIN docs /\ q[3] \in DOMAIN corpus[q[1]].docs
         /\ q \in Nat \X Nat \X Nat
  <2> SUFFICES ASSUME NEW q \in Pairs(docs, corpus)
               PROVE  /\ q[1] \in DOMAIN corpus /\ q[2] \in DOMAIN docs /\ q[3] \in DOMAIN corpus[q[1]].docs
                      /\ q \in Nat \X Nat \X Nat
    OBVIOUS
  <2>1. PICK h \in DOMAIN corpus :
           q \in {h} \X UniqueDocuments(docs) \X UniqueDocuments(corpus[h].docs)
    BY DEF Pairs
  <2>2. /\ q[1] = h /\ q[2] \in DOMAIN docs /\ q[3] \in DOMAIN corpus[h].docs
        /\ q = <<q[1], q[2], q[3]>>
    BY <2>1 DEF UniqueDocuments
  <2>3. corpus[h] \in ToSet(corpus) /\ h \in Nat
    BY <1>1, PlacesOfSeq
  <2>4. DOMAIN docs \in SUBSET Nat /\ DOMAIN corpus[h].docs \in SUBSET Nat
    <3>1. corpus[h].docs \in Seq(ToSet(corpus[h].docs))
      BY <2>3 DEF Filed
    <3> QED  BY <1>1, <3>1, PlacesOfSeq
  <2> QED  BY <2>2, <2>3, <2>4
<1>7. PICK p \in T : \A q \in T : ~Earlier(q, p)
  <2>1. T \in SUBSET (Nat \X Nat \X Nat) /\ T # {}
    BY <1>5, <1>6
  <2> QED  BY <2>1, FirstTriple
<1>8. /\ p \in Pairs(docs, corpus) /\ ids(p) = {d.id, e.id}
      /\ ~\E q \in Pairs(docs, corpus) : Earlier(q, p) /\ ids(q) = ids(p)
  BY <1>7
<1>9. <<docs[p[2]], corpus[p[1]].docs[p[3]]>> \in OrderedPairs(docs, corpus)
  BY <1>8 DEF OrderedPairs
<1> DEFINE x == docs[p[2]]
           h == corpus[p[1]]
           y == h.docs[p[3]]
<1>10. x \in ToSet(docs) /\ h \in ToSet(corpus) /\ y \in ToSet(h.docs)
  BY <1>6, <1>8 DEF ToSet
<1>11. {x.id, y.id} = {d.id, e.id}
  BY <1>8
<1> HIDE DEF x, y, h
<1>12. x = d
  <2>1. x.bidder = b /\ {x.id, y.id} = {d.id, e.id}
    BY <1>10, <1>11 DEF Filed
  <2>2. x.id = d.id \/ x.id = e.id
    BY <2>1
  <2>3. x.id # e.id
    <3>1. x.id = e.id => x = e
      BY <1>10 DEF Filed
    <3> QED  BY <1>1, <2>1, <3>1
  <2> QED  BY <1>10, <2>2, <2>3 DEF Filed
<1>13. y = e
  <2>1. y.id = e.id
    BY <1>1, <1>11, <1>12
  <2>2. PICK all : all = ToSet(docs) \cup UNION {ToSet(g.docs) : g \in ToSet(corpus)}
    OBVIOUS
  <2>3. \A f, g \in all : f.id = g.id => f = g
    BY <2>2 DEF Filed
  <2>4. y \in all /\ e \in all
    BY <1>1, <1>10, <2>2
  <2> QED  BY <2>1, <2>3, <2>4
<1> QED  BY <1>9, <1>12, <1>13 DEF x, y, h

\* The parts of a finding about a copy that do not depend on who looks.
Says(f, flag, confidence, docs) ==
    f.kind = "cross_bidder" /\ f.flag = flag /\ f.confidence = confidence /\ f.docs = docs

\* What is detected of two documents of different bidders is found ...
LEMMA DetectedIsFound ==
    ASSUME NEW docs, NEW vs, NEW corpus, NEW b, Filed(docs, corpus, b),
           NEW d \in ToSet(docs), NEW o \in ToSet(corpus), NEW e \in ToSet(o.docs), o.bidder # b,
           NEW g \in DetectCrossBidderAnomalies(d, e)
    PROVE  \E f \in CrossBidderFindings(docs, vs, corpus) :
              Says(f, g.flag, g.confidence, <<d.id, e.id>>)
<1>1. <<d, e>> \in OrderedPairs(docs, corpus)
  BY PairsAreAll
<1>2. g \in UNION {DetectCrossBidderAnomalies(p[1], p[2]) : p \in OrderedPairs(docs, corpus)}
  <2>1. <<d, e>>[1] = d /\ <<d, e>>[2] = e
    OBVIOUS
  <2> QED  BY <1>1, <2>1
<1>3. PICK f : f = AttachVerificationRefs(g, vs, corpus)
  OBVIOUS
<1>4. f \in CrossBidderFindings(docs, vs, corpus)
  BY <1>2, <1>3 DEF CrossBidderFindings
<1>5. IsDocument(d) /\ IsDocument(e)
  BY DEF Filed
<1>6. /\ g.kind = "cross_bidder" /\ g.docs = <<d.id, e.id>>
      /\ DOMAIN g = {"kind", "about", "flag", "confidence", "evidence", "docs", "cites"}
  BY <1>5, DetectedAreNamed
<1>7. Says(f, g.flag, g.confidence, <<d.id, e.id>>)
  BY <1>3, <1>6, AttachKeeps DEF Says
<1> QED  BY <1>4, <1>7

\* ... and nothing else is.
LEMMA FoundIsDetected ==
    ASSUME NEW docs, NEW vs, NEW corpus, NEW b, Filed(docs, corpus, b),
           NEW f \in CrossBidderFindings(docs, vs, corpus)
    PROVE  \E d \in ToSet(docs), o \in ToSet(corpus) : \E e \in ToSet(o.docs) :
              \E g \in DetectCrossBidderAnomalies(d, e) :
                 o.bidder # b /\ Says(f, g.flag, g.confidence, <<d.id, e.id>>)
<1>1. PICK p \in OrderedPairs(docs, corpus) :
         \E g \in DetectCrossBidderAnomalies(p[1], p[2]) : f = AttachVerificationRefs(g, vs, corpus)
  BY DEF CrossBidderFindings
<1>2. PICK g \in DetectCrossBidderAnomalies(p[1], p[2]) : f = AttachVerificationRefs(g, vs, corpus)
  BY <1>1
<1>3. PICK q \in Pairs(docs, corpus) : p = <<docs[q[2]], corpus[q[1]].docs[q[3]]>>
  BY DEF OrderedPairs
<1>4. /\ q[1] \in DOMAIN corpus /\ q[2] \in UniqueDocuments(docs)
      /\ q[3] \in UniqueDocuments(corpus[q[1]].docs)
  BY DEF Pairs
<1> DEFINE d == docs[q[2]]
           o == corpus[q[1]]
           e == o.docs[q[3]]
<1>5. q[2] \in DOMAIN docs /\ q[3] \in DOMAIN o.docs
  BY <1>4 DEF UniqueDocuments
<1>6. d \in ToSet(docs) /\ o \in ToSet(corpus) /\ e \in ToSet(o.docs)
  BY <1>4, <1>5 DEF ToSet
<1>7. IsDocument(d) /\ IsDocument(e) /\ d.bidder = b /\ e.bidder = o.bidder
  BY <1>6 DEF Filed
<1>8. p[1] = d /\ p[2] = e
  BY <1>3
<1> HIDE DEF d, o, e
<1>9. /\ g.kind = "cross_bidder" /\ g.docs = <<d.id, e.id>> /\ d.bidder # e.bidder
      /\ DOMAIN g = {"kind", "about", "flag", "confidence", "evidence", "docs", "cites"}
      /\ g \in DetectCrossBidderAnomalies(d, e)
  BY <1>7, <1>8, DetectedAreNamed
<1>10. o.bidder # b /\ Says(f, g.flag, g.confidence, <<d.id, e.id>>)
  BY <1>2, <1>7, <1>9, AttachKeeps DEF Says
<1> QED  BY <1>6, <1>9, <1>10

LEMMA ReverseOfTwo ==
    ASSUME NEW a, NEW b
    PROVE  Reverse(<<a, b>>) = <<b, a>>
<1> DEFINE s == <<a, b>>
<1>1. Len(s) = 2 /\ s[1] = a /\ s[2] = b
  OBVIOUS
<1>2. Reverse(s) = [i \in 1 .. 2 |-> s[(2 - i) + 1]]
  BY <1>1 DEF Reverse
<1>3. /\ DOMAIN Reverse(s) = 1 .. 2 /\ Reverse(s)[1] = b /\ Reverse(s)[2] = a
  BY <1>1, <1>2
<1>4. \A t, u : /\ t = [i \in 1 .. 2 |-> t[i]] /\ u = [i \in 1 .. 2 |-> u[i]]
                /\ t[1] = u[1] /\ t[2] = u[2]
                => t = u
  <2> SUFFICES ASSUME NEW t, NEW u, t = [i \in 1 .. 2 |-> t[i]], u = [i \in 1 .. 2 |-> u[i]],
                      t[1] = u[1], t[2] = u[2]
               PROVE  t = u
    OBVIOUS
  <2>1. \A i \in 1 .. 2 : t[i] = u[i]
    OBVIOUS
  <2> QED  BY <2>1
<1>5. Reverse(s) = [i \in 1 .. 2 |-> Reverse(s)[i]]
  BY <1>2
<1>6. <<b, a>> = [i \in 1 .. 2 |-> <<b, a>>[i]]
  OBVIOUS
<1>7. <<b, a>>[1] = b /\ <<b, a>>[2] = a
  OBVIOUS
<1> HIDE DEF s
<1>8. Reverse(s) = <<b, a>>
  BY <1>3, <1>4, <1>5, <1>6, <1>7
<1> QED  BY <1>8 DEF s

\* A case whose ids are distinct files its documents, and so does the case of
\* another bidder whose corpus is this one's documents.
LEMMA CaseIsFiled ==
    ASSUME NEW c \in Cases, DistinctIds(c)
    PROVE  /\ Filed(c.docs, c.corpus, c.bidder)
           /\ \A o \in ToSet(c.corpus) :
                 Filed(o.docs, <<[bidder |-> c.bidder, docs |-> c.docs, verifications |-> c.verifications]>>,
                       o.bidder)
<1>1. /\ c.docs \in Seq(ToSet(c.docs)) /\ c.corpus \in Seq(ToSet(c.corpus))
      /\ \A o \in ToSet(c.corpus) : o.docs \in Seq(ToSet(o.docs))
  BY CaseLists
<1>2. /\ \A d \in ToSet(c.docs) : IsDocument(d) /\ d.bidder = c.bidder
      /\ \A o \in ToSet(c.corpus) : \A e \in ToSet(o.docs) : IsDocument(e) /\ e.bidder = o.bidder
  BY CaseAssumption
<1>3. \A d, e \in ToSet(c.docs) \cup UNION {ToSet(o.docs) : o \in ToSet(c.corpus)} : d.id = e.id => d = e
  BY DEF DistinctIds, AllDocuments
<1>4. ASSUME NEW o \in ToSet(c.corpus)
      PROVE  Filed(o.docs, <<[bidder |-> c.bidder, docs |-> c.docs, verifications |-> c.verifications]>>,
                   o.bidder)
  <2> DEFINE self == [bidder |-> c.bidder, docs |-> c.docs, verifications |-> c.verifications]
  <2>1. self.bidder = c.bidder /\ self.docs = c.docs
    OBVIOUS
  <2>2. <<self>> \in Seq({self}) /\ ToSet(<<self>>) = {self}
    BY DEF ToSet
  <2> HIDE DEF self
  <2>3. UNION {ToSet(x.docs) : x \in ToSet(<<self>>)} = ToSet(c.docs)
    BY <2>1, <2>2
  <2>4. \A d, e \in ToSet(o.docs) \cup ToSet(c.docs) : d.id = e.id => d = e
    <3>1. ToSet(o.docs) \subseteq UNION {ToSet(x.docs) : x \in ToSet(c.corpus)}
      OBVIOUS
    <3> QED  BY <1>3, <3>1
  <2>5. <<self>> \in Seq(ToSet(<<self>>))
    BY <2>2
  <2>6. /\ \A x \in ToSet(<<self>>) : x.docs \in Seq(ToSet(x.docs))
        /\ \A x \in ToSet(<<self>>) : \A e \in ToSet(x.docs) : IsDocument(e) /\ e.bidder = x.bidder
    BY <1>1, <1>2, <2>1, <2>2
  <2>7. Filed(o.docs, <<self>>, o.bidder)
    BY <1>1, <1>2, <2>3, <2>4, <2>5, <2>6 DEF Filed
  <2> QED  BY <2>7 DEF self
<1>5. Filed(c.docs, c.corpus, c.bidder)
  BY <1>1, <1>2, <1>3 DEF Filed
<1> QED  BY <1>4, <1>5

\* What the findings of a finished case say of copies.
LEMMA CopiesAreReused ==
    ASSUME FoundInv, pc = "done"
    PROVE  {f \in findings : f.kind = "cross_bidder"} = Reused(case)
<1>1. case \in Cases /\ findings = Reconciled(case) \cup Consistent(case) \cup Reused(case) \cup Bridged(case)
  BY DEF FoundInv
<1> QED  BY <1>1, EnginesAreGrounded

\* For any documents with ids of their own: whatever is found of a document of
\* another bidder is found, with the same flag and confidence, when that bidder
\* is verified against this one.
THEOREM BothSidesSee == Spec => []SeenFromBothSides
<1>1. FoundInv => SeenFromBothSides
  <2> SUFFICES ASSUME FoundInv, pc = "done", DistinctIds(case), NEW other \in ToSet(case.corpus)
               PROVE  {<<f.flag, f.confidence, f.docs>> : f \in {g \in findings : AboutDocumentOf(other, g)}}
                      = (IF case.store
                         THEN {<<f.flag, f.confidence, Reverse(f.docs)>> : f \in SeenFrom(case, other)} ELSE {})
    BY DEF SeenFromBothSides
  <2>1. PICK c \in Cases : c = case
    BY DEF FoundInv
  <2> DEFINE self == <<[bidder |-> c.bidder, docs |-> c.docs, verifications |-> c.verifications]>>
             me == self[1]
             here == {f \in findings : AboutDocumentOf(other, f)}
             there == CrossBidderFindings(other.docs, other.verifications, self)
  <2>2. Filed(c.docs, c.corpus, c.bidder) /\ Filed(other.docs, self, other.bidder)
    BY <2>1, CaseIsFiled
  <2>3. /\ ToSet(self) = {me} /\ me.bidder = c.bidder /\ me.docs = c.docs
        /\ SeenFrom(case, other) = there
    BY <2>1 DEF ToSet, SeenFrom
  <2>4. /\ other \in ToSet(c.corpus)
        /\ \A d, e \in AllDocuments(c) : d.id = e.id => d = e
        /\ \A o \in ToSet(c.corpus) : ToSet(o.docs) \subseteq AllDocuments(c)
        /\ \A o \in ToSet(c.corpus) : \A e \in ToSet(o.docs) : IsDocument(e) /\ e.bidder = o.bidder
        /\ \A d \in ToSet(c.docs) : IsDocument(d) /\ d.bidder = c.bidder
    <3>1. other \in ToSet(c.corpus)
      BY <2>1
    <3>2. \A d, e \in AllDocuments(c) : d.id = e.id => d = e
      BY <2>1 DEF DistinctIds
    <3>3. \A o \in ToSet(c.corpus) : ToSet(o.docs) \subseteq AllDocuments(c)
      BY DEF AllDocuments
    <3>4. /\ \A o \in ToSet(c.corpus) : \A e \in ToSet(o.docs) : IsDocument(e) /\ e.bidder = o.bidder
          /\ \A d \in ToSet(c.docs) : IsDocument(d) /\ d.bidder = c.bidder
      BY CaseAssumption
    <3> QED  BY <3>1, <3>2, <3>3, <3>4
  <2>5. {f \in findings : f.kind = "cross_bidder"} = Reused(c)
    BY <2>1, CopiesAreReused
  <2>6. /\ here \subseteq Reused(c)
        /\ \A f \in Reused(c) : f \in findings /\ f.kind = "cross_bidder"
    BY <2>5 DEF AboutDocumentOf
  <2>7. CASE ~c.store
    <3>1. Reused(c) = {}
      BY <2>7 DEF Reused
    <3>2. here = {}
      BY <2>6, <3>1
    <3> QED  BY <2>1, <2>7, <3>2
  <2>8. CASE c.store
    <3>1. Reused(c) = CrossBidderFindings(c.docs, c.verifications, c.corpus)
      BY <2>8 DEF Reused
    <3> HIDE DEF self, there
    <3>2. ASSUME NEW f \in here
          PROVE  \E g \in there : <<g.flag, g.confidence, Reverse(g.docs)>> = <<f.flag, f.confidence, f.docs>>
      <4>1. PICK d \in ToSet(c.docs), o \in ToSet(c.corpus) : \E e \in ToSet(o.docs) :
               \E g \in DetectCrossBidderAnomalies(d, e) :
                  o.bidder # c.bidder /\ Says(f, g.flag, g.confidence, <<d.id, e.id>>)
        BY <2>2, <2>6, <3>1, FoundIsDetected
      <4>2. PICK e \in ToSet(o.docs) : \E g \in DetectCrossBidderAnomalies(d, e) :
                  o.bidder # c.bidder /\ Says(f, g.flag, g.confidence, <<d.id, e.id>>)
        BY <4>1
      <4>3. PICK g \in DetectCrossBidderAnomalies(d, e) :
                  o.bidder # c.bidder /\ Says(f, g.flag, g.confidence, <<d.id, e.id>>)
        BY <4>2
      <4>4. e \in ToSet(other.docs)
        <5>1. f.docs[2] = e.id
          BY <4>3 DEF Says
        <5>2. PICK x \in ToSet(other.docs) : x.id = e.id
          BY <5>1 DEF AboutDocumentOf
        <5> QED  BY <2>4, <5>2
      <4>5. me.bidder # other.bidder
        BY <2>3, <2>4, <4>3, <4>4
      <4>6. PICK h \in DetectCrossBidderAnomalies(e, d) : h.flag = g.flag /\ h.confidence = g.confidence
        BY <2>4, DetectionIsSymmetric
      <4>7. me \in ToSet(self) /\ d \in ToSet(me.docs)
        BY <2>3
      <4>8. PICK k \in there : Says(k, h.flag, h.confidence, <<e.id, d.id>>)
        BY <2>2, <4>4, <4>5, <4>7, DetectedIsFound DEF there
      <4> QED  BY <4>3, <4>6, <4>8, ReverseOfTwo DEF Says
    <3>3. ASSUME NEW g \in there
          PROVE  \E f \in here : <<f.flag, f.confidence, f.docs>> = <<g.flag, g.confidence, Reverse(g.docs)>>
      <4>1. PICK e \in ToSet(other.docs), x \in ToSet(self) : \E d \in ToSet(x.docs) :
               \E h \in DetectCrossBidderAnomalies(e, d) :
                  x.bidder # other.bidder /\ Says(g, h.flag, h.confidence, <<e.id, d.id>>)
        BY <2>2, FoundIsDetected DEF there
      <4>2. PICK d \in ToSet(c.docs) : \E h \in DetectCrossBidderAnomalies(e, d) :
                  c.bidder # other.bidder /\ Says(g, h.flag, h.confidence, <<e.id, d.id>>)
        BY <2>3, <4>1
      <4>3. PICK h \in DetectCrossBidderAnomalies(e, d) :
                  c.bidder # other.bidder /\ Says(g, h.flag, h.confidence, <<e.id, d.id>>)
        BY <4>2
      <4>4. PICK k \in DetectCrossBidderAnomalies(d, e) : k.flag = h.flag /\ k.confidence = h.confidence
        BY <2>4, DetectionIsSymmetric
      <4>5. PICK f \in Reused(c) : Says(f, k.flag, k.confidence, <<d.id, e.id>>)
        BY <2>2, <2>4, <3>1, <4>3, DetectedIsFound
      <4>6. f \in here
        BY <2>6, <4>5 DEF AboutDocumentOf, Says
      <4> QED  BY <4>3, <4>4, <4>5, <4>6, ReverseOfTwo DEF Says
    <3> HIDE DEF here
    <3>4. {<<f.flag, f.confidence, f.docs>> : f \in here} = {<<g.flag, g.confidence, Reverse(g.docs)>> : g \in there}
      BY <3>2, <3>3
    <3> QED  BY <2>1, <2>3, <2>8, <3>4 DEF here
  <2> QED  BY <2>7, <2>8
<1> QED  BY <1>1, FoundInvariant, PTL

-------------------------------------------------------------------------------
(* A copy is reported.                                                     *)

\* How many of the at most four comparisons of two copies agree: at least half.
LEMMA CopiesCorroborate ==
    ASSUME NEW d, NEW e, IsDocument(d), IsDocument(e), IsCopy(d, e)
    PROVE  \E a \in 1 .. 4, b \in 1 .. 4 : Corroboration(d, e) = <<a, b>> /\ 2 * a >= b
<1> DEFINE K == Compared(d, e)
           A == {f \in K : Agrees(d, e, f)}
           All == {"issuer", "number", "issued", "overlap"}
<1>1. /\ d.issuer = e.issuer /\ d.number = e.number /\ d.issued = e.issued /\ d.until = e.until
      /\ d.number # "none" \/ d.issued # 0
  BY DEF IsCopy, Particulars
<1>2. K \subseteq All /\ ("overlap" \in K => "issued" \in K) /\ ("number" \in K \/ "issued" \in K)
  BY <1>1 DEF Compared, Both
<1>3. \A f \in {"issuer", "number", "issued"} : Agrees(d, e, f)
  BY <1>1 DEF Agrees
<1>4. A \subseteq K /\ K \ {"overlap"} \subseteq A /\ ("number" \in A \/ "issued" \in A)
  BY <1>2, <1>3
<1>5. IsFiniteSet(All) /\ Cardinality(All) = 4
  <2>1. IsFiniteSet({"issuer"}) /\ Cardinality({"issuer"}) = 1
    BY FS_Singleton
  <2>2. IsFiniteSet({"issuer", "number"}) /\ Cardinality({"issuer", "number"}) = 2
    <3>1. {"issuer", "number"} = {"issuer"} \cup {"number"} /\ "number" \notin {"issuer"}
      OBVIOUS
    <3> QED  BY <2>1, <3>1, FS_AddElement
  <2>3. IsFiniteSet({"issuer", "number", "issued"}) /\ Cardinality({"issuer", "number", "issued"}) = 3
    <3>1. /\ {"issuer", "number", "issued"} = {"issuer", "number"} \cup {"issued"}
          /\ "issued" \notin {"issuer", "number"}
      OBVIOUS
    <3> QED  BY <2>2, <3>1, FS_AddElement
  <2>4. /\ All = {"issuer", "number", "issued"} \cup {"overlap"}
        /\ "overlap" \notin {"issuer", "number", "issued"}
    OBVIOUS
  <2> QED  BY <2>3, <2>4, FS_AddElement
<1> HIDE DEF K, A, All
<1>6. /\ IsFiniteSet(K) /\ Cardinality(K) <= 4 /\ Cardinality(K) \in Nat
      /\ IsFiniteSet(A) /\ Cardinality(A) <= Cardinality(K) /\ Cardinality(A) \in Nat
  <2>1. IsFiniteSet(K) /\ Cardinality(K) <= 4
    BY <1>2, <1>5, FS_Subset
  <2>2. IsFiniteSet(A) /\ Cardinality(A) <= Cardinality(K)
    BY <1>4, <2>1, FS_Subset
  <2> QED  BY <2>1, <2>2, FS_CardinalityType
<1>7. Cardinality(A) >= 1 /\ A # {} /\ K # {}
  <2>1. A # {} /\ K # {}
    BY <1>4
  <2> QED  BY <1>6, <2>1, FS_EmptySet
<1>8. Cardinality(K) <= Cardinality(A) + 1
  <2>1. K \subseteq A \cup {"overlap"}
    BY <1>4
  <2>2. /\ IsFiniteSet(A \cup {"overlap"})
        /\ Cardinality(A \cup {"overlap"}) <= Cardinality(A) + 1
        /\ Cardinality(A \cup {"overlap"}) \in Nat
    <3>1. IsFiniteSet(A \cup {"overlap"})
          /\ Cardinality(A \cup {"overlap"}) = IF "overlap" \in A THEN Cardinality(A) ELSE Cardinality(A) + 1
      BY <1>6, FS_AddElement
    <3> QED  BY <1>6, <3>1
  <2>3. Cardinality(K) <= Cardinality(A \cup {"overlap"})
    BY <2>1, <2>2, FS_Subset
  <2> QED  BY <1>6, <2>2, <2>3
<1>9. Corroboration(d, e) = <<Cardinality(A), Cardinality(K)>>
  BY <1>7 DEF Corroboration, A, K
<1>10. PICK a \in Nat, b \in Nat : a = Cardinality(A) /\ b = Cardinality(K)
  BY <1>6
<1>11. a \in 1 .. 4 /\ b \in 1 .. 4 /\ 2 * a >= b
  BY <1>6, <1>7, <1>8, <1>10
<1> QED  BY <1>9, <1>10, <1>11

\* Two copies match the template as well as they can.
LEMMA CopiesMatch ==
    ASSUME NEW d, NEW e, IsCopy(d, e)
    PROVE  TemplateGate(d, e).match /\ \E n \in 1 .. 3 : TemplateGate(d, e).score = <<n, n>>
<1> DEFINE known == {f \in Template : ~Unset(d, f) /\ ~Unset(e, f)}
           matched == {f \in known : d[f] = e[f]}
           partly == {f \in Template : ~Unset(d, f) \/ ~Unset(e, f)}
<1>1. /\ d.number = e.number /\ d.issued = e.issued /\ d.territory = e.territory
      /\ d.number # "none" \/ d.issued # 0
  BY DEF IsCopy, Particulars
<1>2. matched = partly /\ partly \subseteq Template
  BY <1>1 DEF Template, Unset
<1>3. partly # {}
  <2>1. "number" \in partly \/ "issued" \in partly
    BY <1>1 DEF Template, Unset
  <2> QED  BY <2>1
<1>4. IsFiniteSet(Template) /\ Cardinality(Template) = 3
  <2>1. IsFiniteSet({"number"}) /\ Cardinality({"number"}) = 1
    BY FS_Singleton
  <2>2. IsFiniteSet({"number", "issued"}) /\ Cardinality({"number", "issued"}) = 2
    <3>1. {"number", "issued"} = {"number"} \cup {"issued"} /\ "issued" \notin {"number"}
      OBVIOUS
    <3> QED  BY <2>1, <3>1, FS_AddElement
  <2>3. Template = {"number", "issued"} \cup {"territory"} /\ "territory" \notin {"number", "issued"}
    BY DEF Template
  <2> QED  BY <2>2, <2>3, FS_AddElement
<1>5. TemplateGate(d, e) =
         [match |-> matched # {},
          score |-> <<Cardinality(matched), IF partly = {} THEN 1 ELSE Cardinality(partly)>>]
  BY DEF TemplateGate
<1> HIDE DEF matched, partly
<1>6. IsFiniteSet(partly) /\ Cardinality(partly) <= 3
  BY <1>2, <1>4, FS_Subset
<1>7. Cardinality(partly) \in Nat /\ Cardinality(partly) # 0
  BY <1>3, <1>6, FS_CardinalityType, FS_EmptySet
<1>8. PICK n \in 1 .. 3 : n = Cardinality(partly)
  BY <1>6, <1>7
<1>9. TemplateGate(d, e).match
  <2>1. TemplateGate(d, e).match = (matched # {})
    BY <1>5
  <2>2. matched # {}
    BY <1>2, <1>3
  <2> QED  BY <2>1, <2>2
<1>10. TemplateGate(d, e).score = <<n, n>>
  BY <1>2, <1>3, <1>5, <1>8
<1> QED  BY <1>9, <1>10

\* With the same bytes that is enough for the confidence, even if nothing can
\* be read with any confidence.
LEMMA CopiesAreConfident ==
    ASSUME NEW a \in 1 .. 4, NEW b \in 1 .. 4, 2 * a >= b, NEW n \in 1 .. 3, NEW q \in 0 .. 100
    PROVE  Confidence(100, <<a, b>>, q, <<n, n>>) >= 70
<1>1. Confidence(100, <<a, b>>, q, <<n, n>>) = (100 * ((b * (6000 + 15 * q) + 2500 * a) * n)) \div (10000 * b * n)
  BY DEF Confidence, Percent
<1>2. ASSUME NEW x \in Int, NEW y \in Int, y > 0, x >= 70 * y PROVE x \div y >= 70
  BY <1>2
<1>3. b * (6000 + 15 * q) >= 6000 * b /\ b * (6000 + 15 * q) \in Int
  <2>1. b = 1 \/ b = 2 \/ b = 3 \/ b = 4
    OBVIOUS
  <2> QED  BY <2>1
<1>4. b * (6000 + 15 * q) + 2500 * a >= 7000 * b
  BY <1>3
<1>5. PICK s \in Int : s = b * (6000 + 15 * q) + 2500 * a
  BY <1>3
<1>6. 100 * (s * n) >= 70 * (10000 * b * n) /\ 10000 * b * n > 0
  <2>1. n = 1 \/ n = 2 \/ n = 3
    OBVIOUS
  <2> QED  BY <1>4, <1>5, <2>1
<1>7. 100 * (s * n) \in Int /\ 10000 * b * n \in Int
  OBVIOUS
<1>8. (100 * (s * n)) \div (10000 * b * n) >= 70
  BY <1>2, <1>6, <1>7
<1> QED  BY <1>1, <1>5, <1>8

LEMMA CopyIsDetected ==
    ASSUME NEW d, NEW e, IsDocument(d), IsDocument(e), IsCopy(d, e), d.bidder # e.bidder
    PROVE  \E g \in DetectCrossBidderAnomalies(d, e) : g.flag = "CROSS_BIDDER_DOCUMENT_REUSED"
<1>1. WithMeta(d) = d /\ WithMeta(e) = e
  BY DEF WithMeta, IsCopy
<1>2. Layer(d, e) = <<"EXACT", 100>>
  BY DEF Layer, IsCopy
<1>3. CandidateBlocking(d, e)
  BY DEF CandidateBlocking, IsCopy, Particulars
<1>4. PICK q \in 0 .. 100 : q = Lower(CombinePair(d, e).ocr, CombinePair(d, e).field)
  <2>1. \A x, y \in 0 .. 100 : Lower(x, y) \in 0 .. 100
    BY DEF Lower
  <2>2. d.ocr \in 0 .. 100 /\ e.ocr \in 0 .. 100 /\ FieldQuality(d) \in 0 .. 100 /\ FieldQuality(e) \in 0 .. 100
    BY QualityIsNumber
  <2> QED  BY <2>1, <2>2 DEF CombinePair
<1>5. PICK a \in 1 .. 4, b \in 1 .. 4 : Corroboration(d, e) = <<a, b>> /\ 2 * a >= b
  BY CopiesCorroborate
<1>6. PICK n \in 1 .. 3 : TemplateGate(d, e).match /\ TemplateGate(d, e).score = <<n, n>>
  BY CopiesMatch
<1>7. Confidence(100, <<a, b>>, q, <<n, n>>) >= 70
  BY <1>5, CopiesAreConfident
<1>8. FlagOfLayer("EXACT") = "CROSS_BIDDER_DOCUMENT_REUSED"
  BY DEF FlagOfLayer
<1>9. PICK g : g = Finding("cross_bidder", e.bidder, FlagOfLayer("EXACT"),
                           Confidence(100, <<a, b>>, q, <<n, n>>), {d.evidence, e.evidence} \ {0},
                           <<d.id, e.id>>, {})
  OBVIOUS
<1>10. g \in DetectCrossBidderAnomalies(d, e)
  BY <1>1, <1>2, <1>3, <1>4, <1>5, <1>6, <1>7, <1>9 DEF DetectCrossBidderAnomalies
<1>11. g.flag = "CROSS_BIDDER_DOCUMENT_REUSED"
  BY <1>8, <1>9 DEF Finding
<1> QED  BY <1>10, <1>11

\* For any documents with ids of their own: one that another bidder filed byte
\* for byte under the same particulars is reported as reused, however many
\* documents there are, in whatever order, and however badly they were read.
THEOREM EveryCopyIsReported == Spec => []CopyIsReported
<1>1. FoundInv => CopyIsReported
  <2> SUFFICES ASSUME FoundInv, pc = "done", case.store, DistinctIds(case),
                      NEW o \in ToSet(case.corpus), NEW d \in ToSet(case.docs), NEW e \in ToSet(o.docs),
                      IsCopy(d, e), d.bidder # e.bidder, o.bidder # case.bidder
               PROVE  \E f \in findings : f.docs = <<d.id, e.id>> /\ f.flag = "CROSS_BIDDER_DOCUMENT_REUSED"
    BY DEF CopyIsReported
  <2>1. PICK c \in Cases : c = case
    BY DEF FoundInv
  <2>2. Filed(c.docs, c.corpus, c.bidder)
    BY <2>1, CaseIsFiled
  <2>3. IsDocument(d) /\ IsDocument(e)
    BY <2>1, <2>2 DEF Filed
  <2>4. PICK g \in DetectCrossBidderAnomalies(d, e) : g.flag = "CROSS_BIDDER_DOCUMENT_REUSED"
    BY <2>3, CopyIsDetected
  <2>5. PICK f \in CrossBidderFindings(c.docs, c.verifications, c.corpus) :
           Says(f, g.flag, g.confidence, <<d.id, e.id>>)
    BY <2>1, <2>2, DetectedIsFound
  <2>6. f \in findings
    <3>1. f \in Reused(c)
      BY <2>1 DEF Reused
    <3> QED  BY <2>1, <3>1, CopiesAreReused
  <2> QED  BY <2>4, <2>5, <2>6 DEF Says
<1> QED  BY <1>1, FoundInvariant, PTL

-------------------------------------------------------------------------------
(* Recursions on numbers, and the greatest of finitely many.                *)

\* What holds of 0 and passes from each number to the next holds up to n.
LEMMA UpTo ==
    ASSUME NEW n \in Nat, NEW S, 0 \in S, \A k \in 1 .. n : k - 1 \in S => k \in S
    PROVE  \A k \in 0 .. n : k \in S
<1> DEFINE T == {k \in 0 .. n : k \notin S}
<1> SUFFICES ASSUME T # {} PROVE FALSE
  OBVIOUS
<1>1. T \in SUBSET Nat
  OBVIOUS
<1>2. PICK k \in T : \A y \in T : k <= y
  BY <1>1, MinIsLeast
<1>3. k \in 1 .. n /\ k - 1 \in 0 .. n /\ ~(k <= k - 1)
  BY <1>2
<1>4. k - 1 \in S
  BY <1>2, <1>3
<1> QED  BY <1>2, <1>3, <1>4

\* Steps(f, base, scale, x, n): f goes on from base by f -> scale f + x.
Steps(f, base, scale, x, n) ==
    /\ DOMAIN f = 0 .. n /\ f[0] = base
    /\ \A i \in 1 .. n : f[i] = scale * f[i - 1] + x[i]
    /\ \A i \in 0 .. n : f[i] \in Int
Summands(x, n) == \A i \in 1 .. n : x[i] \in Int

LEMMA StepsExist ==
    ASSUME NEW n \in Nat, NEW x, Summands(x, n), NEW base \in Int, NEW scale \in {1, 2}
    PROVE  \E f : Steps(f, base, scale, x, n)
<1> DEFINE S == {k \in 0 .. n : \E f : Steps(f, base, scale, x, k)}
<1>1. 0 \in S
  <2> DEFINE g == [i \in 0 .. 0 |-> base]
  <2>1. Steps(g, base, scale, x, 0)
    BY DEF Steps
  <2> HIDE DEF g
  <2> QED  BY <2>1
<1>2. ASSUME NEW k \in 1 .. n, k - 1 \in S PROVE k \in S
  <2>1. k \in Nat /\ k - 1 \in Nat /\ k \in 0 .. n
    OBVIOUS
  <2>2. PICK f : Steps(f, base, scale, x, k - 1)
    BY <1>2
  <2>3. PICK step : step = scale * f[k - 1] + x[k]
    OBVIOUS
  <2>4. step \in Int
    <3>1. f[k - 1] \in Int /\ x[k] \in Int
      BY <2>1, <2>2 DEF Steps, Summands
    <3> QED  BY <2>3, <3>1
  <2> DEFINE g == [i \in 0 .. k |-> IF i = k THEN step ELSE f[i]]
  <2>5. DOMAIN g = 0 .. k /\ g[k] = step /\ \A i \in 0 .. (k - 1) : g[i] = f[i]
    BY <2>1
  <2> HIDE DEF g
  <2>6. g[0] = base
    <3>1. 0 \in 0 .. (k - 1)
      BY <2>1
    <3> QED  BY <2>2, <2>5, <3>1 DEF Steps
  <2>7. ASSUME NEW i \in 1 .. k PROVE g[i] = scale * g[i - 1] + x[i]
    <3>1. i - 1 \in 0 .. (k - 1) /\ g[i - 1] = f[i - 1]
      BY <2>1, <2>5
    <3>2. CASE i = k
      BY <2>3, <2>5, <3>1, <3>2
    <3>3. CASE i # k
      <4>1. i \in 1 .. (k - 1) /\ i \in 0 .. (k - 1)
        BY <2>1, <3>3
      <4>2. f[i] = scale * f[i - 1] + x[i] /\ g[i] = f[i]
        BY <2>2, <2>5, <4>1 DEF Steps
      <4> QED  BY <3>1, <4>2
    <3> QED  BY <3>2, <3>3
  <2>8. ASSUME NEW i \in 0 .. k PROVE g[i] \in Int
    <3>1. i = k \/ i \in 0 .. (k - 1)
      BY <2>1
    <3> QED  BY <2>2, <2>4, <2>5, <3>1 DEF Steps
  <2>9. Steps(g, base, scale, x, k)
    BY <2>5, <2>6, <2>7, <2>8 DEF Steps
  <2> QED  BY <2>1, <2>9
<1> HIDE DEF S
<1>3. \A k \in 0 .. n : k \in S
  BY <1>1, <1>2, UpTo
<1>4. n \in 0 .. n
  OBVIOUS
<1> QED  BY <1>3, <1>4 DEF S

\* A function that takes the steps of a recursion on numbers is made of numbers.
LEMMA StepsAreNumbers ==
    ASSUME NEW n \in Nat, NEW x, Summands(x, n), NEW base \in Int, NEW scale \in {1, 2},
           NEW f, DOMAIN f = 0 .. n, f[0] = base,
           \A i \in 1 .. n : f[i] = scale * f[i - 1] + x[i]
    PROVE  Steps(f, base, scale, x, n)
<1> DEFINE S == {i \in 0 .. n : f[i] \in Int}
<1>1. 0 \in S
  OBVIOUS
<1>2. ASSUME NEW k \in 1 .. n, k - 1 \in S PROVE k \in S
  <2>1. f[k - 1] \in Int /\ x[k] \in Int /\ f[k] = scale * f[k - 1] + x[k] /\ k \in 0 .. n
    BY <1>2 DEF Summands
  <2> QED  BY <2>1
<1> HIDE DEF S
<1>3. \A k \in 0 .. n : k \in S
  BY <1>1, <1>2, UpTo
<1>4. \A i \in 0 .. n : f[i] \in Int
  BY <1>3 DEF S
<1> QED  BY <1>4 DEF Steps

\* The sum of a sequence is the last of its partial sums.
LEMMA SumIsSummed ==
    ASSUME NEW x, NEW n \in Nat, Len(x) = n, Summands(x, n)
    PROVE  \E f : Sum(x) = f[n] /\ Steps(f, 0, 1, x, n)
<1> DEFINE Is(f) == f = [i \in 0 .. n |-> IF i = 0 THEN 0 ELSE f[i - 1] + x[i]]
<1>1. Sum(x) = (CHOOSE f : Is(f))[n]
  BY DEF Sum
<1>2. PICK g : Steps(g, 0, 1, x, n)
  BY StepsExist
<1>3. \E f : Is(f)
  <2> DEFINE h == [i \in 0 .. n |-> g[i]]
  <2>1. ASSUME NEW i \in 0 .. n PROVE h[i] = IF i = 0 THEN 0 ELSE h[i - 1] + x[i]
    <3>1. CASE i = 0
      BY <1>2, <3>1 DEF Steps
    <3>2. CASE i # 0
      <4>1. i \in 1 .. n /\ i - 1 \in 0 .. n
        BY <3>2
      <4>2. g[i] = 1 * g[i - 1] + x[i] /\ g[i - 1] \in Int /\ x[i] \in Int
        BY <1>2, <4>1 DEF Steps, Summands
      <4>3. g[i] = g[i - 1] + x[i]
        BY <4>2
      <4> QED  BY <3>2, <4>1, <4>3
    <3> QED  BY <3>1, <3>2
  <2>2. Is(h)
    <3>1. h = [i \in 0 .. n |-> h[i]]
      OBVIOUS
    <3> HIDE DEF h
    <3> QED  BY <2>1, <3>1
  <2> QED  BY <2>2
<1>4. PICK f : f = CHOOSE y : Is(y)
  OBVIOUS
<1>5. Is(f)
  <2> HIDE DEF Is
  <2> QED  BY <1>3, <1>4
<1>6. /\ DOMAIN f = 0 .. n
      /\ \A i \in 0 .. n : f[i] = IF i = 0 THEN 0 ELSE f[i - 1] + x[i]
  BY <1>5
<1>7. \A i \in 0 .. n : f[i] \in Int
  <2> DEFINE S == {i \in 0 .. n : f[i] \in Int}
  <2>1. 0 \in S
    BY <1>6
  <2>2. ASSUME NEW k \in 1 .. n, k - 1 \in S PROVE k \in S
    BY <1>6, <2>2 DEF Summands
  <2> HIDE DEF S
  <2>3. \A k \in 0 .. n : k \in S
    BY <2>1, <2>2, UpTo
  <2> QED  BY <2>3 DEF S
<1>8. ASSUME NEW i \in 1 .. n PROVE f[i] = 1 * f[i - 1] + x[i]
  <2>1. f[i] = f[i - 1] + x[i] /\ f[i - 1] \in Int
    BY <1>6, <1>7
  <2> QED  BY <2>1
<1>9. Steps(f, 0, 1, x, n)
  BY <1>6, <1>7, <1>8 DEF Steps
<1> QED  BY <1>1, <1>4, <1>9

\* What a recursion adds up grows with its start and with what it adds.
LEMMA StepsGrow ==
    ASSUME NEW n \in Nat, NEW x, NEW y, NEW scale \in {1, 2}, NEW f, NEW g,
           Summands(x, n), Summands(y, n),
           Steps(f, 0, scale, x, n), Steps(g, 0, scale, y, n), \A i \in 1 .. n : x[i] <= y[i]
    PROVE  f[n] <= g[n]
<1> DEFINE S == {i \in 0 .. n : f[i] <= g[i]}
<1>1. 0 \in S
  BY DEF Steps
<1>2. ASSUME NEW k \in 1 .. n, k - 1 \in S PROVE k \in S
  <2>1. k \in 0 .. n /\ k - 1 \in 0 .. n
    OBVIOUS
  <2>2. PICK a, b, c, d : a = f[k - 1] /\ b = g[k - 1] /\ c = x[k] /\ d = y[k]
    OBVIOUS
  <2>3. a \in Int /\ b \in Int /\ c \in Int /\ d \in Int
    BY <2>1, <2>2 DEF Steps, Summands
  <2>4. f[k] = scale * a + c /\ g[k] = scale * b + d
    BY <2>2 DEF Steps
  <2>5. a <= b /\ c <= d
    BY <1>2, <2>2
  <2>6. scale * a <= scale * b /\ scale * a \in Int /\ scale * b \in Int
    BY <2>3, <2>5
  <2>7. scale * a + c <= scale * b + d
    BY <2>3, <2>5, <2>6
  <2> QED  BY <2>1, <2>4, <2>7
<1> HIDE DEF S
<1>3. \A k \in 0 .. n : k \in S
  BY <1>1, <1>2, UpTo
<1>4. n \in 0 .. n
  OBVIOUS
<1> QED  BY <1>3, <1>4 DEF S

\* A sum of numbers is a number, and not negative if none of them is.
LEMMA SumIsNumber ==
    ASSUME NEW x, NEW n \in Nat, Len(x) = n, Summands(x, n)
    PROVE  Sum(x) \in Int /\ ((\A i \in 1 .. n : x[i] >= 0) => Sum(x) >= 0)
<1>1. PICK f : Sum(x) = f[n] /\ Steps(f, 0, 1, x, n)
  BY SumIsSummed
<1>2. n \in 0 .. n
  OBVIOUS
<1>3. Sum(x) \in Int
  BY <1>1, <1>2 DEF Steps
<1>4. ASSUME \A i \in 1 .. n : x[i] >= 0 PROVE Sum(x) >= 0
  <2> DEFINE S == {i \in 0 .. n : f[i] >= 0}
  <2>1. 0 \in S
    BY <1>1 DEF Steps
  <2>2. ASSUME NEW k \in 1 .. n, k - 1 \in S PROVE k \in S
    <3>1. k \in 0 .. n /\ k - 1 \in 0 .. n
      OBVIOUS
    <3>2. f[k] = 1 * f[k - 1] + x[k] /\ f[k - 1] \in Int /\ x[k] \in Int /\ x[k] >= 0
      BY <1>1, <1>4, <3>1 DEF Steps, Summands
    <3>3. f[k - 1] >= 0
      BY <2>2
    <3>4. f[k] >= 0
      BY <3>2, <3>3
    <3> QED  BY <3>1, <3>4
  <2> HIDE DEF S
  <2>3. \A k \in 0 .. n : k \in S
    BY <2>1, <2>2, UpTo
  <2> QED  BY <1>1, <1>2, <2>3 DEF S
<1> QED  BY <1>3, <1>4

\* A sum grows with its summands.
LEMMA SumGrows ==
    ASSUME NEW x, NEW y, NEW n \in Nat, Len(x) = n, Len(y) = n, Summands(x, n), Summands(y, n),
           \A i \in 1 .. n : x[i] <= y[i]
    PROVE  Sum(x) <= Sum(y)
<1>1. PICK f : Sum(x) = f[n] /\ Steps(f, 0, 1, x, n)
  BY SumIsSummed
<1>2. PICK g : Sum(y) = g[n] /\ Steps(g, 0, 1, y, n)
  BY SumIsSummed
<1> QED  BY <1>1, <1>2, StepsGrow

\* y is x with the i-th place left out.
OneLess(x, y, n, i) == \A j \in 1 .. (n - 1) : y[j] = IF j < i THEN x[j] ELSE x[j + 1]

\* A sum of numbers that are not negative is no less with one of them more.
LEMMA SumOfOneLess ==
    ASSUME NEW x, NEW y, NEW n \in Nat, NEW i \in 1 .. n, Len(x) = n, Len(y) = n - 1,
           Summands(x, n), OneLess(x, y, n, i), x[i] >= 0
    PROVE  Sum(y) <= Sum(x)
<1>1. PICK f : Sum(x) = f[n] /\ Steps(f, 0, 1, x, n)
  BY SumIsSummed
<1>2. n - 1 \in Nat /\ Summands(y, n - 1)
  <2>1. ASSUME NEW j \in 1 .. (n - 1) PROVE y[j] \in Int
    <3>1. j \in 1 .. n /\ j + 1 \in 1 .. n
      OBVIOUS
    <3>2. y[j] = x[j] \/ y[j] = x[j + 1]
      BY DEF OneLess
    <3> QED  BY <3>1, <3>2 DEF Summands
  <2> QED  BY <2>1 DEF Summands
<1>3. PICK g : Sum(y) = g[n - 1] /\ Steps(g, 0, 1, y, n - 1)
  BY <1>2, SumIsSummed
<1> DEFINE m == n - 1
           S == {j \in 0 .. m : IF j < i THEN g[j] = f[j] ELSE g[j] = f[j + 1] - x[i]}
<1>4. 0 \in S
  BY <1>1, <1>2, <1>3 DEF Steps
<1>5. ASSUME NEW k \in 1 .. m, k - 1 \in S PROVE k \in S
  <2>1. k \in 0 .. m /\ k - 1 \in 0 .. m /\ k \in 1 .. n /\ k + 1 \in 1 .. n /\ k + 1 - 1 = k
        /\ k - 1 \in 0 .. n /\ k \in 0 .. n /\ k + 1 \in 0 .. n /\ k - 1 + 1 = k
    BY <1>2
  <2>2. g[k] = 1 * g[k - 1] + y[k]
    BY <1>3, <2>1 DEF Steps
  <2>3. f[k] = 1 * f[k - 1] + x[k] /\ f[k + 1] = 1 * f[k] + x[k + 1]
    BY <1>1, <2>1, SMTT(30) DEF Steps
  <2>4. f[k - 1] \in Int /\ f[k] \in Int /\ f[k + 1] \in Int /\ x[k] \in Int /\ x[k + 1] \in Int /\ x[i] \in Int
    BY <1>1, <2>1 DEF Steps, Summands
  <2>5. g[k - 1] \in Int
    BY <1>3, <2>1 DEF Steps
  <2>6. CASE k < i
    <3>1. y[k] = x[k] /\ g[k - 1] = f[k - 1]
      BY <1>5, <2>1, <2>6 DEF OneLess
    <3>2. g[k] = f[k]
      BY <2>2, <2>3, <2>4, <2>5, <3>1
    <3> QED  BY <2>1, <2>6, <3>2
  <2>7. CASE k = i
    <3>1. y[k] = x[k + 1] /\ g[k - 1] = f[k - 1]
      BY <1>5, <2>1, <2>7 DEF OneLess
    <3>2. g[k] = f[k + 1] - x[i]
      BY <2>2, <2>3, <2>4, <2>5, <2>7, <3>1, SMTT(30)
    <3> QED  BY <2>1, <2>7, <3>2
  <2>8. CASE k > i
    <3>1. y[k] = x[k + 1] /\ ~(k < i)
      BY <2>8 DEF OneLess
    <3>2. g[k - 1] = f[k - 1 + 1] - x[i]
      BY <1>5, <2>1, <2>8
    <3>3. g[k - 1] = f[k] - x[i]
      BY <2>1, <3>2
    <3>4. g[k] = f[k + 1] - x[i]
      BY <2>2, <2>3, <2>4, <2>5, <3>1, <3>3, SMTT(30)
    <3> QED  BY <2>1, <3>1, <3>4
  <2> QED  BY <2>6, <2>7, <2>8
<1>6. m \in Nat /\ m \in 0 .. m /\ m + 1 = n
  OBVIOUS
<1>7. \A k \in 0 .. m : k \in S
  <2> HIDE DEF S, m
  <2> QED  BY <1>4, <1>5, <1>6, UpTo
<1>8. ~(m < i) \/ m < i
  OBVIOUS
<1>9. CASE m < i
  <2>1. i = n /\ g[m] = f[m]
    BY <1>6, <1>7, <1>9
  <2>2. f[n] = 1 * f[n - 1] + x[n] /\ f[n - 1] \in Int /\ x[n] \in Int
    <3>1. n \in 1 .. n /\ n - 1 \in 0 .. n
      OBVIOUS
    <3> QED  BY <1>1, <3>1 DEF Steps, Summands
  <2> QED  BY <1>1, <1>3, <2>1, <2>2
<1>10. CASE ~(m < i)
  <2>1. g[m] = f[n] - x[i]
    BY <1>6, <1>7, <1>10
  <2>2. f[n] \in Int /\ x[i] \in Int
    <3>1. n \in 0 .. n
      OBVIOUS
    <3> QED  BY <1>1, <3>1 DEF Steps, Summands
  <2> QED  BY <1>1, <1>3, <2>1, <2>2
<1> QED  BY <1>9, <1>10

\* What the elements of a finite set are mapped to is finite.
LEMMA ImageIsFinite ==
    ASSUME NEW S, IsFiniteSet(S), NEW f, NEW T, \A t \in T : \E s \in S : t = f[s]
    PROVE  IsFiniteSet(T)
<1> DEFINE R == {s \in S : f[s] \in T}
           g == [s \in R |-> f[s]]
<1>1. IsFiniteSet(R)
  BY FS_Subset
<1>2. g \in Surjection(R, T)
  BY DEF Surjection
<1> HIDE DEF R, g
<1> QED  BY <1>1, <1>2, FS_Surjection

\* The greatest of finitely many numbers is their Max.
LEMMA MaxIsGreatest ==
    ASSUME NEW T \in SUBSET Nat, IsFiniteSet(T), T # {}
    PROVE  Max(T) \in T /\ \A y \in T : Max(T) >= y
<1> DEFINE n == Cardinality(T)
<1>1. PICK f \in Bijection(1 .. n, T) : TRUE
  BY FS_CardinalityType DEF ExistsBijection
<1>2. n \in Nat
  BY FS_CardinalityType
<1>3. /\ \A y \in T : \E i \in 1 .. n : f[i] = y
      /\ \A i \in 1 .. n : f[i] \in Nat
  <2>1. f \in Surjection(1 .. n, T) /\ f \in [1 .. n -> T]
    BY <1>1 DEF Bijection, Surjection, Injection
  <2> HIDE DEF n
  <2> QED  BY <2>1 DEF Surjection
<1> HIDE DEF n
<1> DEFINE S == {k \in 0 .. n : \E b \in Nat : \A i \in 1 .. k : f[i] <= b}
<1>4. 0 \in S
  BY <1>2
<1>5. ASSUME NEW k \in 1 .. n, k - 1 \in S PROVE k \in S
  <2>1. PICK b \in Nat : \A i \in 1 .. (k - 1) : f[i] <= b
    BY <1>5
  <2>2. f[k] \in Nat /\ k \in 0 .. n
    BY <1>2, <1>3
  <2>3. PICK c \in Nat : b <= c /\ f[k] <= c
    <3>1. b + f[k] \in Nat /\ b <= b + f[k] /\ f[k] <= b + f[k]
      BY <2>2
    <3> QED  BY <3>1
  <2>4. ASSUME NEW i \in 1 .. k PROVE f[i] <= c
    <3>1. i = k \/ i \in 1 .. (k - 1)
      BY <1>2
    <3>2. f[i] \in Nat
      BY <1>2, <1>3
    <3> QED  BY <2>1, <2>3, <3>1, <3>2
  <2> QED  BY <2>2, <2>4
<1> HIDE DEF S
<1>6. n \in S
  <2>1. \A k \in 0 .. n : k \in S
    BY <1>2, <1>4, <1>5, UpTo
  <2> QED  BY <1>2, <2>1
<1>7. PICK b \in Nat : \A y \in T : y <= b
  BY <1>3, <1>6 DEF S
<1> DEFINE D == {b - y : y \in T}
<1>8. D \in SUBSET Nat /\ D # {}
  <2>1. ASSUME NEW y \in T PROVE b - y \in Nat
    <3>1. y \in Nat /\ y <= b
      BY <1>7
    <3> QED  BY <3>1
  <2> QED  BY <2>1
<1>9. PICK d \in D : \A e \in D : d <= e
  BY <1>8, MinIsLeast
<1>10. PICK x \in T : d = b - x
  BY <1>9
<1>11. ASSUME NEW y \in T PROVE x >= y
  <2>1. d <= b - y
    BY <1>9
  <2>2. x \in Nat /\ y \in Nat
    OBVIOUS
  <2> QED  BY <1>10, <2>1, <2>2
<1>12. \E z \in T : \A y \in T : z >= y
  BY <1>11
<1> QED  BY <1>12 DEF Max

-------------------------------------------------------------------------------
(* The score of a case.                                                     *)

LEMMA HalvedSteps ==
    ASSUME NEW x, NEW n \in Nat, Len(x) = n, Summands(x, n)
    PROVE  \E f : Halved(x) = f[n] /\ Steps(f, 0, 2, x, n)
<1> DEFINE Is(f) == f = [i \in 0 .. n |-> IF i = 0 THEN 0 ELSE 2 * f[i - 1] + x[i]]
<1>1. Halved(x) = (CHOOSE f : Is(f))[n]
  BY DEF Halved
<1>2. PICK g : Steps(g, 0, 2, x, n)
  BY StepsExist
<1>3. \E f : Is(f)
  <2> DEFINE h == [i \in 0 .. n |-> g[i]]
  <2>1. ASSUME NEW i \in 0 .. n PROVE h[i] = IF i = 0 THEN 0 ELSE 2 * h[i - 1] + x[i]
    <3>1. CASE i = 0
      BY <1>2, <3>1 DEF Steps
    <3>2. CASE i # 0
      <4>1. i \in 1 .. n /\ i - 1 \in 0 .. n
        BY <3>2
      <4>2. g[i] = 2 * g[i - 1] + x[i]
        BY <1>2, <4>1 DEF Steps
      <4> QED  BY <3>2, <4>1, <4>2
    <3> QED  BY <3>1, <3>2
  <2>2. Is(h)
    <3>1. h = [i \in 0 .. n |-> h[i]]
      OBVIOUS
    <3> HIDE DEF h
    <3> QED  BY <2>1, <3>1
  <2> QED  BY <2>2
<1>4. PICK f : f = CHOOSE y : Is(y)
  OBVIOUS
<1>5. Is(f)
  <2> HIDE DEF Is
  <2> QED  BY <1>3, <1>4
<1>6. DOMAIN f = 0 .. n /\ f[0] = 0 /\ \A i \in 1 .. n : f[i] = 2 * f[i - 1] + x[i]
  <2>1. 0 \in 0 .. n /\ \A i \in 1 .. n : i \in 0 .. n /\ i # 0
    OBVIOUS
  <2>2. DOMAIN f = 0 .. n /\ \A i \in 0 .. n : f[i] = IF i = 0 THEN 0 ELSE 2 * f[i - 1] + x[i]
    BY <1>5
  <2> QED  BY <2>1, <2>2
<1>7. Steps(f, 0, 2, x, n)
  BY <1>6, StepsAreNumbers, SMTT(30)
<1> QED  BY <1>1, <1>4, <1>7

Zeros(n) == [i \in 1 .. n |-> 0]

LEMMA PowerSteps ==
    ASSUME NEW n \in Nat
    PROVE  \E f : PowerOfTwo(n) = f[n] /\ Steps(f, 1, 2, Zeros(n), n)
<1> DEFINE Is(f) == f = [i \in 0 .. n |-> IF i = 0 THEN 1 ELSE 2 * f[i - 1]]
<1>1. PowerOfTwo(n) = (CHOOSE f : Is(f))[n]
  BY DEF PowerOfTwo
<1>2. Summands(Zeros(n), n) /\ \A i \in 1 .. n : Zeros(n)[i] = 0
  BY DEF Summands, Zeros
<1>3. PICK g : Steps(g, 1, 2, Zeros(n), n)
  BY <1>2, StepsExist
<1>4. \E f : Is(f)
  <2> DEFINE h == [i \in 0 .. n |-> g[i]]
  <2>1. ASSUME NEW i \in 0 .. n PROVE h[i] = IF i = 0 THEN 1 ELSE 2 * h[i - 1]
    <3>1. CASE i = 0
      BY <1>3, <3>1 DEF Steps
    <3>2. CASE i # 0
      <4>1. i \in 1 .. n /\ i - 1 \in 0 .. n
        BY <3>2
      <4>2. g[i] = 2 * g[i - 1] + 0 /\ g[i - 1] \in Int
        BY <1>2, <1>3, <4>1 DEF Steps
      <4>3. g[i] = 2 * g[i - 1]
        BY <4>2
      <4> QED  BY <3>2, <4>1, <4>3
    <3> QED  BY <3>1, <3>2
  <2>2. Is(h)
    <3>1. h = [i \in 0 .. n |-> h[i]]
      OBVIOUS
    <3> HIDE DEF h
    <3> QED  BY <2>1, <3>1
  <2> QED  BY <2>2
<1>5. PICK f : f = CHOOSE y : Is(y)
  OBVIOUS
<1>6. Is(f)
  <2> HIDE DEF Is
  <2> QED  BY <1>4, <1>5
<1>7. DOMAIN f = 0 .. n /\ f[0] = 1 /\ \A i \in 1 .. n : f[i] = 2 * f[i - 1]
  <2>1. 0 \in 0 .. n /\ \A i \in 1 .. n : i \in 0 .. n /\ i # 0
    OBVIOUS
  <2>2. DOMAIN f = 0 .. n /\ \A i \in 0 .. n : f[i] = IF i = 0 THEN 1 ELSE 2 * f[i - 1]
    BY <1>6
  <2> QED  BY <2>1, <2>2
<1>8. \A i \in 0 .. n : f[i] \in Int
  <2> DEFINE S == {i \in 0 .. n : f[i] \in Int}
  <2>1. 0 \in S
    BY <1>7
  <2>2. ASSUME NEW k \in 1 .. n, k - 1 \in S PROVE k \in S
    <3>1. f[k - 1] \in Int /\ f[k] = 2 * f[k - 1] /\ k \in 0 .. n
      BY <1>7, <2>2
    <3> QED  BY <3>1
  <2> HIDE DEF S
  <2>3. \A k \in 0 .. n : k \in S
    BY <2>1, <2>2, UpTo
  <2> QED  BY <2>3 DEF S
<1>9. ASSUME NEW i \in 1 .. n PROVE f[i] = 2 * f[i - 1] + Zeros(n)[i]
  <2>1. f[i] = 2 * f[i - 1] /\ f[i - 1] \in Int /\ Zeros(n)[i] = 0
    BY <1>2, <1>7, <1>8
  <2> QED  BY <2>1
<1>10. Steps(f, 1, 2, Zeros(n), n)
  BY <1>7, <1>8, <1>9 DEF Steps
<1> QED  BY <1>1, <1>5, <1>10

LEMMA PowerDoubles ==
    ASSUME NEW n \in Nat, n > 0
    PROVE  PowerOfTwo(n - 1) \in Int /\ PowerOfTwo(n) = 2 * PowerOfTwo(n - 1)
<1>1. PICK m : m = n - 1
  OBVIOUS
<1>2. m \in Nat /\ n = m + 1 /\ m \in 0 .. m /\ n \in 1 .. n /\ m \in 0 .. n
  BY <1>1
<1>3. PICK f : PowerOfTwo(n) = f[n] /\ Steps(f, 1, 2, Zeros(n), n)
  BY PowerSteps
<1>4. PICK g : PowerOfTwo(m) = g[m] /\ Steps(g, 1, 2, Zeros(m), m)
  BY <1>2, PowerSteps
<1> DEFINE S == {i \in 0 .. m : f[i] = g[i]}
<1>5. 0 \in S
  BY <1>2, <1>3, <1>4 DEF Steps
<1>6. ASSUME NEW k \in 1 .. m, k - 1 \in S PROVE k \in S
  <2>1. k \in 1 .. n /\ k \in 0 .. m
    BY <1>2
  <2>2. Zeros(n)[k] = 0 /\ Zeros(m)[k] = 0
    BY <2>1 DEF Zeros
  <2> QED  BY <1>3, <1>4, <1>6, <2>1, <2>2 DEF Steps
<1> HIDE DEF S
<1>7. \A k \in 0 .. m : k \in S
  BY <1>2, <1>5, <1>6, UpTo
<1>8. f[m] = g[m] /\ f[m] \in Int
  BY <1>2, <1>3, <1>7 DEF S, Steps
<1>9. f[n] = 2 * f[m] + 0
  <2>1. Zeros(n)[n] = 0
    BY <1>2 DEF Zeros
  <2> QED  BY <1>1, <1>2, <1>3, <2>1 DEF Steps
<1> QED  BY <1>1, <1>3, <1>4, <1>8, <1>9

\* Findings whose risk is a number.
Weighable(K) == IsFiniteSet(K) /\ \A f \in K : WeightedRisk(f) \in Nat

Heavy(K, i) == {WeightedRisk(f) : f \in {g \in K : Cardinality(AsHeavy(K, g)) >= i}}

LEMMA RankedIsNumber ==
    ASSUME NEW K, Weighable(K), NEW i \in 1 .. Cardinality(K)
    PROVE  /\ Ranked(K)[i] \in Heavy(K, i) /\ Ranked(K)[i] \in Nat
           /\ \A w \in Heavy(K, i) : Ranked(K)[i] >= w
<1> DEFINE n == Cardinality(K)
           W == {WeightedRisk(f) : f \in K}
<1>1. n \in Nat /\ K # {}
  BY FS_CardinalityType, FS_EmptySet DEF Weighable
<1>2. W \in SUBSET Nat /\ W # {}
  BY <1>1 DEF Weighable
<1>3. PICK f \in K : \A g \in K : WeightedRisk(f) <= WeightedRisk(g)
  <2>1. PICK w \in W : \A v \in W : w <= v
    BY <1>2, MinIsLeast
  <2> QED  BY <2>1
<1>4. AsHeavy(K, f) = K
  <2>1. \A g \in K : WeightedRisk(f) \in Nat /\ WeightedRisk(g) \in Nat
    BY DEF Weighable
  <2>2. \A g \in K : WeightedRisk(g) >= WeightedRisk(f)
    BY <1>3, <2>1
  <2> QED  BY <2>2 DEF AsHeavy
<1>5. WeightedRisk(f) \in Heavy(K, i)
  <2>1. Cardinality(AsHeavy(K, f)) >= i
    BY <1>1, <1>4
  <2> QED  BY <2>1 DEF Heavy
<1>6. Heavy(K, i) \in SUBSET Nat
  BY DEF Heavy, Weighable
<1>7. IsFiniteSet(Heavy(K, i))
  <2> DEFINE h == [g \in K |-> WeightedRisk(g)]
  <2>1. \A w \in Heavy(K, i) : \E g \in K : w = h[g]
    BY DEF Heavy
  <2> HIDE DEF h
  <2> QED  BY <2>1, ImageIsFinite DEF Weighable
<1>8. Ranked(K)[i] = Max(Heavy(K, i))
  BY DEF Ranked, Heavy
<1> QED  BY <1>5, <1>6, <1>7, <1>8, MaxIsGreatest

\* What is ranked i-th weighs no less with more findings.
LEMMA RankedGrows ==
    ASSUME NEW G, Weighable(G), NEW K \in SUBSET G, NEW i \in 1 .. Cardinality(K)
    PROVE  /\ Weighable(K) /\ Cardinality(K) <= Cardinality(G) /\ i \in 1 .. Cardinality(G)
           /\ Ranked(K)[i] <= Ranked(G)[i]
<1>1. Weighable(K) /\ Cardinality(K) <= Cardinality(G)
  BY FS_Subset DEF Weighable
<1>2. i \in 1 .. Cardinality(G)
  <2>1. Cardinality(K) \in Nat /\ Cardinality(G) \in Nat
    BY <1>1, FS_CardinalityType DEF Weighable
  <2> QED  BY <1>1, <2>1
<1>3. ASSUME NEW f \in K, Cardinality(AsHeavy(K, f)) >= i
      PROVE  Cardinality(AsHeavy(G, f)) >= i
  <2>1. AsHeavy(K, f) \in SUBSET AsHeavy(G, f) /\ AsHeavy(G, f) \in SUBSET G
    BY DEF AsHeavy
  <2>2. IsFiniteSet(AsHeavy(G, f))
    BY <2>1, FS_Subset DEF Weighable
  <2>3. Cardinality(AsHeavy(K, f)) <= Cardinality(AsHeavy(G, f)) /\ IsFiniteSet(AsHeavy(K, f))
    BY <2>1, <2>2, FS_Subset
  <2>4. Cardinality(AsHeavy(K, f)) \in Nat /\ Cardinality(AsHeavy(G, f)) \in Nat
    BY <2>2, <2>3, FS_CardinalityType
  <2> QED  BY <1>3, <2>3, <2>4
<1>4. Heavy(K, i) \subseteq Heavy(G, i)
  BY <1>3 DEF Heavy
<1>5. Ranked(K)[i] \in Heavy(K, i) /\ Ranked(K)[i] \in Nat
  BY <1>1, RankedIsNumber
<1>6. Ranked(G)[i] \in Nat /\ \A w \in Heavy(G, i) : Ranked(G)[i] >= w
  BY <1>2, RankedIsNumber
<1>7. Ranked(G)[i] >= Ranked(K)[i]
  BY <1>4, <1>5, <1>6
<1> QED  BY <1>1, <1>2, <1>5, <1>6, <1>7

LEMMA RankedIsSeq ==
    ASSUME NEW K, Weighable(K)
    PROVE  LET n == Cardinality(K)
           IN  n \in Nat /\ Len(Ranked(K)) = n /\ Summands(Ranked(K), n)
<1>1. Cardinality(K) \in Nat
  BY FS_CardinalityType DEF Weighable
<1>2. \A i \in 1 .. Cardinality(K) : Ranked(K)[i] \in Nat
  BY RankedIsNumber
<1>3. DOMAIN Ranked(K) = 1 .. Cardinality(K) /\ Ranked(K) = [i \in 1 .. Cardinality(K) |-> Ranked(K)[i]]
  BY DEF Ranked
<1>4. Ranked(K) \in Seq(Nat)
  BY <1>1, <1>2, <1>3
<1>5. Len(Ranked(K)) = Cardinality(K)
  BY <1>1, <1>3, <1>4
<1> QED  BY <1>1, <1>2, <1>5 DEF Summands

\* A score that is above a ceiling stays above it with one finding more.
LEMMA ScoreGrows ==
    ASSUME NEW G, Weighable(G), NEW g \in G, NEW ceiling \in {300, 650},
           ScoreAbove(G \ {g}, ceiling)
    PROVE  ScoreAbove(G, ceiling)
<1>1. PICK K : K = G \ {g}
  OBVIOUS
<1>2. PICK n, m : n = Cardinality(G) /\ m = Cardinality(K)
  OBVIOUS
<1>3. Weighable(K) /\ m = n - 1
  BY <1>1, <1>2, FS_RemoveElement DEF Weighable
<1>4. n \in Nat /\ m \in Nat /\ n > 0 /\ n = m + 1
  <2>1. IsFiniteSet(G) /\ IsFiniteSet(K)
    BY <1>3 DEF Weighable
  <2>2. n \in Nat /\ m \in Nat
    BY <1>2, <2>1, FS_CardinalityType
  <2> QED  BY <1>3, <2>2
<1>5. Len(Ranked(G)) = n /\ Summands(Ranked(G), n)
  BY <1>2, RankedIsSeq
<1>6. Len(Ranked(K)) = m /\ Summands(Ranked(K), m)
  BY <1>2, <1>3, RankedIsSeq
<1>7. PICK s : Halved(Ranked(G)) = s[n] /\ Steps(s, 0, 2, Ranked(G), n)
  BY <1>4, <1>5, HalvedSteps
<1>8. PICK t : Halved(Ranked(K)) = t[m] /\ Steps(t, 0, 2, Ranked(K), m)
  BY <1>4, <1>6, HalvedSteps
<1>9. n \in 1 .. n /\ m \in 0 .. n /\ m \in 0 .. m /\ n \in 0 .. n /\ n - 1 = m
  BY <1>4
<1>10. t[m] <= s[m]
  <2>1. \A i \in 1 .. m : Ranked(K)[i] <= Ranked(G)[i]
    BY <1>1, <1>2, RankedGrows
  <2>2. Summands(Ranked(G), m) /\ Steps(s, 0, 2, Ranked(G), n)
    BY <1>4, <1>5, <1>7 DEF Summands
  <2> DEFINE r == [i \in 0 .. m |-> s[i]]
  <2>3. Steps(r, 0, 2, Ranked(G), m) /\ r[m] = s[m]
    <3>1. \A i \in 1 .. m : i \in 1 .. n /\ i \in 0 .. m /\ i - 1 \in 0 .. m
      BY <1>4
    <3>2. \A i \in 0 .. m : i \in 0 .. n
      BY <1>4
    <3>3. 0 \in 0 .. m
      BY <1>4
    <3>4. \A i \in 1 .. m : r[i] = 2 * r[i - 1] + Ranked(G)[i]
      BY <1>7, <3>1 DEF Steps
    <3>5. DOMAIN r = 0 .. m /\ r[0] = 0 /\ \A i \in 0 .. m : r[i] \in Int
      BY <1>7, <3>2, <3>3 DEF Steps
    <3>6. r[m] = s[m]
      BY <1>9
    <3> HIDE DEF r
    <3> QED  BY <3>4, <3>5, <3>6 DEF Steps
  <2> HIDE DEF r
  <2>4. PICK x, y : x = Ranked(K) /\ y = Ranked(G)
    OBVIOUS
  <2>5. Summands(x, m) /\ Summands(y, m) /\ Steps(t, 0, 2, x, m) /\ Steps(r, 0, 2, y, m)
    BY <1>6, <1>8, <2>2, <2>3, <2>4
  <2>6. \A i \in 1 .. m : x[i] <= y[i]
    BY <2>1, <2>4
  <2>7. 2 \in {1, 2} /\ m \in Nat
    BY <1>4
  <2>8. t[m] <= r[m]
    BY <2>5, <2>6, <2>7, StepsGrow
  <2> QED  BY <2>3, <2>8
<1>11. s[n] = 2 * s[m] + Ranked(G)[n] /\ s[m] \in Int /\ t[m] \in Int /\ Ranked(G)[n] \in Nat
  <2>1. Ranked(G)[n] \in Nat
    BY <1>2, <1>9, RankedIsNumber
  <2> QED  BY <1>7, <1>8, <1>9, <2>1 DEF Steps
<1>12. PICK p : p = PowerOfTwo(m)
  OBVIOUS
<1>13. p \in Int /\ PowerOfTwo(n) = 2 * p
  BY <1>4, <1>9, <1>12, PowerDoubles
<1>14. 4 * t[m] > (2 * ceiling + 1) * p
  BY <1>1, <1>2, <1>8, <1>12 DEF ScoreAbove
<1>15. PICK a, b, c : a = s[m] /\ b = t[m] /\ c = Ranked(G)[n]
  OBVIOUS
<1>16. 4 * (2 * a + c) > (2 * ceiling + 1) * (2 * p)
  <2>1. CASE ceiling = 300
    <3>1. 4 * b > 601 * p
      BY <1>14, <1>15, <2>1
    <3>2. 4 * (2 * a + c) > 601 * (2 * p)
      BY <1>10, <1>11, <1>13, <1>15, <3>1
    <3> QED  BY <2>1, <3>2
  <2>2. CASE ceiling = 650
    <3>1. 4 * b > 1301 * p
      BY <1>14, <1>15, <2>2
    <3>2. 4 * (2 * a + c) > 1301 * (2 * p)
      BY <1>10, <1>11, <1>13, <1>15, <3>1
    <3> QED  BY <2>2, <3>2
  <2> QED  BY <2>1, <2>2
<1> QED  BY <1>2, <1>7, <1>11, <1>13, <1>15, <1>16 DEF ScoreAbove

\* The finding scorer never gives a better category for one finding more.
LEMMA GradeGrows ==
    ASSUME NEW G, Weighable(G), NEW g \in G
    PROVE  Rank[Graded(G \ {g})] <= Rank[Graded(G)]
<1>1. OverrideTriggered(G \ {g}) => OverrideTriggered(G)
  BY DEF OverrideTriggered
<1>2. ScoreAbove(G \ {g}, 300) => ScoreAbove(G, 300)
  BY ScoreGrows
<1>3. ScoreAbove(G \ {g}, 650) => ScoreAbove(G, 650)
  BY ScoreGrows
<1>4. /\ Rank["GREEN"] = 0 /\ Rank["YELLOW"] = 1 /\ Rank["RED"] = 2
  BY DEF Rank
<1> QED  BY <1>1, <1>2, <1>3, <1>4 DEF Graded, CaseCategory

-------------------------------------------------------------------------------
(* What the engines find: finitely many findings, with a confidence that is *)
(* a number, and a flag that tells the copies from the rest.                *)

CopyFlags == {"CROSS_BIDDER_DOCUMENT_REUSED", "CROSS_BIDDER_DOCUMENT_NEAR_DUPLICATE"}
Rateable(f) == f.confidence \in Nat /\ (f.kind = "cross_bidder" <=> f.flag \in CopyFlags)

LEMMA PairIsFinite == ASSUME NEW a, NEW b PROVE IsFiniteSet({a, b}) /\ Cardinality({a, b}) \in Nat /\ Cardinality({a, b}) <= 2
<1>1. IsFiniteSet({a}) /\ Cardinality({a}) = 1
  BY FS_Singleton
<1>2. {a, b} = {a} \cup {b}
  OBVIOUS
<1>3. IsFiniteSet({a, b}) /\ Cardinality({a, b}) = IF b \in {a} THEN 1 ELSE 1 + 1
  BY <1>1, <1>2, FS_AddElement
<1> QED  BY <1>3

LEMMA ReconciledIsRateable ==
    ASSUME NEW c \in Cases
    PROVE  IsFiniteSet(Reconciled(c)) /\ \A f \in Reconciled(c) : Rateable(f)
<1> DEFINE obs == IdentityObservations(c.verifications, c.bidder)
           P == (1 .. 4) \X (1 .. 4)
           pair == [q \in P |-> <<obs[Min(BySource(obs, q[1]))], obs[Min(BySource(obs, q[2]))]>>]
           made == [p \in IdentityPairs(obs) |->
                      Finding("identity", "name", "CROSS_SOURCE_IDENTITY_MISMATCH", 90,
                              {p[1].evidence, p[2].evidence} \ {0}, <<>>, {p[1].id, p[2].id})]
<1>1. IsFiniteSet(P)
  <2>1. IsFiniteSet(1 .. 4)
    BY FirstNumbers
  <2> QED  BY <2>1, FS_Product
<1>2. IsFiniteSet(IdentityPairs(obs))
  <2>1. \A p \in IdentityPairs(obs) : \E q \in P : p = pair[q]
    BY DEF IdentityPairs
  <2> HIDE DEF pair, P, obs
  <2> QED  BY <1>1, <2>1, ImageIsFinite
<1>3. ASSUME NEW f \in Reconciled(c)
      PROVE  Rateable(f) /\ \E p \in IdentityPairs(obs) : f = made[p]
  <2>1. PICK p \in DisagreeingPairs(obs) :
           f = Finding("identity", "name", "CROSS_SOURCE_IDENTITY_MISMATCH", 90,
                       {p[1].evidence, p[2].evidence} \ {0}, <<>>, {p[1].id, p[2].id})
    BY DEF Reconciled, IdentityFindings
  <2>2. p \in IdentityPairs(obs)
    BY <2>1 DEF DisagreeingPairs
  <2>3. f.confidence = 90 /\ f.kind = "identity" /\ f.flag = "CROSS_SOURCE_IDENTITY_MISMATCH"
    BY <2>1 DEF Finding
  <2>4. Rateable(f)
    BY <2>3 DEF Rateable, CopyFlags
  <2>5. f = made[p]
    BY <2>1, <2>2
  <2> QED  BY <2>2, <2>4, <2>5
<1> HIDE DEF made, obs
<1> QED  BY <1>2, <1>3, ImageIsFinite

LEMMA ConsistentIsRateable ==
    ASSUME NEW c \in Cases
    PROVE  IsFiniteSet(Consistent(c)) /\ \A f \in Consistent(c) : Rateable(f)
<1> DEFINE obs == ExtractObservations(c.evidence, c.bidder)
           outcome(p) == ComparePair(obs[p[1]], obs[p[2]], c.today)
           P == (1 .. Len(c.evidence)) \X (1 .. Len(c.evidence))
           made == [p \in P |->
                      Finding("cross_document", obs[p[1]].dimension, FLAG_ID_BY_DIMENSION[obs[p[1]].dimension],
                              ConfidenceFor(outcome(p), obs[p[1]], obs[p[2]]),
                              {obs[p[1]].id, obs[p[2]].id}, <<>>, {obs[p[1]].id, obs[p[2]].id})]
<1>1. /\ Len(c.evidence) \in Nat /\ DOMAIN c.evidence = 1 .. Len(c.evidence)
      /\ \A i \in DOMAIN c.evidence : c.evidence[i] \in ToSet(c.evidence)
  BY CaseLists, PlacesOfSeq
<1>2. IsFiniteSet(P)
  <2>1. IsFiniteSet(1 .. Len(c.evidence))
    BY <1>1, FirstNumbers
  <2> QED  BY <2>1, FS_Product
<1>3. /\ DOMAIN obs \subseteq 1 .. Len(c.evidence)
      /\ \A i \in DOMAIN obs : obs[i] = ExtractObservation(c.evidence[i])
  BY <1>1 DEF ExtractObservations
<1>4. \A i \in DOMAIN obs : QualityDelta[obs[i].quality] \in 0 .. 20
  <2> SUFFICES ASSUME NEW i \in DOMAIN obs PROVE QualityDelta[obs[i].quality] \in 0 .. 20
    OBVIOUS
  <2>1. c.evidence[i].quality \in DOMAIN QualityDelta
    BY <1>1, <1>3, CaseAssumption
  <2>2. obs[i].quality = c.evidence[i].quality
    <3>1. \A e : ExtractObservation(e).quality = e.quality
      BY DEF ExtractObservation
    <3>2. obs[i] = ExtractObservation(c.evidence[i])
      BY <1>3
    <3> HIDE DEF obs
    <3> QED  BY <3>1, <3>2
  <2> HIDE DEF obs
  <2> QED  BY <2>1, <2>2 DEF QualityDelta
<1>5. ASSUME NEW f \in Consistent(c)
      PROVE  Rateable(f) /\ \E p \in P : f = made[p]
  <2>0. f \in CrossDocumentFindings(c.evidence, c.bidder, c.today)
    BY DEF Consistent
  <2>1. PICK p \in EnumeratePairs(obs) :
           /\ outcome(p) \in {"MISMATCH", "VALIDITY_CONFLICT"}
           /\ f = Finding("cross_document", obs[p[1]].dimension, FLAG_ID_BY_DIMENSION[obs[p[1]].dimension],
                          ConfidenceFor(outcome(p), obs[p[1]], obs[p[2]]),
                          {obs[p[1]].id, obs[p[2]].id}, <<>>, {obs[p[1]].id, obs[p[2]].id})
    BY <2>0 DEF CrossDocumentFindings
  <2>2. p[1] \in DOMAIN obs /\ p[2] \in DOMAIN obs /\ p = <<p[1], p[2]>>
        /\ obs[p[1]].status = "AVAILABLE"
    BY <2>1 DEF EnumeratePairs
  <2>3. p \in P
    <3>1. p[1] \in 1 .. Len(c.evidence) /\ p[2] \in 1 .. Len(c.evidence)
      BY <1>3, <2>2
    <3> HIDE DEF obs
    <3> QED  BY <2>2, <3>1
  <2>4. f.kind = "cross_document" /\ f.flag = FLAG_ID_BY_DIMENSION[obs[p[1]].dimension]
        /\ f.confidence = ConfidenceFor(outcome(p), obs[p[1]], obs[p[2]])
    BY <2>1 DEF Finding
  <2>5. f.confidence \in Nat
    <3>1. PICK a \in 0 .. 20, b \in 0 .. 20 : a = QualityDelta[obs[p[1]].quality] /\ b = QualityDelta[obs[p[2]].quality]
      BY <1>4, <2>2
    <3>2. f.confidence = 95 - a - b \/ f.confidence = 90 - a - b
      BY <2>4, <3>1 DEF ConfidenceFor
    <3> QED  BY <3>1, <3>2
  <2>6. f.flag \notin CopyFlags
    <3>1. obs[p[1]] = ExtractObservation(c.evidence[p[1]])
      BY <1>3, <2>2
    <3>2. obs[p[1]].dimension \in {"IDENTIFIER", "ADDRESS", "DATE", "MANUFACTURER", "PRODUCT"}
      BY <2>2, <3>1, AvailableIsClassified DEF Dimensions, FIELD_CLASSIFICATION
    <3>3. FLAG_ID_BY_DIMENSION[obs[p[1]].dimension] \notin CopyFlags
      BY <3>2 DEF FLAG_ID_BY_DIMENSION, CopyFlags
    <3> QED  BY <2>4, <3>3
  <2>7. f = made[p]
    BY <2>1, <2>3
  <2> QED  BY <2>3, <2>4, <2>5, <2>6, <2>7 DEF Rateable
<1> HIDE DEF made, P
<1> QED  BY <1>2, <1>5, ImageIsFinite

LEMMA BridgedIsRateable ==
    ASSUME NEW c \in Cases
    PROVE  IsFiniteSet(Bridged(c)) /\ \A f \in Bridged(c) : Rateable(f)
<1> DEFINE M == {"turnover", "net_worth", "ca", "cl"}
           made == [m \in M |-> Finding("financial", m, "FINANCIAL_DATA_INCONSISTENCY", 90, Range(Books(c)), <<>>, {})]
           trend == Finding("financial", "trend", "TURNOVER_TREND_ANOMALY", 70, Range(Books(c)), <<>>, {})
           bad == {f \in Bridged(c) : f # trend}
<1>1. F!Inconsistent(c.books) \subseteq M
  BY DEF F!Inconsistent
<1>2. ASSUME NEW f \in Bridged(c)
      PROVE  f = trend \/ \E m \in M : f = made[m]
  <2> HIDE DEF M
  <2> QED  BY <1>1 DEF Bridged
<1>3. IsFiniteSet(bad)
  <2>1. IsFiniteSet(M)
    <3>1. IsFiniteSet({"turnover", "net_worth"}) /\ IsFiniteSet({"ca", "cl"})
      BY PairIsFinite
    <3>2. M = {"turnover", "net_worth"} \cup {"ca", "cl"}
      OBVIOUS
    <3> QED  BY <3>1, <3>2, FS_Union
  <2>2. \A f \in bad : \E m \in M : f = made[m]
    BY <1>2
  <2> HIDE DEF M, made, bad
  <2> QED  BY <2>1, <2>2, ImageIsFinite
<1>4. IsFiniteSet(Bridged(c))
  <2>1. IsFiniteSet(bad \cup {trend})
    BY <1>3, FS_AddElement
  <2>2. Bridged(c) \in SUBSET (bad \cup {trend})
    OBVIOUS
  <2> HIDE DEF bad, trend
  <2> QED  BY <2>1, <2>2, FS_Subset
<1>5. ASSUME NEW f \in Bridged(c) PROVE Rateable(f)
  <2>1. /\ f.kind = "financial" /\ f.confidence \in {70, 90}
        /\ f.flag \in {"FINANCIAL_DATA_INCONSISTENCY", "TURNOVER_TREND_ANOMALY"}
    BY <1>2 DEF Finding
  <2> QED  BY <2>1 DEF Rateable, CopyFlags
<1> QED  BY <1>4, <1>5

LEMMA NamedAreRateable ==
    ASSUME NEW c \in Cases
    PROVE  LET found == VerifyCrossDocumentIdentity(c.evidence)
           IN  IsFiniteSet(found) /\ \A f \in found : f.flag = "CROSS_DOCUMENT_IDENTITY_MISMATCH"
<1>1. \A x : IsFiniteSet({x})
  BY FS_Singleton
<1>2. IsFiniteSet(VerifyCrossDocumentIdentity(c.evidence))
  BY <1>1, FS_EmptySet DEF VerifyCrossDocumentIdentity
<1>3. \A f \in VerifyCrossDocumentIdentity(c.evidence) : f.flag = "CROSS_DOCUMENT_IDENTITY_MISMATCH"
  BY DEF VerifyCrossDocumentIdentity, Finding
<1> QED  BY <1>2, <1>3

\* A set drawn from at most four names.
LEMMA AtMostFour ==
    ASSUME NEW a, NEW b, NEW x, NEW y, NEW K \in SUBSET {a, b, x, y}
    PROVE  IsFiniteSet(K) /\ Cardinality(K) \in 0 .. 4
<1>1. IsFiniteSet({a, b}) /\ Cardinality({a, b}) \in Nat /\ Cardinality({a, b}) <= 2
  BY PairIsFinite
<1>2. IsFiniteSet({x, y}) /\ Cardinality({x, y}) \in Nat /\ Cardinality({x, y}) <= 2
  BY PairIsFinite
<1>3. {a, b, x, y} = {a, b} \cup {x, y}
  OBVIOUS
<1>4. IsFiniteSet({a, b} \cup {x, y})
  BY <1>1, <1>2, FS_Union
<1>5. IsFiniteSet({a, b} \cap {x, y}) /\ Cardinality({a, b} \cap {x, y}) \in Nat
  <2>1. IsFiniteSet({a, b} \cap {x, y})
    BY <1>1, FS_Intersection
  <2> QED  BY <2>1, FS_CardinalityType
<1>6. Cardinality({a, b} \cup {x, y})
         = Cardinality({a, b}) + Cardinality({x, y}) - Cardinality({a, b} \cap {x, y})
  BY <1>1, <1>2, FS_Union
<1>7. Cardinality({a, b} \cup {x, y}) <= 4
  <2>1. PICK m \in Nat, n \in Nat, k \in Nat :
           /\ m = Cardinality({a, b}) /\ n = Cardinality({x, y})
           /\ k = Cardinality({a, b} \cap {x, y}) /\ m <= 2 /\ n <= 2
    BY <1>1, <1>2, <1>5
  <2>2. Cardinality({a, b} \cup {x, y}) = m + n - k
    BY <1>6, <2>1
  <2>3. m <= 2 /\ n <= 2
    BY <2>1
  <2>4. m + n - k <= 4
    BY <2>3
  <2> QED  BY <2>2, <2>4
<1>8. IsFiniteSet(K) /\ Cardinality(K) <= Cardinality({a, b} \cup {x, y})
  BY <1>3, <1>4, FS_Subset
<1>9. Cardinality(K) \in Nat /\ Cardinality({a, b} \cup {x, y}) \in Nat
  BY <1>4, <1>8, FS_CardinalityType
<1>10. PICK k \in Nat, n \in Nat : k = Cardinality(K) /\ n = Cardinality({a, b} \cup {x, y})
  BY <1>9
<1>11. k <= 4
  BY <1>7, <1>8, <1>10
<1> QED  BY <1>8, <1>10, <1>11

LEMMA LayerIsNumber ==
    ASSUME NEW l, NEW r, IsDocument(l), IsDocument(r)
    PROVE  Layer(l, r)[2] \in Int
<1>1. Percent(LexicalDice(l, r)) \in Int
  <2>1. IsFiniteSet(Grams(l)) /\ Cardinality(Grams(l)) \in Nat
    BY GramsAreFinite
  <2>2. IsFiniteSet(Grams(r)) /\ Cardinality(Grams(r)) \in Nat
    BY GramsAreFinite
  <2>3. Cardinality(Grams(l) \cap Grams(r)) \in Nat
    <3>1. IsFiniteSet(Grams(l) \cap Grams(r))
      BY <2>1, FS_Intersection
    <3> QED  BY <3>1, FS_CardinalityType
  <2>4. PICK m \in Nat, n \in Nat, k \in Nat :
           m = Cardinality(Grams(l)) /\ n = Cardinality(Grams(r)) /\ k = Cardinality(Grams(l) \cap Grams(r))
    BY <2>1, <2>2, <2>3
  <2>5. CASE Grams(l) = {} \/ Grams(r) = {}
    BY <2>5 DEF LexicalDice, Percent
  <2>6. CASE Grams(l) # {} /\ Grams(r) # {}
    <3>1. m # 0
      BY <2>1, <2>4, <2>6, FS_EmptySet
    <3>2. LexicalDice(l, r) = <<2 * k, m + n>>
      BY <2>4, <2>6 DEF LexicalDice
    <3>3. Percent(LexicalDice(l, r)) = (100 * (2 * k)) \div (m + n)
      BY <3>2 DEF Percent
    <3> QED  BY <3>1, <3>3
  <2> QED  BY <2>5, <2>6
<1>2. SemanticSimilarity(l, r) \in Int
  <2>1. ASSUME NEW dot, NEW norms PROVE CosinePercent(dot, norms) \in Int
    <3> DEFINE M == {m \in 1 .. 100 : m * m * norms <= 10000 * dot * dot}
    <3>1. IsFiniteSet(1 .. 100)
      BY FirstNumbers
    <3>2. M \in SUBSET (1 .. 100)
      OBVIOUS
    <3> HIDE DEF M
    <3>3. IsFiniteSet(M)
      BY <3>1, <3>2, FS_Subset
    <3>4. Cardinality(M) \in Nat
      BY <3>3, FS_CardinalityType
    <3>5. CosinePercent(dot, norms) = IF dot <= 0 THEN 0 ELSE Cardinality(M)
      BY DEF CosinePercent, M
    <3> QED  BY <3>4, <3>5
  <2> QED  BY <2>1 DEF SemanticSimilarity, CosineSimilarity
<1> HIDE DEF LexicalDice, SemanticSimilarity
<1>3. \/ Layer(l, r) = <<"EXACT", 100>> \/ Layer(l, r) = <<"NORMALIZED", 100>>
      \/ Layer(l, r) = <<"LEXICAL", Percent(LexicalDice(l, r))>>
      \/ Layer(l, r) = <<"SEMANTIC", SemanticSimilarity(l, r)>> \/ Layer(l, r) = <<"UNKNOWN", 0>>
  BY DEF Layer
<1> QED  BY <1>1, <1>2, <1>3

LEMMA FactorsAreNumbers ==
    ASSUME NEW l, NEW r
    PROVE  /\ \E a \in 0 .. 4, b \in 1 .. 4 : Corroboration(l, r) = <<a, b>>
           /\ \E a \in 0 .. 4, b \in 1 .. 4 : TemplateGate(l, r).score = <<a, b>>
<1>1. \E a \in 0 .. 4, b \in 1 .. 4 : Corroboration(l, r) = <<a, b>>
  <2> DEFINE K == Compared(l, r)
             A == {f \in K : Agrees(l, r, f)}
  <2>1. K \in SUBSET {"issuer", "number", "issued", "overlap"} /\ A \in SUBSET {"issuer", "number", "issued", "overlap"}
    BY DEF Compared
  <2> HIDE DEF K, A
  <2>2. IsFiniteSet(K) /\ Cardinality(K) \in 0 .. 4
    BY <2>1, AtMostFour
  <2>3. Cardinality(A) \in 0 .. 4
    BY <2>1, AtMostFour
  <2>4. CASE K = {}
    <3>1. Corroboration(l, r) = <<0, 1>>
      BY <2>4 DEF Corroboration, K
    <3> QED  BY <3>1
  <2>5. CASE K # {}
    <3>1. Cardinality(K) # 0
      BY <2>2, <2>5, FS_EmptySet
    <3>2. Corroboration(l, r) = <<Cardinality(A), Cardinality(K)>>
      BY <2>5 DEF Corroboration, K, A
    <3>3. Cardinality(K) \in 1 .. 4
      BY <2>2, <3>1
    <3> QED  BY <2>3, <3>2, <3>3
  <2> QED  BY <2>4, <2>5
<1>2. \E a \in 0 .. 4, b \in 1 .. 4 : TemplateGate(l, r).score = <<a, b>>
  <2> DEFINE known == {f \in Template : ~Unset(l, f) /\ ~Unset(r, f)}
             matched == {f \in known : l[f] = r[f]}
             partly == {f \in Template : ~Unset(l, f) \/ ~Unset(r, f)}
             n == IF partly = {} THEN 1 ELSE Cardinality(partly)
  <2>1. Template = {"number", "issued", "territory", "territory"}
    BY DEF Template
  <2>2. matched \in SUBSET Template /\ partly \in SUBSET Template
    OBVIOUS
  <2>3. TemplateGate(l, r) = [match |-> matched # {}, score |-> <<Cardinality(matched), n>>]
    BY DEF TemplateGate
  <2> HIDE DEF matched, partly
  <2>4. Cardinality(matched) \in 0 .. 4
    BY <2>1, <2>2, AtMostFour
  <2>5. IsFiniteSet(partly) /\ Cardinality(partly) \in 0 .. 4
    BY <2>1, <2>2, AtMostFour
  <2>6. partly # {} => Cardinality(partly) # 0
    BY <2>5, FS_EmptySet
  <2>7. n \in 1 .. 4
    BY <2>5, <2>6
  <2>8. TemplateGate(l, r).score = <<Cardinality(matched), n>>
    BY <2>3
  <2> HIDE DEF n
  <2> QED  BY <2>4, <2>7, <2>8
<1> QED  BY <1>1, <1>2

LEMMA ConfidenceIsNumber ==
    ASSUME NEW S \in Int, NEW a \in 0 .. 4, NEW b \in 1 .. 4, NEW q \in 0 .. 100,
           NEW x \in 0 .. 4, NEW y \in 1 .. 4
    PROVE  Confidence(S, <<a, b>>, q, <<x, y>>) \in Int
<1>1. Confidence(S, <<a, b>>, q, <<x, y>>) = (100 * ((b * (60 * S + 15 * q) + 2500 * a) * x)) \div (10000 * b * y)
  BY DEF Confidence, Percent
<1>2. 10000 * b * y \in Int /\ 10000 * b * y > 0
  <2>1. y = 1 \/ y = 2 \/ y = 3 \/ y = 4
    OBVIOUS
  <2> QED  BY <2>1
<1>3. PICK s \in Int : s = 60 * S + 15 * q
  OBVIOUS
<1>4. b * s + 2500 * a \in Int
  <2>1. b * s \in Int
    OBVIOUS
  <2> QED  BY <2>1
<1>5. PICK t \in Int : t = b * s + 2500 * a
  BY <1>4
<1>6. 100 * (t * x) \in Int
  OBVIOUS
<1>7. ASSUME NEW u \in Int, NEW v \in Int, v > 0 PROVE u \div v \in Int
  BY <1>7
<1> QED  BY <1>1, <1>2, <1>3, <1>5, <1>6, <1>7

LEMMA DetectedIsRateable ==
    ASSUME NEW l, NEW r, IsDocument(l), IsDocument(r)
    PROVE  /\ IsFiniteSet(DetectCrossBidderAnomalies(l, r))
           /\ \A f \in DetectCrossBidderAnomalies(l, r) : Rateable(f)
<1> DEFINE d == WithMeta(l)
           e == WithMeta(r)
           layer == Layer(d, e)
           gate == TemplateGate(d, e)
           quality == CombinePair(d, e)
           confidence == Confidence(layer[2], Corroboration(d, e), Lower(quality.ocr, quality.field), gate.score)
           only == Finding("cross_bidder", e.bidder, FlagOfLayer(layer[1]), confidence,
                           {d.evidence, e.evidence} \ {0}, <<d.id, e.id>>, {})
<1>1. IsDocument(d) /\ IsDocument(e)
  BY WithMetaKeeps
<1>2. DetectCrossBidderAnomalies(l, r) \in SUBSET {only}
      /\ (DetectCrossBidderAnomalies(l, r) # {} => confidence >= 70)
  BY DEF DetectCrossBidderAnomalies
<1>3. confidence \in Int
  <2>1. PICK S \in Int : S = layer[2]
    BY <1>1, LayerIsNumber
  <2>2. PICK a \in 0 .. 4, b \in 1 .. 4 : Corroboration(d, e) = <<a, b>>
    BY FactorsAreNumbers
  <2>3. PICK x \in 0 .. 4, y \in 1 .. 4 : gate.score = <<x, y>>
    BY FactorsAreNumbers
  <2>4. PICK q \in 0 .. 100 : q = Lower(quality.ocr, quality.field)
    <3>1. \A u, v \in 0 .. 100 : Lower(u, v) \in 0 .. 100
      BY DEF Lower
    <3>2. /\ d.ocr \in 0 .. 100 /\ e.ocr \in 0 .. 100
          /\ FieldQuality(d) \in 0 .. 100 /\ FieldQuality(e) \in 0 .. 100
      BY <1>1, QualityIsNumber
    <3> QED  BY <3>1, <3>2 DEF CombinePair
  <2>5. Confidence(S, <<a, b>>, q, <<x, y>>) \in Int
    BY ConfidenceIsNumber
  <2> HIDE DEF d, e, layer, gate, quality
  <2> QED  BY <2>1, <2>2, <2>3, <2>4, <2>5
<1>4. IsFiniteSet(DetectCrossBidderAnomalies(l, r))
  <2> HIDE DEF only
  <2>1. IsFiniteSet({only})
    BY FS_Singleton
  <2> QED  BY <1>2, <2>1, FS_Subset
<1>5. ASSUME NEW f \in DetectCrossBidderAnomalies(l, r) PROVE Rateable(f)
  <2>1. f = only /\ confidence >= 70
    BY <1>2
  <2>2. f.confidence = confidence
    BY <2>1 DEF Finding
  <2>3. f.kind = "cross_bidder" /\ f.flag \in CopyFlags
    BY DetectedAreNamed DEF CopyFlags
  <2> HIDE DEF confidence, only
  <2>4. f.confidence \in Nat
    BY <1>3, <2>1, <2>2
  <2> QED  BY <2>3, <2>4 DEF Rateable
<1> QED  BY <1>4, <1>5

LEMMA ReusedIsRateable ==
    ASSUME NEW c \in Cases
    PROVE  IsFiniteSet(Reused(c)) /\ \A f \in Reused(c) : Rateable(f)
<1> DEFINE Others == UNION {ToSet(o.docs) : o \in ToSet(c.corpus)}
           P == ToSet(c.docs) \X Others
           found == UNION {DetectCrossBidderAnomalies(p[1], p[2]) : p \in P}
<1>1. \A s : s \in Seq(ToSet(s)) => IsFiniteSet(ToSet(s))
  <2> SUFFICES ASSUME NEW s, s \in Seq(ToSet(s)) PROVE IsFiniteSet(ToSet(s))
    OBVIOUS
  <2>1. Len(s) \in Nat /\ DOMAIN s = 1 .. Len(s) /\ \A x \in ToSet(s) : \E i \in DOMAIN s : x = s[i]
    BY PlacesOfSeq
  <2>2. IsFiniteSet(DOMAIN s)
    BY <2>1, FirstNumbers
  <2> QED  BY <2>1, <2>2, ImageIsFinite
<1>2. IsFiniteSet(P)
  <2>1. IsFiniteSet(ToSet(c.docs)) /\ IsFiniteSet(ToSet(c.corpus)) /\ \A o \in ToSet(c.corpus) : IsFiniteSet(ToSet(o.docs))
    BY <1>1, CaseLists
  <2>2. IsFiniteSet(Others)
    <3> DEFINE g == [o \in ToSet(c.corpus) |-> ToSet(o.docs)]
               T == {ToSet(o.docs) : o \in ToSet(c.corpus)}
    <3>1. \A t \in T : \E o \in ToSet(c.corpus) : t = g[o]
      OBVIOUS
    <3>2. \A t \in T : IsFiniteSet(t)
      BY <2>1
    <3> HIDE DEF g, T
    <3>3. IsFiniteSet(T)
      BY <2>1, <3>1, ImageIsFinite
    <3>4. IsFiniteSet(UNION T)
      BY <3>2, <3>3, FS_UNION
    <3> QED  BY <3>4 DEF T
  <2> HIDE DEF Others
  <2> QED  BY <2>1, <2>2, FS_Product
<1>3. \A p \in P : IsDocument(p[1]) /\ IsDocument(p[2])
  <2>1. \A d \in ToSet(c.docs) : IsDocument(d)
    BY CaseAssumption
  <2>2. \A d \in Others : IsDocument(d)
    BY CaseAssumption
  <2> HIDE DEF Others
  <2> QED  BY <2>1, <2>2
<1>4. IsFiniteSet(found)
  <2> DEFINE g == [p \in P |-> DetectCrossBidderAnomalies(p[1], p[2])]
             T == {DetectCrossBidderAnomalies(p[1], p[2]) : p \in P}
  <2>1. \A t \in T : IsFiniteSet(t)
    BY <1>3, DetectedIsRateable
  <2>2. \A t \in T : \E p \in P : t = g[p]
    <3> HIDE DEF P
    <3> QED  OBVIOUS
  <2> HIDE DEF P, T, g
  <2>3. IsFiniteSet(T)
    BY <1>2, <2>2, ImageIsFinite
  <2>4. IsFiniteSet(UNION T)
    BY <2>1, <2>3, FS_UNION
  <2> QED  BY <2>4 DEF T
<1>5. ASSUME NEW f \in Reused(c)
      PROVE  \E g \in found : f = AttachVerificationRefs(g, c.verifications, c.corpus) /\ Rateable(f)
  <2>1. PICK p \in OrderedPairs(c.docs, c.corpus) :
           \E g \in DetectCrossBidderAnomalies(p[1], p[2]) : f = AttachVerificationRefs(g, c.verifications, c.corpus)
    BY DEF Reused, CrossBidderFindings
  <2>2. PICK g \in DetectCrossBidderAnomalies(p[1], p[2]) : f = AttachVerificationRefs(g, c.verifications, c.corpus)
    BY <2>1
  <2>3. p \in P
    <3>1. p[1] \in ToSet(c.docs) /\ \E k \in DOMAIN c.corpus : p[2] \in ToSet(c.corpus[k].docs)
      BY PairsAreOfTwo
    <3>2. p = <<p[1], p[2]>>
      BY DEF OrderedPairs
    <3>3. \A k \in DOMAIN c.corpus : c.corpus[k] \in ToSet(c.corpus)
      BY DEF ToSet
    <3>4. p[2] \in Others
      BY <3>1, <3>3
    <3> HIDE DEF Others
    <3> QED  BY <3>1, <3>2, <3>4
  <2>4. IsDocument(p[1]) /\ IsDocument(p[2])
    BY <1>3, <2>3
  <2>5. Rateable(g) /\ DOMAIN g = {"kind", "about", "flag", "confidence", "evidence", "docs", "cites"}
    BY <2>2, <2>4, DetectedIsRateable, DetectedAreNamed
  <2>6. Rateable(f)
    BY <2>2, <2>5, AttachKeeps DEF Rateable
  <2>7. g \in found
    BY <2>2, <2>3
  <2> QED  BY <2>2, <2>6, <2>7
<1>6. IsFiniteSet(Reused(c))
  <2> DEFINE h == [g \in found |-> AttachVerificationRefs(g, c.verifications, c.corpus)]
  <2>1. \A f \in Reused(c) : \E g \in found : f = h[g]
    <3> SUFFICES ASSUME NEW f \in Reused(c) PROVE \E g \in found : f = h[g]
      OBVIOUS
    <3> HIDE DEF found
    <3> QED  BY <1>5
  <2> HIDE DEF h, found
  <2> QED  BY <1>4, <2>1, ImageIsFinite
<1> HIDE DEF found
<1> QED  BY <1>5, <1>6

-------------------------------------------------------------------------------
(* The document score, with a record or a finding less.                     *)

\* The same list, or the list without one of its records.
Dropped(y, x) == y = x \/ \E i \in DOMAIN x : y = RemoveAt(x, i)

LEMMA ConcatAt ==
    ASSUME NEW S, NEW a \in Seq(S), NEW b \in Seq(S),
           NEW k \in 1 .. Len(a) + Len(b), ~(k <= Len(a))
    PROVE  (a \o b)[k] = b[k - Len(a)]
BY ConcatProperties

LEMMA WithoutOne ==
    ASSUME NEW x, x \in Seq(ToSet(x)), NEW i \in DOMAIN x, NEW y, y = RemoveAt(x, i)
    PROVE  /\ Len(x) \in Nat /\ i \in 1 .. Len(x) /\ Len(y) = Len(x) - 1
           /\ DOMAIN y = 1 .. Len(y) /\ OneLess(x, y, Len(x), i)
<1>1. Len(x) \in Nat /\ i \in 1 .. Len(x)
  BY PlacesOfSeq
<1>2. PICK a : a = SubSeq(x, 1, i - 1)
  OBVIOUS
<1>3. PICK b : b = SubSeq(x, i + 1, Len(x))
  OBVIOUS
<1>4. /\ a \in Seq(ToSet(x)) /\ Len(a) = i - 1 /\ \A j \in 1 .. (i - 1) : a[j] = x[j]
  BY <1>1, <1>2
<1>5. /\ b \in Seq(ToSet(x)) /\ Len(b) = Len(x) - i
      /\ \A j \in 1 .. (Len(x) - i) : b[j] = x[j + i]
  BY <1>1, <1>3
<1>6. y = a \o b
  BY <1>2, <1>3 DEF RemoveAt
<1>7. /\ Len(y) = Len(x) - 1 /\ DOMAIN y = 1 .. Len(y)
  BY <1>1, <1>4, <1>5, <1>6
<1>8. ASSUME NEW j \in 1 .. (Len(x) - 1) PROVE y[j] = IF j < i THEN x[j] ELSE x[j + 1]
  <2>1. CASE j < i
    <3>1. y[j] = a[j]
      BY <1>1, <1>4, <1>5, <1>6, <2>1
    <3> QED  BY <1>1, <1>4, <2>1, <3>1
  <2>2. CASE ~(j < i)
    <3>1. y[j] = b[j - (i - 1)]
      <4>1. j \in 1 .. Len(a) + Len(b) /\ ~(j <= Len(a))
        BY <1>1, <1>4, <1>5, <2>2
      <4>2. (a \o b)[j] = b[j - Len(a)]
        BY <1>4, <1>5, <4>1, ConcatAt
      <4>3. y[j] = b[j - Len(a)]
        BY <1>6, <4>2
      <4> QED  BY <1>4, <4>3
    <3>2. j - (i - 1) \in 1 .. (Len(x) - i) /\ (j - (i - 1)) + i = j + 1
      BY <1>1, <2>2
    <3> QED  BY <1>5, <2>2, <3>1, <3>2
  <2> QED  BY <2>1, <2>2
<1> QED  BY <1>1, <1>7, <1>8 DEF OneLess

LEMMA DroppedIsPart ==
    ASSUME NEW x, x \in Seq(ToSet(x)), NEW y, Dropped(y, x)
    PROVE  ToSet(y) \subseteq ToSet(x) /\ Len(y) \in Nat /\ DOMAIN y = 1 .. Len(y)
<1>1. CASE y = x
  BY <1>1, PlacesOfSeq
<1>2. CASE \E i \in DOMAIN x : y = RemoveAt(x, i)
  <2>1. PICK i \in DOMAIN x : y = RemoveAt(x, i)
    BY <1>2
  <2>2. /\ Len(x) \in Nat /\ i \in 1 .. Len(x) /\ Len(y) = Len(x) - 1
        /\ DOMAIN y = 1 .. Len(y) /\ OneLess(x, y, Len(x), i)
    BY <2>1, WithoutOne
  <2>3. ASSUME NEW j \in DOMAIN y PROVE y[j] \in ToSet(x)
    <3>1. j \in 1 .. (Len(x) - 1) /\ j \in 1 .. Len(x) /\ j + 1 \in 1 .. Len(x)
      BY <2>2
    <3>2. y[j] = x[j] \/ y[j] = x[j + 1]
      BY <2>2, <3>1 DEF OneLess
    <3>3. \A k \in 1 .. Len(x) : x[k] \in ToSet(x)
      BY PlacesOfSeq
    <3> QED  BY <3>1, <3>2, <3>3
  <2>4. Len(y) \in Nat
    BY <2>2
  <2> QED  BY <2>2, <2>3, <2>4 DEF ToSet
<1> QED  BY <1>1, <1>2 DEF Dropped

LEMMA DroppedIsListed ==
    ASSUME NEW x, x \in Seq(ToSet(x)), AnsweredOnce(x), NEW y, Dropped(y, x)
    PROVE  DOMAIN y \in SUBSET Nat /\ IsFiniteSet(DOMAIN y) /\ AnsweredOnce(y)
<1>1. DOMAIN y = 1 .. Len(y) /\ Len(y) \in Nat
  BY DroppedIsPart
<1>2. DOMAIN y \in SUBSET Nat /\ IsFiniteSet(DOMAIN y)
  BY <1>1, FirstNumbers
<1>3. CASE y = x
  BY <1>2, <1>3
<1>4. CASE \E i \in DOMAIN x : y = RemoveAt(x, i)
  <2>1. PICK i \in DOMAIN x : y = RemoveAt(x, i)
    BY <1>4
  <2>2. /\ Len(x) \in Nat /\ i \in 1 .. Len(x) /\ Len(y) = Len(x) - 1
        /\ DOMAIN y = 1 .. Len(y) /\ OneLess(x, y, Len(x), i)
    BY <2>1, WithoutOne
  <2>3. DOMAIN x = 1 .. Len(x)
    BY PlacesOfSeq
  <2>4. ASSUME NEW j \in DOMAIN y, NEW k \in DOMAIN y, y[j].req = y[k].req PROVE j = k
    <3>1. /\ j \in 1 .. (Len(x) - 1) /\ j \in DOMAIN x /\ j + 1 \in DOMAIN x
          /\ k \in 1 .. (Len(x) - 1) /\ k \in DOMAIN x /\ k + 1 \in DOMAIN x
      BY <2>2, <2>3
    <3>2. PICK p \in DOMAIN x, q \in DOMAIN x :
             /\ p = (IF j < i THEN j ELSE j + 1) /\ q = (IF k < i THEN k ELSE k + 1)
             /\ y[j] = x[p] /\ y[k] = x[q]
      BY <2>2, <3>1 DEF OneLess
    <3>3. p = q
      BY <2>4, <3>2 DEF AnsweredOnce
    <3>4. j \in Int /\ k \in Int /\ i \in Int
      BY <2>2, <3>1
    <3> QED  BY <3>2, <3>3, <3>4
  <2> QED  BY <1>2, <2>4 DEF AnsweredOnce
<1> QED  BY <1>3, <1>4 DEF Dropped

LEMMA SeqIsFinite ==
    ASSUME NEW s, s \in Seq(ToSet(s))
    PROVE  IsFiniteSet(ToSet(s))
<1>1. Len(s) \in Nat /\ DOMAIN s = 1 .. Len(s) /\ \A x \in ToSet(s) : \E i \in DOMAIN s : x = s[i]
  BY PlacesOfSeq
<1>2. IsFiniteSet(DOMAIN s)
  BY <1>1, FirstNumbers
<1> QED  BY <1>1, <1>2, ImageIsFinite

\* Fewer records deduct no more.
LEMMA DeductionsGrow ==
    ASSUME NEW x, x \in Seq(ToSet(x)), NEW y, Dropped(y, x), NEW type,
           NEW table \in {ComplianceDeduction, VerificationDeduction}
    PROVE  /\ Deductions(table, type, x) \in Nat /\ Deductions(table, type, y) \in Nat
           /\ Deductions(table, type, y) <= Deductions(table, type, x)
<1> DEFINE each(r) == IF type \in ExpectedDocumentsFor(r.cap) THEN Deduction(table, r.status) ELSE 0
           of(s) == [i \in DOMAIN s |-> each(s[i])]
<1>1. \A r : each(r) \in Nat
  <2>1. \A k : Deduction(table, k) \in Nat
    BY DEF Deduction, ComplianceDeduction, VerificationDeduction
  <2> QED  BY <2>1
<1>2. \A s : Deductions(table, type, s) = Sum(of(s))
  BY DEF Deductions
<1> HIDE DEF each
<1>3. ASSUME NEW s, Len(s) \in Nat, DOMAIN s = 1 .. Len(s)
      PROVE  /\ Len(of(s)) = Len(s) /\ Summands(of(s), Len(s)) /\ Sum(of(s)) \in Nat
             /\ \A i \in 1 .. Len(s) : of(s)[i] = each(s[i]) /\ of(s)[i] >= 0
  <2>1. Len(of(s)) = Len(s)
    BY <1>3
  <2>2. \A i \in 1 .. Len(s) : of(s)[i] = each(s[i]) /\ of(s)[i] \in Nat
    BY <1>1, <1>3
  <2> HIDE DEF of
  <2>3. Summands(of(s), Len(s))
    BY <2>2 DEF Summands
  <2>4. Sum(of(s)) \in Nat
    <3>1. Sum(of(s)) \in Int /\ Sum(of(s)) >= 0
      BY <1>3, <2>1, <2>2, <2>3, SumIsNumber
    <3> QED  BY <3>1
  <2> QED  BY <2>1, <2>2, <2>3, <2>4
<1> HIDE DEF of
<1>4. /\ Len(x) \in Nat /\ DOMAIN x = 1 .. Len(x) /\ Len(y) \in Nat /\ DOMAIN y = 1 .. Len(y)
  BY PlacesOfSeq, DroppedIsPart
<1>5. Sum(of(y)) <= Sum(of(x))
  <2>1. CASE y = x
    BY <1>3, <1>4, <2>1
  <2>2. CASE \E i \in DOMAIN x : y = RemoveAt(x, i)
    <3>1. PICK i \in DOMAIN x : y = RemoveAt(x, i)
      BY <2>2
    <3>2. /\ i \in 1 .. Len(x) /\ Len(y) = Len(x) - 1 /\ OneLess(x, y, Len(x), i)
      BY <3>1, WithoutOne
    <3>3. PICK n \in Nat : n = Len(x)
      BY <1>4
    <3>4. /\ Len(of(x)) = n /\ Summands(of(x), n) /\ of(x)[i] >= 0 /\ Len(of(y)) = n - 1
      BY <1>3, <1>4, <3>2, <3>3
    <3>5. OneLess(of(x), of(y), n, i)
      <4>1. ASSUME NEW j \in 1 .. (n - 1) PROVE of(y)[j] = IF j < i THEN of(x)[j] ELSE of(x)[j + 1]
        <5>1. j \in 1 .. Len(y) /\ j \in 1 .. Len(x) /\ j + 1 \in 1 .. Len(x)
          BY <1>4, <3>2, <3>3
        <5>2. /\ of(y)[j] = each(y[j]) /\ of(x)[j] = each(x[j]) /\ of(x)[j + 1] = each(x[j + 1])
          BY <1>3, <1>4, <5>1
        <5>3. y[j] = IF j < i THEN x[j] ELSE x[j + 1]
          BY <3>2, <3>3 DEF OneLess
        <5> QED  BY <5>2, <5>3
      <4> QED  BY <4>1 DEF OneLess
    <3>6. i \in 1 .. n
      BY <3>2, <3>3
    <3> QED  BY <3>4, <3>5, <3>6, SumOfOneLess
  <2> QED  BY <2>1, <2>2 DEF Dropped
<1> QED  BY <1>2, <1>3, <1>4, <1>5

LEMMA FlagsAreFinite ==
    ASSUME NEW d, NEW evidence, NEW K, IsFiniteSet(K)
    PROVE  IsFiniteSet(FlagsForType(d, evidence, K))
<1> DEFINE flag == [f \in K |-> f.flag]
<1>1. \A t \in FlagsForType(d, evidence, K) : \E f \in K : t = flag[f]
  BY DEF FlagsForType
<1> HIDE DEF flag
<1> QED  BY <1>1, ImageIsFinite

FlagsListed(records) == \A r \in ToSet(records) : r.flags \in Seq(ToSet(r.flags))

\* The first of two scores of a document is the worse one.
Harsher(a, b, type) ==
    /\ a.type = type /\ b.type = type
    /\ a.score \in 0 .. 100 /\ b.score \in 0 .. 100 /\ a.score <= b.score
    /\ (b.material => a.material) /\ (b.failed => a.failed)

\* One document: with a record or a finding less its score is no lower, and
\* nothing is held against it that was not before.
LEMMA ScoreOfOneGrows ==
    ASSUME NEW d, NEW evidence, NEW q, NEW K, IsFiniteSet(K), NEW L \in SUBSET K,
           NEW r, r \in Seq(ToSet(r)), FlagsListed(r),
           NEW s, Dropped(s, r), NEW v, v \in Seq(ToSet(v)), NEW w, Dropped(w, v)
    PROVE  Harsher(ScoreDocument(d, evidence, r, v, K, q), ScoreDocument(d, evidence, s, w, L, q), CanonicalType(d.type))
<1>0. PICK a, b : /\ a = ScoreDocument(d, evidence, r, v, K, q)
                  /\ b = ScoreDocument(d, evidence, s, w, L, q)
  OBVIOUS
<1> DEFINE type == CanonicalType(d.type)
           mine == SelectSeq(evidence, LAMBDA e : e.document = d.id)
           flags(records, found) == {f \in FlagsForType(d, mine, found)
                                             \cup UNION {ToSet(x.flags) : x \in OfType(type, records)} : Material(f)}
           fixed == (IF mine = <<>> THEN 35 ELSE 0) + (IF LowConfidence(mine) THEN 15 ELSE 0)
           failed(records, answers) ==
              \/ \E x \in OfType(type, records) : x.status \in {"FAIL", "MISSING"}
              \/ \E x \in OfType(type, answers) : x.status \in {"INVALID", "INACTIVE", "NOT_FOUND"}
           lost(records, answers, found) ==
              fixed + Deductions(ComplianceDeduction, type, records)
              + Deductions(VerificationDeduction, type, answers)
              + 25 * Cardinality(flags(records, found)) + Deduction(QualityDeduction, q)
<1>1. /\ a = [type |-> type, score |-> Clamp(100 - lost(r, v, K)), material |-> flags(r, K) # {},
              failed |-> failed(r, v)]
      /\ b = [type |-> type, score |-> Clamp(100 - lost(s, w, L)), material |-> flags(s, L) # {},
              failed |-> failed(s, w)]
  BY <1>0 DEF ScoreDocument
<1>2. ToSet(s) \subseteq ToSet(r) /\ ToSet(w) \subseteq ToSet(v)
  BY DroppedIsPart
<1>3. flags(s, L) \subseteq flags(r, K)
  <2>1. OfType(type, s) \subseteq OfType(type, r)
    BY <1>2 DEF OfType
  <2>2. FlagsForType(d, mine, L) \subseteq FlagsForType(d, mine, K)
    BY DEF FlagsForType
  <2> HIDE DEF mine, type
  <2>3. ASSUME NEW f \in flags(s, L) PROVE f \in flags(r, K)
    <3>1. f \in FlagsForType(d, mine, K) \/ \E x \in OfType(type, r) : f \in ToSet(x.flags)
      BY <2>1, <2>2
    <3> QED  BY <3>1
  <2> QED  BY <2>3
<1>4. failed(s, w) => failed(r, v)
  <2> HIDE DEF type
  <2> QED  BY <1>2 DEF OfType
<1>5. IsFiniteSet(flags(r, K))
  <2> DEFINE J == OfType(type, r)
             of == [x \in J |-> ToSet(x.flags)]
             T == {ToSet(x.flags) : x \in J}
             U == FlagsForType(d, mine, K) \cup UNION T
  <2>1. IsFiniteSet(J)
    <3>1. IsFiniteSet(ToSet(r))
      BY SeqIsFinite
    <3>2. J \in SUBSET ToSet(r)
      BY DEF OfType
    <3> QED  BY <3>1, <3>2, FS_Subset
  <2>2. \A t \in T : IsFiniteSet(t)
    BY SeqIsFinite DEF OfType, FlagsListed
  <2>3. \A t \in T : \E x \in J : t = of[x]
    <3> HIDE DEF J
    <3> QED  OBVIOUS
  <2>4. IsFiniteSet(UNION T)
    <3> HIDE DEF J, of, T
    <3>1. IsFiniteSet(T)
      BY <2>1, <2>3, ImageIsFinite
    <3> QED  BY <2>2, <3>1, FS_UNION
  <2>5. IsFiniteSet(FlagsForType(d, mine, K))
    BY FlagsAreFinite
  <2>6. IsFiniteSet(U)
    <3> HIDE DEF T
    <3> QED  BY <2>4, <2>5, FS_Union
  <2>7. flags(r, K) \in SUBSET U
    OBVIOUS
  <2> HIDE DEF flags, U
  <2> QED  BY <2>6, <2>7, FS_Subset
<1> HIDE DEF flags
<1>6. PICK m \in Nat, n \in Nat : m = Cardinality(flags(r, K)) /\ n = Cardinality(flags(s, L)) /\ n <= m
  <2>1. IsFiniteSet(flags(s, L)) /\ Cardinality(flags(s, L)) <= Cardinality(flags(r, K))
    BY <1>3, <1>5, FS_Subset
  <2> QED  BY <1>5, <2>1, FS_CardinalityType
<1>7. PICK c1 \in Nat, c2 \in Nat :
         c1 = Deductions(ComplianceDeduction, type, r) /\ c2 = Deductions(ComplianceDeduction, type, s) /\ c2 <= c1
  BY DeductionsGrow
<1>8. PICK v1 \in Nat, v2 \in Nat :
         v1 = Deductions(VerificationDeduction, type, v) /\ v2 = Deductions(VerificationDeduction, type, w) /\ v2 <= v1
  BY DeductionsGrow
<1>9. PICK z \in Nat : z = Deduction(QualityDeduction, q)
  <2>1. Deduction(QualityDeduction, q) \in Nat
    BY DEF Deduction, QualityDeduction
  <2> QED  BY <2>1
<1>10. PICK x \in Nat : x = fixed
  <2>1. \A u, t : (IF u THEN 35 ELSE 0) + (IF t THEN 15 ELSE 0) \in Nat
    OBVIOUS
  <2> HIDE DEF mine
  <2>2. fixed \in Nat
    BY <2>1
  <2> QED  BY <2>2
<1> HIDE DEF fixed
<1>11. /\ lost(r, v, K) = x + c1 + v1 + 25 * m + z
       /\ lost(s, w, L) = x + c2 + v2 + 25 * n + z
  BY <1>6, <1>7, <1>8, <1>9, <1>10
<1>12. PICK h \in Nat, k \in Nat : h = lost(r, v, K) /\ k = lost(s, w, L) /\ k <= h
  <2>0. n <= m /\ c2 <= c1 /\ v2 <= v1
    BY <1>6, <1>7, <1>8
  <2>1. /\ x + c1 + v1 + 25 * m + z \in Nat /\ x + c2 + v2 + 25 * n + z \in Nat
        /\ x + c2 + v2 + 25 * n + z <= x + c1 + v1 + 25 * m + z
    BY <2>0
  <2> QED  BY <1>11, <2>1
<1> HIDE DEF lost, failed, type
<1>13. /\ a.score = Clamp(100 - h) /\ b.score = Clamp(100 - k) /\ a.type = type /\ b.type = type
  BY <1>1, <1>12
<1>14. b.material => a.material
  <2>1. a.material = (flags(r, K) # {}) /\ b.material = (flags(s, L) # {})
    BY <1>1
  <2> QED  BY <1>3, <2>1
<1>15. b.failed => a.failed
  <2>1. a.failed = failed(r, v) /\ b.failed = failed(s, w)
    BY <1>1
  <2> QED  BY <1>4, <2>1
<1>16. Clamp(100 - h) \in 0 .. 100 /\ Clamp(100 - k) \in 0 .. 100 /\ Clamp(100 - h) <= Clamp(100 - k)
  <2>1. k <= h
    BY <1>12
  <2> QED  BY <2>1 DEF Clamp
<1> QED  BY <1>0, <1>13, <1>14, <1>15, <1>16 DEF type, Harsher

Priorities == {"CRITICAL", "HIGH", "MEDIUM", "LOW"}

\* Every type a document is given has a priority, so a weight.
LEMMA CanonicalIsWeighed ==
    ASSUME NEW t
    PROVE  Priority(CanonicalType(t)) \in Priorities /\ Weight[Priority(CanonicalType(t))] \in {25, 55, 80, 100}
<1>1. DOMAIN Weight = Priorities
  BY DEF Weight, Priorities
<1>2. \E p \in DOMAIN Weight : CanonicalType(t) \in DEFAULT_DOCUMENT_IMPORTANCE[p]
  <2>1. "UNKNOWN" \in DEFAULT_DOCUMENT_IMPORTANCE["LOW"]
    BY DEF DEFAULT_DOCUMENT_IMPORTANCE
  <2> DEFINE name == NormalizeDocumentType(t)
  <2>2. CanonicalType(t) = IF \E p \in DOMAIN Weight : name \in DEFAULT_DOCUMENT_IMPORTANCE[p] THEN name ELSE "UNKNOWN"
    BY DEF CanonicalType
  <2> HIDE DEF name
  <2> QED  BY <1>1, <2>1, <2>2 DEF Priorities
<1> HIDE DEF CanonicalType
<1>3. Priority(CanonicalType(t)) \in DOMAIN Weight
  BY <1>2 DEF Priority
<1>4. Weight["CRITICAL"] = 100 /\ Weight["HIGH"] = 80 /\ Weight["MEDIUM"] = 55 /\ Weight["LOW"] = 25
  BY DEF Weight
<1> QED  BY <1>1, <1>3, <1>4 DEF Priorities

LEMMA MissingGrows ==
    ASSUME NEW m, IsFiniteSet(m), NEW k \in SUBSET m
    PROVE  MissingWeight(m) \in Nat /\ MissingWeight(k) \in Nat /\ MissingWeight(k) <= MissingWeight(m)
<1> DEFINE of(s, p) == Cardinality({t \in s : Priority(t) = p})
<1>1. \A p : of(m, p) \in Nat /\ of(k, p) \in Nat /\ of(k, p) <= of(m, p)
  <2> SUFFICES ASSUME NEW p PROVE of(m, p) \in Nat /\ of(k, p) \in Nat /\ of(k, p) <= of(m, p)
    OBVIOUS
  <2> DEFINE M == {t \in m : Priority(t) = p}
             K == {t \in k : Priority(t) = p}
  <2>1. M \in SUBSET m /\ K \in SUBSET M
    OBVIOUS
  <2> HIDE DEF M, K
  <2>2. IsFiniteSet(M)
    BY <2>1, FS_Subset
  <2>3. IsFiniteSet(K) /\ Cardinality(K) <= Cardinality(M)
    BY <2>1, <2>2, FS_Subset
  <2>4. Cardinality(M) \in Nat /\ Cardinality(K) \in Nat
    BY <2>2, <2>3, FS_CardinalityType
  <2> QED  BY <2>3, <2>4 DEF M, K
<1>2. \A s : MissingWeight(s) = 100 * of(s, "CRITICAL") + 80 * of(s, "HIGH") + 55 * of(s, "MEDIUM") + 25 * of(s, "LOW")
  BY DEF MissingWeight, Weight
<1> HIDE DEF of
<1>3. \A p : \E x \in Nat, y \in Nat : x = of(m, p) /\ y = of(k, p) /\ y <= x
  BY <1>1
<1>4. PICK a \in Nat, e \in Nat : a = of(m, "CRITICAL") /\ e = of(k, "CRITICAL") /\ e <= a
  BY <1>3
<1>5. PICK b \in Nat, f \in Nat : b = of(m, "HIGH") /\ f = of(k, "HIGH") /\ f <= b
  BY <1>3
<1>6. PICK c \in Nat, g \in Nat : c = of(m, "MEDIUM") /\ g = of(k, "MEDIUM") /\ g <= c
  BY <1>3
<1>7. PICK d \in Nat, h \in Nat : d = of(m, "LOW") /\ h = of(k, "LOW") /\ h <= d
  BY <1>3
<1>8. /\ MissingWeight(m) = 100 * a + 80 * b + 55 * c + 25 * d
      /\ MissingWeight(k) = 100 * e + 80 * f + 55 * g + 25 * h
  BY <1>2, <1>4, <1>5, <1>6, <1>7
<1>9. e <= a /\ f <= b /\ g <= c /\ h <= d
  BY <1>4, <1>5, <1>6, <1>7
<1>10. /\ 100 * a + 80 * b + 55 * c + 25 * d \in Nat /\ 100 * e + 80 * f + 55 * g + 25 * h \in Nat
       /\ 100 * e + 80 * f + 55 * g + 25 * h <= 100 * a + 80 * b + 55 * c + 25 * d
  BY <1>9
<1> QED  BY <1>8, <1>10

LEMMA ExpectedIsOfOne ==
    ASSUME NEW requirements, NEW results, NEW t \in ExpectedTypes(requirements, results)
    PROVE  \E cap : t \in ExpectedDocumentsFor(cap)
BY DEF ExpectedTypes

LEMMA ExpectedIsFinite ==
    ASSUME NEW requirements, NEW results
    PROVE  IsFiniteSet(ExpectedTypes(requirements, results))
<1> DEFINE names == <<"GST", "PAN", "FINANCIAL", "UDYAM", "MAKE_IN_INDIA", "BIS", "DIGILOCKER", "OEM", "MCA21", "DEBARMENT">>
<1>1. ASSUME NEW t, NEW cap, t \in ExpectedDocumentsFor(cap)
      PROVE  \E i \in 1 .. 10 : t = names[i]
  <2>1. t \in {"GST", "PAN", "FINANCIAL", "UDYAM", "MAKE_IN_INDIA", "BIS", "DIGILOCKER", "OEM", "MCA21", "DEBARMENT"}
    BY <1>1 DEF ExpectedDocumentsFor, DEFAULT_REQUIRED_DOCUMENTS
  <2>2. /\ names[1] = "GST" /\ names[2] = "PAN" /\ names[3] = "FINANCIAL" /\ names[4] = "UDYAM"
        /\ names[5] = "MAKE_IN_INDIA" /\ names[6] = "BIS" /\ names[7] = "DIGILOCKER" /\ names[8] = "OEM"
        /\ names[9] = "MCA21" /\ names[10] = "DEBARMENT"
    OBVIOUS
  <2>3. \A i \in {1, 2, 3, 4, 5, 6, 7, 8, 9, 10} : i \in 1 .. 10
    OBVIOUS
  <2> HIDE DEF names
  <2> QED  BY <2>1, <2>2, <2>3
<1>2. \A t \in ExpectedTypes(requirements, results) : \E i \in 1 .. 10 : t = names[i]
  <2> SUFFICES ASSUME NEW t \in ExpectedTypes(requirements, results) PROVE \E i \in 1 .. 10 : t = names[i]
    OBVIOUS
  <2>1. \E cap : t \in ExpectedDocumentsFor(cap)
    BY ExpectedIsOfOne
  <2> HIDE DEF names
  <2> QED  BY <1>1, <2>1
<1>3. IsFiniteSet(1 .. 10)
  BY FirstNumbers
<1> HIDE DEF names
<1> QED  BY <1>2, <1>3, ImageIsFinite

\* A type that is expected has a priority, so it weighs when it is missing.
LEMMA ExpectedIsWeighed ==
    ASSUME NEW requirements, NEW results, NEW t \in ExpectedTypes(requirements, results)
    PROVE  Priority(t) \in Priorities
<1>1. DOMAIN Weight = Priorities
  BY DEF Weight, Priorities
<1>2. PICK cap : t \in ExpectedDocumentsFor(cap)
  BY ExpectedIsOfOne
<1>3. t \in {"GST", "PAN", "FINANCIAL", "UDYAM", "MAKE_IN_INDIA", "BIS", "DIGILOCKER", "OEM", "MCA21", "DEBARMENT"}
  BY <1>2 DEF ExpectedDocumentsFor, DEFAULT_REQUIRED_DOCUMENTS
<1>4. \E p \in Priorities : t \in DEFAULT_DOCUMENT_IMPORTANCE[p]
  BY <1>3 DEF DEFAULT_DOCUMENT_IMPORTANCE, Priorities
<1> QED  BY <1>1, <1>4 DEF Priority

LEMMA MissingWeighs ==
    ASSUME NEW m, IsFiniteSet(m), NEW t \in m, Priority(t) \in Priorities
    PROVE  MissingWeight(m) \in Nat /\ MissingWeight(m) > 0
<1> DEFINE M(p) == {u \in m : Priority(u) = p}
<1>1. ASSUME NEW p PROVE IsFiniteSet(M(p)) /\ Cardinality(M(p)) \in Nat
  <2>1. M(p) \in SUBSET m
    OBVIOUS
  <2> HIDE DEF M
  <2>2. IsFiniteSet(M(p))
    BY <2>1, FS_Subset
  <2> QED  BY <2>2, FS_CardinalityType
<1>2. Cardinality(M(Priority(t))) # 0
  <2>1. M(Priority(t)) # {}
    OBVIOUS
  <2> HIDE DEF M
  <2> QED  BY <1>1, <2>1, FS_EmptySet
<1>3. MissingWeight(m) = 100 * Cardinality(M("CRITICAL")) + 80 * Cardinality(M("HIGH"))
                         + 55 * Cardinality(M("MEDIUM")) + 25 * Cardinality(M("LOW"))
  BY DEF MissingWeight, Weight
<1> HIDE DEF M
<1>4. PICK a \in Nat, b \in Nat, c \in Nat, d \in Nat :
         /\ a = Cardinality(M("CRITICAL")) /\ b = Cardinality(M("HIGH"))
         /\ c = Cardinality(M("MEDIUM")) /\ d = Cardinality(M("LOW"))
  BY <1>1
<1>5. a # 0 \/ b # 0 \/ c # 0 \/ d # 0
  BY <1>2, <1>4 DEF Priorities
<1>6. MissingWeight(m) = 100 * a + 80 * b + 55 * c + 25 * d
  BY <1>3, <1>4
<1>7. 100 * a + 80 * b + 55 * c + 25 * d \in Nat /\ 100 * a + 80 * b + 55 * c + 25 * d > 0
  BY <1>5
<1> QED  BY <1>6, <1>7

Rises(p, q, n) == \A i \in 1 .. n :
    /\ Weight[Priority(p[i].type)] \in {25, 55, 80, 100} /\ q[i].type = p[i].type
    /\ p[i].score \in 0 .. 100 /\ q[i].score \in 0 .. 100 /\ p[i].score <= q[i].score

\* The weighted mean over n documents: the scores may only rise, what is
\* missing only shrink.
LEMMA MeanGrows ==
    ASSUME NEW n \in Nat, NEW p, NEW q, DOMAIN p = 1 .. n, DOMAIN q = 1 .. n,
           Rises(p, q, n),
           NEW m, IsFiniteSet(m), NEW k \in SUBSET m, NEW limit \in {50, 80},
           Below(WeightedScore([present |-> q, missing |-> k]), limit)
    PROVE  Below(WeightedScore([present |-> p, missing |-> m]), limit)
<1> DEFINE w(s) == [i \in 1 .. n |-> Weight[Priority(s[i].type)]]
           x(s) == [i \in 1 .. n |-> Weight[Priority(s[i].type)] * s[i].score]
<1>1. /\ WeightedScore([present |-> p, missing |-> m]) = <<Sum(x(p)), Sum(w(p)) + MissingWeight(m)>>
      /\ WeightedScore([present |-> q, missing |-> k]) = <<Sum(x(q)), Sum(w(q)) + MissingWeight(k)>>
  BY DEF WeightedScore
<1>2. ASSUME NEW i \in 1 .. n
      PROVE  /\ w(p)[i] \in Int /\ x(p)[i] \in Int /\ x(q)[i] \in Int /\ x(p)[i] <= x(q)[i]
             /\ w(q)[i] = w(p)[i]
  <2>1. PICK a \in {25, 55, 80, 100} : a = Weight[Priority(p[i].type)]
    BY DEF Rises
  <2>2. PICK b \in 0 .. 100, c \in 0 .. 100 : b = p[i].score /\ c = q[i].score /\ b <= c
    BY ZenonT(40) DEF Rises
  <2>3. q[i].type = p[i].type
    BY DEF Rises
  <2>4. /\ w(p)[i] = a /\ w(q)[i] = a /\ x(p)[i] = a * b /\ x(q)[i] = a * c
    BY <2>1, <2>2, <2>3
  <2>5. b <= c
    BY <2>2
  <2>6. a * b \in Int /\ a * c \in Int /\ a * b <= a * c
    BY <2>5
  <2> QED  BY <2>4, <2>6
<1>3. w(q) = w(p)
  BY <1>2
<1>4. Len(w(p)) = n /\ Len(x(p)) = n /\ Len(x(q)) = n
  OBVIOUS
<1> HIDE DEF w, x
<1>5. Summands(w(p), n) /\ Summands(x(p), n) /\ Summands(x(q), n)
  BY <1>2 DEF Summands
<1>6. PICK a \in Int, b \in Int : a = Sum(x(p)) /\ b = Sum(x(q)) /\ a <= b
  <2>1. Sum(x(p)) \in Int /\ Sum(x(q)) \in Int
    BY <1>4, <1>5, SumIsNumber
  <2>2. Sum(x(p)) <= Sum(x(q))
    BY <1>2, <1>4, <1>5, SumGrows
  <2> QED  BY <2>1, <2>2
<1>7. PICK c \in Int : c = Sum(w(p))
  BY <1>4, <1>5, SumIsNumber
<1>8. PICK d \in Nat, e \in Nat : d = MissingWeight(m) /\ e = MissingWeight(k) /\ e <= d
  BY MissingGrows
<1>9. /\ Below(WeightedScore([present |-> p, missing |-> m]), limit) <=> a < limit * (c + d)
      /\ Below(WeightedScore([present |-> q, missing |-> k]), limit) <=> b < limit * (c + e)
  <2>1. /\ WeightedScore([present |-> p, missing |-> m]) = <<a, c + d>>
        /\ WeightedScore([present |-> q, missing |-> k]) = <<b, c + e>>
    BY <1>1, <1>3, <1>6, <1>7, <1>8
  <2>2. \A t, u : Below(<<t, u>>, limit) <=> t < limit * u
    BY DEF Below
  <2> QED  BY <2>1, <2>2
<1>10. b < limit * (c + e)
  BY <1>9
<1>11. a < limit * (c + d)
  <2>1. a <= b /\ e <= d
    BY <1>6, <1>8
  <2> QED  BY <1>10, <2>1
<1> QED  BY <1>9, <1>11

\* The category of the documents is no better before a record or a finding is
\* taken away than after.
LEMMA DocumentScoreGrows ==
    ASSUME NEW docs, docs \in Seq(ToSet(docs)), NEW requirements, NEW evidence, NEW quality,
           NEW K, IsFiniteSet(K), NEW L \in SUBSET K,
           NEW r, r \in Seq(ToSet(r)), FlagsListed(r),
           NEW s, Dropped(s, r), NEW v, v \in Seq(ToSet(v)), NEW w, Dropped(w, v)
    PROVE  Rank[DocumentScore(docs, requirements, evidence, s, w, L, quality).category]
              <= Rank[DocumentScore(docs, requirements, evidence, r, v, K, quality).category]
<1> DEFINE a(i) == ScoreDocument(docs[i], evidence, r, v, K, quality[docs[i].id])
           b(i) == ScoreDocument(docs[i], evidence, s, w, L, quality[docs[i].id])
           have == {CanonicalType(d.type) : d \in ToSet(docs)}
           n == Len(docs)
           p == [i \in 1 .. n |-> a(i)]
           q == [i \in 1 .. n |-> b(i)]
           m == ExpectedTypes(requirements, r) \ have
           k == ExpectedTypes(requirements, s) \ have
           before == [present |-> p, missing |-> m]
           after == [present |-> q, missing |-> k]
<1>1. n \in Nat /\ DOMAIN docs = 1 .. n
  BY PlacesOfSeq
<1>2. /\ Details(docs, requirements, evidence, r, v, K, quality) = before
      /\ Details(docs, requirements, evidence, s, w, L, quality) = after
  BY <1>1 DEF Details
<1>3. /\ DocumentScore(docs, requirements, evidence, r, v, K, quality).category
            = IF p = <<>> /\ m = {} THEN "RED" ELSE Categorize(before)
      /\ DocumentScore(docs, requirements, evidence, s, w, L, quality).category
            = IF q = <<>> /\ k = {} THEN "RED" ELSE Categorize(after)
  BY <1>2 DEF DocumentScore
<1>4. ASSUME NEW i \in 1 .. n
      PROVE  /\ p[i].type = CanonicalType(docs[i].type) /\ q[i].type = p[i].type
             /\ p[i].score \in 0 .. 100 /\ q[i].score \in 0 .. 100 /\ p[i].score <= q[i].score
             /\ (q[i].material => p[i].material) /\ (q[i].failed => p[i].failed)
  <2>1. PICK x : x = a(i)
    OBVIOUS
  <2>2. PICK y : y = b(i)
    OBVIOUS
  <2>3. PICK z : z = quality[docs[i].id]
    OBVIOUS
  <2>4. PICK d : d = docs[i]
    OBVIOUS
  <2>5. /\ x = ScoreDocument(d, evidence, r, v, K, z) /\ y = ScoreDocument(d, evidence, s, w, L, z)
    BY <2>1, <2>2, <2>3, <2>4
  <2>6. Harsher(ScoreDocument(d, evidence, r, v, K, z), ScoreDocument(d, evidence, s, w, L, z), CanonicalType(d.type))
    BY ScoreOfOneGrows
  <2>7. p[i] = x /\ q[i] = y
    BY <2>1, <2>2
  <2> HIDE DEF p, q
  <2>8. Harsher(x, y, CanonicalType(d.type))
    BY <2>5, <2>6
  <2> QED  BY <2>4, <2>7, <2>8 DEF Harsher
<1>5. IsFiniteSet(m) /\ k \in SUBSET m
  <2>1. IsFiniteSet(ExpectedTypes(requirements, r))
    BY ExpectedIsFinite
  <2>2. m \in SUBSET ExpectedTypes(requirements, r)
    OBVIOUS
  <2>3. ToSet(s) \subseteq ToSet(r)
    BY DroppedIsPart
  <2>4. ExpectedTypes(requirements, s) \subseteq ExpectedTypes(requirements, r)
    BY <2>3 DEF ExpectedTypes
  <2>5. k \in SUBSET m
    <3> HIDE DEF have
    <3> QED  BY <2>4
  <2> HIDE DEF m
  <2> QED  BY <2>1, <2>2, <2>5, FS_Subset
<1>6. Rises(p, q, n)
  <2> SUFFICES ASSUME NEW i \in 1 .. n
               PROVE  /\ Weight[Priority(p[i].type)] \in {25, 55, 80, 100} /\ q[i].type = p[i].type
                      /\ p[i].score \in 0 .. 100 /\ q[i].score \in 0 .. 100 /\ p[i].score <= q[i].score
    BY DEF Rises
  <2>1. Weight[Priority(CanonicalType(docs[i].type))] \in {25, 55, 80, 100}
    BY CanonicalIsWeighed
  <2>2. p[i].type = CanonicalType(docs[i].type)
    BY <1>4
  <2>3. /\ q[i].type = p[i].type
        /\ p[i].score \in 0 .. 100 /\ q[i].score \in 0 .. 100 /\ p[i].score <= q[i].score
    BY <1>4
  <2> HIDE DEF p, q
  <2> QED  BY <2>1, <2>2, <2>3
<1>7. DOMAIN p = 1 .. n /\ DOMAIN q = 1 .. n /\ (p = <<>> <=> n = 0) /\ (q = <<>> <=> n = 0)
      /\ ToSet(p) = {p[i] : i \in 1 .. n} /\ ToSet(q) = {q[i] : i \in 1 .. n}
  BY <1>1 DEF ToSet
<1> HIDE DEF p, q, m, k, n
<1>8. ASSUME NEW limit \in {50, 80}, Below(WeightedScore(after), limit)
      PROVE  Below(WeightedScore(before), limit)
  BY <1>1, <1>5, <1>6, <1>7, <1>8, MeanGrows
<1> DEFINE Important(t) == Priority(t) \in {"CRITICAL", "HIGH"}
           bad(x, y) == \/ \E t \in y : Important(t)
                        \/ \E d \in ToSet(x) : d.material \/ (d.failed /\ Important(d.type))
           odd(x) == \E d \in ToSet(x) : d.type = "UNKNOWN"
<1>9. /\ Categorize(before) = IF Below(WeightedScore(before), 50) \/ bad(p, m) THEN "RED"
                              ELSE IF Below(WeightedScore(before), 80) \/ odd(p) THEN "YELLOW" ELSE "GREEN"
      /\ Categorize(after) = IF Below(WeightedScore(after), 50) \/ bad(q, k) THEN "RED"
                             ELSE IF Below(WeightedScore(after), 80) \/ odd(q) THEN "YELLOW" ELSE "GREEN"
  BY DEF Categorize
<1>10. bad(q, k) => bad(p, m)
  BY <1>4, <1>5, <1>7
<1>11. odd(q) => odd(p)
  BY <1>4, <1>7
<1>12. /\ Rank["GREEN"] = 0 /\ Rank["YELLOW"] = 1 /\ Rank["RED"] = 2
  BY DEF Rank
<1>13. ASSUME n = 0, m # {} PROVE Below(WeightedScore(before), 50)
  <2>1. p = <<>>
    BY <1>7, <1>13
  <2>2. PICK t \in m : TRUE
    BY <1>13
  <2>3. Priority(t) \in Priorities
    BY ExpectedIsWeighed DEF m
  <2>4. MissingWeight(m) \in Nat /\ MissingWeight(m) > 0
    BY <1>5, <2>3, MissingWeighs
  <2>5. WeightedScore(before) = <<0, 0 + MissingWeight(m)>>
    <3>1. \A x : Len(x) = 0 => Sum(x) = 0
      <4> SUFFICES ASSUME NEW x, Len(x) = 0 PROVE Sum(x) = 0
        OBVIOUS
      <4>1. Summands(x, 0)
        BY DEF Summands
      <4>2. PICK f : Sum(x) = f[0] /\ Steps(f, 0, 1, x, 0)
        BY <4>1, SumIsSummed
      <4> QED  BY <4>2 DEF Steps
    <3> DEFINE x == [i \in DOMAIN p |-> Weight[Priority(p[i].type)] * p[i].score]
               y == [i \in DOMAIN p |-> Weight[Priority(p[i].type)]]
    <3>2. Len(x) = 0 /\ Len(y) = 0
      BY <2>1
    <3>3. WeightedScore(before) = <<Sum(x), Sum(y) + MissingWeight(m)>>
      BY DEF WeightedScore
    <3> HIDE DEF x, y
    <3> QED  BY <3>1, <3>2, <3>3
  <2> QED  BY <2>4, <2>5 DEF Below
<1> HIDE DEF before, after, bad, odd
<1>14. m = {} => k = {}
  BY <1>5
<1>16. CASE n = 0 /\ m = {}
  <2>1. DocumentScore(docs, requirements, evidence, r, v, K, quality).category = "RED"
    BY <1>3, <1>7, <1>16
  <2>2. DocumentScore(docs, requirements, evidence, s, w, L, quality).category = "RED"
    BY <1>3, <1>7, <1>14, <1>16
  <2> QED  BY <1>12, <2>1, <2>2
<1>17. CASE n = 0 /\ m # {}
  <2>1. Categorize(before) = "RED"
    BY <1>9, <1>13, <1>17
  <2>2. DocumentScore(docs, requirements, evidence, r, v, K, quality).category = "RED"
    BY <1>3, <1>17, <2>1
  <2>3. DocumentScore(docs, requirements, evidence, s, w, L, quality).category \in {"RED", "YELLOW", "GREEN"}
    BY <1>3, <1>9
  <2> QED  BY <1>12, <2>2, <2>3
<1>18. CASE n # 0
  <2>1. /\ DocumentScore(docs, requirements, evidence, r, v, K, quality).category = Categorize(before)
        /\ DocumentScore(docs, requirements, evidence, s, w, L, quality).category = Categorize(after)
    BY <1>3, <1>7, <1>18
  <2>2. Rank[Categorize(after)] <= Rank[Categorize(before)]
    BY <1>8, <1>9, <1>10, <1>11, <1>12
  <2> QED  BY <2>1, <2>2
<1> QED  BY <1>16, <1>17, <1>18

-------------------------------------------------------------------------------
(* The risk: signals, one for every key, and what they add up to.           *)

Weigh(s) == SEVERITY_WEIGHTS[s.severity]
IsScored(s) ==
    s.severity \in FlagSeverity /\ s.place \in Nat /\ s.actionable /\ s = Signal(s.key, s.severity, TRUE, s.place)
Scorable(S) == \A s \in S : IsScored(s)

LEMMA SeverityIsWeighed ==
    /\ \A s \in FlagSeverity : SEVERITY_WEIGHTS[s] \in {10, 30, 60, 90, 100}
    /\ \A s, t \in FlagSeverity : SEVERITY_WEIGHTS[s] = SEVERITY_WEIGHTS[t] => s = t
    /\ \A s \in FlagSeverity : s \in {"LOW", "INFO"} <=> SEVERITY_WEIGHTS[s] <= 30
<1>1. /\ SEVERITY_WEIGHTS["CRITICAL"] = 100 /\ SEVERITY_WEIGHTS["HIGH"] = 90 /\ SEVERITY_WEIGHTS["MEDIUM"] = 60
      /\ SEVERITY_WEIGHTS["LOW"] = 30 /\ SEVERITY_WEIGHTS["INFO"] = 10
  BY DEF SEVERITY_WEIGHTS
<1> QED  BY <1>1 DEF FlagSeverity

\* One of some signals weighs the most.
LEMMA HeaviestOf ==
    ASSUME NEW S, Scorable(S), S # {}
    PROVE  \E s \in S : Weigh(s) \in Nat /\ \A t \in S : Weigh(t) <= Weigh(s)
<1> DEFINE T == {Weigh(s) : s \in S}
<1>1. \A s \in S : Weigh(s) \in 1 .. 100
  <2>1. \A s \in S : Weigh(s) \in {10, 30, 60, 90, 100}
    BY SeverityIsWeighed DEF Scorable, IsScored, Weigh
  <2>2. \A x \in {10, 30, 60, 90, 100} : x \in 1 .. 100
    OBVIOUS
  <2> QED  BY <2>1, <2>2
<1>2. T \in SUBSET (1 .. 100) /\ T \in SUBSET Nat /\ T # {}
  BY <1>1
<1>3. IsFiniteSet(1 .. 100)
  BY FirstNumbers
<1>4. IsFiniteSet(T)
  <2> HIDE DEF T
  <2> QED  BY <1>2, <1>3, FS_Subset
<1>5. \E x \in T : \A y \in T : x >= y
  <2> HIDE DEF T
  <2> QED  BY <1>2, <1>4, MaxIsGreatest
<1>6. PICK s \in S : \A y \in T : Weigh(s) >= y
  BY <1>5
<1> QED  BY <1>1, <1>6

\* The signal that stands for a key.
LEMMA KeyIsKept ==
    ASSUME NEW S, Scorable(S), NEW s \in S
    PROVE  \E t \in DeduplicateSignals(S) : t.key = s.key /\ Weigh(s) <= Weigh(t)
<1> DEFINE Same == {t \in S : t.key = s.key}
<1>1. Scorable(Same) /\ Same # {}
  BY DEF Scorable
<1>2. PICK h \in Same : \A u \in Same : Weigh(u) <= Weigh(h)
  BY <1>1, HeaviestOf
<1> DEFINE Top == {t \in Same : Weigh(t) = Weigh(h)}
           places == {t.place : t \in Top}
<1>3. places \in SUBSET Nat /\ places # {}
  BY <1>1 DEF Scorable, IsScored
<1>4. PICK t \in Top : \A u \in Top : t.place <= u.place
  <2> HIDE DEF Top, Same
  <2>1. Min(places) \in places /\ \A x \in places : Min(places) <= x
    <3> HIDE DEF places
    <3> QED  BY <1>3, MinIsLeast
  <2> QED  BY <2>1
<1>5. ASSUME NEW u \in Same PROVE Outranks(t, u)
  <2>1. PICK a \in {10, 30, 60, 90, 100}, b \in {10, 30, 60, 90, 100} : a = Weigh(u) /\ b = Weigh(t)
    BY <1>1, <1>4, SeverityIsWeighed, ZenonT(40) DEF Scorable, IsScored, Weigh
  <2>2. a <= b
    BY <1>2, <1>4, <2>1
  <2>3. CASE a < b
    BY <2>1, <2>3 DEF Outranks, Weigh
  <2>4. CASE a = b
    <3>1. u \in Top
      BY <1>4, <2>1, <2>4
    <3>2. t.place <= u.place
      BY <1>4, <3>1
    <3> QED  BY <2>1, <2>4, <3>2 DEF Outranks, Weigh
  <2> QED  BY <2>2, <2>3, <2>4
<1>6. t \in DeduplicateSignals(S)
  BY <1>4, <1>5 DEF DeduplicateSignals
<1>7. Weigh(s) <= Weigh(t)
  BY <1>2, <1>4
<1> QED  BY <1>4, <1>6, <1>7

LEMMA KeptIsOne ==
    ASSUME NEW S, Scorable(S), NEW s \in DeduplicateSignals(S), NEW t \in DeduplicateSignals(S), s.key = t.key
    PROVE  s = t
<1>1. s \in S /\ t \in S /\ Outranks(s, t) /\ Outranks(t, s)
  BY DEF DeduplicateSignals
<1>2. /\ s.severity \in FlagSeverity /\ t.severity \in FlagSeverity
      /\ s.place \in Nat /\ t.place \in Nat
  BY <1>1 DEF Scorable, IsScored
<1>3. PICK a \in {10, 30, 60, 90, 100}, b \in {10, 30, 60, 90, 100} : a = Weigh(s) /\ b = Weigh(t)
  BY <1>2, SeverityIsWeighed DEF Weigh
<1>4. /\ b < a \/ (b = a /\ s.place <= t.place)
      /\ a < b \/ (a = b /\ t.place <= s.place)
  BY <1>1, <1>3 DEF Outranks, Weigh
<1>5. a = b /\ s.place = t.place
  BY <1>2, <1>4
<1>6. s.severity = t.severity
  <2>1. Weigh(s) = Weigh(t)
    BY <1>3, <1>5
  <2> QED  BY <1>2, <2>1, SeverityIsWeighed DEF Weigh
<1>7. s = Signal(s.key, s.severity, TRUE, s.place) /\ t = Signal(t.key, t.severity, TRUE, t.place)
  BY <1>1 DEF Scorable, IsScored
<1> QED  BY <1>5, <1>6, <1>7

\* The strongest severity of some signals.
LEMMA StrongestIsHeaviest ==
    ASSUME NEW S, Scorable(S), S # {}
    PROVE  /\ Strongest(S) \in FlagSeverity /\ Strongest(S) # "none"
           /\ \E s \in S : s.severity = Strongest(S)
           /\ \A s \in S : Weigh(s) <= SEVERITY_WEIGHTS[Strongest(S)]
<1>1. \E s \in FlagSeverity : /\ \E t \in S : t.severity = s
                              /\ \A t \in S : SEVERITY_WEIGHTS[t.severity] <= SEVERITY_WEIGHTS[s]
  BY HeaviestOf DEF Scorable, IsScored, Weigh
<1>2. Strongest(S) = CHOOSE s \in FlagSeverity : /\ \E t \in S : t.severity = s
                              /\ \A t \in S : SEVERITY_WEIGHTS[t.severity] <= SEVERITY_WEIGHTS[s]
  BY DEF Strongest
<1>3. /\ Strongest(S) \in FlagSeverity /\ \E t \in S : t.severity = Strongest(S)
      /\ \A t \in S : SEVERITY_WEIGHTS[t.severity] <= SEVERITY_WEIGHTS[Strongest(S)]
  BY <1>1, <1>2
<1>4. "none" \notin FlagSeverity
  BY DEF FlagSeverity
<1> QED  BY <1>3, <1>4 DEF Weigh

\* R is as bad as S: every key of S has one of its own in R, at least as severe.
Covers(R, S, by) ==
    /\ \A s \in S : \E r \in R : r.key = by[s.key] /\ Weigh(s) <= Weigh(r)
    /\ \A s, t \in S : by[s.key] = by[t.key] => s.key = t.key

LEMMA CoverIsStronger ==
    ASSUME NEW R, NEW S, NEW by, Scorable(R), Scorable(S), IsFiniteSet(R), Covers(R, S, by),
           NEW D, D = DeduplicateSignals(R), NEW E, E = DeduplicateSignals(S)
    PROVE  /\ Scorable(D) /\ Scorable(E) /\ IsFiniteSet(D) /\ IsFiniteSet(E)
           /\ Cardinality(E) <= Cardinality(D)
           /\ \A s \in E : \E r \in D : Weigh(s) <= Weigh(r)
<1>1. D \in SUBSET R /\ E \in SUBSET S /\ Scorable(D) /\ Scorable(E)
  BY DEF DeduplicateSignals, Scorable
<1>2. IsFiniteSet(D)
  BY <1>1, FS_Subset
<1>3. ASSUME NEW s \in E
      PROVE  \E r \in D : r.key = by[s.key] /\ Weigh(s) <= Weigh(r)
  <2>1. PICK r \in R : r.key = by[s.key] /\ Weigh(s) <= Weigh(r)
    BY <1>1 DEF Covers
  <2>2. PICK t \in D : t.key = r.key /\ Weigh(r) <= Weigh(t)
    BY KeyIsKept
  <2>3. \A x \in R \cup S : Weigh(x) \in Int
    <3>1. \A x \in R \cup S : Weigh(x) \in {10, 30, 60, 90, 100}
      BY SeverityIsWeighed DEF Scorable, IsScored, Weigh
    <3> QED  BY <3>1
  <2>4. PICK a \in Int, b \in Int, c \in Int : a = Weigh(s) /\ b = Weigh(r) /\ c = Weigh(t)
    BY <1>1, <2>3
  <2>5. a <= b /\ b <= c
    BY <2>1, <2>2, <2>4
  <2> QED  BY <2>1, <2>2, <2>4, <2>5
<1> DEFINE to == [s \in E |-> CHOOSE r \in D : r.key = by[s.key] /\ Weigh(s) <= Weigh(r)]
<1>4. ASSUME NEW s \in E PROVE to[s] \in D /\ to[s].key = by[s.key]
  <2>1. to[s] = CHOOSE r \in D : r.key = by[s.key] /\ Weigh(s) <= Weigh(r)
    OBVIOUS
  <2> HIDE DEF to
  <2> QED  BY <1>3, <2>1
<1>5. \A s, t \in E : to[s] = to[t] => s = t
  <2> SUFFICES ASSUME NEW s \in E, NEW t \in E, to[s] = to[t] PROVE s = t
    OBVIOUS
  <2>1. by[s.key] = by[t.key]
    BY <1>4
  <2>2. s.key = t.key
    BY <1>1, <2>1 DEF Covers
  <2> QED  BY <2>2, KeptIsOne
<1>6. to \in Injection(E, D)
  <2>1. to \in [E -> D]
    <3>1. DOMAIN to = E /\ to = [s \in E |-> to[s]]
      OBVIOUS
    <3> HIDE DEF to
    <3> QED  BY <1>4, <3>1
  <2> HIDE DEF to
  <2> QED  BY <1>5, <2>1 DEF Injection, IsInjective
<1>7. IsFiniteSet(E) /\ Cardinality(E) <= Cardinality(D)
  <2> HIDE DEF to
  <2> QED  BY <1>2, <1>6, FS_Injection
<1> QED  BY <1>1, <1>2, <1>3, <1>7

\* The risk drawn from the signals is no better when they cover others.
LEMMA CoverIsRiskier ==
    ASSUME NEW R, NEW S, NEW by, Scorable(R), Scorable(S), IsFiniteSet(R), Covers(R, S, by),
           NEW availability, NEW verifications, NEW less, NEW fewer
    PROVE  Rank[RiskState(less, fewer, DeduplicateSignals(S))]
              <= Rank[RiskState(availability, verifications, DeduplicateSignals(R))]
<1>1. PICK D, E : D = DeduplicateSignals(R) /\ E = DeduplicateSignals(S)
  OBVIOUS
<1>2. /\ Scorable(D) /\ Scorable(E) /\ IsFiniteSet(D) /\ IsFiniteSet(E)
      /\ Cardinality(E) <= Cardinality(D) /\ \A s \in E : \E r \in D : Weigh(s) <= Weigh(r)
  BY <1>1, CoverIsStronger
<1>3. /\ Rank["INDETERMINATE"] = 0 /\ Rank["CLEAR"] = 0 /\ Rank["REVIEW"] = 1 /\ Rank["HIGH_RISK"] = 2
  BY DEF Rank
<1>4. \A a, v, x : RiskState(a, v, x) \in {"INDETERMINATE", "CLEAR", "REVIEW", "HIGH_RISK"}
  BY DEF RiskState
<1>5. CASE E = {}
  <2>1. Strongest(E) = "none"
    BY <1>5 DEF Strongest
  <2>2. RiskState(less, fewer, E) \in {"INDETERMINATE", "CLEAR"}
    BY <2>1 DEF RiskState
  <2> QED  BY <1>1, <1>3, <1>4, <2>2
<1>6. CASE E # {}
  <2>1. D # {}
    BY <1>2, <1>6
  <2>2. /\ Strongest(D) \in FlagSeverity /\ Strongest(D) # "none"
        /\ \A s \in D : Weigh(s) <= SEVERITY_WEIGHTS[Strongest(D)]
    BY <1>2, <2>1, StrongestIsHeaviest
  <2>3. /\ Strongest(E) \in FlagSeverity /\ Strongest(E) # "none"
        /\ \E s \in E : s.severity = Strongest(E)
    BY <1>2, <1>6, StrongestIsHeaviest
  <2>4. PICK a \in {10, 30, 60, 90, 100}, b \in {10, 30, 60, 90, 100} :
           a = SEVERITY_WEIGHTS[Strongest(D)] /\ b = SEVERITY_WEIGHTS[Strongest(E)]
    BY <2>2, <2>3, SeverityIsWeighed
  <2>5. b <= a
    <3>1. PICK s \in E : s.severity = Strongest(E)
      BY <2>3
    <3>2. PICK r \in D : Weigh(s) <= Weigh(r)
      BY <1>2
    <3>3. PICK c \in {10, 30, 60, 90, 100} : c = Weigh(r)
      BY <1>2, SeverityIsWeighed, ZenonT(40) DEF Scorable, IsScored, Weigh
    <3>4. b <= c /\ c <= a
      BY <2>2, <2>4, <3>1, <3>2, <3>3 DEF Weigh
    <3> QED  BY <3>4
  <2>6. PICK m \in Nat, n \in Nat : m = Cardinality(D) /\ n = Cardinality(E) /\ n <= m /\ n > 0
    <3>1. Cardinality(D) \in Nat /\ Cardinality(E) \in Nat
      BY <1>2, FS_CardinalityType
    <3>2. Cardinality(E) # 0
      BY <1>2, <1>6, FS_EmptySet
    <3> QED  BY <1>2, <3>1, <3>2
  <2> DEFINE boost(k) == Lower(30, 5 * (k - 1))
             score(x, k) == Lower(10000, x * (100 + boost(k)))
  <2>7. AggregateScore(D) = score(a, m) /\ AggregateScore(E) = score(b, n)
    BY <1>6, <2>1, <2>4, <2>6 DEF AggregateScore, SUPPORTING_BOOST_CAP, SUPPORTING_BOOST_PER_SIGNAL
  <2>8. PICK g \in 0 .. 30, h \in 0 .. 30 : g = boost(m) /\ h = boost(n) /\ h <= g
    <3>1. n <= m /\ n > 0
      BY <2>6
    <3>2. boost(m) \in 0 .. 30 /\ boost(n) \in 0 .. 30 /\ boost(n) <= boost(m)
      BY <3>1 DEF Lower
    <3> QED  BY <3>2
  <2> HIDE DEF boost
  <2>9. PICK x \in Int, y \in Int : x = score(a, m) /\ y = score(b, n) /\ y <= x
    <3>1. h <= g
      BY <2>8
    <3>2. a * (100 + g) \in Int /\ b * (100 + h) \in Int /\ b * (100 + h) <= a * (100 + g)
      <4>1. a = 10 \/ a = 30 \/ a = 60 \/ a = 90 \/ a = 100
        OBVIOUS
      <4>2. b = 10 \/ b = 30 \/ b = 60 \/ b = 90 \/ b = 100
        OBVIOUS
      <4> QED  BY <2>5, <3>1, <4>1, <4>2
    <3>3. PICK u \in Int, v \in Int : u = a * (100 + g) /\ v = b * (100 + h)
      BY <3>2
    <3>4. v <= u
      BY <3>2, <3>3
    <3>5. Lower(10000, u) \in Int /\ Lower(10000, v) \in Int /\ Lower(10000, v) <= Lower(10000, u)
      BY <3>4 DEF Lower
    <3> QED  BY <2>8, <3>3, <3>5
  <2> HIDE DEF score
  <2>10. Strongest(D) \in {"LOW", "INFO"} => Strongest(E) \in {"LOW", "INFO"}
    <3>1. Strongest(D) \in {"LOW", "INFO"} <=> a <= 30
      BY <2>2, <2>4, SeverityIsWeighed
    <3>2. Strongest(E) \in {"LOW", "INFO"} <=> b <= 30
      BY <2>3, <2>4, SeverityIsWeighed
    <3> QED  BY <2>5, <3>1, <3>2
  <2>11. \A z, v : RiskState(z, v, D) = IF Strongest(D) \in {"LOW", "INFO"} THEN "CLEAR"
                    ELSE IF x > 6000 THEN "HIGH_RISK" ELSE IF x >= 3000 THEN "REVIEW" ELSE "CLEAR"
    BY <2>2, <2>7, <2>9 DEF RiskState, IsIndeterminate, HIGH_RISK_THRESHOLD, REVIEW_THRESHOLD
  <2>12. \A z, v : RiskState(z, v, E) = IF Strongest(E) \in {"LOW", "INFO"} THEN "CLEAR"
                    ELSE IF y > 6000 THEN "HIGH_RISK" ELSE IF y >= 3000 THEN "REVIEW" ELSE "CLEAR"
    BY <2>3, <2>7, <2>9 DEF RiskState, IsIndeterminate, HIGH_RISK_THRESHOLD, REVIEW_THRESHOLD
  <2>13. y <= x
    BY <2>9
  <2>14. PICK p, q : p = RiskState(availability, verifications, D) /\ q = RiskState(less, fewer, E)
    OBVIOUS
  <2>15. \/ q = "CLEAR" \/ p = "HIGH_RISK" \/ (q = "REVIEW" /\ p = "REVIEW")
    BY <2>10, <2>11, <2>12, <2>13, <2>14
  <2>16. Rank[q] <= Rank[p]
    BY <1>3, <1>4, <2>14, <2>15
  <2> QED  BY <1>1, <2>14, <2>16
<1> QED  BY <1>5, <1>6

\* The signals that carry a score: those of results and names, and of findings.
ScoredBase(results, anomalies) ==
    {s \in ComplianceSignals(results) : s.actionable} \cup {IdentitySignal(f) : f \in anomalies}
ScoredSignals(bidder, results, anomalies, K, traces) ==
    ScoredBase(results, anomalies) \cup {FindingSignal(bidder, f, traces) : f \in K}
Sound(K) == IsFiniteSet(K) /\ \A f \in K : Known(f.flag)

LEMMA KnownHasSeverity ==
    ASSUME NEW flag, Known(flag)
    PROVE  SeverityOf(flag) \in FlagSeverity
BY DEF Known, SeverityOf

LEMMA SignalFields ==
    /\ \A k, s, a, p : LET g == Signal(k, s, a, p)
                       IN  g.key = k /\ g.severity = s /\ g.actionable = a /\ g.place = p
    /\ \A c, f, i, e, d, r : LET k == Key(c, f, i, e, d, r)
                             IN  k.category = c /\ k.flag = f /\ k.cites = i /\ k.evidence = e /\ k.docs = d /\ k.related = r
BY DEF Signal, Key

\* What the three kinds of signals look like.
KeyOfResult(r) == Key("COMPLIANCE", FirstFlag(r), r.cites, [evidence |-> r.evidence, req |-> r.req], {}, {})
OfResult(s, r, i) ==
    /\ r.status \in {"FAIL", "WARNING", "MISSING"}
    /\ s = SignalFromResult(r, i) /\ s.key = KeyOfResult(r)
    /\ s.key.category = "COMPLIANCE" /\ s.key.flag = FirstFlag(r) /\ s.key.evidence.req = r.req
    /\ s.severity = SeverityForResult(r) /\ s.severity \in FlagSeverity
    /\ (s.actionable <=> r.status \in {"FAIL", "WARNING"}) /\ s.actionable \in BOOLEAN
    /\ s.place = i /\ s = Signal(s.key, s.severity, s.actionable, i)

LEMMA ResultSignalIs ==
    ASSUME NEW r, NEW i, r.status \in {"FAIL", "WARNING", "MISSING"}, NEW s, s = SignalFromResult(r, i)
    PROVE  OfResult(s, r, i)
<1>1. PICK k : k = KeyOfResult(r)
  OBVIOUS
<1>2. s = Signal(k, SeverityForResult(r), r.status \in {"FAIL", "WARNING"}, i)
  BY <1>1 DEF SignalFromResult, KeyOfResult
<1>3. k.category = "COMPLIANCE" /\ k.flag = FirstFlag(r) /\ k.evidence = [evidence |-> r.evidence, req |-> r.req]
  BY <1>1, SignalFields DEF KeyOfResult
<1>4. /\ s.key = k /\ s.severity = SeverityForResult(r) /\ s.place = i
      /\ s.actionable = (r.status \in {"FAIL", "WARNING"})
  BY <1>2, SignalFields
<1>5. s = Signal(s.key, s.severity, s.actionable, i)
  BY <1>2, <1>4
<1>6. SeverityForResult(r) \in FlagSeverity
  <2>1. "HIGH" \in FlagSeverity /\ "MEDIUM" \in FlagSeverity
    BY DEF FlagSeverity
  <2> QED  BY <2>1, KnownHasSeverity DEF SeverityForResult
<1>7. s.actionable \in BOOLEAN
  <2>1. s.actionable = (r.status \in {"FAIL", "WARNING"})
    BY <1>4
  <2> QED  BY <2>1
<1>8. s.actionable <=> r.status \in {"FAIL", "WARNING"}
  BY <1>4
<1>9. s.key.evidence.req = r.req
  BY <1>3, <1>4
<1> QED  BY <1>1, <1>3, <1>4, <1>5, <1>6, <1>7, <1>8, <1>9 DEF OfResult

LEMMA ComplianceSignalIs ==
    ASSUME NEW results, NEW s \in ComplianceSignals(results)
    PROVE  \E i \in DOMAIN results : OfResult(s, results[i], i)
<1>1. PICK i \in DOMAIN results :
         results[i].status \in {"FAIL", "WARNING", "MISSING"} /\ s = SignalFromResult(results[i], i)
  BY DEF ComplianceSignals
<1> QED  BY <1>1, ResultSignalIs

LEMMA IdentitySignalIs ==
    ASSUME NEW f, Known(f.flag), NEW s, s = IdentitySignal(f)
    PROVE  /\ s.key.category = "IDENTITY" /\ s.key.flag = f.flag
           /\ s.severity = SeverityOf(f.flag) /\ s.place = 0 /\ IsScored(s)
<1>1. PICK k : k = Key("IDENTITY", f.flag, {}, [evidence |-> f.evidence, req |-> 0], ToSet(f.docs), {})
  OBVIOUS
<1>2. s = Signal(k, SeverityOf(f.flag), TRUE, 0)
  BY <1>1 DEF IdentitySignal
<1>3. s.key = k /\ s.severity = SeverityOf(f.flag) /\ s.actionable /\ s.place = 0
  BY <1>2 DEF Signal
<1>4. k.category = "IDENTITY" /\ k.flag = f.flag
  BY <1>1, SignalFields
<1>5. IsScored(s)
  <2>1. s = Signal(s.key, s.severity, TRUE, s.place)
    BY <1>2, <1>3
  <2>2. s.severity \in FlagSeverity /\ s.place \in Nat /\ s.actionable
    BY <1>3, KnownHasSeverity
  <2> QED  BY <2>1, <2>2 DEF IsScored
<1> QED  BY <1>3, <1>4, <1>5

OfFinding(s, f) ==
    /\ s.key.flag = f.flag
    /\ s.key.category \in {"DOCUMENT_REUSE", CategoryForFlag(f.flag)}
    /\ s.severity = SeverityOf(f.flag) /\ s.severity \in FlagSeverity
    /\ s.place = 0 /\ IsScored(s)

LEMMA FindingSignalIs ==
    ASSUME NEW b, NEW traces, NEW f, Known(f.flag)
    PROVE  OfFinding(FindingSignal(b, f, traces), f)
<1>0. PICK s : s = FindingSignal(b, f, traces)
  OBVIOUS
<1> DEFINE for == TracesFor(b, f, traces)
           trace == CHOOSE t \in for : TRUE
           known == [evidence |-> f.evidence, req |-> 0]
           one == Key(CategoryForFlag(f.flag), f.flag, f.cites, known, {}, Related(f))
           two == Key("DOCUMENT_REUSE", f.flag, f.cites, known, ToSet(trace.docs), Related(f) \cup {trace.right})
<1>1. s = Signal(IF for = {} THEN one ELSE two, SeverityOf(f.flag), TRUE, 0)
  BY <1>0 DEF FindingSignal
<1>2. /\ one.flag = f.flag /\ one.category = CategoryForFlag(f.flag)
      /\ two.flag = f.flag /\ two.category = "DOCUMENT_REUSE"
  <2> HIDE DEF for, trace, known
  <2> QED  BY SignalFields
<1> HIDE DEF one, two, for
<1>3. PICK k \in {one, two} : s = Signal(k, SeverityOf(f.flag), TRUE, 0)
  BY <1>1
<1>4. s.key = k /\ s.severity = SeverityOf(f.flag) /\ s.actionable /\ s.place = 0
  BY <1>3 DEF Signal
<1>5. k.flag = f.flag /\ k.category \in {"DOCUMENT_REUSE", CategoryForFlag(f.flag)}
  BY <1>2
<1>6. SeverityOf(f.flag) \in FlagSeverity
  BY KnownHasSeverity
<1>7. IsScored(s)
  <2>1. s = Signal(s.key, s.severity, TRUE, s.place)
    BY <1>3, <1>4
  <2>2. s.severity \in FlagSeverity /\ s.place \in Nat /\ s.actionable
    BY <1>4, <1>6
  <2> QED  BY <2>1, <2>2 DEF IsScored
<1> QED  BY <1>0, <1>4, <1>5, <1>6, <1>7 DEF OfFinding

Weighed(s) == IsScored(s) /\ (Known(s.key.flag) => s.severity = SeverityOf(s.key.flag))

\* A list of results, at most one for a requirement.
Listed(results) == DOMAIN results \in SUBSET Nat /\ IsFiniteSet(DOMAIN results) /\ AnsweredOnce(results)

\* A signal of a flag that is known is as severe as the flag.
LEMMA SeverityIsOfKey ==
    ASSUME NEW b, NEW results, Listed(results), NEW N, Sound(N), NEW K, Sound(K), NEW traces,
           NEW s \in ScoredSignals(b, results, N, K, traces)
    PROVE  Weighed(s)
<1>1. CASE s \in ComplianceSignals(results) /\ s.actionable
  <2>1. PICK i \in DOMAIN results : OfResult(s, results[i], i)
    BY <1>1, ComplianceSignalIs
  <2>2. s.actionable = TRUE /\ s.place = i /\ i \in Nat
    BY <1>1, <2>1 DEF OfResult, Listed
  <2>3. IsScored(s)
    <3>1. s = Signal(s.key, s.severity, s.actionable, i)
      BY <2>1 DEF OfResult
    <3>2. s = Signal(s.key, s.severity, TRUE, s.place)
      BY <2>2, <3>1
    <3> QED  BY <2>1, <2>2, <3>2 DEF OfResult, IsScored
  <2>4. Known(s.key.flag) => s.severity = SeverityOf(s.key.flag)
    BY <2>1 DEF OfResult, SeverityForResult
  <2> QED  BY <2>3, <2>4 DEF Weighed
<1>2. CASE \E f \in N : s = IdentitySignal(f)
  <2>1. PICK f \in N : s = IdentitySignal(f) /\ Known(f.flag)
    BY <1>2 DEF Sound
  <2>2. s.key.flag = f.flag /\ s.severity = SeverityOf(f.flag)
    BY <2>1, IdentitySignalIs
  <2>3. IsScored(s)
    BY <2>1, IdentitySignalIs
  <2> QED  BY <2>2, <2>3 DEF Weighed
<1>3. CASE \E f \in K : s = FindingSignal(b, f, traces)
  <2>1. PICK f \in K : s = FindingSignal(b, f, traces) /\ Known(f.flag)
    BY <1>3 DEF Sound
  <2>2. OfFinding(s, f)
    BY <2>1, FindingSignalIs
  <2> QED  BY <2>2 DEF OfFinding, Weighed
<1> QED  BY <1>1, <1>2, <1>3 DEF ScoredSignals, ScoredBase

\* Only what counts matters: while a requirement has one result, a signal that is
\* told and not scored displaces none.
LEMMA ActionableIsKept ==
    ASSUME NEW b, NEW results, Listed(results), NEW N, Sound(N), NEW K, Sound(K), NEW traces,
           NEW verifications, NEW qualities, NEW all, all = ComplianceSignals(results) \cup {IdentitySignal(f) : f \in N}
                          \cup {FindingSignal(b, f, traces) : f \in K}
                          \cup AvailabilitySignal(verifications) \cup QualitySignal(qualities)
    PROVE  {s \in DeduplicateSignals(all) : s.actionable} = DeduplicateSignals(ScoredSignals(b, results, N, K, traces))
<1> DEFINE scored == ScoredSignals(b, results, N, K, traces)
<1>1. ASSUME NEW s \in AvailabilitySignal(verifications) \cup QualitySignal(qualities)
      PROVE  /\ ~s.actionable /\ s.key.flag = "none"
             /\ s.key.category \in {"VERIFICATION_AVAILABILITY", "EVIDENCE_QUALITY"}
  <2>1. CASE s \in AvailabilitySignal(verifications)
    <3>1. \E i, e : s = Signal(Key("VERIFICATION_AVAILABILITY", "none", i, e, {}, {}), "MEDIUM", FALSE, 0)
      BY <2>1 DEF AvailabilitySignal
    <3> QED  BY <3>1 DEF Signal, Key
  <2>2. CASE s \in QualitySignal(qualities)
    <3>1. \E e : s = Signal(Key("EVIDENCE_QUALITY", "none", {}, e, {}, {}), "HIGH", FALSE, 0)
      BY <2>2 DEF QualitySignal
    <3> QED  BY <3>1 DEF Signal, Key
  <2> QED  BY <1>1, <2>1, <2>2
<1>2. ASSUME NEW s \in scored
      PROVE  s \in all /\ s.actionable /\ IsScored(s) /\ (Known(s.key.flag) => s.severity = SeverityOf(s.key.flag))
  <2>1. s \in all
    BY DEF ScoredSignals, ScoredBase
  <2>2. s \in ScoredSignals(b, results, N, K, traces)
    OBVIOUS
  <2> HIDE DEF scored
  <2>3. Weighed(s)
    BY <2>2, SeverityIsOfKey
  <2> QED  BY <2>1, <2>3 DEF Weighed, IsScored
<1>3. ASSUME NEW s \in all, s.actionable
      PROVE  s \in scored
  BY <1>1, <1>3 DEF ScoredSignals, ScoredBase
<1>4. ASSUME NEW s \in all, ~s.actionable
      PROVE  \/ s \in AvailabilitySignal(verifications) \cup QualitySignal(qualities)
             \/ s \in ComplianceSignals(results)
  <2>1. s \notin scored
    BY <1>2, <1>4
  <2> QED  BY <2>1 DEF ScoredSignals, ScoredBase
<1>5. ASSUME NEW s \in scored
      PROVE  \/ s \in ComplianceSignals(results) /\ s.key.category = "COMPLIANCE" /\ s.actionable
             \/ s.key.category = "IDENTITY" /\ Known(s.key.flag) /\ s.place = 0
             \/ s.key.category \in {"DOCUMENT_REUSE", CategoryForFlag(s.key.flag)} /\ Known(s.key.flag) /\ s.place = 0
  <2>1. CASE s \in ComplianceSignals(results) /\ s.actionable
    BY <2>1, ComplianceSignalIs DEF OfResult
  <2>2. CASE \E f \in N : s = IdentitySignal(f)
    <3>1. PICK f \in N : s = IdentitySignal(f) /\ Known(f.flag)
      BY <2>2 DEF Sound
    <3>2. s.key.category = "IDENTITY" /\ s.key.flag = f.flag /\ s.place = 0
      BY <3>1, IdentitySignalIs
    <3> QED  BY <3>1, <3>2
  <2>3. CASE \E f \in K : s = FindingSignal(b, f, traces)
    <3>1. PICK f \in K : s = FindingSignal(b, f, traces) /\ Known(f.flag)
      BY <2>3 DEF Sound
    <3>2. OfFinding(s, f)
      BY <3>1, FindingSignalIs
    <3> QED  BY <3>1, <3>2 DEF OfFinding
  <2> QED  BY <2>1, <2>2, <2>3 DEF ScoredSignals, ScoredBase
<1>6. CategoryForFlag("none") = "COMPLIANCE"
  BY DEF CategoryForFlag, DocumentReuseFlags, IdentityFlags, EvidenceQualityFlags, AvailabilityFlags
<1> HIDE DEF scored
<1>7. ASSUME NEW s \in scored, NEW t \in all, ~t.actionable, t.key = s.key
      PROVE  Outranks(s, t)
  <2>1. t \notin AvailabilitySignal(verifications) \cup QualitySignal(qualities)
    <3> SUFFICES ASSUME t \in AvailabilitySignal(verifications) \cup QualitySignal(qualities) PROVE FALSE
      OBVIOUS
    <3>1. s.key.flag = "none" /\ s.key.category \in {"VERIFICATION_AVAILABILITY", "EVIDENCE_QUALITY"}
      BY <1>1, <1>7
    <3> QED  BY <1>5, <1>6, <3>1
  <2>2. PICK i \in DOMAIN results : OfResult(t, results[i], i)
    BY <1>4, <1>7, <2>1, ComplianceSignalIs
  <2>3. s \notin ComplianceSignals(results)
    <3> SUFFICES ASSUME s \in ComplianceSignals(results) PROVE FALSE
      OBVIOUS
    <3>1. PICK j \in DOMAIN results : OfResult(s, results[j], j)
      BY ComplianceSignalIs
    <3>2. results[i].req = results[j].req
      BY <1>7, <2>2, <3>1 DEF OfResult
    <3>3. i = j
      BY <3>2 DEF Listed, AnsweredOnce
    <3>4. s = t
      BY <2>2, <3>1, <3>3 DEF OfResult
    <3> QED  BY <1>2, <1>7, <3>4
  <2>4. Known(t.key.flag) /\ s.place = 0
    BY <1>5, <1>7, <2>3
  <2>5. t.severity = SeverityOf(t.key.flag) /\ t.place = i /\ i \in Nat
    BY <2>2, <2>4 DEF OfResult, SeverityForResult, Listed
  <2>6. s.severity = t.severity
    BY <1>2, <1>7, <2>4, <2>5
  <2>7. s.place <= t.place
    BY <2>4, <2>5
  <2> QED  BY <2>6, <2>7 DEF Outranks
<1>8. ASSUME NEW s
      PROVE  s \in DeduplicateSignals(all) /\ s.actionable <=> s \in DeduplicateSignals(scored)
  <2>1. ASSUME s \in DeduplicateSignals(all), s.actionable
        PROVE  s \in DeduplicateSignals(scored)
    BY <1>2, <1>3, <2>1 DEF DeduplicateSignals
  <2>2. ASSUME s \in DeduplicateSignals(scored)
        PROVE  s \in DeduplicateSignals(all) /\ s.actionable
    <3>1. s \in scored /\ s \in all /\ s.actionable
      BY <1>2, <2>2 DEF DeduplicateSignals
    <3>2. ASSUME NEW t \in all, t.key = s.key
          PROVE  Outranks(s, t)
      <4>1. CASE t.actionable
        BY <1>3, <2>2, <3>2, <4>1 DEF DeduplicateSignals
      <4>2. CASE ~t.actionable
        BY <1>7, <3>1, <3>2, <4>2
      <4> QED  BY <4>1, <4>2
    <3> QED  BY <3>1, <3>2 DEF DeduplicateSignals
  <2> QED  BY <2>1, <2>2
<1>9. {s \in DeduplicateSignals(all) : s.actionable} = DeduplicateSignals(scored)
  <2>1. DeduplicateSignals(scored) \subseteq DeduplicateSignals(all)
    BY <1>8
  <2> QED  BY <1>8, <2>1
<1> QED  BY <1>9 DEF scored

LEMMA ScoredIsFinite ==
    ASSUME NEW b, NEW results, Listed(results), NEW N, Sound(N), NEW K, Sound(K), NEW traces
    PROVE  /\ Scorable(ScoredSignals(b, results, N, K, traces))
           /\ IsFiniteSet(ScoredSignals(b, results, N, K, traces))
<1> DEFINE C == {s \in ComplianceSignals(results) : s.actionable}
           I == {IdentitySignal(f) : f \in N}
           T == {FindingSignal(b, f, traces) : f \in K}
           cf == [i \in DOMAIN results |-> SignalFromResult(results[i], i)]
           nf == [f \in N |-> IdentitySignal(f)]
           kf == [f \in K |-> FindingSignal(b, f, traces)]
<1>1. \A s \in C : \E i \in DOMAIN results : s = cf[i]
  <2> TAKE s \in C
  <2>1. PICK i \in DOMAIN results : OfResult(s, results[i], i)
    BY ComplianceSignalIs
  <2>2. cf[i] = SignalFromResult(results[i], i)
    OBVIOUS
  <2> QED  BY <2>1, <2>2 DEF OfResult
<1>2. \A s \in I : \E f \in N : s = nf[f]
  OBVIOUS
<1>3. \A s \in T : \E f \in K : s = kf[f]
  OBVIOUS
<1>4. IsFiniteSet(N) /\ IsFiniteSet(K) /\ IsFiniteSet(DOMAIN results)
  BY DEF Sound, Listed
<1> HIDE DEF C, I, T, cf, nf, kf
<1>5. IsFiniteSet(C)
  BY <1>1, <1>4, ImageIsFinite
<1>6. IsFiniteSet(I)
  BY <1>2, <1>4, ImageIsFinite
<1>7. IsFiniteSet(T)
  BY <1>3, <1>4, ImageIsFinite
<1>8. IsFiniteSet((C \cup I) \cup T)
  <2>1. IsFiniteSet(C \cup I)
    BY <1>5, <1>6, FS_Union
  <2> QED  BY <1>7, <2>1, FS_Union
<1>9. ScoredSignals(b, results, N, K, traces) = (C \cup I) \cup T
  BY DEF ScoredSignals, ScoredBase, C, I, T
<1>10. Scorable(ScoredSignals(b, results, N, K, traces))
  <2> SUFFICES ASSUME NEW s \in ScoredSignals(b, results, N, K, traces)
               PROVE  IsScored(s)
    BY DEF Scorable
  <2>1. Weighed(s)
    BY SeverityIsOfKey
  <2> QED  BY <2>1 DEF Weighed
<1> QED  BY <1>8, <1>9, <1>10

\* All traces are of the bidder: a finding is given one as soon as there is one,
\* and one about the bidder it is about if there is such a one.
PlainKey(f) == Key(CategoryForFlag(f.flag), f.flag, f.cites, [evidence |-> f.evidence, req |-> 0], {}, Related(f))
ReuseKey(f, t) ==
    Key("DOCUMENT_REUSE", f.flag, f.cites, [evidence |-> f.evidence, req |-> 0], ToSet(t.docs), Related(f) \cup {t.right})
Keyed(k, f, T) ==
    /\ (T = {} => k = PlainKey(f))
    /\ (T # {} => \E t \in T : k = ReuseKey(f, t) /\ ((\E u \in T : u.right \in Related(f)) => t.right \in Related(f)))

LEMMA FindingIsKeyed ==
    ASSUME NEW b, NEW T, \A t \in T : t.left = b, NEW f
    PROVE  Keyed(FindingSignal(b, f, T).key, f, T)
<1> DEFINE between == {t \in T : t.left = b /\ t.right \in Related(f)}
           for == TracesFor(b, f, T)
           trace == CHOOSE t \in for : TRUE
<1>1. for = IF between # {} THEN between ELSE {t \in T : b \in {t.left, t.right}}
  BY DEF TracesFor
<1>2. {t \in T : b \in {t.left, t.right}} = T
  OBVIOUS
<1>3. /\ for \subseteq T /\ (for = {} <=> T = {})
      /\ \A t \in for : (\E u \in T : u.right \in Related(f)) => t.right \in Related(f)
  BY <1>1, <1>2
<1>4. FindingSignal(b, f, T).key = IF for = {} THEN PlainKey(f) ELSE ReuseKey(f, trace)
  BY DEF FindingSignal, Signal, PlainKey, ReuseKey
<1>5. for # {} => trace \in for
  OBVIOUS
<1> HIDE DEF for, trace
<1> QED  BY <1>3, <1>4, <1>5 DEF Keyed

\* The key of a finding depends on no more of it than this.
LEMMA KeyDepends ==
    ASSUME NEW b, NEW T, NEW f, NEW h,
           f.flag = h.flag, f.cites = h.cites, f.evidence = h.evidence, Related(f) = Related(h)
    PROVE  FindingSignal(b, f, T) = FindingSignal(b, h, T)
<1>1. TracesFor(b, f, T) = TracesFor(b, h, T)
  BY DEF TracesFor
<1>2. SeverityOf(f.flag) = SeverityOf(h.flag) /\ CategoryForFlag(f.flag) = CategoryForFlag(h.flag)
  OBVIOUS
<1>3. PICK for : for = TracesFor(b, f, T)
  OBVIOUS
<1> QED  BY <1>1, <1>2, <1>3 DEF FindingSignal

LEMMA KeysDiffer ==
    /\ \A c, f, i, e, d, r, k, g, j, h, x, y :
          Key(c, f, i, e, d, r) = Key(k, g, j, h, x, y) => c = k /\ f = g /\ i = j /\ e = h /\ d = x /\ r = y
    /\ \A x, y : [evidence |-> x, req |-> 0] = [evidence |-> y, req |-> 0] => x = y
BY DEF Key

TracesOf(b, K) == {[left |-> b, right |-> f.about, docs |-> f.docs] : f \in {g \in K : g.kind = "cross_bidder"}}

LEMMA TracesAre ==
    ASSUME NEW b, NEW K
    PROVE  /\ \A t \in TracesOf(b, K) : t.left = b
           /\ \A f \in K : f.kind = "cross_bidder" => \E t \in TracesOf(b, K) : t.right = f.about
           /\ \A L \in SUBSET K : TracesOf(b, L) \subseteq TracesOf(b, K)
<1>1. \A t \in TracesOf(b, K) : t.left = b
  BY DEF TracesOf
<1>2. ASSUME NEW f \in K, f.kind = "cross_bidder"
      PROVE  \E t \in TracesOf(b, K) : t.right = f.about
  <2>1. PICK t : t = [left |-> b, right |-> f.about, docs |-> f.docs]
    OBVIOUS
  <2>2. t \in TracesOf(b, K)
    BY <1>2, <2>1 DEF TracesOf
  <2> QED  BY <2>1, <2>2
<1>3. \A L \in SUBSET K : TracesOf(b, L) \subseteq TracesOf(b, K)
  BY DEF TracesOf
<1> QED  BY <1>1, <1>2, <1>3

\* Findings with one key have one key among fewer findings, too.
LEMMA KeysAgree ==
    ASSUME NEW b, NEW K, \A f \in K : Rateable(f), NEW L \in SUBSET K, NEW f \in L, NEW h \in L,
           NEW T, T = TracesOf(b, K), NEW U, U = TracesOf(b, L),
           FindingSignal(b, f, T).key = FindingSignal(b, h, T).key
    PROVE  FindingSignal(b, f, U).key = FindingSignal(b, h, U).key
<1>1. /\ \A t \in T : t.left = b
      /\ \A g \in K : g.kind = "cross_bidder" => \E t \in T : t.right = g.about
  BY TracesAre
<1>2. PICK k : k = FindingSignal(b, f, T).key
  OBVIOUS
<1>3. Keyed(k, f, T) /\ Keyed(k, h, T)
  BY <1>1, <1>2, FindingIsKeyed
<1>4. CASE T = {}
  <2>1. PlainKey(f) = PlainKey(h)
    BY <1>3, <1>4 DEF Keyed
  <2>2. f.flag = h.flag /\ f.cites = h.cites /\ f.evidence = h.evidence /\ Related(f) = Related(h)
    BY <2>1, KeysDiffer DEF PlainKey
  <2> QED  BY <2>2, KeyDepends
<1>5. CASE T # {}
  <2>1. PICK t \in T : k = ReuseKey(f, t) /\ ((\E u \in T : u.right \in Related(f)) => t.right \in Related(f))
    BY <1>3, <1>5 DEF Keyed
  <2>2. PICK s \in T : k = ReuseKey(h, s) /\ ((\E u \in T : u.right \in Related(h)) => s.right \in Related(h))
    BY <1>3, <1>5 DEF Keyed
  <2>3. /\ f.flag = h.flag /\ f.cites = h.cites /\ f.evidence = h.evidence
        /\ Related(f) \cup {t.right} = Related(h) \cup {s.right}
    BY <2>1, <2>2, KeysDiffer DEF ReuseKey
  <2>4. f.kind = "cross_bidder" <=> h.kind = "cross_bidder"
    BY <2>3 DEF Rateable
  <2>5. CASE f.kind = "cross_bidder"
    <3>1. Related(f) = {f.about} /\ Related(h) = {h.about}
      BY <2>4, <2>5 DEF Related
    <3>2. (\E u \in T : u.right \in Related(f)) /\ (\E u \in T : u.right \in Related(h))
      BY <1>1, <2>4, <2>5, <3>1
    <3>3. t.right = f.about /\ s.right = h.about
      BY <2>1, <2>2, <3>1, <3>2
    <3>4. Related(f) = Related(h)
      BY <2>3, <3>1, <3>3
    <3> QED  BY <2>3, <3>4, KeyDepends
  <2>6. CASE f.kind # "cross_bidder"
    <3>1. Related(f) = Related(h)
      BY <2>4, <2>6 DEF Related
    <3> QED  BY <2>3, <3>1, KeyDepends
  <2> QED  BY <2>5, <2>6
<1> QED  BY <1>4, <1>5

\* A finding with the key of a result or a name has no trace.
LEMMA BaseKeysStay ==
    ASSUME NEW b, NEW K, NEW L \in SUBSET K, NEW f \in L,
           NEW results, NEW N, Sound(N), NEW s \in ScoredBase(results, N),
           s.key = FindingSignal(b, f, TracesOf(b, K)).key
    PROVE  FindingSignal(b, f, TracesOf(b, L)).key = s.key
<1>1. s.key.category \in {"COMPLIANCE", "IDENTITY"}
  <2>1. CASE s \in ComplianceSignals(results)
    BY <2>1, ComplianceSignalIs DEF OfResult
  <2>2. CASE \E g \in N : s = IdentitySignal(g)
    BY <2>2, IdentitySignalIs DEF Sound
  <2> QED  BY <2>1, <2>2 DEF ScoredBase
<1>2. \A t \in TracesOf(b, K) : t.left = b
  BY TracesAre
<1>3. Keyed(s.key, f, TracesOf(b, K))
  BY <1>2, FindingIsKeyed
<1>4. TracesOf(b, K) = {}
  <2> SUFFICES ASSUME TracesOf(b, K) # {} PROVE FALSE
    OBVIOUS
  <2>1. PICK t : s.key = ReuseKey(f, t)
    BY <1>3 DEF Keyed
  <2>2. s.key.category = "DOCUMENT_REUSE"
    BY <2>1 DEF ReuseKey, Key
  <2> QED  BY <1>1, <2>2
<1>5. TracesOf(b, L) \subseteq TracesOf(b, K)
  BY TracesAre
<1>6. TracesOf(b, L) = TracesOf(b, K)
  BY <1>4, <1>5
<1> QED  BY <1>6

\* A signal of fewer results is one of all of them, but for the place.
LEMMA FewerAreAmong ==
    ASSUME NEW results, NEW fewer, ToSet(fewer) \subseteq ToSet(results), NEW N, NEW s \in ScoredBase(fewer, N)
    PROVE  \E u \in ScoredBase(results, N) : u.key = s.key /\ u.severity = s.severity
<1>1. CASE s \in ComplianceSignals(fewer) /\ s.actionable
  <2>1. PICK i \in DOMAIN fewer : OfResult(s, fewer[i], i)
    BY <1>1, ComplianceSignalIs
  <2>2. PICK j \in DOMAIN results : results[j] = fewer[i]
    <3>1. fewer[i] \in ToSet(results)
      BY DEF ToSet
    <3> QED  BY <3>1 DEF ToSet
  <2>3. PICK u : u = SignalFromResult(results[j], j)
    OBVIOUS
  <2>4. OfResult(u, results[j], j)
    <3>1. results[j].status \in {"FAIL", "WARNING", "MISSING"}
      BY <2>1, <2>2 DEF OfResult
    <3> QED  BY <2>3, <3>1, ResultSignalIs
  <2>5. u \in ComplianceSignals(results)
    BY <2>3, <2>4 DEF ComplianceSignals, OfResult
  <2>6. u.actionable
    BY <1>1, <2>1, <2>2, <2>4 DEF OfResult
  <2>7. u.key = s.key /\ u.severity = s.severity
    BY <2>1, <2>2, <2>4 DEF OfResult
  <2> QED  BY <2>5, <2>6, <2>7 DEF ScoredBase
<1>2. CASE \E f \in N : s = IdentitySignal(f)
  BY <1>2 DEF ScoredBase
<1> QED  BY <1>1, <1>2 DEF ScoredBase

LEMMA FewerAreCovered ==
    ASSUME NEW b, NEW results, NEW fewer, Listed(results), ToSet(fewer) \subseteq ToSet(results),
           NEW N, Sound(N), NEW K, Sound(K), \A f \in K : Rateable(f), NEW L \in SUBSET K,
           NEW R, R = ScoredSignals(b, results, N, K, TracesOf(b, K)),
           NEW S, S = ScoredSignals(b, fewer, N, L, TracesOf(b, L))
    PROVE  \E by : Covers(R, S, by)
<1> DEFINE T == TracesOf(b, K)
           U == TracesOf(b, L)
           B == ScoredBase(results, N)
           old(f) == FindingSignal(b, f, T)
           new(f) == FindingSignal(b, f, U)
           based(k) == \E s \in B : s.key = k
           source(k) == CHOOSE f \in L : new(f).key = k
           keys == {s.key : s \in S}
           by == [k \in keys |-> IF based(k) THEN k ELSE old(source(k)).key]
<1>0. IsFiniteSet(L)
  BY FS_Subset DEF Sound
<1>1. Sound(L)
  BY <1>0 DEF Sound
<1>2. \A f \in K : Known(f.flag)
  BY DEF Sound
<1>3. /\ \A s \in S : (\E u \in B : u.key = s.key /\ u.severity = s.severity) \/ \E f \in L : s = new(f)
      /\ B \subseteq R /\ \A f \in K : old(f) \in R
  <2>1. \A s \in ScoredBase(fewer, N) : \E u \in B : u.key = s.key /\ u.severity = s.severity
    <3> TAKE s \in ScoredBase(fewer, N)
    <3>1. \E u \in ScoredBase(results, N) : u.key = s.key /\ u.severity = s.severity
      BY FewerAreAmong
    <3> QED  BY <3>1
  <2>2. B \subseteq R /\ \A f \in K : old(f) \in R
    BY DEF ScoredSignals
  <2>3. \A s \in S : s \in ScoredBase(fewer, N) \/ \E f \in L : s = new(f)
    BY DEF ScoredSignals
  <2> HIDE DEF B
  <2> QED  BY <2>1, <2>2, <2>3
<1>4. ASSUME NEW f \in K
      PROVE  /\ OfFinding(old(f), f) /\ OfFinding(new(f), f)
             /\ old(f).key.flag = f.flag /\ new(f).key.flag = f.flag
             /\ old(f).severity = SeverityOf(f.flag) /\ new(f).severity = SeverityOf(f.flag)
  <2>1. OfFinding(old(f), f) /\ OfFinding(new(f), f)
    BY <1>2, FindingSignalIs
  <2> QED  BY <2>1 DEF OfFinding
<1>5. ASSUME NEW s \in B PROVE Weighed(s)
  <2>1. s \in ScoredSignals(b, results, N, K, T)
    BY <1>3
  <2> QED  BY <2>1, SeverityIsOfKey
<1>6. ASSUME NEW k \in keys, ~based(k)
      PROVE  source(k) \in L /\ new(source(k)).key = k
  <2>1. PICK s \in S : s.key = k
    OBVIOUS
  <2>2. ~\E u \in B : u.key = s.key
    BY <1>6, <2>1
  <2>3. \E f \in L : new(f).key = k
    BY <1>3, <2>1, <2>2
  <2> QED  BY <2>3
<1>7. ASSUME NEW f \in L, NEW s \in B, s.key = old(f).key
      PROVE  new(f).key = s.key
  BY <1>7, BaseKeysStay
<1>8. ASSUME NEW f \in L, NEW h \in L, old(f).key = old(h).key
      PROVE  new(f).key = new(h).key
  BY <1>8, KeysAgree
<1>9. \A k \in keys : by[k] = IF based(k) THEN k ELSE old(source(k)).key
  OBVIOUS
<1>10. \A s \in S : s.key \in keys
  OBVIOUS
<1>11. \A x \in FlagSeverity : SEVERITY_WEIGHTS[x] <= SEVERITY_WEIGHTS[x]
  <2> TAKE x \in FlagSeverity
  <2>1. SEVERITY_WEIGHTS[x] \in {10, 30, 60, 90, 100}
    BY SeverityIsWeighed
  <2> QED  BY <2>1
<1> HIDE DEF T, U, B, old, new, source, keys, by
<1>12. ASSUME NEW s \in S
       PROVE  \E r \in R : r.key = by[s.key] /\ Weigh(s) <= Weigh(r)
  <2>1. CASE \E u \in B : u.key = s.key /\ u.severity = s.severity
    <3>1. PICK u \in B : u.key = s.key /\ u.severity = s.severity
      BY <2>1
    <3>2. u \in R /\ based(s.key) /\ u.severity \in FlagSeverity
      BY <1>3, <1>5, <3>1 DEF Weighed, IsScored
    <3>3. by[s.key] = s.key
      BY <1>9, <1>10, <3>2
    <3>4. Weigh(s) <= Weigh(u)
      BY <1>11, <3>1, <3>2 DEF Weigh
    <3> QED  BY <3>1, <3>2, <3>3, <3>4
  <2>2. CASE \E f \in L : s = new(f)
    <3>1. PICK f \in L : s = new(f)
      BY <2>2
    <3>2. /\ s.key.flag = f.flag /\ s.severity = SeverityOf(f.flag) /\ Known(f.flag)
          /\ s.severity \in FlagSeverity
      BY <1>2, <1>4, <3>1 DEF OfFinding
    <3>3. CASE based(s.key)
      <4>1. PICK u \in B : u.key = s.key
        BY <3>3
      <4>2. u.severity = s.severity
        BY <1>5, <3>2, <4>1 DEF Weighed
      <4>3. by[s.key] = s.key
        BY <1>9, <1>10, <3>3
      <4>4. u \in R /\ Weigh(s) <= Weigh(u)
        BY <1>3, <1>11, <3>2, <4>1, <4>2 DEF Weigh
      <4> QED  BY <4>1, <4>3, <4>4
    <3>4. CASE ~based(s.key)
      <4>1. PICK g \in L : g = source(s.key) /\ new(g).key = s.key
        BY <1>6, <1>10, <3>4
      <4>2. by[s.key] = old(g).key /\ old(g) \in R
        BY <1>3, <1>9, <1>10, <3>4, <4>1
      <4>3. g.flag = f.flag
        BY <1>4, <3>2, <4>1
      <4>4. old(g).severity = s.severity
        BY <1>4, <3>2, <4>3
      <4>5. Weigh(s) <= Weigh(old(g))
        BY <1>11, <3>2, <4>4 DEF Weigh
      <4> QED  BY <4>2, <4>5
    <3> QED  BY <3>3, <3>4
  <2> QED  BY <1>3, <2>1, <2>2
<1>13. ASSUME NEW k \in keys, NEW j \in keys, by[k] = by[j]
       PROVE  k = j
  <2>1. CASE based(k) /\ based(j)
    BY <1>9, <1>13, <2>1
  <2>2. ASSUME NEW x \in keys, NEW y \in keys, based(x), ~based(y), by[x] = by[y]
        PROVE  x = y
    <3>1. source(y) \in L /\ new(source(y)).key = y
      BY <1>6, <2>2
    <3>2. x = old(source(y)).key
      BY <1>9, <2>2
    <3>3. PICK s \in B : s.key = x
      BY <2>2
    <3> QED  BY <1>7, <3>1, <3>2, <3>3
  <2>3. CASE ~based(k) /\ ~based(j)
    <3>1. /\ source(k) \in L /\ new(source(k)).key = k
          /\ source(j) \in L /\ new(source(j)).key = j
      BY <1>6, <2>3
    <3>2. old(source(k)).key = old(source(j)).key
      BY <1>9, <1>13, <2>3
    <3> QED  BY <1>8, <3>1, <3>2
  <2> QED  BY <1>13, <2>1, <2>2, <2>3
<1>14. Covers(R, S, by)
  BY <1>10, <1>12, <1>13 DEF Covers
<1> QED  BY <1>14

\* The risk, with fewer results, other verifications or fewer findings.
LEMMA RiskGrows ==
    ASSUME NEW c, NEW d, d.bidder = c.bidder, Listed(c.results), Listed(d.results), ToSet(d.results) \subseteq ToSet(c.results),
           NEW N, Sound(N), NEW K, Sound(K), \A f \in K : Rateable(f), NEW L \in SUBSET K
    PROVE  Rank[Assessed(d, L, N).state] <= Rank[Assessed(c, K, N).state]
<1> DEFINE S(e, H) == ScoredSignals(e.bidder, e.results, N, H, TracesOf(e.bidder, H))
           qualities(e) == IF e.graded THEN Range(Quality(e)) ELSE {}
           all(e, H) == ComplianceSignals(e.results) \cup {IdentitySignal(f) : f \in N}
                        \cup {FindingSignal(e.bidder, f, TracesOf(e.bidder, H)) : f \in H}
                        \cup AvailabilitySignal(e.verifications) \cup QualitySignal(qualities(e))
<1>1. ASSUME NEW e, Listed(e.results), NEW H, Sound(H)
      PROVE  Assessed(e, H, N).state
                = RiskState(EvidenceAvailability(e.verifications, qualities(e)), e.verifications, DeduplicateSignals(S(e, H)))
  <2>1. PICK A : A = all(e, H)
    OBVIOUS
  <2>2. {s \in DeduplicateSignals(A) : s.actionable} = DeduplicateSignals(S(e, H))
    BY <1>1, <2>1, ActionableIsKept
  <2>3. Traces(e, H) = TracesOf(e.bidder, H)
    BY DEF Traces, TracesOf
  <2>4. Assessed(e, H, N)
           = Assess(e.bidder, e.results, e.verifications, H, N, TracesOf(e.bidder, H), qualities(e))
    BY <2>3 DEF Assessed
  <2>5. Assess(e.bidder, e.results, e.verifications, H, N, TracesOf(e.bidder, H), qualities(e)).state
           = RiskState(EvidenceAvailability(e.verifications, qualities(e)), e.verifications,
                       {s \in DeduplicateSignals(A) : s.actionable})
    BY <2>1 DEF Assess
  <2> QED  BY <2>2, <2>4, <2>5
<1>2. Sound(L)
  BY FS_Subset DEF Sound
<1>3. PICK X, Y : X = S(c, K) /\ Y = S(d, L)
  OBVIOUS
<1>4. Scorable(X) /\ IsFiniteSet(X) /\ Scorable(Y)
  BY <1>2, <1>3, ScoredIsFinite
<1>5. PICK by : Covers(X, Y, by)
  <2>1. /\ X = ScoredSignals(c.bidder, c.results, N, K, TracesOf(c.bidder, K))
        /\ Y = ScoredSignals(c.bidder, d.results, N, L, TracesOf(c.bidder, L))
    BY <1>3
  <2> HIDE DEF S
  <2> QED  BY <2>1, FewerAreCovered
<1>6. /\ Assessed(d, L, N).state
           = RiskState(EvidenceAvailability(d.verifications, qualities(d)),
                       d.verifications, DeduplicateSignals(Y))
      /\ Assessed(c, K, N).state
           = RiskState(EvidenceAvailability(c.verifications, qualities(c)),
                       c.verifications, DeduplicateSignals(X))
  BY <1>1, <1>2, <1>3
<1> HIDE DEF S, qualities, all
<1> QED  BY <1>4, <1>5, <1>6, CoverIsRiskier

\* All that is found of a case is finite, known and rated in numbers.
LEMMA FoundAreRateable ==
    ASSUME NEW c \in Cases
    PROVE  /\ Sound(AllFindings(c)) /\ Sound(VerifyCrossDocumentIdentity(c.evidence))
           /\ \A f \in AllFindings(c) : Rateable(f)
           /\ Weighable(AllFindings(c))
<1>1. /\ IsFiniteSet(Reconciled(c)) /\ IsFiniteSet(Consistent(c)) /\ IsFiniteSet(Reused(c)) /\ IsFiniteSet(Bridged(c))
      /\ \A f \in AllFindings(c) : Rateable(f)
  BY ReconciledIsRateable, ConsistentIsRateable, ReusedIsRateable, BridgedIsRateable DEF AllFindings
<1>2. IsFiniteSet(AllFindings(c))
  <2>1. IsFiniteSet(Reconciled(c) \cup Consistent(c))
    BY <1>1, FS_Union
  <2>2. IsFiniteSet((Reconciled(c) \cup Consistent(c)) \cup Reused(c))
    BY <1>1, <2>1, FS_Union
  <2>3. IsFiniteSet(((Reconciled(c) \cup Consistent(c)) \cup Reused(c)) \cup Bridged(c))
    BY <1>1, <2>2, FS_Union
  <2> QED  BY <2>3 DEF AllFindings
<1>3. \A f \in AllFindings(c) : Known(f.flag)
  BY EnginesAreGrounded DEF AllFindings, Grounded
<1>4. \A f \in VerifyCrossDocumentIdentity(c.evidence) : Known(f.flag)
  BY EnginesAreGrounded DEF Grounded
<1>5. IsFiniteSet(VerifyCrossDocumentIdentity(c.evidence))
  BY NamedAreRateable
<1>6. ASSUME NEW f \in AllFindings(c) PROVE WeightedRisk(f) \in Nat
  <2>1. f.confidence \in Nat
    BY <1>1 DEF Rateable
  <2>2. \A s : FindingWeight[FromSeverity(s)] \in Nat
    BY DEF FindingWeight, FromSeverity
  <2>3. PICK w \in Nat, n \in Nat : w = FindingWeight[FromSeverity(SeverityOf(f.flag))] /\ n = f.confidence
    BY <2>1, <2>2
  <2>4. WeightedRisk(f) = w * n
    BY <2>3 DEF WeightedRisk
  <2> QED  BY <2>4
<1> QED  BY <1>1, <1>2, <1>3, <1>4, <1>5, <1>6 DEF Sound, Weighable

\* What the verdicts are drawn from once they are there.
VerdictInv ==
    /\ FoundInv
    /\ pc \in {"risk", "case", "done"} => document = Scored(case, findings, named)
    /\ pc \in {"case", "done"} => risk = Assessed(case, findings, named)
    /\ pc = "done" => verdict = Graded(findings)

LEMMA NextVerdictInv == VerdictInv /\ [Next]_vars => VerdictInv'
<1> SUFFICES ASSUME VerdictInv, [Next]_vars PROVE VerdictInv'
  OBVIOUS
<1>0. FoundInv'
  BY NextFoundInv DEF VerdictInv
<1> USE DEF VerdictInv
<1>1. CASE CompareNamesOnDocuments
  BY <1>0, <1>1 DEF CompareNamesOnDocuments, Stage
<1>2. CASE ReconcileIdentity
  BY <1>0, <1>2 DEF ReconcileIdentity, Stage, Finds
<1>3. CASE CheckConsistency
  BY <1>0, <1>3 DEF CheckConsistency, Stage, Finds
<1>4. CASE CompareBidders
  BY <1>0, <1>4 DEF CompareBidders, Stage, Finds
<1>5. CASE BridgeFinancial
  BY <1>0, <1>5 DEF BridgeFinancial, Stage, Finds
<1>6. CASE ScoreDocuments
  BY <1>0, <1>6 DEF ScoreDocuments, Stage
<1>7. CASE AssessRisk
  BY <1>0, <1>7 DEF AssessRisk, Stage
<1>8. CASE ScoreCase
  BY <1>0, <1>8 DEF ScoreCase, Stage
<1>9. CASE UNCHANGED vars
  BY <1>0, <1>9 DEF vars
<1> QED  BY <1>1, <1>2, <1>3, <1>4, <1>5, <1>6, <1>7, <1>8, <1>9 DEF Next

LEMMA VerdictInvariant == Spec => []VerdictInv
<1>1. Init => FoundInv
  BY DEF Init, FoundInv, Stages
<1>2. Init => VerdictInv
  BY <1>1 DEF Init, VerdictInv
<1> QED  BY <1>2, NextVerdictInv, PTL DEF Spec

\* A case with fewer records and findings is judged no worse: d is the case with
\* a record dropped, and L are the findings that are left.
LEMMA LessIsNoWorse ==
    ASSUME NEW c \in Cases, AnsweredOnce(c.results), NEW d,
           d.bidder = c.bidder, d.docs = c.docs, d.requirements = c.requirements, d.evidence = c.evidence,
           d.graded = c.graded, Dropped(d.results, c.results), Dropped(d.verifications, c.verifications),
           NEW L \in SUBSET AllFindings(c), NEW N, N = VerifyCrossDocumentIdentity(c.evidence)
    PROVE  /\ Rank[Scored(d, L, N).category] <= Rank[Scored(c, AllFindings(c), N).category]
           /\ Rank[Assessed(d, L, N).state] <= Rank[Assessed(c, AllFindings(c), N).state]
<1> DEFINE K == AllFindings(c)
<1>1. /\ Sound(K) /\ Sound(N) /\ \A f \in K : Rateable(f)
  BY FoundAreRateable
<1>2. /\ c.results \in Seq(ToSet(c.results)) /\ c.verifications \in Seq(ToSet(c.verifications))
      /\ c.docs \in Seq(ToSet(c.docs)) /\ FlagsListed(c.results)
  <2>1. c.results \in Lists(c)
    BY DEF Lists
  <2>2. c.results \in Seq(ToSet(c.results))
    BY <2>1, CaseAssumption
  <2>3. FlagsListed(c.results)
    BY CaseAssumption DEF FlagsListed
  <2> QED  BY <2>2, <2>3, CaseLists
<1>3. ToSet(d.results) \subseteq ToSet(c.results)
  BY <1>2, DroppedIsPart
<1>4. Listed(c.results) /\ Listed(d.results)
  <2>1. Dropped(c.results, c.results)
    BY DEF Dropped
  <2> QED  BY <1>2, <2>1, DroppedIsListed DEF Listed
<1>5. Rank[Assessed(d, L, N).state] <= Rank[Assessed(c, K, N).state]
  BY <1>1, <1>3, <1>4, RiskGrows
<1>6. Rank[Scored(d, L, N).category] <= Rank[Scored(c, K, N).category]
  <2>1. IsFiniteSet(K \cup N) /\ L \cup N \in SUBSET (K \cup N)
    BY <1>1, FS_Union DEF Sound
  <2>2. Quality(d) = Quality(c)
    BY DEF Quality
  <2>3. PICK G, H : G = K \cup N /\ H = L \cup N
    OBVIOUS
  <2>4. IsFiniteSet(G) /\ H \in SUBSET G
    BY <2>1, <2>3
  <2>5. Scored(c, K, N) = DocumentScore(c.docs, c.requirements, c.evidence, c.results, c.verifications, G, Quality(c))
    BY <2>3 DEF Scored
  <2>6. Scored(d, L, N) = DocumentScore(c.docs, c.requirements, c.evidence, d.results, d.verifications, H, Quality(c))
    BY <2>2, <2>3 DEF Scored
  <2>7. Rank[DocumentScore(c.docs, c.requirements, c.evidence, d.results, d.verifications, H, Quality(c)).category]
           <= Rank[DocumentScore(c.docs, c.requirements, c.evidence, c.results, c.verifications, G, Quality(c)).category]
    BY <1>2, <2>4, DocumentScoreGrows
  <2> QED  BY <2>5, <2>6, <2>7
<1> QED  BY <1>5, <1>6

\* For any case: the document score, the risk and the category of the case are
\* none of them better for an adverse result, a failed verification or a finding
\* more, whichever of them it is, unless a requirement has two results.
THEOREM AdverseNewsNeverHelps == Spec => []BadNewsNeverHelps
<1>1. VerdictInv => BadNewsNeverHelps
  <2> SUFFICES ASSUME VerdictInv, pc = "done", AnsweredOnce(case.results)
               PROVE  /\ \A i \in {k \in DOMAIN case.results : case.results[k].status \in Adverse} :
                            NoBetter([case EXCEPT !.results = RemoveAt(@, i)], findings)
                      /\ \A i \in {k \in DOMAIN case.verifications : case.verifications[k].status \in Adverse} :
                            NoBetter([case EXCEPT !.verifications = RemoveAt(@, i)], findings)
                      /\ \A f \in findings : NoBetter(case, findings \ {f})
    BY DEF BadNewsNeverHelps, NothingAdverseHelps
  <2>1. PICK c \in Cases : c = case
    BY DEF VerdictInv, FoundInv
  <2>2. PICK K, N : K = AllFindings(c) /\ N = VerifyCrossDocumentIdentity(c.evidence)
    OBVIOUS
  <2>3. findings = K /\ named = N
    BY <2>1, <2>2 DEF VerdictInv, FoundInv, AllFindings
  <2>4. document = Scored(c, K, N) /\ risk = Assessed(c, K, N) /\ verdict = Graded(K)
    BY <2>1, <2>3 DEF VerdictInv
  <2>5. Weighable(K)
    BY <2>2, FoundAreRateable
  <2>6. Rank[Graded(K)] <= Rank[Graded(K)]
    <3>1. Graded(K) \in {"RED", "YELLOW", "GREEN"}
      BY DEF Graded, CaseCategory
    <3> QED  BY <3>1 DEF Rank
  <2>7. ASSUME NEW i \in DOMAIN c.results
        PROVE  NoBetter([c EXCEPT !.results = RemoveAt(@, i)], K)
    <3>1. PICK d : d = [c EXCEPT !.results = RemoveAt(@, i)]
      OBVIOUS
    <3>2. /\ d.bidder = c.bidder /\ d.docs = c.docs /\ d.requirements = c.requirements /\ d.evidence = c.evidence
          /\ d.graded = c.graded /\ d.verifications = c.verifications /\ d.results = RemoveAt(c.results, i)
      BY <3>1, CaseAssumption
    <3>3. Dropped(d.results, c.results) /\ Dropped(d.verifications, c.verifications)
      BY <3>2 DEF Dropped
    <3>4. /\ Rank[Scored(d, K, N).category] <= Rank[Scored(c, K, N).category]
          /\ Rank[Assessed(d, K, N).state] <= Rank[Assessed(c, K, N).state]
      BY <2>1, <2>2, <3>2, <3>3, LessIsNoWorse
    <3> QED  BY <2>3, <2>4, <2>6, <3>1, <3>4 DEF NoBetter
  <2>8. ASSUME NEW i \in DOMAIN c.verifications
        PROVE  NoBetter([c EXCEPT !.verifications = RemoveAt(@, i)], K)
    <3>1. PICK d : d = [c EXCEPT !.verifications = RemoveAt(@, i)]
      OBVIOUS
    <3>2. /\ d.bidder = c.bidder /\ d.docs = c.docs /\ d.requirements = c.requirements /\ d.evidence = c.evidence
          /\ d.graded = c.graded /\ d.results = c.results /\ d.verifications = RemoveAt(c.verifications, i)
      BY <3>1, CaseAssumption
    <3>3. Dropped(d.results, c.results) /\ Dropped(d.verifications, c.verifications)
      BY <3>2 DEF Dropped
    <3>4. /\ Rank[Scored(d, K, N).category] <= Rank[Scored(c, K, N).category]
          /\ Rank[Assessed(d, K, N).state] <= Rank[Assessed(c, K, N).state]
      BY <2>1, <2>2, <3>2, <3>3, LessIsNoWorse
    <3> QED  BY <2>3, <2>4, <2>6, <3>1, <3>4 DEF NoBetter
  <2>9. ASSUME NEW f \in K
        PROVE  NoBetter(c, K \ {f})
    <3>1. Dropped(c.results, c.results) /\ Dropped(c.verifications, c.verifications)
      BY DEF Dropped
    <3>2. K \ {f} \in SUBSET K
      OBVIOUS
    <3>3. PICK L \in SUBSET K : L = K \ {f}
      BY <3>2
    <3>4. /\ Rank[Scored(c, L, N).category] <= Rank[Scored(c, K, N).category]
          /\ Rank[Assessed(c, L, N).state] <= Rank[Assessed(c, K, N).state]
      BY <2>1, <2>2, <3>1, LessIsNoWorse
    <3>5. Rank[Graded(L)] <= Rank[Graded(K)]
      BY <2>5, <3>3, GradeGrows
    <3> QED  BY <2>3, <2>4, <3>3, <3>4, <3>5 DEF NoBetter
  <2> QED  BY <2>1, <2>3, <2>7, <2>8, <2>9
<1> QED  BY <1>1, VerdictInvariant, PTL
===============================================================================
