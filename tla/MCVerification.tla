--------------------------- MODULE MCVerification ---------------------------
(* The cases TLC verifies: each engine with small inputs of its own, and the    *)
(* verdicts over results, verifications and findings together.                  *)
EXTENDS BidderVerification

Plain == [bidder |-> "b1", evidence |-> <<>>, verifications |-> <<>>, docs |-> <<>>, books |-> <<>>,
          requirements |-> <<>>, results |-> <<>>, corpus |-> <<>>, engines |-> {"identity", "cross_document"},
          store |-> TRUE, graded |-> FALSE, today |-> 0]

(* Registries: two or three answers, of which one may be about another bidder.  *)
Names == {<<>>, <<"acme", "plain">>, <<"acme", "upper">>, <<"zeta", "plain">>, <<"acme", "unusable">>}
V(id, cap, bidder, status, name) ==
    [id |-> id, cap |-> cap, bidder |-> bidder, status |-> status, name |-> name, evidence |-> id % 2]
Answers(id, caps) == {V(id, c, b, s, n) : c \in caps, b \in {"b1", "b2"}, s \in {"VERIFIED", "UNAVAILABLE"}, n \in Names}
IdentityCases ==
    {[Plain EXCEPT !.verifications = <<v, w>>] : v \in Answers(1, {"GST"}), w \in Answers(2, {"PAN_INCOME_TAX", "GSTN"})}
    \cup {[Plain EXCEPT !.verifications = <<V(1, "GSTN", "b1", "VERIFIED", n), V(2, "GST", "b1", s, m), V(3, "UDYAM", "b1", "VERIFIED", k)>>] :
            n \in Names, m \in Names, k \in Names, s \in {"VERIFIED", "INACTIVE"}}

(* Evidence: pairs and triples of fields that may or may not be comparable.     *)
E(id, type, field, text, quality) ==
    [id |-> id, bidder |-> "b1", document |-> id, type |-> type, field |-> field, text |-> text,
     quality |-> quality, confidence |-> 80]
Fields == {<<"GST", "gstin">>, <<"PAN", "pan_number">>, <<"ITR", "filing_date">>, <<"ITR", "financial_year">>,
           <<"BIS", "manufacturer">>, <<"OEM", "manufacturer">>, <<"PRODUCT", "product_description">>,
           <<"GST", "legal_name">>, <<"PAN", "name_on_pan">>}
Texts(field) ==
    IF field = "filing_date" THEN {<<>>, <<2, "plain">>, <<5, "plain">>, <<2, "unusable">>}
    ELSE {<<>>, <<"acme", "plain">>, <<"acme", "upper">>, <<"zeta", "plain">>}
Items(id, fields) == UNION {{E(id, f[1], f[2], t, "none") : t \in Texts(f[2])} : f \in fields}
Rough(id) == {E(id, "BIS", "manufacturer", t, q) : t \in {<<"acme", "plain">>, <<"zeta", "plain">>, <<"zeta", "typed">>}, q \in {"GOOD", "DEGRADED", "UNKNOWN"}}
Streets == {<<>>, << <<<<"a", "b">>, <<"c">>>> >>, << <<<<"a">>, <<"b", "c">>>> >>, << <<<<"a">>>>, <<<<"c">>>> >>}
Addresses(id) == {E(id, t, "registered_address", a, "none") : t \in {"GST", "UDYAM"}, a \in Streets}
ConsistencyCases ==
    {[Plain EXCEPT !.evidence = <<e, f>>] : e \in Items(1, Fields), f \in Items(2, Fields)}
    \cup {[Plain EXCEPT !.evidence = <<e, f>>] : e \in Rough(1), f \in Rough(2)}
    \cup {[Plain EXCEPT !.evidence = <<e, f>>, !.today = d] :
            e \in Items(1, {<<"ITR", "filing_date">>}), f \in Items(2, {<<"ITR", "filing_date">>}), d \in {3, 6}}
    \cup {[Plain EXCEPT !.evidence = <<e, f>>] : e \in Addresses(1), f \in Addresses(2)}
    \cup {[Plain EXCEPT !.evidence = <<E(1, "GST", "gstin", t, "none"), E(2, "GSTN", "gstin", u, "none"),
                                       E(1, "GST", "gstin", t, "none"), E(3, "GST", "gstin", w, "GOOD")>>] :
            t \in Texts("gstin"), u \in Texts("gstin"), w \in Texts("gstin")}
    \cup {[Plain EXCEPT !.evidence = <<E(1, "GST", "legal_name", t, "none"), E(2, "PAN", "name_on_pan", u, "none"),
                                       E(3, "UDYAM", "enterprise_name", w, "none"), E(4, "PAN", "name_on_pan", u, "none")>>] :
            t \in Texts("name"), u \in Texts("name"), w \in Texts("name") \cup {<<"acme", "unusable">>, <<"zeta", "typed">>}}

(* Documents of two bidders.                                                    *)
Answered == [https |-> TRUE, code |-> "2xx", finite |-> TRUE, vector |-> <<3, 4>>]
Base == [id |-> 1, bidder |-> "b1", evidence |-> 11, type |-> "BIS", bytes |-> "x",
         text |-> [letters |-> <<"a", "b", "c", "d", "e">>, style |-> "plain"], answer |-> Answered,
         meta |-> TRUE, ocr |-> 90, typed |-> 90, issuer |-> "i", number |-> "n", territory |-> "t",
         name |-> "acme", issued |-> 1, until |-> 3]
Variants(d) ==
    {d} \cup {[d EXCEPT !.bytes = b, !.text = t] : b \in {"none", "y"}, t \in {d.text, NoText,
            [letters |-> <<>>, style |-> "plain"], [letters |-> <<"a", "b", "c", "d", "e", "f">>, style |-> "plain"],
            [letters |-> <<"z", "b", "c", "d", "e">>, style |-> "plain"]}}
Read(d) == {[d EXCEPT !.issuer = i, !.number = n, !.territory = t, !.issued = s] :
    i \in {"none", "i"}, n \in {"none", "n"}, t \in {"none", "t"}, s \in {0, 1}}
Other(d) == [d EXCEPT !.id = 2, !.bidder = "b2", !.evidence = 12, !.name = "zeta"]
Against(docs, others) ==
    [Plain EXCEPT !.docs = docs, !.graded = TRUE,
        !.verifications = <<V(1, "BIS", "b1", "VERIFIED", <<>>)>>,
        !.corpus = <<[bidder |-> "b2", docs |-> others, verifications |-> <<[V(2, "BIS", "b2", "VERIFIED", <<>>) EXCEPT !.evidence = 12]>>]>>]
Altered(d) ==
    {[d EXCEPT !.meta = FALSE], [d EXCEPT !.type = "OEM"], [d EXCEPT !.name = "acme"], [d EXCEPT !.name = "none"],
     [d EXCEPT !.ocr = 10], [d EXCEPT !.until = 0], [d EXCEPT !.issued = 4, !.until = 5], [d EXCEPT !.number = "m"],
     [d EXCEPT !.issuer = "j", !.number = "none"], [d EXCEPT !.territory = "u", !.issued = 2]}
    \cup {[d EXCEPT !.answer.code = "5xx"], [d EXCEPT !.answer.https = FALSE], [d EXCEPT !.answer.finite = FALSE],
          [d EXCEPT !.answer.vector = <<4, 3>>], [d EXCEPT !.answer.vector = <<4, 0>>], [d EXCEPT !.answer.vector = <<1>>]}
ReuseCases ==
    {Against(<<d>>, <<Other(e)>>) : d \in Variants(Base), e \in Variants(Base) \cup Read(Base)}
    \cup {Against(<<d>>, <<Other(d)>>) : d \in UNION {Read(v) : v \in Variants(Base)}}
    \cup {Against(<<d>>, <<Other(e)>>) : d \in UNION {Variants(v) : v \in Altered(Base) \cup {Base}},
                                        e \in Altered(Base) \cup {[Base EXCEPT !.bytes = "y", !.text.letters = <<"p">>]}}
    \cup {Against(<<Base, [Base EXCEPT !.id = i]>>, <<Other(Base), [Other(Base) EXCEPT !.id = j, !.bytes = "y"]>>) :
            i \in {1, 3}, j \in {1, 2, 4}}
    \cup {[Against(<<Base>>, <<Other(Base)>>) EXCEPT !.store = FALSE]}

(* The verdicts.                                                                *)
R(req, cap, status, flags) ==
    [req |-> req, cap |-> cap, status |-> status, flags |-> flags, evidence |-> {}, cites |-> {}]
Results(req) ==
    {R(req, c, s, <<>>) : c \in {"GST", "PAN_INCOME_TAX", "DIGILOCKER", "NSIC"},
        s \in {"PASS", "FAIL", "WARNING", "MISSING", "UNVERIFIABLE", "NOT_CHECKED", "NOT_APPLICABLE"}}
    \cup {R(req, "DIGILOCKER", s, <<f>>) : s \in {"FAIL", "MISSING"},
            f \in {"TURNOVER_TREND_ANOMALY", "BIDDER_DEBARRED", "BID_ASSESSMENT_INCOMPLETE"}}
Papers == {<<>>, <<Base>>, <<[Base EXCEPT !.type = "GSTN"], [Base EXCEPT !.id = 5, !.type = "DIGILOCKER"]>>,
           <<[Base EXCEPT !.type = "odd"], [Base EXCEPT !.id = 5, !.type = "DIGILOCKER"]>>}
Rated == <<E(1, "GST", "gstin", <<"acme", "plain">>, "none"), [E(5, "GST", "gstin", <<"zeta", "plain">>, "none") EXCEPT !.confidence = 60]>>
VerdictCases ==
    {[Plain EXCEPT !.docs = p, !.results = <<r, s>>, !.evidence = e, !.store = FALSE] :
        p \in Papers, r \in Results(1), e \in {<<>>, Rated}, s \in {R(2, "GST", "WARNING", <<>>),
            R(2, "NSIC", "PASS", <<>>), R(2, "DIGILOCKER", "FAIL", <<"BID_ASSESSMENT_INCOMPLETE">>), R(1, "DIGILOCKER", "WARNING", <<>>)}}
    \cup {[Plain EXCEPT !.docs = p, !.results = <<r>>, !.requirements = <<[cap |-> "UDYAM", applicability |-> a]>>,
                        !.verifications = <<V(1, "GST", "b1", s, <<>>), V(2, "DIGILOCKER", "b1", t, <<>>)>>, !.graded = g] :
            p \in Papers, r \in {q \in Results(1) : q.cap # "NSIC" /\ q.status \in {"PASS", "FAIL", "MISSING"}}, a \in {"APPLICABLE", "NOT_APPLICABLE"},
            s \in {"VERIFIED", "INVALID", "ERROR"}, t \in {"VERIFIED", "NOT_FOUND"}, g \in BOOLEAN}

(* Books, in the form Financial takes them.                                     *)
Turnovers(values) ==
    [year |-> 1, items |-> <<[field |-> "annual_turnovers", body |-> [amount |-> 0],
        rows |-> [i \in DOMAIN values |-> [year |-> IF i = 3 /\ values[i] = 2 THEN 4 ELSE i, value |-> values[i]]]]>>]
BookCases ==
    {[Plain EXCEPT !.books = <<Turnovers(<<a, b, c>>), Turnovers(<<d>>)>>] : a \in {1, 20}, b \in {1, 5}, c \in {1, 2, 60}, d \in {1, 2, 20}}

MCCases == IdentityCases \cup ConsistencyCases \cup ReuseCases \cup VerdictCases \cup BookCases
=============================================================================
