------------------------ MODULE ComplianceEngine_proofs ------------------------
(***************************************************************************)
(* Proofs about one assessment, for bids of any number of requirements     *)
(* and whatever the sources answer.                                        *)
(***************************************************************************)
EXTENDS ComplianceEngine, FiniteSetTheorems, WellFoundedInduction, SequenceTheorems, TLAPS

-------------------------------------------------------------------------------
(* Decision ladders.                                                        *)

\* Every nonempty set of numbers has a least element.
LEMMA LeastElement ==
    ASSUME NEW T \in SUBSET Nat, T # {}
    PROVE  \E x \in T : \A y \in T : x <= y
<1> DEFINE R == OpToRel(<, Nat)
<1>1. IsWellFoundedOn(R, Nat)
  BY NatLessThanWellFounded
<1>2. \A x, y \in Nat : x < y => <<x, y>> \in R
  BY DEF OpToRel
<1> HIDE DEF R
<1>3. PICK x \in T : \A y \in T : ~(<<y, x>> \in R)
  BY <1>1, WFMin
<1>4. ASSUME NEW y \in T PROVE x <= y
  <2>1. x \in Nat /\ y \in Nat
    OBVIOUS
  <2>2. ~(y < x)
    BY <1>2, <1>3, <2>1
  <2> QED  BY <2>1, <2>2
<1> QED  BY <1>4

\* A decision ladder that ends in a row for everything else takes one of its
\* rows.
LEMMA SomeRow ==
    ASSUME NEW rows, NEW n \in Nat, n > 0, DOMAIN rows = 1 .. n, rows[n][1]
    PROVE  \E i \in 1 .. n : FirstRow(rows) = rows[i][2]
<1> DEFINE T == {i \in 1 .. n : rows[i][1]}
<1>1. PICK x \in T : \A y \in T : x <= y
  <2>1. T \in SUBSET Nat /\ T # {}
    OBVIOUS
  <2> QED  BY <2>1, LeastElement
<1>2. rows[x][1] /\ \A j \in 1 .. (x - 1) : ~rows[j][1]
  BY <1>1
<1>3. \E i \in DOMAIN rows : rows[i][1] /\ \A j \in 1 .. (i - 1) : ~rows[j][1]
  BY <1>1, <1>2
<1> QED  BY <1>3 DEF FirstRow

-------------------------------------------------------------------------------
(* What the rules say.                                                      *)

COMPLIANCE == {"PASS", "FAIL", "MISSING", "UNVERIFIABLE", "NOT_CHECKED", "NOT_APPLICABLE"}

\* An exception, or a result that cites the verification if cites says so.
Decision(out, cites) ==
    \/ out.status = "RAISES"
    \/ out.status \in COMPLIANCE /\ out.cites = cites

LEMMA ResultIsDecision ==
    ASSUME NEW status \in COMPLIANCE \cup {"RAISES"}, NEW flags, NEW cites
    PROVE  Decision(Result(status, flags, cites), cites)
BY DEF Decision, Result

LEMMA SaysIsDecision ==
    ASSUME NEW status \in COMPLIANCE, NEW flags
    PROVE  Decision(Says(status, flags), FALSE)
BY DEF Decision, Says, Result

LEMMA LadderDecides ==
    ASSUME NEW rows, NEW cites, NEW n \in Nat, n > 0, DOMAIN rows = 1 .. n, rows[n][1],
           \A i \in 1 .. n : Decision(rows[i][2], cites)
    PROVE  Decision(FirstRow(rows), cites)
BY SomeRow

\* The ladders, one by one.
LEMMA BisDecides == ASSUME NEW r, NEW d PROVE Decision(FirstRow(BisLadder(r, d)), TRUE)
<1> DEFINE rows == BisLadder(r, d)
<1>1. DOMAIN rows = 1 .. 11 /\ 11 \in Nat /\ 11 > 0
  BY DEF BisLadder
<1>2. rows[11][1]
  BY DEF BisLadder
<1>3. \A i \in 1 .. 11 : Decision(rows[i][2], TRUE)
  BY DEF BisLadder, COMPLIANCE, Decision, Result, Raises
<1>4. FirstRow(BisLadder(r, d)) = FirstRow(rows)
  OBVIOUS
<1> HIDE DEF rows
<1>5. Decision(FirstRow(rows), TRUE)
  BY <1>1, <1>2, <1>3, LadderDecides
<1> QED  BY <1>4, <1>5

LEMMA DigiLockerDecides == ASSUME NEW r, NEW d PROVE Decision(FirstRow(DigiLockerLadder(r, d)), TRUE)
<1> DEFINE rows == DigiLockerLadder(r, d)
<1>1. DOMAIN rows = 1 .. 5 /\ 5 \in Nat /\ 5 > 0
  BY DEF DigiLockerLadder
<1>2. rows[5][1]
  BY DEF DigiLockerLadder
<1>3. \A i \in 1 .. 5 : Decision(rows[i][2], TRUE)
  BY DEF DigiLockerLadder, COMPLIANCE, Decision, Result, Raises
<1>4. FirstRow(DigiLockerLadder(r, d)) = FirstRow(rows)
  OBVIOUS
<1> HIDE DEF rows
<1>5. Decision(FirstRow(rows), TRUE)
  BY <1>1, <1>2, <1>3, LadderDecides
<1> QED  BY <1>4, <1>5

LEMMA RestrictedDecides == ASSUME NEW r, NEW d PROVE Decision(FirstRow(RestrictedLadder(r, d)), TRUE)
<1> DEFINE rows == RestrictedLadder(r, d)
<1>1. DOMAIN rows = 1 .. 4 /\ 4 \in Nat /\ 4 > 0
  BY DEF RestrictedLadder
<1>2. rows[4][1]
  BY DEF RestrictedLadder
<1>3. \A i \in 1 .. 4 : Decision(rows[i][2], TRUE)
  BY DEF RestrictedLadder, Unverifiable, COMPLIANCE, Decision, Result, Raises
<1>4. FirstRow(RestrictedLadder(r, d)) = FirstRow(rows)
  OBVIOUS
<1> HIDE DEF rows
<1>5. Decision(FirstRow(rows), TRUE)
  BY <1>1, <1>2, <1>3, LadderDecides
<1> QED  BY <1>4, <1>5

LEMMA OemDecides == ASSUME NEW r PROVE Decision(FirstRow(OemLadder(r)), FALSE)
<1> DEFINE rows == OemLadder(r)
<1>1. DOMAIN rows = 1 .. 12 /\ 12 \in Nat /\ 12 > 0
  BY DEF OemLadder
<1>2. rows[12][1]
  BY DEF OemLadder
<1>3. \A i \in 1 .. 12 : Decision(rows[i][2], FALSE)
  BY DEF OemLadder, Missing, NotRequired, COMPLIANCE, Decision, Result, Raises
<1>4. FirstRow(OemLadder(r)) = FirstRow(rows)
  OBVIOUS
<1> HIDE DEF rows
<1>5. Decision(FirstRow(rows), FALSE)
  BY <1>1, <1>2, <1>3, LadderDecides
<1> QED  BY <1>4, <1>5

LEMMA MakeInIndiaDecides == ASSUME NEW r PROVE Decision(FirstRow(MakeInIndiaLadder(r)), FALSE)
<1> DEFINE rows == MakeInIndiaLadder(r)
<1>1. DOMAIN rows = 1 .. 11 /\ 11 \in Nat /\ 11 > 0
  BY DEF MakeInIndiaLadder
<1>2. rows[11][1]
  BY DEF MakeInIndiaLadder
<1>3. \A i \in 1 .. 11 : Decision(rows[i][2], FALSE)
  BY DEF MakeInIndiaLadder, Missing, Says, COMPLIANCE, Decision, Result, Raises
<1>4. FirstRow(MakeInIndiaLadder(r)) = FirstRow(rows)
  OBVIOUS
<1> HIDE DEF rows
<1>5. Decision(FirstRow(rows), FALSE)
  BY <1>1, <1>2, <1>3, LadderDecides
<1> QED  BY <1>4, <1>5

LEMMA TurnoverDecides == ASSUME NEW p, NEW points PROVE Decision(FirstRow(TurnoverLadder(p, points)), FALSE)
<1> DEFINE rows == TurnoverLadder(p, points)
<1>1. DOMAIN rows = 1 .. 10 /\ 10 \in Nat /\ 10 > 0
  BY DEF TurnoverLadder
<1>2. rows[10][1]
  BY DEF TurnoverLadder
<1>3. \A i \in 1 .. 10 : Decision(rows[i][2], FALSE)
  BY DEF TurnoverLadder, Says, COMPLIANCE, Decision, Result, Raises
<1>4. FirstRow(TurnoverLadder(p, points)) = FirstRow(rows)
  OBVIOUS
<1> HIDE DEF rows
<1>5. Decision(FirstRow(rows), FALSE)
  BY <1>1, <1>2, <1>3, LadderDecides
<1> QED  BY <1>4, <1>5

LEMMA AuditDecides == ASSUME NEW p, NEW a PROVE Decision(FirstRow(AuditLadder(p, a)), FALSE)
<1> DEFINE rows == AuditLadder(p, a)
<1>1. DOMAIN rows = 1 .. 6 /\ 6 \in Nat /\ 6 > 0
  BY DEF AuditLadder
<1>2. rows[6][1]
  BY DEF AuditLadder
<1>3. \A i \in 1 .. 6 : Decision(rows[i][2], FALSE)
  BY DEF AuditLadder, Says, COMPLIANCE, Decision, Result, Raises
<1>4. FirstRow(AuditLadder(p, a)) = FirstRow(rows)
  OBVIOUS
<1> HIDE DEF rows
<1>5. Decision(FirstRow(rows), FALSE)
  BY <1>1, <1>2, <1>3, LadderDecides
<1> QED  BY <1>4, <1>5

LEMMA SheetDecides == ASSUME NEW p, NEW s PROVE Decision(FirstRow(SheetLadder(p, s)), FALSE)
<1> DEFINE rows == SheetLadder(p, s)
<1>1. DOMAIN rows = 1 .. 3 /\ 3 \in Nat /\ 3 > 0
  BY DEF SheetLadder
<1>2. rows[3][1]
  BY DEF SheetLadder
<1>3. \A i \in 1 .. 3 : Decision(rows[i][2], FALSE)
  BY DEF SheetLadder, Says, COMPLIANCE, Decision, Result, Raises
<1>4. FirstRow(SheetLadder(p, s)) = FirstRow(rows)
  OBVIOUS
<1> HIDE DEF rows
<1>5. Decision(FirstRow(rows), FALSE)
  BY <1>1, <1>2, <1>3, LadderDecides
<1> QED  BY <1>4, <1>5
-------------------------------------------------------------------------------
(* The rules, first those that asked their source.                          *)

Undecided == {"NOT_FOUND", "UNAVAILABLE", "ERROR"}

\* A decision that cites the verification, and that is none for or against the
\* bidder when the source decided nothing.
Verdict(out, v) == Decision(out, TRUE) /\ (v.status \in Undecided => out.status \notin {"PASS", "FAIL"})

LEMMA SourceTable ==
    /\ FromSource["VERIFIED"] = "PASS"          /\ FromSource["INACTIVE"] = "FAIL"
    /\ FromSource["INVALID"] = "FAIL"           /\ FromSource["NOT_FOUND"] = "UNVERIFIABLE"
    /\ FromSource["UNAVAILABLE"] = "UNVERIFIABLE" /\ FromSource["ERROR"] = "UNVERIFIABLE"
BY DEF FromSource

LEMMA FromSourceIsVerdict ==
    ASSUME NEW s \in Statuses
    PROVE  FromSource[s] \in COMPLIANCE /\ (s \in Undecided => FromSource[s] = "UNVERIFIABLE")
BY SourceTable DEF Statuses, COMPLIANCE, Undecided

\* A result that takes its status from the source.
LEMMA SourceVerdict ==
    ASSUME NEW v, v.status \in Statuses, NEW flags
    PROVE  Verdict(Result(FromSource[v.status], flags, TRUE), v)
<1>1. FromSource[v.status] \in COMPLIANCE
      /\ (v.status \in Undecided => FromSource[v.status] = "UNVERIFIABLE")
  BY FromSourceIsVerdict
<1> QED  BY <1>1 DEF Verdict, Decision, Result

LEMMA RegistrationVerdicts ==
    ASSUME NEW r, NEW v, v.status \in Statuses, HasIdentifier(r)
    PROVE  /\ Verdict(GSTRegistrationRule(r, v), v)
           /\ Verdict(PANValidationRule(r, v), v)
           /\ Verdict(UdyamRegistrationRule(r, v), v)
BY SourceVerdict DEF GSTRegistrationRule, GstOutcome, PANValidationRule, UdyamRegistrationRule

LEMMA McaVerdict ==
    ASSUME NEW r, NEW v, v.status \in Statuses, ~BadParameters(r), ~r.waived, HasIdentifier(r)
    PROVE  Verdict(McaRegistrationRule(r, v), v)
<1>1. CASE McaContradicts(r, v)
  <2>1. McaRegistrationRule(r, v) = Result("FAIL", {"COMPANY_INACTIVE"}, TRUE)
    BY <1>1 DEF McaRegistrationRule
  <2>2. v.status = "VERIFIED"
    BY <1>1 DEF McaContradicts
  <2> QED  BY <2>1, <2>2 DEF Verdict, Decision, Result, COMPLIANCE, Undecided
<1>2. CASE ~McaContradicts(r, v)
  <2>1. McaRegistrationRule(r, v) = Result(FromSource[v.status], McaFlag(v.status), TRUE)
    BY <1>2 DEF McaRegistrationRule
  <2> QED  BY <2>1, SourceVerdict
<1> QED  BY <1>1, <1>2

LEMMA ReturnVerdict ==
    ASSUME NEW r, NEW v, v.status \in Statuses, HasIdentifier(r)
    PROVE  Verdict(GSTReturnFilingRule(r, v), v)
<1> DEFINE status == ReturnFilingStatus(v)
<1>1. status \in COMPLIANCE /\ (v.status \in Undecided => status = "UNVERIFIABLE")
  <2>1. CASE v.status = "VERIFIED"
    BY <2>1 DEF ReturnFilingStatus, COMPLIANCE, Undecided
  <2>2. CASE v.status # "VERIFIED"
    BY <2>2, FromSourceIsVerdict DEF ReturnFilingStatus
  <2> QED  BY <2>1, <2>2
<1>2. GSTReturnFilingRule(r, v) = Raises \/ GSTReturnFilingRule(r, v) = Result(status, ReturnFlags(v, status), TRUE)
  BY DEF GSTReturnFilingRule
<1> HIDE DEF status
<1> QED  BY <1>1, <1>2 DEF Verdict, Decision, Result, Raises

LEMMA BisVerdict ==
    ASSUME NEW r, NEW v, v.status \in Statuses, ~BadParameters(r), ~r.waived, HasIdentifier(r)
    PROVE  Verdict(BisCertificationRule(r, v), v)
<1>1. CASE v.status = "VERIFIED"
  <2>1. BisCertificationRule(r, v) = FirstRow(BisLadder(r, v.data))
    BY <1>1 DEF BisCertificationRule, BisInterpretVerified
  <2> QED  BY <1>1, <2>1, BisDecides DEF Verdict, Undecided
<1>2. CASE v.status # "VERIFIED"
  <2>1. BisCertificationRule(r, v) = BisOutcome(v)
    BY <1>2 DEF BisCertificationRule
  <2> QED  BY <1>2, <2>1 DEF BisOutcome, Raises, Verdict, Decision, Result, COMPLIANCE, Undecided, Statuses
<1> QED  BY <1>1, <1>2

LEMMA DigiLockerVerdict ==
    ASSUME NEW r, NEW v, v.status \in Statuses, HasIdentifier(r)
    PROVE  Verdict(DigiLockerVerificationRule(r, v), v)
<1>1. CASE v.status = "VERIFIED"
  <2>1. DigiLockerVerificationRule(r, v) = FirstRow(DigiLockerLadder(r, v.data))
    BY <1>1 DEF DigiLockerVerificationRule, DigiLockerInterpretVerified
  <2> QED  BY <1>1, <2>1, DigiLockerDecides DEF Verdict, Undecided
<1>2. CASE v.status # "VERIFIED"
  <2>1. DigiLockerVerificationRule(r, v) = DigiLockerOutcome(v)
    BY <1>2 DEF DigiLockerVerificationRule
  <2> QED  BY <1>2, <2>1 DEF DigiLockerOutcome, Verdict, Decision, Result, COMPLIANCE, Undecided, Statuses
<1> QED  BY <1>1, <1>2

LEMMA DebarmentVerdict ==
    ASSUME NEW r, NEW v, v.status \in Statuses,
           SubjectIdentifier(r.ids) \notin {"absent", "null"}, ~EvaluationDateFails(r.on)
    PROVE  Verdict(DebarmentEligibilityRule(r, v), v)
<1>1. DebarmentEligibilityRule(r, v) = DebarmentDecide(r, v)
  BY DEF DebarmentEligibilityRule
<1>2. Verdict(Unverifiable, v)
  BY DEF Unverifiable, Verdict, Decision, Result, COMPLIANCE
<1>3. CASE v.status # "VERIFIED"
  <2>1. Verdict(Raises, v)
    BY DEF Verdict, Decision, Raises, Result
  <2>2. DebarmentDecide(r, v) \in {Raises, Unverifiable}
    BY <1>3 DEF DebarmentDecide
  <2> QED  BY <1>1, <1>2, <2>1, <2>2
<1>4. CASE v.status = "VERIFIED" /\ v.data.restriction = "RESTRICTED"
  <2>1. DebarmentDecide(r, v) = FirstRow(RestrictedLadder(r, v.data))
    BY <1>4 DEF DebarmentDecide, DecideRestricted
  <2> QED  BY <1>1, <1>4, <2>1, RestrictedDecides DEF Verdict, Undecided
<1>5. CASE v.status = "VERIFIED" /\ v.data.restriction # "RESTRICTED"
  <2>1. DebarmentDecide(r, v) \in {Result("PASS", {}, TRUE), Unverifiable}
    BY <1>5 DEF DebarmentDecide
  <2> QED  BY <1>1, <1>2, <1>5, <2>1 DEF Verdict, Decision, Result, COMPLIANCE, Undecided
<1> QED  BY <1>3, <1>4, <1>5

\* Every rule that asked decides, and decides nothing that its source did not.
LEMMA AskedDecides ==
    ASSUME NEW r, NEW v, r.rule \in Asking \cup Free, AsksSource(r), v.status \in Statuses
    PROVE  Verdict(RuleResult(r, v), v)
<1>1. r.rule \in {"gst", "pan", "udyam", "mca", "gst_returns", "bis", "digilocker", "debarment"}
  BY DEF AsksSource, Asking, Free
<1>2. CASE r.rule \in {"gst", "pan", "udyam"}
  <2>1. HasIdentifier(r)
    BY <1>2 DEF AsksSource, Asking
  <2> QED  BY <1>2, <2>1, RegistrationVerdicts DEF RuleResult
<1>3. CASE r.rule \in {"mca", "bis"}
  <2>1. ~BadParameters(r) /\ ~r.waived /\ HasIdentifier(r)
    BY <1>3 DEF AsksSource
  <2> QED  BY <1>3, <2>1, McaVerdict, BisVerdict DEF RuleResult
<1>4. CASE r.rule \in {"gst_returns", "digilocker"}
  <2>1. HasIdentifier(r)
    BY <1>4 DEF AsksSource, Asking
  <2> QED  BY <1>4, <2>1, ReturnVerdict, DigiLockerVerdict DEF RuleResult
<1>5. CASE r.rule = "debarment"
  <2>1. SubjectIdentifier(r.ids) \notin {"absent", "null"} /\ ~EvaluationDateFails(r.on)
    BY <1>5 DEF AsksSource
  <2> QED  BY <1>5, <2>1, DebarmentVerdict DEF RuleResult
<1> QED  BY <1>1, <1>2, <1>3, <1>4, <1>5

-------------------------------------------------------------------------------
(* The rules that ask nobody.                                               *)

LEMMA NetWorthDecides == ASSUME NEW p, NEW entries PROVE Decision(EvaluateNetWorth(p, entries), FALSE)
BY DEF EvaluateNetWorth, ByFirst, YearMismatch, Says, Result, Decision, COMPLIANCE

SolvencyIsSet(p) == p.solvency \in {"unset", "no", "yes"}
LEMMA SolvencyDecides ==
    ASSUME NEW p, NEW entries, SolvencyIsSet(p)
    PROVE  Decision(EvaluateSolvency(p, entries), FALSE)
BY DEF SolvencyIsSet, EvaluateSolvency, ByFirst, YearMismatch, Says, Result, Decision, COMPLIANCE

LEMMA BalanceSheetDecides == ASSUME NEW p, NEW entries PROVE Decision(EvaluateBalanceSheet(p, entries), FALSE)
BY SheetDecides DEF EvaluateBalanceSheet, ByFirst, Says, Result, Decision, COMPLIANCE
LEMMA EvaluateDecides ==
    ASSUME NEW p, NEW profile, SolvencyIsSet(p)
    PROVE  Decision(Evaluate(p, profile), FALSE)
<1>1. Decision(EvaluateTurnover(p, profile.turnovers), FALSE)
  BY TurnoverDecides DEF EvaluateTurnover
<1>2. Decision(EvaluateAudit(p, profile.audit), FALSE)
  BY AuditDecides DEF EvaluateAudit
<1>3. Decision(Says("NOT_CHECKED", {}), FALSE)
  BY DEF Says, Decision, Result, COMPLIANCE
<1>4. /\ Decision(EvaluateNetWorth(p, profile.netWorth), FALSE)
      /\ Decision(EvaluateSolvency(p, profile.solvency), FALSE)
      /\ Decision(EvaluateBalanceSheet(p, profile.sheets), FALSE)
  BY NetWorthDecides, SolvencyDecides, BalanceSheetDecides
<1>5. Evaluate(p, profile) \in {EvaluateTurnover(p, profile.turnovers), EvaluateNetWorth(p, profile.netWorth),
          EvaluateSolvency(p, profile.solvency), EvaluateAudit(p, profile.audit),
          EvaluateBalanceSheet(p, profile.sheets), Says("NOT_CHECKED", {})}
  BY DEF Evaluate
<1> QED  BY <1>1, <1>2, <1>3, <1>4, <1>5

LEMMA FinancialDecides ==
    ASSUME NEW r, SolvencyIsSet(r.p)
    PROVE  Decision(FinancialCapacityRule(r), FALSE)
<1>1. Decision(Evaluate(r.p, Profile(r.docs)), FALSE)
  BY EvaluateDecides
<1>2. /\ Decision(Says("NOT_CHECKED", {}), FALSE)
      /\ Decision(Says("MISSING", {"FINANCIAL_CAPACITY_MISSING"}), FALSE)
  BY DEF Says, Decision, Result, COMPLIANCE
<1>3. FinancialCapacityRule(r) \in {Says("NOT_CHECKED", {}), Says("MISSING", {"FINANCIAL_CAPACITY_MISSING"}),
                                    Evaluate(r.p, Profile(r.docs))}
  BY DEF FinancialCapacityRule
<1> QED  BY <1>1, <1>2, <1>3

\* A rule that does not ask says MISSING, NOT_APPLICABLE or its own decision, or
\* raises, and cites nothing.
LEMMA UnaskedDecides ==
    ASSUME NEW r, NEW v, r.rule \in Asking \cup Free, ~AsksSource(r),
           r.rule = "financial" => SolvencyIsSet(r.p)
    PROVE  Decision(RuleResult(r, v), FALSE)
<1>1. /\ Decision(Missing({"GSTIN_MISSING"}), FALSE) /\ Decision(Missing({"REQUIRED_FIELD_MISSING"}), FALSE)
      /\ Decision(Missing({}), FALSE)
      /\ Decision(NotRequired, FALSE) /\ Decision(Raises, FALSE)
  BY DEF Missing, NotRequired, Raises, Decision, Result, COMPLIANCE
<1>2. CASE r.rule \in {"gst", "pan", "udyam", "gst_returns", "digilocker"}
  <2>1. ~HasIdentifier(r)
    BY <1>2 DEF AsksSource, Asking
  <2>2. RuleResult(r, v) \in {Missing({"GSTIN_MISSING"}), Missing({"REQUIRED_FIELD_MISSING"}), Missing({})}
    BY <1>2, <2>1 DEF RuleResult, GSTRegistrationRule, PANValidationRule, UdyamRegistrationRule,
                      GSTReturnFilingRule, DigiLockerVerificationRule
  <2> QED  BY <1>1, <2>2
<1>3. CASE r.rule \in {"mca", "bis"}
  <2>1. BadParameters(r) \/ r.waived \/ ~HasIdentifier(r)
    BY <1>3 DEF AsksSource
  <2>2. RuleResult(r, v) \in {Raises, NotRequired, Missing({"REQUIRED_FIELD_MISSING"})}
    BY <1>3, <2>1 DEF RuleResult, McaRegistrationRule, BisCertificationRule
  <2> QED  BY <1>1, <2>2
<1>4. CASE r.rule = "debarment"
  <2>1. SubjectIdentifier(r.ids) \in {"absent", "null"} \/ EvaluationDateFails(r.on)
    BY <1>4 DEF AsksSource
  <2>2. RuleResult(r, v) \in {Raises, Missing({"REQUIRED_FIELD_MISSING"})}
    BY <1>4, <2>1 DEF RuleResult, DebarmentEligibilityRule
  <2> QED  BY <1>1, <2>2
<1>5. CASE r.rule = "oem"
  BY <1>5, OemDecides DEF RuleResult, OemAuthorizationRule
<1>6. CASE r.rule = "make_in_india"
  BY <1>6, MakeInIndiaDecides DEF RuleResult, MakeInIndiaRule
<1>7. CASE r.rule = "financial"
  BY <1>7, FinancialDecides DEF RuleResult
<1> QED  BY <1>2, <1>3, <1>4, <1>5, <1>6, <1>7 DEF Asking, Free

-------------------------------------------------------------------------------
(* What a source says.                                                      *)

\* A verification, an exception, and neither VERIFIED, INACTIVE nor INVALID
\* after an outage.
Answered(v, out) ==
    /\ v.status \in Statuses \cup {"RAISES"}
    /\ out => v.status \in Undecided \cup {"RAISES"}

LEMMA RegistryTable ==
    /\ RegistryStatus["ACTIVE"] = "VERIFIED"  /\ RegistryStatus["INACTIVE"] = "INACTIVE"
    /\ RegistryStatus["INVALID"] = "INVALID"  /\ RegistryStatus["null"] = "NOT_FOUND"
    /\ RegistryStatus["odd"] = "ERROR"
BY DEF RegistryStatus

LEMMA NamedIsStatus ==
    ASSUME NEW a, a.body \in Worded \ {"absent"}, NEW silent \in Statuses
    PROVE  Named(a, silent) \in Statuses
BY RegistryTable DEF Named, Worded, Statuses

LEMMA ByCodeIsStatus ==
    ASSUME NEW a, NEW refused, NEW served,
           a.body # "absent" => refused \in Statuses /\ served \in Statuses
    PROVE  /\ ByCode(a, refused, served) \in Statuses \cup {"RAISES"}
           /\ a.code \in {"down", "cut", "5xx"} \/ a.body = "absent"
              => ByCode(a, refused, served) \in Undecided \cup {"RAISES"}
BY DEF ByCode, Statuses, Undecided
\* The transport may turn the answer into an outage and leaves the body alone.
LEMMA HttpClientKeepsBody ==
    ASSUME NEW a, a = [f \in DOMAIN a |-> a[f]], {"code", "body"} \subseteq DOMAIN a
    PROVE  /\ GstHttpClient(a).body = a.body /\ GstHttpClient(a).code \in {a.code, "down"}
           /\ PanHttpClient(a).code \in {a.code, "down", "cut"} /\ PanHttpClient(a).body = a.body
<1>1. \A c : [a EXCEPT !.code = c].code = c /\ [a EXCEPT !.code = c].body = a.body
  OBVIOUS
<1>2. GstHttpClient(a) = a \/ GstHttpClient(a) = [a EXCEPT !.code = "down"]
  BY DEF GstHttpClient
<1>3. PanHttpClient(a) = GstHttpClient(a) \/ PanHttpClient(a) = [a EXCEPT !.code = "cut"]
  BY DEF PanHttpClient
<1> QED  BY <1>1, <1>2, <1>3

LEMMA IdentifiedIsAnswered ==
    ASSUME NEW s, NEW d, NEW q, NEW out, Answered(Verification(s, d), out)
    PROVE  Answered(Identified(q, Verification(s, d)), out)
<1>1. [Verification(s, d) EXCEPT !.status = "RAISES"].status = "RAISES"
  BY DEF Verification
<1> QED  BY <1>1 DEF Identified, Answered

\* The registries whose answer is a word, under any transport.
LEMMA WordIsAnswered ==
    ASSUME NEW a, NEW b, b.body = a.body, a.body \in Worded, NEW silent \in Statuses, NEW data, NEW out,
           out => b.code \in {"down", "cut", "5xx"} \/ b.body = "absent"
    PROVE  Answered(Verification(ByCode(b, Named(b, "INVALID"), Named(b, silent)), data), out)
<1>1. b.body # "absent" => Named(b, "INVALID") \in Statuses /\ Named(b, silent) \in Statuses
  BY NamedIsStatus DEF Statuses
<1> DEFINE s == ByCode(b, Named(b, "INVALID"), Named(b, silent))
<1>3. s \in Statuses \cup {"RAISES"} /\ (out => s \in Undecided \cup {"RAISES"})
  BY <1>1, ByCodeIsStatus
<1> HIDE DEF s
<1>4. Verification(s, data).status = s
  BY DEF Verification
<1>5. Answered(Verification(s, data), out)
  BY <1>3, <1>4, Zenon DEF Answered
<1> QED  BY <1>5 DEF s

LEMMA RegistriesAnswer ==
    ASSUME NEW r, NEW a, r.rule \in {"gst", "udyam", "mca"}, a.code # "mock", IsAnswer(a, r.rule)
    PROVE  Answered(Ask(r, a), Outage(r.rule, a))
<1>1. a.body \in Worded
  BY DEF IsAnswer
<1>2. Outage(r.rule, a) => a.code \in {"down", "cut", "5xx"} \/ a.body = "absent"
  BY DEF Outage
<1>3. "INVALID" \in Statuses /\ "NOT_FOUND" \in Statuses /\ "ERROR" \in Statuses
  BY DEF Statuses
<1>4. CASE r.rule = "gst"
  <2> DEFINE b == IF a.route = "http" THEN GstHttpClient(a) ELSE a
  <2>1. b.body = a.body /\ b.code \in {a.code, "down"}
    BY HttpClientKeepsBody DEF IsAnswer
  <2>2. GSTNAdapter(a) = Verification(ByCode(b, Named(b, "INVALID"), Named(b, "ERROR")), NoData)
    BY DEF GSTNAdapter, GstStatus, Bare
  <2> HIDE DEF b
  <2>3. Answered(GSTNAdapter(a), Outage(r.rule, a))
    BY <1>1, <1>2, <1>3, <2>1, <2>2, WordIsAnswered
  <2>4. Answered(Identified(Queried(r), GSTNAdapter(a)), Outage(r.rule, a))
    BY <2>2, <2>3, IdentifiedIsAnswered
  <2> QED  BY <1>4, <2>4 DEF Ask
<1>5. CASE r.rule = "udyam"
  <2>1. UdyamAdapter(a) = Verification(ByCode(a, Named(a, "INVALID"), Named(a, "NOT_FOUND")), NoData)
    BY DEF UdyamAdapter, UdyamStatus, Bare
  <2>2. Answered(UdyamAdapter(a), Outage(r.rule, a))
    BY <1>1, <1>2, <1>3, <2>1, WordIsAnswered
  <2>3. Answered(Identified(Queried(r), UdyamAdapter(a)), Outage(r.rule, a))
    BY <2>1, <2>2, IdentifiedIsAnswered
  <2> QED  BY <1>5, <2>3 DEF Ask
<1>6. CASE r.rule = "mca"
  <2>1. McaAdapter(a) = Verification(ByCode(a, Named(a, "INVALID"), Named(a, "NOT_FOUND")), McaData(a, McaStatus(a)))
    BY DEF McaAdapter, McaStatus
  <2>2. Answered(McaAdapter(a), Outage(r.rule, a))
    BY <1>1, <1>2, <1>3, <2>1, WordIsAnswered
  <2>3. Answered(Identified(Queried(r), McaAdapter(a)), Outage(r.rule, a))
    BY <2>1, <2>2, IdentifiedIsAnswered
  <2> QED  BY <1>6, <2>3 DEF Ask
<1> QED  BY <1>4, <1>5, <1>6

LEMMA PanAnswers ==
    ASSUME NEW r, NEW a, r.rule = "pan", a.code # "mock", IsAnswer(a, r.rule)
    PROVE  Answered(Ask(r, a), Outage(r.rule, a))
<1>1. ASSUME Answered(PanAdapter(a), Outage(r.rule, a)) PROVE Answered(Ask(r, a), Outage(r.rule, a))
  <2>1. Ask(r, a) = Identified(Queried(r), PanAdapter(a))
    BY DEF Ask
  <2>2. \E s : PanAdapter(a) = Verification(s, NoData)
    BY DEF PanAdapter, Bare
  <2> QED  BY <1>1, <2>1, <2>2, IdentifiedIsAnswered
<1>2. CASE a.route = "soap"
  <2> DEFINE b == PanHttpClient(a)
  <2>1. b.body = a.body /\ b.code \in {a.code, "down", "cut"}
    BY HttpClientKeepsBody DEF IsAnswer
  <2>2. PanAdapter(a) = Verification(PanVerifyReal(b), NoData)
    BY <1>2 DEF PanAdapter, Bare
  <2>3. Outage(r.rule, a) => a.code \in {"down", "cut"} \/ a.body = "absent"
    BY <1>2 DEF Outage, LooksAtCode
  <2> HIDE DEF b
  <2>4. PanSoapStatus(b.soap) \in Statuses
    BY DEF PanSoapStatus, Statuses
  <2>5. PanVerifyReal(b) \in Statuses \cup {"RAISES"}
    BY <2>4 DEF PanVerifyReal, Statuses
  <2>6. Outage(r.rule, a) => PanVerifyReal(b) \in Undecided \cup {"RAISES"}
    BY <2>1, <2>3 DEF PanVerifyReal, Undecided
  <2>7. Answered(PanAdapter(a), Outage(r.rule, a))
    BY <2>2, <2>5, <2>6 DEF Answered, Verification
  <2> QED  BY <1>1, <2>7
<1>3. CASE a.route # "soap"
  <2>1. PanAdapter(a) = Verification(ByCode(a, Named(a, "INVALID"), Named(a, "NOT_FOUND")), NoData)
    BY <1>3 DEF PanAdapter, PanStatus, Bare
  <2>2. a.body \in Worded /\ "NOT_FOUND" \in Statuses
    BY <1>3 DEF IsAnswer, Statuses
  <2>3. Outage(r.rule, a) => a.code \in {"down", "cut", "5xx"} \/ a.body = "absent"
    BY DEF Outage
  <2>4. Answered(PanAdapter(a), Outage(r.rule, a))
    BY <2>1, <2>2, <2>3, WordIsAnswered
  <2> QED  BY <1>1, <2>4
<1> QED  BY <1>2, <1>3

\* The others tell words of their own apart.
LEMMA OthersAnswer ==
    ASSUME NEW r, NEW a, r.rule \in {"gst_returns", "bis", "digilocker", "debarment"}, a.code # "mock",
           IsAnswer(a, r.rule)
    PROVE  Answered(Ask(r, a), Outage(r.rule, a))
<1>1. ASSUME NEW s, NEW d, Ask(r, a) = Identified(Queried(r), Verification(s, d)),
             s \in Statuses \cup {"RAISES"}, Outage(r.rule, a) => s \in Undecided \cup {"RAISES"}
      PROVE  Answered(Ask(r, a), Outage(r.rule, a))
  <2>1. Answered(Verification(s, d), Outage(r.rule, a))
    BY <1>1 DEF Answered, Verification
  <2> QED  BY <1>1, <2>1, IdentifiedIsAnswered
<1>2. CASE r.rule = "gst_returns"
  <2> DEFINE b == IF a.route = "http" THEN GstHttpClient(a) ELSE a
  <2>1. b.body = a.body /\ b.code \in {a.code, "down"}
    BY HttpClientKeepsBody DEF IsAnswer
  <2>2. Ask(r, a) = Identified(Queried(r), Verification(GstReturnStatus(b), GstReturnData(a, GstReturnStatus(b))))
    BY <1>2 DEF Ask, GSTNReturnsAdapter
  <2> HIDE DEF b
  <2>3. FilingStatus(b) \in Statuses
    BY DEF FilingStatus, Statuses
  <2>4. /\ GstReturnStatus(b) \in Statuses \cup {"RAISES"}
        /\ b.code \in {"down", "cut", "5xx"} \/ b.body = "absent" => GstReturnStatus(b) \in Undecided \cup {"RAISES"}
    BY <2>3, ByCodeIsStatus DEF GstReturnStatus, Statuses
  <2>5. Outage(r.rule, a) => a.code \in {"down", "cut", "5xx"} \/ a.body = "absent"
    BY DEF Outage
  <2> QED  BY <1>1, <2>1, <2>2, <2>4, <2>5
<1>3. CASE r.rule = "debarment"
  <2>1. Ask(r, a) = Identified(Queried(r), Verification(DebarmentStatus(a), DebarmentData(a)))
    BY <1>3 DEF Ask, DebarmentAdapter
  <2>2. RestrictionStatus(a) \in Statuses
    BY DEF RestrictionStatus, Statuses
  <2>3. /\ DebarmentStatus(a) \in Statuses \cup {"RAISES"}
        /\ a.code \in {"down", "cut", "5xx"} \/ a.body = "absent" => DebarmentStatus(a) \in Undecided \cup {"RAISES"}
    BY <2>2, ByCodeIsStatus DEF DebarmentStatus, Statuses
  <2>4. Outage(r.rule, a) => a.code \in {"down", "cut", "5xx"} \/ a.body = "absent"
    BY DEF Outage
  <2> QED  BY <1>1, <2>1, <2>3, <2>4
<1>4. ASSUME r.rule \in {"bis", "digilocker"}, Outage(r.rule, a)
      PROVE  a.code \in {"down", "cut"} \/ a.body = "absent"
  BY <1>4 DEF Outage, LooksAtCode
<1>5. CASE r.rule = "bis"
  <2>1. Ask(r, a) = Identified(Queried(r), Verification(BisStatus(a), a))
    BY <1>5 DEF Ask, BisAdapter
  <2>2. BisStatus(a) \in Statuses \cup {"RAISES"}
    BY DEF BisStatus, NoAnswer, Unanswered, Statuses
  <2>3. Outage(r.rule, a) => BisStatus(a) \in Undecided \cup {"RAISES"}
    BY <1>4, <1>5 DEF BisStatus, NoAnswer, Unanswered, Undecided
  <2> QED  BY <1>1, <2>1, <2>2, <2>3
<1>6. CASE r.rule = "digilocker"
  <2>1. Ask(r, a) = Identified(Queried(r), Verification(DigiLockerStatus(a), a))
    BY <1>6 DEF Ask, DigiLockerAdapter
  <2>2. DigiLockerStatus(a) \in Statuses \cup {"RAISES"}
    BY DEF DigiLockerStatus, NoAnswer, Unanswered, Statuses
  <2>3. Outage(r.rule, a) => DigiLockerStatus(a) \in Undecided \cup {"RAISES"}
    BY <1>4, <1>6 DEF DigiLockerStatus, NoAnswer, Unanswered, Undecided
  <2> QED  BY <1>1, <2>1, <2>2, <2>3
<1> QED  BY <1>2, <1>3, <1>5, <1>6

\* Whatever the source of a rule answers is a verification or an exception, and
\* an outage is neither VERIFIED nor INACTIVE nor INVALID.
LEMMA SourcesAnswer ==
    ASSUME NEW r, NEW a, r.rule \in Asking, IsAnswer(a, r.rule)
    PROVE  Answered(Ask(r, a), Outage(r.rule, a))
<1>1. CASE a.code = "mock"
  <2>1. a.body \in Statuses \cup {"unknown"}
    BY <1>1 DEF IsAnswer
  <2>2. ~Outage(r.rule, a)
    BY <1>1, <2>1 DEF Outage, Statuses
  <2>3. Ask(r, a).status \in Statuses
    BY <1>1, <2>1 DEF Ask, MockProvider, Bare, Verification, Statuses
  <2> QED  BY <2>2, <2>3 DEF Answered
<1>2. CASE a.code # "mock"
  BY <1>2, RegistriesAnswer, PanAnswers, OthersAnswer DEF Asking
<1> QED  BY <1>1, <1>2
-------------------------------------------------------------------------------
(* Sequences that grow.                                                     *)

IsSeq(s) == s \in Seq(ToSet(s))

LEMMA SeqFacts ==
    ASSUME NEW s, IsSeq(s)
    PROVE  /\ Len(s) \in Nat /\ DOMAIN s = 1 .. Len(s)
           /\ \A k \in 1 .. Len(s) : s[k] \in ToSet(s)
           /\ \A x \in ToSet(s) : \E k \in 1 .. Len(s) : s[k] = x
BY DEF IsSeq, ToSet

LEMMA OwnSeq == ASSUME NEW S, NEW t \in Seq(S) PROVE IsSeq(t)
<1>1. Len(t) \in Nat /\ t \in [1 .. Len(t) -> S] /\ DOMAIN t = 1 .. Len(t)
  BY LenProperties
<1>2. t \in [1 .. Len(t) -> ToSet(t)]
  BY <1>1 DEF ToSet
<1>3. t \in UNION {[1 .. n -> ToSet(t)] : n \in Nat}
  BY <1>1, <1>2
<1> QED  BY <1>3, SeqDef DEF IsSeq

LEMMA Appended ==
    ASSUME NEW s, IsSeq(s), NEW x
    PROVE  /\ IsSeq(Append(s, x)) /\ Len(Append(s, x)) = Len(s) + 1
           /\ \A k \in 1 .. Len(s) : Append(s, x)[k] = s[k]
           /\ Append(s, x)[Len(s) + 1] = x
<1> DEFINE S == ToSet(s) \cup {x}
           t == Append(s, x)
<1>1. s \in Seq(S) /\ x \in S
  <2>1. ToSet(s) \subseteq S /\ s \in Seq(ToSet(s))
    BY DEF IsSeq
  <2> QED  BY <2>1, SeqMonotonic
<1>2. /\ t \in Seq(S) /\ Len(t) = Len(s) + 1 /\ t[Len(s) + 1] = x
      /\ \A k \in 1 .. Len(s) : t[k] = s[k]
  BY <1>1, AppendProperties
<1>3. IsSeq(t)
  BY <1>2, OwnSeq
<1> QED  BY <1>2, <1>3 DEF IsSeq

LEMMA Joined ==
    ASSUME NEW s, IsSeq(s), NEW t, IsSeq(t)
    PROVE  /\ IsSeq(s \o t) /\ Len(s \o t) = Len(s) + Len(t)
           /\ \A x : s \o Append(t, x) = Append(s \o t, x)
           /\ (s \o t) \o <<>> = s \o t
<1> DEFINE S == ToSet(s) \cup ToSet(t)
           u == s \o t
<1>1. s \in Seq(S) /\ t \in Seq(S)
  <2>1. ToSet(s) \subseteq S /\ ToSet(t) \subseteq S /\ s \in Seq(ToSet(s)) /\ t \in Seq(ToSet(t))
    BY DEF IsSeq
  <2> QED  BY <2>1, SeqMonotonic
<1>2. u \in Seq(S) /\ Len(u) = Len(s) + Len(t)
  BY <1>1, ConcatProperties
<1>3. IsSeq(u)
  BY <1>2, OwnSeq
<1>4. \A x : s \o Append(t, x) = Append(s \o t, x)
  <2> TAKE x
  <2> DEFINE X == S \cup {x}
  <2>1. s \in Seq(X) /\ t \in Seq(X) /\ x \in X
    BY <1>1, SeqMonotonic
  <2>2. u \in Seq(X) /\ <<x>> \in Seq(X)
    BY <2>1, ConcatProperties
  <2> HIDE DEF X
  <2>3. Append(t, x) = t \o <<x>> /\ Append(s \o t, x) = (s \o t) \o <<x>>
    BY <2>1, <2>2, AppendIsConcat
  <2>4. (s \o t) \o <<x>> = s \o (t \o <<x>>)
    BY <2>1, <2>2, ConcatAssociative
  <2> QED  BY <2>3, <2>4
<1>5. u \o <<>> = u
  BY <1>2, ConcatEmptySeq
<1> QED  BY <1>2, <1>3, <1>4, <1>5 DEF IsSeq

-------------------------------------------------------------------------------
(* The order of the requirements.                                           *)

LEMMA SameOrder ==
    ASSUME bid' = bid
    PROVE  \A i, j : (Before(i, j))' = Before(i, j)
BY DEF Before, FirstOfCapability, Place, Provided, Registered, Applicable
LEMMA FirstOfCapabilityFacts ==
    ASSUME IsBid(bid), NEW i \in DOMAIN bid.reqs
    PROVE  /\ FirstOfCapability(i) \in DOMAIN bid.reqs /\ FirstOfCapability(i) \in Nat
           /\ bid.reqs[FirstOfCapability(i)].cap = bid.reqs[i].cap
<1> DEFINE Fits(j) == bid.reqs[j].cap = bid.reqs[i].cap /\ \A k \in 1 .. (j - 1) : bid.reqs[k].cap # bid.reqs[i].cap
           T == {j \in DOMAIN bid.reqs : bid.reqs[j].cap = bid.reqs[i].cap}
<1>1. Len(bid.reqs) \in Nat /\ DOMAIN bid.reqs = 1 .. Len(bid.reqs)
  BY SeqFacts DEF IsBid, IsSeq
<1>2. T \in SUBSET Nat /\ T # {}
  BY <1>1
<1>3. PICK j \in T : \A k \in T : j <= k
  BY <1>2, LeastElement
<1>4. j \in DOMAIN bid.reqs /\ Fits(j)
  <2>1. j \in 1 .. Len(bid.reqs) /\ bid.reqs[j].cap = bid.reqs[i].cap
    BY <1>1, <1>3
  <2>2. ASSUME NEW k \in 1 .. (j - 1), bid.reqs[k].cap = bid.reqs[i].cap PROVE FALSE
    <3>1. k \in T
      BY <1>1, <2>1, <2>2
    <3> QED  BY <1>3, <2>1, <2>2, <3>1
  <2> QED  BY <1>1, <2>1, <2>2
<1>5. FirstOfCapability(i) = CHOOSE k \in DOMAIN bid.reqs : Fits(k)
  BY DEF FirstOfCapability
<1> HIDE DEF Fits
<1>6. FirstOfCapability(i) \in DOMAIN bid.reqs /\ Fits(FirstOfCapability(i))
  BY <1>4, <1>5
<1> QED  BY <1>1, <1>6 DEF Fits

\* Requirements of one capability have the same first of their capability.
LEMMA FirstOfCapabilitySame ==
    ASSUME NEW i, NEW j, bid.reqs[i].cap = bid.reqs[j].cap
    PROVE  FirstOfCapability(i) = FirstOfCapability(j)
<1> DEFINE First(c) == CHOOSE k \in DOMAIN bid.reqs :
                           bid.reqs[k].cap = c /\ \A l \in 1 .. (k - 1) : bid.reqs[l].cap # c
<1>1. FirstOfCapability(i) = First(bid.reqs[i].cap) /\ FirstOfCapability(j) = First(bid.reqs[j].cap)
  BY DEF FirstOfCapability
<1> HIDE DEF First
<1> QED  BY <1>1

LEMMA BeforeUnfolded ==
    ASSUME NEW i, NEW j
    PROVE  Before(i, j) <=>
               \/ FirstOfCapability(i) < FirstOfCapability(j)
               \/ FirstOfCapability(i) = FirstOfCapability(j) /\ Place(bid.reqs[i]) < Place(bid.reqs[j])
               \/ /\ FirstOfCapability(i) = FirstOfCapability(j) /\ Place(bid.reqs[i]) = Place(bid.reqs[j])
                  /\ i < j
<1> DEFINE a == <<FirstOfCapability(i), Place(bid.reqs[i]), i>>
           b == <<FirstOfCapability(j), Place(bid.reqs[j]), j>>
<1>1. Before(i, j) <=> \E n \in 1 .. 3 : a[n] < b[n] /\ \A m \in 1 .. (n - 1) : a[m] = b[m]
  BY DEF Before
<1>2. (\E n \in 1 .. 3 : a[n] < b[n] /\ \A m \in 1 .. (n - 1) : a[m] = b[m])
      <=> (\/ a[1] < b[1] \/ (a[1] = b[1] /\ a[2] < b[2]) \/ (a[1] = b[1] /\ a[2] = b[2] /\ a[3] < b[3]))
  <2> HIDE DEF a, b
  <2>1. 1 .. 3 = {1, 2, 3} /\ 1 .. (1 - 1) = {} /\ 1 .. (2 - 1) = {1} /\ 1 .. (3 - 1) = {1, 2}
    OBVIOUS
  <2> QED  BY <2>1
<1> QED  BY <1>1, <1>2

\* No requirement comes before itself, and no other capability comes between two
\* requirements of one capability.
LEMMA NotBeforeItself ==
    ASSUME IsBid(bid), NEW i \in DOMAIN bid.reqs
    PROVE  ~Before(i, i)
<1>1. i \in Nat
  BY SeqFacts DEF IsBid, IsSeq
<1>2. FirstOfCapability(i) \in Nat /\ Place(bid.reqs[i]) \in Nat
  BY FirstOfCapabilityFacts DEF Place
<1> QED  BY <1>1, <1>2, BeforeUnfolded

LEMMA NothingBetween ==
    ASSUME IsBid(bid), NEW i \in DOMAIN bid.reqs, NEW j \in DOMAIN bid.reqs, NEW k \in DOMAIN bid.reqs,
           Before(i, j), Before(j, k), bid.reqs[i].cap = bid.reqs[k].cap
    PROVE  bid.reqs[j].cap = bid.reqs[i].cap
<1>1. /\ FirstOfCapability(i) \in Nat /\ FirstOfCapability(j) \in Nat /\ FirstOfCapability(k) \in Nat
      /\ FirstOfCapability(i) = FirstOfCapability(k)
  BY FirstOfCapabilityFacts, FirstOfCapabilitySame
<1>2. FirstOfCapability(i) <= FirstOfCapability(j) /\ FirstOfCapability(j) <= FirstOfCapability(k)
  BY <1>1, BeforeUnfolded
<1>3. FirstOfCapability(i) = FirstOfCapability(j)
  BY <1>1, <1>2
<1>4. bid.reqs[FirstOfCapability(i)].cap = bid.reqs[i].cap /\ bid.reqs[FirstOfCapability(j)].cap = bid.reqs[j].cap
  BY FirstOfCapabilityFacts
<1> QED  BY <1>3, <1>4
-------------------------------------------------------------------------------
(* The inductive invariant.                                                 *)

Kept == records \o tracked
Shape ==
    /\ IsBid(bid)
    /\ IsSeq(results) /\ IsSeq(heard) /\ IsSeq(records) /\ IsSeq(tracked)
    /\ pc \in {"run", "done", "raised"}

\* The results are about requirements of the bid, in the order in which the
\* engine comes to them, and what is open comes after them.
InOrder ==
    /\ \A m \in 1 .. Len(results) : results[m].req \in DOMAIN bid.reqs /\ results[m].status \in COMPLIANCE
    /\ \A m, n \in 1 .. Len(results) : m < n => Before(results[m].req, results[n].req)
    /\ \A m \in 1 .. Len(results), k \in Open : Before(results[m].req, k)
RecordsFit == \A k \in 1 .. Len(Kept) : Kept[k].status \in Statuses

\* The trail of the finished groups and of the open one matches the calls.
\* The call that raised has left its record and no result, or neither.
Cites(m, k) ==
    /\ results[m].req = heard[k].req /\ results[m].cites = {Kept[k].id}
    /\ bid.reqs[heard[k].req].rule \in Registering => Kept[k].evidence
Trail ==
    /\ Len(Kept) = Len(heard)
    /\ \A k, l \in 1 .. Len(heard) : heard[k].req = heard[l].req => k = l
    /\ \A k \in 1 .. Len(heard) : \E m \in 1 .. Len(results) : Cites(m, k)
    /\ \A m \in 1 .. Len(results) : results[m].cites # {} =>
          \E k \in 1 .. Len(heard) : heard[k].req = results[m].req
Outages ==
    \A k \in 1 .. Len(heard), m \in 1 .. Len(results) :
        results[m].req = heard[k].req /\ Outage(bid.reqs[heard[k].req].rule, heard[k].answer)
        => results[m].status \notin {"PASS", "FAIL"}
Over == pc = "done" => Open = {} /\ tracked = <<>>
IInv == Shape /\ InOrder /\ RecordsFit /\ (pc # "raised" => Trail) /\ Outages /\ Over

LEMMA OpenFacts ==
    ASSUME IsSeq(results)
    PROVE  \A k : k \in Open <=> k \in DOMAIN bid.reqs /\ \A m \in 1 .. Len(results) : results[m].req # k
BY SeqFacts DEF Open

LEMMA Initially == Init => IInv
<1> SUFFICES ASSUME Init PROVE IInv
  OBVIOUS
<1>1. IsBid(bid)
  BY EngineAssumption DEF Init
<1>2. <<>> \in Seq({}) /\ Len(<<>>) = 0 /\ <<>> \o <<>> = <<>>
  BY EmptySeq, ConcatEmptySeq
<1>3. IsSeq(<<>>)
  BY <1>2, OwnSeq
<1>4. Shape
  BY <1>1, <1>3 DEF Init, Shape
<1>5. 1 .. Len(results) = {} /\ 1 .. Len(heard) = {} /\ 1 .. Len(Kept) = {} /\ Len(Kept) = Len(heard)
  BY <1>2 DEF Init, Kept
<1>6. pc = "run"
  BY DEF Init
<1> QED  BY <1>4, <1>5, <1>6 DEF IInv, InOrder, RecordsFit, Trail, Outages, Over

\* A result that joins the list: the one of the least open requirement.
Joins(i, status, cites) ==
    /\ IsSeq(results') /\ Len(results') = Len(results) + 1
    /\ \A m \in 1 .. Len(results) : results'[m] = results[m]
    /\ results'[Len(results) + 1].req = i /\ results'[Len(results) + 1].status = status
    /\ results'[Len(results) + 1].cites = cites

LEMMA Emitted ==
    ASSUME Shape, pc = "run", NEW i, NEW out, NEW id, NEW cites \in BOOLEAN, Decision(out, cites), Emit(i, out, id)
    PROVE  /\ bid' = bid
           /\ \/ pc' = "raised" /\ results' = results
              \/ /\ pc' = "run" /\ out.status \in COMPLIANCE
                 /\ Joins(i, out.status, IF cites THEN {id} ELSE {})
<1>1. CASE out.status = "RAISES"
  BY <1>1 DEF Emit
<1>2. CASE out.status # "RAISES"
  <2> DEFINE new == [req |-> i, status |-> out.status, flags |-> out.flags, cites |-> IF out.cites THEN {id} ELSE {}]
  <2>1. out.status \in COMPLIANCE /\ out.cites = cites
    BY <1>2 DEF Decision
  <2>2. results' = Append(results, new) /\ bid' = bid /\ pc' = pc
    BY <1>2 DEF Emit
  <2>3. new.req = i /\ new.status = out.status /\ new.cites = IF cites THEN {id} ELSE {}
    BY <2>1
  <2> HIDE DEF new
  <2>4. IsSeq(results)
    BY DEF Shape
  <2>5. Joins(i, out.status, IF cites THEN {id} ELSE {})
    BY <2>2, <2>3, <2>4, Appended DEF Joins
  <2> QED  BY <2>1, <2>2, <2>5
<1> QED  BY <1>1, <1>2

LEMMA JoinsInOrder ==
    ASSUME Shape, InOrder, NEW i, UpNext(i), NEW status \in COMPLIANCE, NEW cites, Joins(i, status, cites), bid' = bid
    PROVE  InOrder'
<1> DEFINE n == Len(results)
<1>1. n \in Nat /\ Len(results') = n + 1 /\ IsSeq(results) /\ IsSeq(results')
  BY SeqFacts DEF Shape, Joins
<1>2. /\ \A m \in 1 .. n : results'[m] = results[m]
      /\ results'[n + 1].req = i /\ results'[n + 1].status = status
  BY DEF Joins
<1>3. i \in Open /\ i \in DOMAIN bid.reqs /\ \A j \in Open \ {i} : Before(i, j)
  BY <1>1, OpenFacts DEF UpNext
<1>4. \A k : k \in Open' <=> k \in DOMAIN bid'.reqs /\ \A m \in 1 .. Len(results') : results'[m].req # k
  BY <1>1, SeqFacts DEF Open
<1>5. \A k \in Open' : k \in Open \ {i}
  <2> TAKE k \in Open'
  <2>1. k \in DOMAIN bid.reqs /\ \A m \in 1 .. (n + 1) : results'[m].req # k
    BY <1>1, <1>4
  <2>2. k # i
    BY <1>1, <1>2, <2>1
  <2>3. \A m \in 1 .. n : results[m].req # k
    BY <1>1, <1>2, <2>1
  <2> QED  BY <1>1, <2>1, <2>2, <2>3, OpenFacts
<1>6. \A k, l : (Before(k, l))' = Before(k, l)
  BY SameOrder
<1> HIDE DEF n
<1>7. \A m \in 1 .. (n + 1) : m \in 1 .. n \/ m = n + 1
  BY <1>1
<1>8. \A m \in 1 .. Len(results') : results'[m].req \in DOMAIN bid'.reqs /\ results'[m].status \in COMPLIANCE
  <2> TAKE m \in 1 .. Len(results')
  <2> QED  BY <1>1, <1>2, <1>3, <1>7 DEF InOrder, n
<1>9. \A m, l \in 1 .. Len(results') : m < l => Before(results'[m].req, results'[l].req)
  <2> SUFFICES ASSUME NEW m \in 1 .. (n + 1), NEW l \in 1 .. (n + 1), m < l
               PROVE  Before(results'[m].req, results'[l].req)
    BY <1>1
  <2>1. m \in 1 .. n /\ results'[m] = results[m]
    BY <1>1, <1>2
  <2>2. CASE l = n + 1
    BY <1>2, <1>3, <2>1, <2>2 DEF InOrder, n
  <2>3. CASE l \in 1 .. n
    BY <1>2, <2>1, <2>3 DEF InOrder, n
  <2> QED  BY <1>7, <2>2, <2>3
<1>10. \A m \in 1 .. Len(results'), k \in Open' : Before(results'[m].req, k)
  <2> SUFFICES ASSUME NEW m \in 1 .. (n + 1), NEW k \in Open \ {i} PROVE Before(results'[m].req, k)
    BY <1>1, <1>5
  <2>1. CASE m = n + 1
    BY <1>2, <1>3, <2>1
  <2>2. CASE m \in 1 .. n
    BY <1>2, <2>2 DEF InOrder, n
  <2> QED  BY <1>7, <2>1, <2>2
<1> QED  BY <1>6, <1>8, <1>9, <1>10 DEF InOrder
\* A requirement that is open was not asked about.
LEMMA NotYetAsked ==
    ASSUME IInv, pc = "run", NEW i \in Open
    PROVE  \A k \in 1 .. Len(heard) : heard[k].req # i
<1>1. \A m \in 1 .. Len(results) : results[m].req # i
  BY OpenFacts DEF IInv, Shape
<1>2. \A k \in 1 .. Len(heard) : \E m \in 1 .. Len(results) : results[m].req = heard[k].req
  BY DEF IInv, Trail, Cites
<1> QED  BY <1>1, <1>2

LEMMA QuietStep ==
    ASSUME IInv, NEW i, NEW out, Quietly(i, out), Decision(out, FALSE)
    PROVE  IInv'
<1>1. /\ pc = "run" /\ UpNext(i) /\ i \in Open /\ Emit(i, out, <<>>)
      /\ tracked' = tracked /\ records' = records /\ heard' = heard
  BY DEF Quietly, Ready, UpNext
<1>2. Shape /\ InOrder /\ RecordsFit /\ Trail /\ Outages
  BY <1>1 DEF IInv
<1>3. Kept' = Kept
  BY <1>1 DEF Kept
<1>4. /\ bid' = bid
      /\ (pc' = "raised" /\ results' = results)
         \/ (pc' = "run" /\ out.status \in COMPLIANCE /\ Joins(i, out.status, {}))
  BY <1>1, <1>2, Emitted
<1>5. CASE pc' = "raised" /\ results' = results
  <2>1. Shape' /\ RecordsFit' /\ (pc' # "raised" => Trail') /\ Outages' /\ Over'
    BY <1>1, <1>2, <1>3, <1>4, <1>5 DEF Shape, RecordsFit, Outages, Over
  <2>2. Open' = Open
    BY <1>4, <1>5 DEF Open
  <2>3. InOrder'
    BY <1>2, <1>4, <1>5, <2>2, SameOrder DEF InOrder
  <2> QED  BY <2>1, <2>3 DEF IInv
<1>6. CASE pc' = "run" /\ out.status \in COMPLIANCE /\ Joins(i, out.status, {})
  <2> DEFINE n == Len(results)
  <2>1. n \in Nat /\ Len(results') = n + 1 /\ IsSeq(results')
    BY <1>2, <1>6, SeqFacts DEF Joins, Shape
  <2>2. /\ \A m \in 1 .. n : results'[m] = results[m]
        /\ results'[n + 1].req = i /\ results'[n + 1].cites = {}
    BY <1>6 DEF Joins
  <2>3. 1 .. n \subseteq 1 .. (n + 1) /\ \A m \in 1 .. (n + 1) : m \in 1 .. n \/ m = n + 1
    BY <2>1
  <2>4. InOrder'
    BY <1>1, <1>2, <1>4, <1>6, JoinsInOrder
  <2>5. Shape' /\ RecordsFit' /\ Over'
    BY <1>1, <1>2, <1>3, <1>4, <1>6, <2>1 DEF Shape, RecordsFit, Over
  <2>6. \A k \in 1 .. Len(heard) : heard[k].req # i
    BY <1>1, NotYetAsked
  <2> HIDE DEF n
  <2>7. \A k \in 1 .. Len(heard) : \E m \in 1 .. (n + 1) : (Cites(m, k))'
    <3> TAKE k \in 1 .. Len(heard)
    <3>1. PICK m \in 1 .. n : Cites(m, k)
      BY <1>2 DEF Trail, n
    <3>2. (Cites(m, k))'
      BY <1>1, <1>3, <1>4, <2>2, <3>1 DEF Cites
    <3> QED  BY <2>3, <3>1, <3>2
  <2>8. ASSUME NEW m \in 1 .. (n + 1), results'[m].cites # {}
        PROVE  \E k \in 1 .. Len(heard) : heard[k].req = results'[m].req
    <3>1. m \in 1 .. n /\ results'[m] = results[m]
      BY <2>2, <2>3, <2>8
    <3> QED  BY <1>2, <2>8, <3>1 DEF Trail, n
  <2>9. Trail'
    BY <1>1, <1>2, <1>3, <2>1, <2>7, <2>8 DEF Trail
  <2>10. ASSUME NEW k \in 1 .. Len(heard), NEW m \in 1 .. (n + 1), results'[m].req = heard[k].req
         PROVE  m \in 1 .. n /\ results'[m] = results[m]
    BY <2>2, <2>3, <2>6, <2>10
  <2>11. Outages'
    <3> SUFFICES ASSUME NEW k \in 1 .. Len(heard), NEW m \in 1 .. (n + 1), results'[m].req = heard[k].req,
                        Outage(bid.reqs[heard[k].req].rule, heard[k].answer)
                 PROVE  results'[m].status \notin {"PASS", "FAIL"}
      BY <1>1, <1>4, <2>1 DEF Outages
    <3> QED  BY <1>2, <2>10 DEF Outages, n
  <2> QED  BY <2>4, <2>5, <2>9, <2>11 DEF IInv
<1> QED  BY <1>4, <1>5, <1>6

\* The steps that ask nobody.
LEMMA SilentSteps ==
    ASSUME IInv, NEW i \in DOMAIN bid.reqs,
           NotApplicable(i) \/ WithoutProvider(i) \/ WithoutRule(i) \/ WithoutAsking(i)
    PROVE  IInv'
<1> DEFINE r == bid.reqs[i]
<1>1. \A status \in COMPLIANCE : Decision(Result(status, {}, FALSE), FALSE)
  BY ResultIsDecision
<1>2. {"UNVERIFIABLE", "NOT_APPLICABLE", "NOT_CHECKED"} \subseteq COMPLIANCE
  BY DEF COMPLIANCE
<1>3. CASE NotApplicable(i)
  <2> DEFINE status == IF r.applicability = "UNKNOWN" THEN "UNVERIFIABLE" ELSE "NOT_APPLICABLE"
  <2>1. Quietly(i, Result(status, {}, FALSE)) /\ status \in COMPLIANCE
    BY <1>2, <1>3 DEF NotApplicable
  <2> HIDE DEF status
  <2> QED  BY <1>1, <2>1, QuietStep
<1>4. CASE WithoutProvider(i)
  BY <1>1, <1>2, <1>4, QuietStep DEF WithoutProvider
<1>5. CASE WithoutRule(i)
  BY <1>1, <1>2, <1>5, QuietStep DEF WithoutRule
<1>6. CASE WithoutAsking(i)
  <2>1. Reachable(r) /\ ~AsksSource(r) /\ Quietly(i, RuleResult(r, Bare("ERROR")))
    BY <1>6 DEF WithoutAsking
  <2>2. IsBid(bid) /\ r \in ToSet(bid.reqs)
    BY SeqFacts DEF IInv, Shape, IsBid, IsSeq, ToSet
  <2>3. r.rule \in Asking \cup Free /\ (r.rule = "financial" => SolvencyIsSet(r.p))
    BY <2>1, <2>2 DEF IsBid, Reachable, Registered, SolvencyIsSet
  <2> HIDE DEF r
  <2>4. Decision(RuleResult(r, Bare("ERROR")), FALSE)
    BY <2>1, <2>3, UnaskedDecides
  <2> QED  BY <2>1, <2>4, QuietStep
<1> QED  BY <1>3, <1>4, <1>5, <1>6
\* What an asking rule hears, and what it makes of it.
LEMMA AskFacts ==
    ASSUME Shape, NEW i \in DOMAIN bid.reqs, Reachable(bid.reqs[i]), AsksSource(bid.reqs[i]),
           NEW a \in Answers[bid.world][bid.reqs[i].rule]
    PROVE  LET r == bid.reqs[i]
               v == Ask(r, a)
           IN  /\ Answered(v, Outage(r.rule, a))
               /\ v.status # "RAISES" => v.status \in Statuses /\ Verdict(RuleResult(r, v), v)
<1> DEFINE r == bid.reqs[i]
           v == Ask(r, a)
<1>1. IsBid(bid) /\ r \in ToSet(bid.reqs)
  BY SeqFacts DEF Shape, IsBid, IsSeq, ToSet
<1>2. r.rule \in Asking \cup Free
  BY <1>1 DEF IsBid, Reachable, Registered
<1>3. r.rule \in Asking
  BY <1>2 DEF AsksSource, Asking, Free
<1>4. bid.world \in DOMAIN Answers /\ r.rule \in DOMAIN Answers[bid.world]
  BY <1>1, <1>3 DEF IsBid
<1>5. IsAnswer(a, r.rule)
  BY <1>4, EngineAssumption
<1>6. AsksSource(r)
  OBVIOUS
<1> HIDE DEF r
<1>7. Answered(v, Outage(r.rule, a))
  BY <1>3, <1>5, SourcesAnswer
<1>8. ASSUME v.status # "RAISES" PROVE v.status \in Statuses /\ Verdict(RuleResult(r, v), v)
  <2>1. v.status \in Statuses
    BY <1>7, <1>8 DEF Answered
  <2> HIDE DEF v
  <2> QED  BY <1>2, <1>6, <2>1, AskedDecides
<1> QED  BY <1>7, <1>8 DEF r

\* A call that raised decided nothing.
LEMMA RaisedCall ==
    ASSUME IInv, NEW i, NEW a, Ready(i), heard' = Append(heard, [req |-> i, answer |-> a]),
           pc' = "raised", UNCHANGED <<bid, results>>, IsSeq(tracked'), records' = records, RecordsFit'
    PROVE  IInv'
<1>1. pc = "run" /\ i \in Open
  BY DEF Ready, UpNext
<1>2. Shape /\ InOrder /\ Outages
  BY DEF IInv
<1>3. /\ IsSeq(heard) /\ Len(heard) \in Nat
      /\ IsSeq(heard') /\ Len(heard') = Len(heard) + 1 /\ heard'[Len(heard) + 1].req = i
      /\ \A k \in 1 .. Len(heard) : heard'[k] = heard[k]
  BY <1>2, Appended, SeqFacts DEF Shape
<1>4. Shape' /\ Over'
  BY <1>2, <1>3 DEF Shape, Over
<1>5. Open' = Open
  BY DEF Open
<1>6. InOrder'
  BY <1>2, <1>5, SameOrder DEF InOrder
<1>7. Outages'
  <2> SUFFICES ASSUME NEW k \in 1 .. (Len(heard) + 1), NEW m \in 1 .. Len(results), results[m].req = heard'[k].req,
                      Outage(bid.reqs[heard'[k].req].rule, heard'[k].answer)
               PROVE  results[m].status \notin {"PASS", "FAIL"}
    BY <1>3 DEF Outages
  <2>1. results[m].req # i
    BY <1>1, <1>2, OpenFacts DEF Shape
  <2>2. k # Len(heard) + 1
    BY <1>3, <2>1
  <2>3. k \in 1 .. Len(heard) /\ heard'[k] = heard[k]
    BY <1>3, <2>2
  <2> QED  BY <1>2, <2>3 DEF Outages
<1> QED  BY <1>4, <1>6, <1>7 DEF IInv

\* A call that was answered and decided.
LEMMA DecidedCall ==
    ASSUME IInv, NEW i, NEW a, Ready(i), i \in DOMAIN bid.reqs, heard' = Append(heard, [req |-> i, answer |-> a]),
           NEW id, NEW record, record.id = id, record.status \in Statuses,
           bid.reqs[i].rule \in Registering => record.evidence,
           tracked' = Append(tracked, record), records' = records, bid' = bid,
           NEW status \in COMPLIANCE, Outage(bid.reqs[i].rule, a) => status \notin {"PASS", "FAIL"},
           pc' = "run", Joins(i, status, {id})
    PROVE  IInv'
<1> DEFINE n == Len(results)
           h == Len(heard)
<1>1. pc = "run" /\ UpNext(i) /\ i \in Open
  BY DEF Ready, UpNext
<1>2. Shape /\ InOrder /\ RecordsFit /\ Trail /\ Outages
  BY <1>1 DEF IInv
<1>3. /\ h \in Nat /\ IsSeq(heard') /\ Len(heard') = h + 1
      /\ heard'[h + 1] = [req |-> i, answer |-> a] /\ \A k \in 1 .. h : heard'[k] = heard[k]
  BY <1>2, Appended, SeqFacts DEF Shape
<1>4. /\ n \in Nat /\ IsSeq(results') /\ Len(results') = n + 1
      /\ \A m \in 1 .. n : results'[m] = results[m]
      /\ results'[n + 1].req = i /\ results'[n + 1].status = status /\ results'[n + 1].cites = {id}
  BY <1>2, SeqFacts DEF Joins, Shape
<1>5. /\ Len(Kept) = h /\ IsSeq(tracked') /\ Len(Kept') = h + 1
      /\ Kept'[h + 1] = record /\ \A k \in 1 .. h : Kept'[k] = Kept[k]
  <2>1. IsSeq(tracked) /\ IsSeq(records) /\ IsSeq(Kept) /\ Len(Kept) = h
    BY <1>2, Joined DEF Shape, Kept, Trail
  <2>2. Kept' = Append(Kept, record) /\ IsSeq(tracked')
    BY <2>1, Joined, Appended DEF Kept
  <2> QED  BY <2>1, <2>2, Appended
<1>6. \A k \in 1 .. (h + 1) : k \in 1 .. h \/ k = h + 1
  BY <1>3
<1>7. \A m \in 1 .. (n + 1) : m \in 1 .. n \/ m = n + 1
  BY <1>4
<1>8. n + 1 \in 1 .. (n + 1) /\ h + 1 \in 1 .. (h + 1) /\ 1 .. n \subseteq 1 .. (n + 1) /\ 1 .. h \subseteq 1 .. (h + 1)
      /\ n + 1 \notin 1 .. n
  BY <1>3, <1>4
<1>9. \A k \in 1 .. h : heard[k].req # i
  BY <1>1, NotYetAsked
<1>10. \A m \in 1 .. n : results[m].req # i
  BY <1>1, <1>2, OpenFacts DEF Shape
<1>11. InOrder'
  BY <1>1, <1>2, JoinsInOrder
<1>12. Shape' /\ Over'
  BY <1>2, <1>3, <1>4, <1>5 DEF Shape, Over
<1>13. RecordsFit'
  <2> SUFFICES ASSUME NEW k \in 1 .. (h + 1) PROVE Kept'[k].status \in Statuses
    BY <1>5 DEF RecordsFit
  <2> QED  BY <1>2, <1>5, <1>6 DEF RecordsFit
<1> HIDE DEF n, h
<1>14. Trail'
  <2>1. ASSUME NEW k \in 1 .. (h + 1), NEW l \in 1 .. (h + 1), heard'[k].req = heard'[l].req PROVE k = l
    <3>1. CASE k \in 1 .. h /\ l \in 1 .. h
      BY <1>2, <1>3, <2>1, <3>1 DEF Trail, h
    <3>2. CASE k = h + 1 \/ l = h + 1
      BY <1>3, <1>6, <1>9, <2>1, <3>2
    <3> QED  BY <1>6, <3>1, <3>2
  <2>2. ASSUME NEW k \in 1 .. (h + 1) PROVE \E m \in 1 .. (n + 1) : (Cites(m, k))'
    <3>1. CASE k = h + 1
      <4>1. results'[n + 1].req = heard'[k].req /\ results'[n + 1].cites = {Kept'[k].id}
        BY <1>3, <1>4, <1>5, <3>1
      <4>2. bid'.reqs[heard'[k].req].rule \in Registering => Kept'[k].evidence
        BY <1>3, <1>5, <3>1
      <4> QED  BY <1>8, <4>1, <4>2 DEF Cites
    <3>2. CASE k \in 1 .. h
      <4>1. PICK m \in 1 .. n : Cites(m, k)
        BY <1>2, <3>2 DEF Trail, n, h
      <4>2. (Cites(m, k))'
        BY <1>3, <1>4, <1>5, <3>2, <4>1 DEF Cites
      <4> QED  BY <1>8, <4>1, <4>2
    <3> QED  BY <1>6, <3>1, <3>2
  <2>3. ASSUME NEW m \in 1 .. (n + 1), results'[m].cites # {}
        PROVE  \E k \in 1 .. (h + 1) : heard'[k].req = results'[m].req
    <3>1. CASE m = n + 1
      BY <1>3, <1>4, <1>8, <3>1
    <3>2. CASE m \in 1 .. n
      <4>1. PICK k \in 1 .. h : heard[k].req = results[m].req
        BY <1>2, <1>4, <2>3, <3>2 DEF Trail, n, h
      <4> QED  BY <1>3, <1>4, <1>8, <3>2, <4>1
    <3> QED  BY <1>7, <3>1, <3>2
  <2>4. Len(Kept') = Len(heard')
    BY <1>3, <1>5
  <2>5. \A k, l \in 1 .. Len(heard') : heard'[k].req = heard'[l].req => k = l
    BY <1>3, <2>1
  <2>6. \A k \in 1 .. Len(heard') : \E m \in 1 .. Len(results') : (Cites(m, k))'
    BY <1>3, <1>4, <2>2
  <2>7. \A m \in 1 .. Len(results') : results'[m].cites # {} => \E k \in 1 .. Len(heard') : heard'[k].req = results'[m].req
    BY <1>3, <1>4, <2>3
  <2> QED  BY <2>4, <2>5, <2>6, <2>7 DEF Trail
<1>15. Outages'
  <2> SUFFICES ASSUME NEW k \in 1 .. (h + 1), NEW m \in 1 .. (n + 1), results'[m].req = heard'[k].req,
                      Outage(bid.reqs[heard'[k].req].rule, heard'[k].answer)
               PROVE  results'[m].status \notin {"PASS", "FAIL"}
    BY <1>3, <1>4 DEF Outages
  <2>1. CASE k = h + 1 /\ m = n + 1
    BY <1>3, <1>4, <2>1
  <2>2. CASE k \in 1 .. h /\ m \in 1 .. n
    BY <1>2, <1>3, <1>4, <2>2 DEF Outages, n, h
  <2>3. CASE k = h + 1 /\ m \in 1 .. n
    BY <1>3, <1>4, <1>10, <2>3
  <2>4. CASE k \in 1 .. h /\ m = n + 1
    BY <1>3, <1>4, <1>9, <2>4
  <2> QED  BY <1>6, <1>7, <2>1, <2>2, <2>3, <2>4
<1> QED  BY <1>11, <1>12, <1>13, <1>14, <1>15 DEF IInv
LEMMA AskStep ==
    ASSUME IInv, NEW i \in DOMAIN bid.reqs, AskProvider(i)
    PROVE  IInv'
<1> DEFINE r == bid.reqs[i]
<1>1. Ready(i) /\ Reachable(r) /\ AsksSource(r)
  BY DEF AskProvider
<1>2. pc = "run" /\ Shape /\ RecordsFit /\ Trail
  BY <1>1 DEF Ready, IInv
<1>3. PICK a \in Answers[bid.world][r.rule] :
          /\ heard' = Append(heard, [req |-> i, answer |-> a])
          /\ IF Ask(r, a).status = "RAISES"
             THEN pc' = "raised" /\ UNCHANGED <<bid, results, tracked, records>>
             ELSE Decided(i, a, Ask(r, a))
  BY DEF AskProvider
<1>4. PICK v : v = Ask(r, a)
  OBVIOUS
<1>5. /\ Answered(v, Outage(r.rule, a))
      /\ v.status # "RAISES" => v.status \in Statuses /\ Verdict(RuleResult(r, v), v)
  BY <1>1, <1>2, <1>4, AskFacts
<1>6. CASE v.status = "RAISES"
  <2>1. pc' = "raised" /\ UNCHANGED <<bid, results, tracked, records>>
    BY <1>3, <1>4, <1>6
  <2>2. IsSeq(tracked') /\ RecordsFit'
    BY <1>2, <2>1 DEF Shape, RecordsFit, Kept
  <2> QED  BY <1>1, <1>3, <2>1, <2>2, RaisedCall
<1>7. CASE v.status # "RAISES"
  <2> DEFINE out == RuleResult(r, v)
             id == Call(r.cap, a)
             record == [id |-> id, status |-> v.status, evidence |-> r.rule \in Registering]
  <2>1. Emit(i, out, id) /\ tracked' = Append(tracked, record) /\ records' = records
    BY <1>3, <1>4, <1>7 DEF Decided
  <2>2. v.status \in Statuses /\ Decision(out, TRUE) /\ (v.status \in Undecided => out.status \notin {"PASS", "FAIL"})
    BY <1>5, <1>7 DEF Verdict
  <2>3. Outage(r.rule, a) => v.status \in Undecided
    BY <1>5, <1>7 DEF Answered
  <2>4. record.id = id /\ record.status \in Statuses /\ (r.rule \in Registering => record.evidence)
    BY <2>2
  <2> HIDE DEF out, id, record
  <2>5. /\ bid' = bid
        /\ (pc' = "raised" /\ results' = results)
           \/ (pc' = "run" /\ out.status \in COMPLIANCE /\ Joins(i, out.status, {id}))
    BY <1>2, <2>1, <2>2, Emitted
  <2>6. IsSeq(tracked') /\ RecordsFit'
    <3>1. IsSeq(tracked) /\ IsSeq(Kept) /\ Kept' = Append(Kept, record)
      BY <1>2, <2>1, Joined DEF Shape, Kept
    <3>2. /\ IsSeq(tracked') /\ Len(Kept) \in Nat /\ Len(Kept') = Len(Kept) + 1
          /\ Kept'[Len(Kept) + 1] = record /\ \A k \in 1 .. Len(Kept) : Kept'[k] = Kept[k]
      BY <2>1, <3>1, Appended, SeqFacts
    <3>3. ASSUME NEW k \in 1 .. (Len(Kept) + 1) PROVE Kept'[k].status \in Statuses
      <4>1. k = Len(Kept) + 1 \/ k \in 1 .. Len(Kept)
        BY <3>2
      <4> QED  BY <1>2, <2>4, <3>2, <4>1 DEF RecordsFit
    <3> QED  BY <3>2, <3>3 DEF RecordsFit
  <2>7. CASE pc' = "raised" /\ results' = results
    BY <1>1, <1>3, <2>1, <2>5, <2>6, <2>7, RaisedCall
  <2>8. CASE pc' = "run" /\ out.status \in COMPLIANCE /\ Joins(i, out.status, {id})
    <3>1. Outage(r.rule, a) => out.status \notin {"PASS", "FAIL"}
      BY <2>2, <2>3
    <3> QED  BY <1>1, <1>3, <2>1, <2>4, <2>5, <2>8, <3>1, DecidedCall
  <2> QED  BY <2>5, <2>7, <2>8
<1> QED  BY <1>6, <1>7

LEMMA CloseStep == ASSUME IInv, CloseGroup PROVE IInv'
<1>1. /\ pc = "run" /\ pc' = pc /\ bid' = bid /\ results' = results /\ heard' = heard
      /\ records' = records \o tracked /\ tracked' = <<>>
  BY DEF CloseGroup
<1>2. Shape /\ InOrder /\ RecordsFit /\ Trail /\ Outages /\ Over
  BY <1>1 DEF IInv
<1>3. IsSeq(<<>>)
  BY EmptySeq, OwnSeq
<1>4. IsSeq(records') /\ Kept' = Kept
  BY <1>1, <1>2, Joined DEF Shape, Kept
<1>5. Shape'
  BY <1>1, <1>2, <1>3, <1>4 DEF Shape
<1>6. Open' = Open
  BY <1>1 DEF Open
<1>7. InOrder'
  BY <1>1, <1>2, <1>6, SameOrder DEF InOrder
<1>8. \A m, k : (Cites(m, k))' = Cites(m, k)
  BY <1>1, <1>4 DEF Cites
<1>9. RecordsFit' /\ Trail' /\ Outages' /\ Over'
  BY <1>1, <1>2, <1>4, <1>8 DEF RecordsFit, Trail, Outages, Over
<1> QED  BY <1>5, <1>7, <1>9 DEF IInv

LEMMA FinishStep == ASSUME IInv, Finish PROVE IInv'
<1>1. /\ pc = "run" /\ ~GroupFinished /\ Open = {} /\ pc' = "done"
      /\ UNCHANGED <<bid, results, tracked, records, heard>>
  BY DEF Finish
<1>2. tracked = <<>>
  BY <1>1 DEF GroupFinished
<1>3. Open' = Open /\ Kept' = Kept
  BY <1>1 DEF Open, Kept
<1>4. InOrder'
  BY <1>1, <1>3, SameOrder DEF IInv, InOrder
<1>5. \A m, k : (Cites(m, k))' = Cites(m, k)
  BY <1>1, <1>3 DEF Cites
<1>6. Shape' /\ RecordsFit' /\ Trail' /\ Outages' /\ Over'
  BY <1>1, <1>2, <1>3, <1>5 DEF IInv, Shape, RecordsFit, Trail, Outages, Over
<1> QED  BY <1>4, <1>6 DEF IInv

LEMMA Stutter == ASSUME IInv, UNCHANGED vars PROVE IInv'
<1>1. UNCHANGED <<bid, results, tracked, records, heard, pc>>
  BY DEF vars
<1>2. Open' = Open /\ Kept' = Kept
  BY <1>1 DEF Open, Kept
<1>3. InOrder'
  BY <1>1, <1>2, SameOrder DEF IInv, InOrder
<1>4. \A m, k : (Cites(m, k))' = Cites(m, k)
  BY <1>1, <1>2 DEF Cites
<1>5. Shape' /\ RecordsFit' /\ (pc' # "raised" => Trail') /\ Outages' /\ Over'
  BY <1>1, <1>2, <1>4 DEF IInv, Shape, RecordsFit, Trail, Outages, Over
<1> QED  BY <1>3, <1>5 DEF IInv

LEMMA Inductive == IInv /\ [Next]_vars => IInv'
<1> SUFFICES ASSUME IInv, [Next]_vars PROVE IInv'
  OBVIOUS
<1>1. CASE \E i \in DOMAIN bid.reqs :
              NotApplicable(i) \/ WithoutProvider(i) \/ WithoutRule(i) \/ WithoutAsking(i) \/ AskProvider(i)
  BY <1>1, SilentSteps, AskStep
<1>2. CASE CloseGroup
  BY <1>2, CloseStep
<1>3. CASE Finish
  BY <1>3, FinishStep
<1>4. CASE UNCHANGED vars
  BY <1>4, Stutter
<1> QED  BY <1>1, <1>2, <1>3, <1>4 DEF Next

LEMMA Invariant == Spec => []IInv
BY Initially, Inductive, PTL DEF Spec

-------------------------------------------------------------------------------
(* What follows.                                                            *)

\* Results are about requirements of the bid and take their status from the six
\* of ComplianceStatus, records from the six of VerificationStatus.
THEOREM TypeCorrect == Spec => []TypeOK
<1>1. IInv => TypeOK
  <2> SUFFICES ASSUME IInv PROVE TypeOK
    OBVIOUS
  <2>1. Shape /\ InOrder /\ RecordsFit
    BY DEF IInv
  <2>2. \A res \in ToSet(results) : res.req \in DOMAIN bid.reqs /\ res.status \in COMPLIANCE
    BY <2>1, SeqFacts DEF Shape, InOrder
  <2>3. \A rec \in ToSet(records) \cup ToSet(tracked) : rec.status \in Statuses
    <3> DEFINE n == Len(records)
               l == Len(tracked)
    <3>1. IsSeq(records) /\ IsSeq(tracked) /\ records \in Seq(ToSet(records) \cup ToSet(tracked))
          /\ tracked \in Seq(ToSet(records) \cup ToSet(tracked))
      BY <2>1, SeqMonotonic DEF Shape, IsSeq
    <3>2. n \in Nat /\ l \in Nat /\ Len(Kept) = n + l
          /\ \A k \in 1 .. (n + l) : Kept[k] = IF k <= n THEN records[k] ELSE tracked[k - n]
      BY <3>1, SeqFacts, ConcatProperties DEF Kept
    <3> HIDE DEF n, l
    <3>3. ASSUME NEW k \in 1 .. n PROVE records[k].status \in Statuses
      <4>1. k \in 1 .. (n + l) /\ k <= n
        BY <3>2
      <4> QED  BY <2>1, <3>2, <4>1 DEF RecordsFit
    <3>4. ASSUME NEW k \in 1 .. l PROVE tracked[k].status \in Statuses
      <4>1. k + n \in 1 .. (n + l) /\ ~(k + n <= n) /\ (k + n) - n = k
        BY <3>2
      <4> QED  BY <2>1, <3>2, <4>1 DEF RecordsFit
    <3> QED  BY <3>1, <3>3, <3>4, SeqFacts DEF n, l
  <2> QED  BY <2>1, <2>2, <2>3 DEF TypeOK, Shape, IsBid, COMPLIANCE
<1> QED  BY <1>1, Invariant, PTL

\* A source that is down, cut off, failing or silent passes and fails nobody.
THEOREM OutagesDecideNothing == Spec => []OutageNeverDecides
<1>1. IInv => OutageNeverDecides
  <2> SUFFICES ASSUME IInv, NEW k \in DOMAIN heard, NEW res \in ToSet(results), res.req = heard[k].req,
                      Outage(bid.reqs[res.req].rule, heard[k].answer)
               PROVE  res.status \notin {"PASS", "FAIL"}
    BY DEF OutageNeverDecides
  <2>1. k \in 1 .. Len(heard)
    BY SeqFacts DEF IInv, Shape
  <2>2. PICK m \in 1 .. Len(results) : results[m] = res
    BY SeqFacts DEF IInv, Shape
  <2> QED  BY <2>1, <2>2 DEF IInv, Outages
<1> QED  BY <1>1, Invariant, PTL

\* A finished assessment has one record for each call, and every citation is
\* that of a call.
THEOREM TrailComplete == Spec => []AuditTrail
<1>1. IInv => AuditTrail
  <2> SUFFICES ASSUME IInv, pc = "done"
               PROVE  /\ Len(records) = Len(heard)
                      /\ \A k, l \in DOMAIN heard : heard[k].req = heard[l].req => k = l
                      /\ \A k \in DOMAIN heard : \E res \in ToSet(results) :
                            /\ res.req = heard[k].req /\ res.cites = {records[k].id}
                            /\ bid.reqs[res.req].rule \in Registering => records[k].evidence
                      /\ \A res \in ToSet(results) : res.cites # {} =>
                            \E k \in DOMAIN heard : heard[k].req = res.req
    BY DEF AuditTrail
  <2>1. Shape /\ Trail /\ tracked = <<>>
    BY DEF IInv, Over
  <2>2. Kept = records
    BY <2>1, ConcatEmptySeq DEF Kept, Shape, IsSeq
  <2>3. DOMAIN heard = 1 .. Len(heard)
    BY <2>1, SeqFacts DEF Shape
  <2>4. \A m \in 1 .. Len(results) : results[m] \in ToSet(results)
    BY <2>1, SeqFacts DEF Shape
  <2>5. ASSUME NEW k \in DOMAIN heard
        PROVE  \E res \in ToSet(results) :
                  /\ res.req = heard[k].req /\ res.cites = {records[k].id}
                  /\ bid.reqs[res.req].rule \in Registering => records[k].evidence
    <3>1. PICK m \in 1 .. Len(results) : Cites(m, k)
      BY <2>1, <2>3 DEF Trail
    <3> QED  BY <2>2, <2>4, <3>1 DEF Cites
  <2>6. ASSUME NEW res \in ToSet(results), res.cites # {} PROVE \E k \in DOMAIN heard : heard[k].req = res.req
    <3>1. PICK m \in 1 .. Len(results) : results[m] = res
      BY <2>1, SeqFacts DEF Shape
    <3> QED  BY <2>1, <2>3, <2>6, <3>1 DEF Trail
  <2> QED  BY <2>1, <2>2, <2>3, <2>5, <2>6 DEF Trail
<1> QED  BY <1>1, Invariant, PTL

\* A finished assessment has one result for each requirement, those of a
\* capability side by side.
THEOREM OneForEach == Spec => []OneResultEach
<1>1. IInv => OneResultEach
  <2> SUFFICES ASSUME IInv, pc = "done" PROVE
          /\ Len(results) = Len(bid.reqs)
          /\ {res.req : res \in ToSet(results)} = DOMAIN bid.reqs
          /\ \A i, j, k \in DOMAIN results :
                i < j /\ j < k /\ bid.reqs[results[i].req].cap = bid.reqs[results[k].req].cap
                => bid.reqs[results[j].req].cap = bid.reqs[results[i].req].cap
    BY DEF OneResultEach
  <2> DEFINE n == Len(results)
             N == Len(bid.reqs)
             f == [m \in 1 .. n |-> results[m].req]
  <2>1. IsBid(bid) /\ IsSeq(results) /\ InOrder /\ Open = {}
    BY DEF IInv, Shape, Over
  <2>2. n \in Nat /\ DOMAIN results = 1 .. n /\ N \in Nat /\ DOMAIN bid.reqs = 1 .. N
    BY <2>1, SeqFacts DEF IsBid, IsSeq
  <2>3. \A m \in 1 .. n : results[m].req \in 1 .. N
    BY <2>1, <2>2 DEF InOrder
  <2>4. \A k \in 1 .. N : \E m \in 1 .. n : results[m].req = k
    BY <2>1, <2>2, OpenFacts
  <2>5. ASSUME NEW i \in 1 .. n, NEW j \in 1 .. n, i < j PROVE results[i].req # results[j].req
    BY <2>1, <2>2, <2>3, <2>5, NotBeforeItself DEF InOrder
  <2>6. ASSUME NEW i \in 1 .. n, NEW j \in 1 .. n, results[i].req = results[j].req PROVE i = j
    <3>1. i < j \/ j < i \/ i = j
      BY <2>2
    <3> QED  BY <2>5, <2>6, <3>1
  <2>7. ExistsBijection(1 .. n, 1 .. N)
    <3> HIDE DEF n, N
    <3>1. f \in [1 .. n -> 1 .. N]
      BY <2>3
    <3>2. f \in Injection(1 .. n, 1 .. N)
      BY <2>6, <3>1 DEF Injection, IsInjective
    <3>3. f \in Surjection(1 .. n, 1 .. N)
      BY <2>4, <3>1 DEF Surjection
    <3> QED  BY <3>2, <3>3 DEF ExistsBijection, Bijection
  <2>8. n = N
    <3> HIDE DEF n, N
    <3>1. Cardinality(1 .. N) = N
      <4>1. N \in Int /\ 1 \in Int
        BY <2>2
      <4>2. Cardinality(1 .. N) = IF 1 > N THEN 0 ELSE N - 1 + 1
        BY <4>1, FS_Interval
      <4> QED  BY <2>2, <4>2
    <3>2. Cardinality(1 .. N) = n
      BY <2>2, <2>7, FS_CountingElements
    <3> QED  BY <3>1, <3>2
  <2>9. {res.req : res \in ToSet(results)} = DOMAIN bid.reqs
    <3>1. \A res \in ToSet(results) : \E m \in 1 .. n : results[m] = res
      BY <2>1, SeqFacts
    <3>2. DOMAIN bid.reqs \subseteq {res.req : res \in ToSet(results)}
      BY <2>1 DEF Open
    <3>3. \A res \in ToSet(results) : res.req \in DOMAIN bid.reqs
      BY <2>2, <2>3, <3>1
    <3> QED  BY <3>2, <3>3
  <2>10. ASSUME NEW i \in 1 .. n, NEW j \in 1 .. n, NEW k \in 1 .. n, i < j, j < k,
                bid.reqs[results[i].req].cap = bid.reqs[results[k].req].cap
         PROVE  bid.reqs[results[j].req].cap = bid.reqs[results[i].req].cap
    <3>1. Before(results[i].req, results[j].req) /\ Before(results[j].req, results[k].req)
      BY <2>1, <2>10 DEF InOrder
    <3> QED  BY <2>1, <2>2, <2>3, <2>10, <3>1, NothingBetween
  <2> QED  BY <2>2, <2>8, <2>9, <2>10
<1> QED  BY <1>1, Invariant, PTL

-------------------------------------------------------------------------------
(* Sums, and what holds of every number up to n.                            *)

\* What holds of 0 and passes from each number to the next holds up to n.
LEMMA UpTo ==
    ASSUME NEW n \in Nat, NEW S, 0 \in S, \A k \in 1 .. n : k - 1 \in S => k \in S
    PROVE  \A k \in 0 .. n : k \in S
<1> DEFINE T == {k \in 0 .. n : k \notin S}
<1> SUFFICES ASSUME T # {} PROVE FALSE
  OBVIOUS
<1>1. T \in SUBSET Nat
  OBVIOUS
<1>2. PICK k \in T : \A y \in T : k <= y
  BY <1>1, LeastElement
<1>3. k \in 1 .. n /\ k - 1 \in 0 .. n /\ ~(k <= k - 1)
  BY <1>2
<1>4. k - 1 \in S
  BY <1>2, <1>3
<1> QED  BY <1>2, <1>3, <1>4

\* Partial sums.
Summed(f, x, n) == f[0] = 0 /\ (\A i \in 1 .. n : f[i] = f[i - 1] + x[i]) /\ \A i \in 0 .. n : f[i] \in Int
Summands(x, n) == \A i \in 1 .. n : x[i] \in Int

LEMMA SummedExists ==
    ASSUME NEW n \in Nat, NEW x, Summands(x, n)
    PROVE  \E f : DOMAIN f = 0 .. n /\ Summed(f, x, n)
<1> DEFINE S == {k \in 0 .. n : \E f : DOMAIN f = 0 .. k /\ Summed(f, x, k)}
<1>1. 0 \in S
  <2> DEFINE g == [i \in 0 .. 0 |-> 0]
  <2>1. DOMAIN g = 0 .. 0 /\ Summed(g, x, 0)
    BY DEF Summed
  <2> HIDE DEF g
  <2> QED  BY <2>1
<1>2. ASSUME NEW k \in 1 .. n, k - 1 \in S PROVE k \in S
  <2>1. k \in Nat /\ k - 1 \in Nat /\ k \in 0 .. n
    OBVIOUS
  <2>2. PICK f : DOMAIN f = 0 .. (k - 1) /\ Summed(f, x, k - 1)
    BY <1>2
  <2>3. PICK step : step = f[k - 1] + x[k]
    OBVIOUS
  <2>4. f[k - 1] \in Int /\ x[k] \in Int /\ step \in Int
    BY <2>1, <2>2, <2>3 DEF Summed, Summands
  <2> DEFINE g == [i \in 0 .. k |-> IF i = k THEN step ELSE f[i]]
  <2>5. DOMAIN g = 0 .. k /\ g[k] = step /\ \A i \in 0 .. (k - 1) : g[i] = f[i]
    BY <2>1
  <2> HIDE DEF g
  <2>6. g[0] = 0
    <3>1. 0 \in 0 .. (k - 1)
      BY <2>1
    <3> QED  BY <2>2, <2>5, <3>1 DEF Summed
  <2>7. ASSUME NEW i \in 1 .. k PROVE g[i] = g[i - 1] + x[i]
    <3>1. i - 1 \in 0 .. (k - 1) /\ g[i - 1] = f[i - 1]
      BY <2>1, <2>5
    <3>2. CASE i = k
      BY <2>3, <2>5, <3>1, <3>2
    <3>3. CASE i # k
      <4>1. i \in 1 .. (k - 1) /\ i \in 0 .. (k - 1)
        BY <2>1, <3>3
      <4> QED  BY <2>2, <2>5, <3>1, <4>1 DEF Summed
    <3> QED  BY <3>2, <3>3
  <2>8. ASSUME NEW i \in 0 .. k PROVE g[i] \in Int
    <3>1. i = k \/ i \in 0 .. (k - 1)
      BY <2>1
    <3> QED  BY <2>2, <2>4, <2>5, <3>1 DEF Summed
  <2>9. Summed(g, x, k)
    BY <2>6, <2>7, <2>8 DEF Summed
  <2> QED  BY <2>1, <2>5, <2>9
<1> HIDE DEF S
<1>3. \A k \in 0 .. n : k \in S
  BY <1>1, <1>2, UpTo
<1>4. n \in 0 .. n
  OBVIOUS
<1> QED  BY <1>3, <1>4 DEF S

\* The sum of a sequence is the last of its partial sums.
LEMMA SumIsSummed ==
    ASSUME NEW x, NEW n \in Nat, Len(x) = n, Summands(x, n)
    PROVE  \E f : Sum(x) = f[n] /\ Summed(f, x, n)
<1> DEFINE Is(f) == f = [i \in 0 .. n |-> IF i = 0 THEN 0 ELSE f[i - 1] + x[i]]
<1>1. Sum(x) = (CHOOSE f : Is(f))[n]
  BY DEF Sum
<1>2. PICK g : DOMAIN g = 0 .. n /\ Summed(g, x, n)
  BY SummedExists
<1>3. \E f : Is(f)
  <2> DEFINE h == [i \in 0 .. n |-> g[i]]
  <2>1. \A i \in 0 .. n : h[i] = IF i = 0 THEN 0 ELSE h[i - 1] + x[i]
    <3> SUFFICES ASSUME NEW i \in 0 .. n
                 PROVE  h[i] = IF i = 0 THEN 0 ELSE h[i - 1] + x[i]
      OBVIOUS
    <3>1. CASE i = 0
      BY <1>2, <3>1 DEF Summed
    <3>2. CASE i # 0
      <4>1. i \in 1 .. n /\ i - 1 \in 0 .. n
        BY <3>2
      <4> QED  BY <1>2, <3>2, <4>1 DEF Summed
    <3> QED  BY <3>1, <3>2
  <2>2. Is(h)
    <3>1. h = [i \in 0 .. n |-> h[i]]
      OBVIOUS
    <3> HIDE DEF h
    <3> QED  BY <2>1, <3>1
  <2> QED  BY <2>2
<1>4. PICK f : f = CHOOSE y : Is(y)
  OBVIOUS
<1>5. Is(f)
  <2> HIDE DEF Is
  <2> QED  BY <1>3, <1>4
<1>6. f[0] = 0 /\ \A i \in 1 .. n : f[i] = f[i - 1] + x[i]
  <2>1. 0 \in 0 .. n /\ \A i \in 1 .. n : i \in 0 .. n /\ i # 0
    OBVIOUS
  <2>2. \A i \in 0 .. n : f[i] = IF i = 0 THEN 0 ELSE f[i - 1] + x[i]
    BY <1>5
  <2> QED  BY <2>1, <2>2
<1>7. \A i \in 0 .. n : f[i] \in Int
  <2> DEFINE S == {i \in 0 .. n : f[i] \in Int}
  <2>1. 0 \in S
    BY <1>6
  <2>2. \A k \in 1 .. n : k - 1 \in S => k \in S
    BY <1>6 DEF Summands
  <2> HIDE DEF S
  <2>3. \A k \in 0 .. n : k \in S
    BY <2>1, <2>2, UpTo
  <2> QED  BY <2>3 DEF S
<1> QED  BY <1>1, <1>4, <1>6, <1>7 DEF Summed

-------------------------------------------------------------------------------
(* Sequences laid end to end.                                               *)

LEMMA JoinedPlaces ==
    ASSUME NEW s, IsSeq(s), NEW t, IsSeq(t)
    PROVE  /\ \A i \in 1 .. Len(s) : (s \o t)[i] = s[i]
           /\ \A i \in 1 .. Len(t) : (s \o t)[Len(s) + i] = t[i]
<1> DEFINE S == ToSet(s) \cup ToSet(t)
<1>1. s \in Seq(S) /\ t \in Seq(S)
  <2>1. ToSet(s) \subseteq S /\ ToSet(t) \subseteq S /\ s \in Seq(ToSet(s)) /\ t \in Seq(ToSet(t))
    BY DEF IsSeq
  <2> QED  BY <2>1, SeqMonotonic
<1> HIDE DEF S
<1>2. /\ Len(s) \in Nat /\ Len(t) \in Nat
      /\ \A i \in 1 .. Len(s) + Len(t) : (s \o t)[i] = IF i <= Len(s) THEN s[i] ELSE t[i - Len(s)]
  BY <1>1, ConcatProperties
<1>3. ASSUME NEW i \in 1 .. Len(t) PROVE (s \o t)[Len(s) + i] = t[i]
  <2>1. Len(s) + i \in 1 .. Len(s) + Len(t) /\ ~(Len(s) + i <= Len(s)) /\ (Len(s) + i) - Len(s) = i
    BY <1>2
  <2> QED  BY <1>2, <2>1
<1> QED  BY <1>2, <1>3

\* Sequences laid end to end: where each of them ends, and what is at a place.
Offsets(off, ss, n) ==
    off[0] = 0 /\ \A d \in 1 .. n : off[d - 1] \in Nat /\ off[d] \in Nat /\ off[d] = off[d - 1] + Len(ss[d])
Filled(F, ss, n, off) ==
    \A d \in 1 .. n : \A k \in 1 .. Len(ss[d]) : off[d - 1] + k \in 1 .. Len(F) /\ F[off[d - 1] + k] = ss[d][k]
Covered(F, ss, n, off) ==
    \A i \in 1 .. Len(F) : \E d \in 1 .. n : \E k \in 1 .. Len(ss[d]) : i = off[d - 1] + k
Laid(F, ss, n, off) ==
    IsSeq(F) /\ Offsets(off, ss, n) /\ Len(F) = off[n] /\ Filled(F, ss, n, off) /\ Covered(F, ss, n, off)

LEMMA LaidFurther ==
    ASSUME NEW n \in Nat, NEW k \in 1 .. n, NEW G, NEW ss, NEW off, Laid(G, ss, k - 1, off), IsSeq(ss[k]),
           off[k] = Len(G \o ss[k])
    PROVE  Laid(G \o ss[k], ss, k, off)
<1>1. PICK F, t, g, m : F = G \o ss[k] /\ t = ss[k] /\ g = Len(G) /\ m = Len(t)
  OBVIOUS
<1>2. IsSeq(G) /\ IsSeq(t) /\ g \in Nat /\ m \in Nat /\ k \in Nat /\ k - 1 \in Nat
  BY <1>1, SeqFacts DEF Laid
<1>3. IsSeq(F) /\ Len(F) = g + m
  BY <1>1, <1>2, Joined
<1>4. (\A i \in 1 .. g : F[i] = G[i]) /\ \A i \in 1 .. m : F[g + i] = t[i]
  BY <1>1, <1>2, JoinedPlaces
<1>5. off[k - 1] = g /\ off[k] = g + m
  BY <1>1, <1>3 DEF Laid
<1>6. Offsets(off, ss, k)
  <2>1. ASSUME NEW d \in 1 .. k PROVE off[d - 1] \in Nat /\ off[d] \in Nat /\ off[d] = off[d - 1] + Len(ss[d])
    <3>1. CASE d = k
      <4>1. off[d - 1] = g /\ off[d] = g + m /\ Len(ss[d]) = m
        BY <1>1, <1>5, <3>1
      <4> QED  BY <1>2, <4>1
    <3>2. CASE d # k
      <4>1. d \in 1 .. (k - 1)
        BY <1>2, <3>2
      <4> QED  BY <4>1 DEF Laid, Offsets
    <3> QED  BY <3>1, <3>2
  <2>2. off[0] = 0
    BY DEF Laid, Offsets
  <2> QED  BY <2>1, <2>2 DEF Offsets
<1>7. Filled(F, ss, k, off)
  <2>1. ASSUME NEW d \in 1 .. k, NEW j \in 1 .. Len(ss[d])
        PROVE  off[d - 1] + j \in 1 .. Len(F) /\ F[off[d - 1] + j] = ss[d][j]
    <3>1. CASE d = k
      <4>1. j \in 1 .. m /\ off[d - 1] = g
        BY <1>1, <1>5, <3>1
      <4>2. g + j \in 1 .. Len(F)
        BY <1>2, <1>3, <4>1
      <4> QED  BY <1>1, <1>4, <3>1, <4>1, <4>2
    <3>2. CASE d # k
      <4>1. d \in 1 .. (k - 1)
        BY <1>2, <3>2
      <4>2. off[d - 1] + j \in 1 .. g /\ G[off[d - 1] + j] = ss[d][j]
        BY <1>1, <4>1 DEF Laid, Filled
      <4>3. off[d - 1] + j \in 1 .. Len(F)
        BY <1>2, <1>3, <4>2
      <4> QED  BY <1>4, <4>2, <4>3
    <3> QED  BY <3>1, <3>2
  <2> QED  BY <2>1 DEF Filled
<1>8. Covered(F, ss, k, off)
  <2>1. ASSUME NEW i \in 1 .. Len(F)
        PROVE  \E d \in 1 .. k : \E j \in 1 .. Len(ss[d]) : i = off[d - 1] + j
    <3>1. CASE i \in 1 .. g
      <4>1. PICK d \in 1 .. (k - 1) : \E j \in 1 .. Len(ss[d]) : i = off[d - 1] + j
        BY <1>1, <3>1 DEF Laid, Covered
      <4>2. d \in 1 .. k
        BY <1>2
      <4> QED  BY <4>1, <4>2
    <3>2. CASE i \notin 1 .. g
      <4>1. i - g \in 1 .. m /\ i = g + (i - g) /\ k \in 1 .. k
        BY <1>2, <1>3, <3>2
      <4>2. i - g \in 1 .. Len(ss[k]) /\ i = off[k - 1] + (i - g)
        BY <1>1, <1>5, <4>1
      <4> QED  BY <4>1, <4>2
    <3> QED  BY <3>1, <3>2
  <2> QED  BY <2>1 DEF Covered
<1> QED  BY <1>1, <1>3, <1>5, <1>6, <1>7, <1>8 DEF Laid

Joining(f, ss, n) == \A i \in 1 .. n : f[i] = IF i = 1 THEN ss[i] ELSE f[i - 1] \o ss[i]

LEMMA JoiningExists ==
    ASSUME NEW n \in Nat, NEW ss
    PROVE  \E f : DOMAIN f = 1 .. n /\ Joining(f, ss, n)
<1> DEFINE S == {k \in 0 .. n : \E f : DOMAIN f = 1 .. k /\ Joining(f, ss, k)}
<1>1. 0 \in S
  <2> DEFINE g == [i \in 1 .. 0 |-> 0]
  <2>1. DOMAIN g = 1 .. 0 /\ Joining(g, ss, 0)
    BY DEF Joining
  <2> HIDE DEF g
  <2> QED  BY <2>1
<1>2. ASSUME NEW k \in 1 .. n, k - 1 \in S PROVE k \in S
  <2>1. k \in Nat /\ k - 1 \in Nat /\ k \in 0 .. n
    OBVIOUS
  <2>2. PICK f : DOMAIN f = 1 .. (k - 1) /\ Joining(f, ss, k - 1)
    BY <1>2
  <2>3. PICK step : step = IF k = 1 THEN ss[k] ELSE f[k - 1] \o ss[k]
    OBVIOUS
  <2> DEFINE g == [i \in 1 .. k |-> IF i = k THEN step ELSE f[i]]
  <2>4. DOMAIN g = 1 .. k /\ g[k] = step /\ \A i \in 1 .. (k - 1) : g[i] = f[i]
    BY <2>1
  <2> HIDE DEF g
  <2>5. ASSUME NEW i \in 1 .. k PROVE g[i] = IF i = 1 THEN ss[i] ELSE g[i - 1] \o ss[i]
    <3>1. i # 1 => i - 1 \in 1 .. (k - 1) /\ g[i - 1] = f[i - 1]
      BY <2>1, <2>4
    <3>2. CASE i = k
      BY <2>3, <2>4, <3>1, <3>2
    <3>3. CASE i # k
      <4>1. i \in 1 .. (k - 1)
        BY <2>1, <3>3
      <4> QED  BY <2>2, <2>4, <3>1, <4>1 DEF Joining
    <3> QED  BY <3>2, <3>3
  <2>6. Joining(g, ss, k)
    BY <2>5 DEF Joining
  <2> QED  BY <2>1, <2>4, <2>6
<1> HIDE DEF S
<1>3. \A k \in 0 .. n : k \in S
  BY <1>1, <1>2, UpTo
<1>4. n \in 0 .. n
  OBVIOUS
<1> QED  BY <1>3, <1>4 DEF S

LEMMA FlattenIsJoining ==
    ASSUME NEW ss, NEW n \in Nat, Len(ss) = n, n # 0
    PROVE  \E f : FlattenSeq(ss) = f[n] /\ Joining(f, ss, n)
<1> DEFINE Is(f) == f = [i \in 1 .. n |-> IF i = 1 THEN ss[i] ELSE f[i - 1] \o ss[i]]
<1>1. FlattenSeq(ss) = (CHOOSE f : Is(f))[n]
  BY DEF FlattenSeq
<1>2. PICK g : DOMAIN g = 1 .. n /\ Joining(g, ss, n)
  BY JoiningExists
<1>3. \E f : Is(f)
  <2> DEFINE h == [i \in 1 .. n |-> g[i]]
  <2>1. \A i \in 1 .. n : h[i] = IF i = 1 THEN ss[i] ELSE h[i - 1] \o ss[i]
    <3> SUFFICES ASSUME NEW i \in 1 .. n
                 PROVE  h[i] = IF i = 1 THEN ss[i] ELSE h[i - 1] \o ss[i]
      OBVIOUS
    <3>1. i # 1 => i - 1 \in 1 .. n
      OBVIOUS
    <3> QED  BY <1>2, <3>1 DEF Joining
  <2>2. Is(h)
    <3>1. h = [i \in 1 .. n |-> h[i]]
      OBVIOUS
    <3> HIDE DEF h
    <3> QED  BY <2>1, <3>1
  <2> QED  BY <2>2
<1>4. PICK f : f = CHOOSE y : Is(y)
  OBVIOUS
<1>5. Is(f)
  <2> HIDE DEF Is
  <2> QED  BY <1>3, <1>4
<1>6. Joining(f, ss, n)
  BY <1>5 DEF Joining
<1> QED  BY <1>1, <1>4, <1>6

LEMMA FlattenIsLaid ==
    ASSUME NEW ss, NEW n \in Nat, Len(ss) = n, IsSeq(ss), \A d \in 1 .. n : IsSeq(ss[d])
    PROVE  \E off : Laid(FlattenSeq(ss), ss, n, off)
<1>1. IsSeq(<<>>) /\ Len(<<>>) = 0
  <2>1. <<>> \in Seq({}) /\ Len(<<>>) = 0
    BY EmptySeq
  <2> QED  BY <2>1, OwnSeq
<1>2. ASSUME NEW off, off[0] = 0 PROVE Laid(<<>>, ss, 0, off)
  BY <1>1, <1>2 DEF Laid, Offsets, Filled, Covered
<1>3. CASE n = 0
  <2>1. FlattenSeq(ss) = ss
    BY <1>3 DEF FlattenSeq
  <2>2. ss = <<>>
    <3>1. PICK T : ss \in Seq(T)
      BY DEF IsSeq
    <3> QED  BY <1>3, <3>1, EmptySeq
  <2>3. PICK off : off = [i \in 0 .. 0 |-> 0]
    OBVIOUS
  <2>4. off[0] = 0
    BY <2>3
  <2> QED  BY <1>2, <1>3, <2>1, <2>2, <2>4
<1>4. CASE n # 0
  <2>1. PICK f : FlattenSeq(ss) = f[n] /\ Joining(f, ss, n)
    BY <1>4, FlattenIsJoining
  <2>2. PICK off : off = [d \in 0 .. n |-> IF d = 0 THEN 0 ELSE Len(f[d])]
    OBVIOUS
  <2>3. PICK h : h = [d \in 0 .. n |-> IF d = 0 THEN <<>> ELSE f[d]]
    OBVIOUS
  <2>4. /\ off[0] = 0 /\ h[0] = <<>>
        /\ \A d \in 1 .. n : off[d] = Len(f[d]) /\ h[d] = f[d]
    BY <2>2, <2>3
  <2> DEFINE S == {k \in 0 .. n : Laid(h[k], ss, k, off)}
  <2>5. 0 \in S
    BY <1>2, <2>4
  <2>6. ASSUME NEW k \in 1 .. n, k - 1 \in S PROVE k \in S
    <3>1. Laid(h[k - 1], ss, k - 1, off) /\ IsSeq(h[k - 1])
      BY <2>6 DEF Laid
    <3>2. h[k] = h[k - 1] \o ss[k]
      <4>1. CASE k = 1
        <5>1. h[k] = ss[k] /\ h[k - 1] = <<>>
          BY <2>1, <2>4, <4>1 DEF Joining
        <5>2. PICK T : ss[k] \in Seq(T)
          BY DEF IsSeq
        <5> QED  BY <5>1, <5>2, ConcatEmptySeq
      <4>2. CASE k # 1
        <5>1. k - 1 \in 1 .. n
          BY <4>2
        <5> QED  BY <2>1, <2>4, <4>2, <5>1 DEF Joining
      <4> QED  BY <4>1, <4>2
    <3>3. off[k] = Len(h[k - 1] \o ss[k])
      BY <2>4, <3>2
    <3>4. Laid(h[k], ss, k, off)
      BY <3>1, <3>2, <3>3, LaidFurther
    <3> QED  BY <3>4
  <2> HIDE DEF S
  <2>7. \A k \in 0 .. n : k \in S
    BY <2>5, <2>6, UpTo
  <2>8. n \in 0 .. n /\ h[n] = f[n]
    BY <1>4, <2>4
  <2> QED  BY <2>1, <2>7, <2>8 DEF S
<1> QED  BY <1>3, <1>4

-------------------------------------------------------------------------------
(* What the documents state.                                                *)

\* What the documents state, and the same read from the last document to the first.
LEMMA FunctionIsSeq ==
    ASSUME NEW n \in Nat, NEW f, f = [i \in 1 .. n |-> f[i]]
    PROVE  IsSeq(f) /\ Len(f) = n
<1>1. DOMAIN f = 1 .. n
  OBVIOUS
<1>2. f \in [1 .. n -> ToSet(f)]
  BY <1>1 DEF ToSet
<1>3. f \in Seq(ToSet(f)) /\ Len(f) = n
  <2>1. f \in UNION {[1 .. k -> ToSet(f)] : k \in Nat}
    BY <1>2
  <2>2. f \in Seq(ToSet(f))
    BY <2>1, SeqDef
  <2>3. Len(f) \in Nat /\ DOMAIN f = 1 .. Len(f)
    BY <2>2, LenProperties
  <2> QED  BY <1>1, <2>2, <2>3
<1> QED  BY <1>3 DEF IsSeq

IsNumeric(s) == \A k \in 1 .. Len(s) : s[k].value \in Int

LEMMA FlattenNumeric ==
    ASSUME NEW ss, NEW n \in Nat, Len(ss) = n, IsSeq(ss), \A d \in 1 .. n : IsSeq(ss[d]) /\ IsNumeric(ss[d])
    PROVE  IsSeq(FlattenSeq(ss)) /\ IsNumeric(FlattenSeq(ss))
<1>1. PICK off : Laid(FlattenSeq(ss), ss, n, off)
  BY FlattenIsLaid
<1>2. PICK F : F = FlattenSeq(ss)
  OBVIOUS
<1>3. IsSeq(F)
  BY <1>1, <1>2 DEF Laid
<1>4. ASSUME NEW i \in 1 .. Len(F) PROVE F[i].value \in Int
  <2>1. PICK d \in 1 .. n : \E k \in 1 .. Len(ss[d]) : i = off[d - 1] + k
    BY <1>1, <1>2 DEF Laid, Covered
  <2>2. PICK k \in 1 .. Len(ss[d]) : i = off[d - 1] + k
    BY <2>1
  <2>3. F[i] = ss[d][k]
    BY <1>1, <1>2, <2>2 DEF Laid, Filled
  <2> QED  BY <2>3 DEF IsNumeric
<1> QED  BY <1>2, <1>3, <1>4 DEF IsNumeric

LEMMA AcceptedIsSeq ==
    ASSUME NEW ok, NEW year, NEW value
    PROVE  /\ IsSeq(Accepted(ok, year, value))
           /\ value \in Int => IsNumeric(Accepted(ok, year, value))
<1>1. PICK x : x = [year |-> year, value |-> value]
  OBVIOUS
<1>2. <<x>> \in Seq({x}) /\ <<>> \in Seq({x}) /\ Len(<<x>>) = 1 /\ Len(<<>>) = 0 /\ <<x>>[1] = x
  OBVIOUS
<1>3. IsSeq(<<x>>) /\ IsSeq(<<>>)
  BY <1>2, OwnSeq
<1>4. value \in Int => IsNumeric(<<x>>) /\ IsNumeric(<<>>)
  <2> SUFFICES ASSUME value \in Int PROVE IsNumeric(<<x>>) /\ IsNumeric(<<>>)
    OBVIOUS
  <2>1. x.value \in Int /\ 1 .. 0 = {} /\ 1 .. 1 = {1}
    BY <1>1
  <2> QED  BY <1>2, <2>1 DEF IsNumeric
<1>5. Accepted(ok, year, value) = <<x>> \/ Accepted(ok, year, value) = <<>>
  BY <1>1 DEF Accepted
<1> QED  BY <1>3, <1>4, <1>5

LEMMA StatedIsSeq ==
    ASSUME NEW doc, IsDocument(doc), NEW listed, NEW scalar, listed # scalar, NEW needsYear
    PROVE  /\ IsSeq(Stated(doc, listed, scalar, needsYear))
           /\ listed \notin Structured /\ scalar \notin Structured =>
                 IsNumeric(Stated(doc, listed, scalar, needsYear))
<1> DEFINE By(it) == StatedBy(doc, it, listed, scalar, needsYear)
           numeric == listed \notin Structured /\ scalar \notin Structured
<1>1. ASSUME NEW it \in ToSet(doc.items)
      PROVE  IsSeq(By(it)) /\ (numeric => IsNumeric(By(it)))
  <2>1. /\ IsSeq(it.rows)
        /\ it.field \notin Structured => it.body.amount \in Int /\ \A r \in ToSet(it.rows) : r.value \in Int
    BY DEF IsDocument, IsSeq
  <2>2. CASE it.field = listed
    <3> DEFINE A(r) == Accepted(r.year # 0 /\ Parses(listed, r.value), r.year, r.value)
               ss == [k \in DOMAIN it.rows |-> A(it.rows[k])]
    <3>1. By(it) = FlattenSeq(ss)
      BY <2>2 DEF StatedBy
    <3>2. PICK n \in Nat : n = Len(it.rows) /\ DOMAIN it.rows = 1 .. n
      BY <2>1, SeqFacts
    <3>3. \A k \in 1 .. n : it.rows[k] \in ToSet(it.rows) /\ ss[k] = A(it.rows[k])
      BY <2>1, <3>2, SeqFacts
    <3>4. ss = [k \in 1 .. n |-> ss[k]]
      BY <3>2
    <3> HIDE DEF ss, By
    <3>5. IsSeq(ss) /\ Len(ss) = n
      BY <3>4, FunctionIsSeq
    <3>6. \A k \in 1 .. n : IsSeq(ss[k])
      BY <3>3, AcceptedIsSeq
    <3>7. IsSeq(FlattenSeq(ss))
      <4>1. PICK off : Laid(FlattenSeq(ss), ss, n, off)
        BY <3>5, <3>6, FlattenIsLaid
      <4> QED  BY <4>1 DEF Laid
    <3>8. ASSUME numeric PROVE IsNumeric(FlattenSeq(ss))
      <4>1. \A r \in ToSet(it.rows) : r.value \in Int
        BY <2>1, <2>2, <3>8
      <4>2. \A k \in 1 .. n : IsNumeric(ss[k])
        BY <3>3, <4>1, AcceptedIsSeq
      <4> QED  BY <3>5, <3>6, <4>2, FlattenNumeric
    <3> QED  BY <3>1, <3>7, <3>8
  <2>3. CASE it.field # listed /\ it.field = scalar
    <3>1. By(it) = Accepted(Parses(scalar, Value(it)) /\ (needsYear => doc.year # 0), doc.year, Value(it))
      BY <2>3 DEF StatedBy
    <3>2. numeric => Value(it) \in Int
      BY <2>1, <2>3 DEF Value
    <3> QED  BY <3>1, <3>2, AcceptedIsSeq
  <2>4. CASE it.field # listed /\ it.field # scalar
    <3>1. By(it) = <<>>
      BY <2>4 DEF StatedBy
    <3>2. <<>> \in Seq({}) /\ Len(<<>>) = 0 /\ 1 .. 0 = {}
      BY EmptySeq
    <3>3. IsSeq(<<>>) /\ IsNumeric(<<>>)
      BY <3>2, OwnSeq DEF IsNumeric
    <3> QED  BY <3>1, <3>3
  <2> QED  BY <2>2, <2>3, <2>4
<1> DEFINE ss == [i \in DOMAIN doc.items |-> By(doc.items[i])]
<1>2. Stated(doc, listed, scalar, needsYear) = FlattenSeq(ss)
  BY DEF Stated
<1>3. IsSeq(doc.items)
  BY DEF IsDocument, IsSeq
<1>4. PICK n \in Nat : n = Len(doc.items) /\ DOMAIN doc.items = 1 .. n
  BY <1>3, SeqFacts
<1>5. \A i \in 1 .. n : doc.items[i] \in ToSet(doc.items) /\ ss[i] = By(doc.items[i])
  BY <1>3, <1>4, SeqFacts
<1>6. ss = [i \in 1 .. n |-> ss[i]]
  BY <1>4
<1> HIDE DEF ss, By
<1>7. IsSeq(ss) /\ Len(ss) = n
  BY <1>6, FunctionIsSeq
<1>8. \A i \in 1 .. n : IsSeq(ss[i]) /\ (numeric => IsNumeric(ss[i]))
  BY <1>1, <1>5
<1>9. IsSeq(FlattenSeq(ss))
  <2>1. PICK off : Laid(FlattenSeq(ss), ss, n, off)
    BY <1>7, <1>8, FlattenIsLaid
  <2> QED  BY <2>1 DEF Laid
<1>10. numeric => IsNumeric(FlattenSeq(ss))
  BY <1>7, <1>8, FlattenNumeric
<1> QED  BY <1>2, <1>9, <1>10

\* The statements of all documents, with the place where those of each end.
Says3(s, t, d) == s.year = t.year /\ s.value = t.value /\ s.doc = d
Tagged(E, own, n, off) ==
    /\ IsSeq(E) /\ Offsets(off, own, n) /\ Len(E) = off[n] /\ Covered(E, own, n, off)
    /\ \A d \in 1 .. n : \A k \in 1 .. Len(own[d]) :
          off[d - 1] + k \in 1 .. Len(E) /\ Says3(E[off[d - 1] + k], own[d][k], d)

LEMMA StatementsAreTagged ==
    ASSUME NEW docs, IsSeq(docs), NEW n \in Nat, n = Len(docs), \A d \in 1 .. n : IsDocument(docs[d]),
           NEW listed, NEW scalar, listed # scalar, NEW needsYear,
           NEW own, \A d \in 1 .. n : own[d] = Stated(docs[d], listed, scalar, needsYear)
    PROVE  \E off : Tagged(Statements(docs, listed, scalar, needsYear), own, n, off)
<1> DEFINE Tag(d) == [i \in DOMAIN own[d] |-> [year |-> own[d][i].year, value |-> own[d][i].value, doc |-> d]]
           ss == [d \in 1 .. n |-> Tag(d)]
<1>1. DOMAIN docs = 1 .. n
  BY SeqFacts
<1>2. Statements(docs, listed, scalar, needsYear) = FlattenSeq(ss)
  BY <1>1 DEF Statements
<1>3. ASSUME NEW d \in 1 .. n
      PROVE  /\ IsSeq(ss[d]) /\ Len(ss[d]) = Len(own[d])
             /\ \A k \in 1 .. Len(own[d]) : Says3(ss[d][k], own[d][k], d)
  <2>1. IsSeq(own[d])
    BY StatedIsSeq
  <2>2. PICK m \in Nat : m = Len(own[d]) /\ DOMAIN own[d] = 1 .. m
    BY <2>1, SeqFacts
  <2>3. ss[d] = Tag(d)
    OBVIOUS
  <2>4. Tag(d) = [i \in 1 .. m |-> Tag(d)[i]]
    BY <2>2
  <2>5. \A k \in 1 .. m : Says3(Tag(d)[k], own[d][k], d)
    BY <2>2 DEF Says3
  <2> HIDE DEF Tag
  <2>6. IsSeq(Tag(d)) /\ Len(Tag(d)) = m
    BY <2>4, FunctionIsSeq
  <2> QED  BY <2>2, <2>3, <2>5, <2>6
<1>4. ss = [d \in 1 .. n |-> ss[d]]
  OBVIOUS
<1> HIDE DEF ss
<1>5. IsSeq(ss) /\ Len(ss) = n
  BY <1>4, FunctionIsSeq
<1>6. PICK off : Laid(FlattenSeq(ss), ss, n, off)
  BY <1>3, <1>5, FlattenIsLaid
<1>7. PICK E : E = FlattenSeq(ss)
  OBVIOUS
<1>8. Offsets(off, own, n)
  BY <1>3, <1>6 DEF Laid, Offsets
<1>9. Covered(E, own, n, off)
  <2>1. ASSUME NEW i \in 1 .. Len(E) PROVE \E d \in 1 .. n : \E k \in 1 .. Len(own[d]) : i = off[d - 1] + k
    <3>1. PICK d \in 1 .. n : \E k \in 1 .. Len(ss[d]) : i = off[d - 1] + k
      BY <1>6, <1>7 DEF Laid, Covered
    <3> QED  BY <1>3, <3>1
  <2> QED  BY <2>1 DEF Covered
<1>10. ASSUME NEW d \in 1 .. n, NEW k \in 1 .. Len(own[d])
       PROVE  off[d - 1] + k \in 1 .. Len(E) /\ Says3(E[off[d - 1] + k], own[d][k], d)
  <2>1. k \in 1 .. Len(ss[d])
    BY <1>3
  <2>2. off[d - 1] + k \in 1 .. Len(E) /\ E[off[d - 1] + k] = ss[d][k]
    BY <1>6, <1>7, <2>1 DEF Laid, Filled
  <2> QED  BY <1>3, <2>2
<1>11. IsSeq(E) /\ Len(E) = off[n]
  BY <1>6, <1>7 DEF Laid
<1> QED  BY <1>2, <1>7, <1>8, <1>9, <1>10, <1>11 DEF Tagged

-------------------------------------------------------------------------------
(* The same documents read from the last to the first.                      *)

\* The same documents read backwards.
Mirrored(own, own2, n) == \A d \in 1 .. n : own2[d] = own[n + 1 - d]
Alike(s, t, n) == s.year = t.year /\ s.value = t.value /\ s.doc + t.doc = n + 1

LEMMA MirroredBack ==
    ASSUME NEW n \in Nat, NEW own, NEW own2, Mirrored(own, own2, n)
    PROVE  Mirrored(own2, own, n)
<1> SUFFICES ASSUME NEW d \in 1 .. n PROVE own[d] = own2[n + 1 - d]
  BY DEF Mirrored
<1>1. n + 1 - d \in 1 .. n /\ n + 1 - (n + 1 - d) = d
  OBVIOUS
<1> QED  BY <1>1 DEF Mirrored

LEMMA SamePlace ==
    ASSUME NEW n \in Nat, NEW E, NEW E2, NEW own, NEW own2, NEW off, NEW off2,
           Tagged(E, own, n, off), Tagged(E2, own2, n, off2), Mirrored(own, own2, n),
           NEW i \in 1 .. Len(E)
    PROVE  \E j \in 1 .. Len(E2) : Alike(E[i], E2[j], n)
<1>1. PICK d \in 1 .. n : \E k \in 1 .. Len(own[d]) : i = off[d - 1] + k
  BY DEF Tagged, Covered
<1>2. PICK k \in 1 .. Len(own[d]) : i = off[d - 1] + k
  BY <1>1
<1>3. PICK e \in 1 .. n : e = n + 1 - d
  OBVIOUS
<1>4. n + 1 - e = d
  BY <1>3
<1>5. own2[e] = own[d]
  BY <1>4 DEF Mirrored
<1>6. Says3(E[i], own[d][k], d)
  BY <1>2 DEF Tagged
<1>7. off2[e - 1] + k \in 1 .. Len(E2) /\ Says3(E2[off2[e - 1] + k], own[d][k], e)
  BY <1>5 DEF Tagged
<1>8. Alike(E[i], E2[off2[e - 1] + k], n)
  BY <1>3, <1>6, <1>7 DEF Says3, Alike
<1> QED  BY <1>7, <1>8

\* The first wanted statement of a document is the same from either end.
Wanted(s, years) == years = {} \/ s.year \in years
FirstWanted(E, years, m) ==
    m \in 1 .. Len(E) /\ Wanted(E[m], years) /\ \A i \in 1 .. Len(E) : Wanted(E[i], years) => m <= i

LEMMA PlaceInDocument ==
    ASSUME NEW n \in Nat, NEW E, NEW own, NEW off, Tagged(E, own, n, off), NEW m \in 1 .. Len(E)
    PROVE  \E d \in 1 .. n : \E k \in 1 .. Len(own[d]) : m = off[d - 1] + k /\ Says3(E[m], own[d][k], d)
<1>1. PICK d \in 1 .. n : \E k \in 1 .. Len(own[d]) : m = off[d - 1] + k
  BY DEF Tagged, Covered
<1>2. PICK k \in 1 .. Len(own[d]) : m = off[d - 1] + k
  BY <1>1
<1>3. Says3(E[m], own[d][k], d)
  BY <1>2 DEF Tagged
<1> QED  BY <1>2, <1>3

LEMMA NotBefore ==
    ASSUME NEW n \in Nat, NEW E, NEW own, NEW off, Tagged(E, own, n, off), NEW years,
           NEW m, FirstWanted(E, years, m), NEW d \in 1 .. n, NEW k \in 1 .. Len(own[d]), m = off[d - 1] + k,
           NEW j \in 1 .. Len(own[d]), Wanted(own[d][j], years)
    PROVE  k <= j
<1>1. off[d - 1] + j \in 1 .. Len(E) /\ Says3(E[off[d - 1] + j], own[d][j], d)
  BY DEF Tagged
<1>2. Wanted(E[off[d - 1] + j], years)
  BY <1>1 DEF Says3, Wanted
<1>3. off[d - 1] + k <= off[d - 1] + j
  BY <1>1, <1>2 DEF FirstWanted
<1>4. off[d - 1] \in Nat
  BY DEF Tagged, Offsets
<1>5. k \in Int /\ j \in Int
  OBVIOUS
<1> QED  BY <1>3, <1>4, <1>5

LEMMA FirstOfDocument ==
    ASSUME NEW n \in Nat, NEW E, NEW E2, NEW own, NEW own2, NEW off, NEW off2,
           Tagged(E, own, n, off), Tagged(E2, own2, n, off2), Mirrored(own, own2, n), NEW years,
           NEW m, FirstWanted(E, years, m), NEW m2, FirstWanted(E2, years, m2),
           E[m].doc + E2[m2].doc = n + 1
    PROVE  E[m].value = E2[m2].value
<1>1. m \in 1 .. Len(E) /\ m2 \in 1 .. Len(E2) /\ Wanted(E[m], years) /\ Wanted(E2[m2], years)
  BY DEF FirstWanted
<1>2. PICK d \in 1 .. n : \E k \in 1 .. Len(own[d]) : m = off[d - 1] + k /\ Says3(E[m], own[d][k], d)
  BY <1>1, PlaceInDocument
<1>3. PICK k \in 1 .. Len(own[d]) : m = off[d - 1] + k /\ Says3(E[m], own[d][k], d)
  BY <1>2
<1>4. PICK e \in 1 .. n : \E j \in 1 .. Len(own2[e]) : m2 = off2[e - 1] + j /\ Says3(E2[m2], own2[e][j], e)
  BY <1>1, PlaceInDocument
<1>5. PICK j \in 1 .. Len(own2[e]) : m2 = off2[e - 1] + j /\ Says3(E2[m2], own2[e][j], e)
  BY <1>4
<1>6. d + e = n + 1
  BY <1>3, <1>5 DEF Says3
<1>7. own2[e] = own[d]
  <2>1. n + 1 - e = d
    BY <1>6
  <2> QED  BY <2>1 DEF Mirrored
<1>8. Wanted(own[d][k], years) /\ Wanted(own2[e][j], years)
  BY <1>1, <1>3, <1>5 DEF Says3, Wanted
<1>9. k <= j
  BY <1>3, <1>5, <1>7, <1>8, NotBefore
<1>10. j <= k
  BY <1>3, <1>5, <1>7, <1>8, NotBefore
<1>11. j = k
  BY <1>9, <1>10
<1> QED  BY <1>3, <1>5, <1>7, <1>11 DEF Says3

\* What the statements add up to does not depend on the end they are read from.
Weighed(s, years, limit) == IF Wanted(s, years) THEN s.value - limit ELSE 0
Weighs(x, E, years, limit) == \A i \in 1 .. Len(E) : x[i] = Weighed(E[i], years, limit)

LEMMA OffsetsGrow ==
    ASSUME NEW n \in Nat, NEW own, NEW off, Offsets(off, own, n), \A d \in 1 .. n : Len(own[d]) \in Nat
    PROVE  \A d \in 0 .. n : off[d] \in 0 .. off[n]
<1>1. \A d \in 0 .. n : off[d] \in Nat
  <2>1. \A d \in 0 .. n : d = 0 \/ d \in 1 .. n
    OBVIOUS
  <2> QED  BY <2>1 DEF Offsets
<1> DEFINE S == {k \in 0 .. n : off[n - k] <= off[n]}
<1>2. 0 \in S
  BY <1>1
<1>3. ASSUME NEW k \in 1 .. n, k - 1 \in S PROVE k \in S
  <2>1. PICK d \in 1 .. n : d = n - (k - 1)
    OBVIOUS
  <2>2. d - 1 = n - k /\ d - 1 \in 0 .. n /\ d \in 0 .. n
    BY <2>1
  <2>3. off[d] <= off[n]
    BY <1>3, <2>1
  <2>4. off[d] = off[d - 1] + Len(own[d])
    BY DEF Offsets
  <2>5. off[d - 1] <= off[n]
    <3>1. off[d] \in Nat /\ off[d - 1] \in Nat /\ off[n] \in Nat
      BY <1>1, <2>2
    <3>2. Len(own[d]) \in Nat
      OBVIOUS
    <3> QED  BY <2>3, <2>4, <3>1, <3>2
  <2> QED  BY <2>2, <2>5
<1> HIDE DEF S
<1>4. \A k \in 0 .. n : k \in S
  BY <1>2, <1>3, UpTo
<1>5. ASSUME NEW d \in 0 .. n PROVE off[d] \in 0 .. off[n]
  <2>1. n - d \in 0 .. n /\ n - (n - d) = d
    OBVIOUS
  <2>2. off[d] <= off[n]
    BY <1>4, <2>1 DEF S
  <2> QED  BY <1>1, <2>2
<1> QED  BY <1>5

LEMMA SumsOfDocument ==
    ASSUME NEW n \in Nat, NEW E, NEW E2, NEW own, NEW own2, NEW off, NEW off2,
           Tagged(E, own, n, off), Tagged(E2, own2, n, off2), NEW years, NEW limit,
           NEW x, NEW x2, Weighs(x, E, years, limit), Weighs(x2, E2, years, limit),
           Summands(x, Len(E)), Summands(x2, Len(E2)),
           NEW f, NEW f2, Summed(f, x, Len(E)), Summed(f2, x2, Len(E2)),
           NEW d \in 1 .. n, NEW e \in 1 .. n, own2[e] = own[d], Len(own[d]) \in Nat,
           off[d - 1] \in 0 .. Len(E), off2[e - 1] \in 0 .. Len(E2)
    PROVE  f[off[d]] - f[off[d - 1]] = f2[off2[e]] - f2[off2[e - 1]]
<1>1. PICK l, o, o2 : l = Len(own[d]) /\ o = off[d - 1] /\ o2 = off2[e - 1]
  OBVIOUS
<1>2. l \in Nat /\ o \in Nat /\ o2 \in Nat /\ off[d] = o + l /\ off2[e] = o2 + l
  BY <1>1 DEF Tagged, Offsets
<1> DEFINE S == {k \in 0 .. l : f[o + k] - f[o] = f2[o2 + k] - f2[o2]}
<1>3. 0 \in S
  <2>1. f[o] \in Int /\ f2[o2] \in Int
    BY <1>1 DEF Summed
  <2>2. o + 0 = o /\ o2 + 0 = o2
    BY <1>2
  <2>3. f[o + 0] - f[o] = f2[o2 + 0] - f2[o2]
    <3>1. f[o] - f[o] = 0 /\ f2[o2] - f2[o2] = 0
      BY <2>1
    <3> QED  BY <2>2, <3>1
  <2> QED  BY <1>2, <2>3
<1>4. ASSUME NEW k \in 1 .. l, k - 1 \in S PROVE k \in S
  <2>1. PICK i, j : i = o + k /\ j = o2 + k
    OBVIOUS
  <2>2. k \in 1 .. Len(own[d])
    BY <1>1
  <2>3. i \in 1 .. Len(E) /\ Says3(E[i], own[d][k], d)
    BY <1>1, <2>1, <2>2 DEF Tagged
  <2>4. j \in 1 .. Len(E2) /\ Says3(E2[j], own[d][k], e)
    BY <1>1, <2>1, <2>2 DEF Tagged
  <2>5. x[i] = x2[j]
    BY <2>3, <2>4 DEF Weighs, Weighed, Wanted, Says3
  <2>6. f[i] = f[i - 1] + x[i] /\ f[i - 1] \in Int /\ f[i] \in Int /\ f[o] \in Int
    BY <1>1, <2>3 DEF Summed
  <2>7. f2[j] = f2[j - 1] + x2[j] /\ f2[j - 1] \in Int /\ f2[j] \in Int /\ f2[o2] \in Int
    BY <1>1, <2>4 DEF Summed
  <2>8. i - 1 = o + (k - 1) /\ j - 1 = o2 + (k - 1)
    BY <1>2, <2>1
  <2>9. f[i - 1] - f[o] = f2[j - 1] - f2[o2]
    BY <1>4, <2>8
  <2>10. f[i] - f[o] = f2[j] - f2[o2]
    <3>1. x[i] \in Int
      BY <2>3 DEF Summands
    <3>2. f[i] = f[i - 1] + x[i] /\ f2[j] = f2[j - 1] + x[i]
      BY <2>5, <2>6, <2>7
    <3>3. PICK a, b, a1, b1, a0, b0, y : /\ a = f[i] /\ b = f2[j] /\ a1 = f[i - 1] /\ b1 = f2[j - 1]
                                         /\ a0 = f[o] /\ b0 = f2[o2] /\ y = x[i]
      OBVIOUS
    <3>4. a \in Int /\ b \in Int /\ a1 \in Int /\ b1 \in Int /\ a0 \in Int /\ b0 \in Int /\ y \in Int
      BY <2>6, <2>7, <3>1, <3>3
    <3>5. a = a1 + y /\ b = b1 + y /\ a1 - a0 = b1 - b0
      BY <2>9, <3>2, <3>3
    <3>6. a - a0 = b - b0
      BY <3>4, <3>5
    <3> QED  BY <3>3, <3>6
  <2> QED  BY <2>1, <2>10
<1> HIDE DEF S
<1>5. \A k \in 0 .. l : k \in S
  BY <1>2, <1>3, <1>4, UpTo
<1>6. l \in S
  BY <1>2, <1>5
<1> QED  BY <1>1, <1>2, <1>6 DEF S

LEMMA SumsOfMirrored ==
    ASSUME NEW n \in Nat, NEW E, NEW E2, NEW own, NEW own2, NEW off, NEW off2,
           Tagged(E, own, n, off), Tagged(E2, own2, n, off2), Mirrored(own, own2, n),
           \A d \in 1 .. n : Len(own[d]) \in Nat, NEW years, NEW limit,
           NEW x, NEW x2, Weighs(x, E, years, limit), Weighs(x2, E2, years, limit),
           Summands(x, Len(E)), Summands(x2, Len(E2)),
           NEW f, NEW f2, Summed(f, x, Len(E)), Summed(f2, x2, Len(E2))
    PROVE  f[Len(E)] = f2[Len(E2)]
<1>1. \A d \in 1 .. n : Len(own2[d]) \in Nat
  <2>1. \A d \in 1 .. n : n + 1 - d \in 1 .. n
    OBVIOUS
  <2> QED  BY <2>1 DEF Mirrored
<1>2. (\A d \in 0 .. n : off[d] \in 0 .. off[n]) /\ \A d \in 0 .. n : off2[d] \in 0 .. off2[n]
  BY <1>1, OffsetsGrow DEF Tagged
<1>3. off[0] = 0 /\ off2[0] = 0 /\ Len(E) = off[n] /\ Len(E2) = off2[n] /\ f[0] = 0 /\ f2[0] = 0
  BY DEF Tagged, Offsets, Summed
<1>4. (\A d \in 0 .. n : f[off[d]] \in Int) /\ \A d \in 0 .. n : f2[off2[d]] \in Int
  BY <1>2, <1>3 DEF Summed
<1> DEFINE S == {d \in 0 .. n : f[off[d]] = f2[off2[n]] - f2[off2[n - d]]}
<1>5. 0 \in S
  <2>1. n \in 0 .. n /\ n - 0 = n /\ 0 \in 0 .. n
    OBVIOUS
  <2>2. f2[off2[n]] \in Int
    BY <1>4, <2>1
  <2>3. f[off[0]] = f2[off2[n]] - f2[off2[n - 0]]
    <3>1. f2[off2[n]] - f2[off2[n]] = 0
      BY <2>2
    <3> QED  BY <1>3, <2>1, <3>1
  <2> QED  BY <2>1, <2>3
<1>6. ASSUME NEW d \in 1 .. n, d - 1 \in S PROVE d \in S
  <2>1. PICK e \in 1 .. n : e = n + 1 - d
    OBVIOUS
  <2>2. own2[e] = own[d]
    <3>1. n + 1 - e = d
      BY <2>1
    <3> QED  BY <3>1 DEF Mirrored
  <2>3. d - 1 \in 0 .. n /\ d \in 0 .. n /\ e - 1 \in 0 .. n /\ e \in 0 .. n /\ n \in 0 .. n
    OBVIOUS
  <2>4. off[d - 1] \in 0 .. Len(E) /\ off2[e - 1] \in 0 .. Len(E2)
    BY <1>2, <1>3, <2>3
  <2>5. f[off[d]] - f[off[d - 1]] = f2[off2[e]] - f2[off2[e - 1]]
    BY <2>2, <2>4, SumsOfDocument
  <2>6. f[off[d - 1]] = f2[off2[n]] - f2[off2[e]]
    <3>1. n - (d - 1) = e
      BY <2>1
    <3> QED  BY <1>6, <3>1
  <2>7. f[off[d]] = f2[off2[n]] - f2[off2[e - 1]]
    <3>1. /\ f[off[d]] \in Int /\ f[off[d - 1]] \in Int
          /\ f2[off2[e]] \in Int /\ f2[off2[e - 1]] \in Int /\ f2[off2[n]] \in Int
      BY <1>4, <2>3
    <3>2. PICK a, a1, b, b1, c : /\ a = f[off[d]] /\ a1 = f[off[d - 1]]
                                 /\ b = f2[off2[e]] /\ b1 = f2[off2[e - 1]] /\ c = f2[off2[n]]
      OBVIOUS
    <3>3. a \in Int /\ a1 \in Int /\ b \in Int /\ b1 \in Int /\ c \in Int
      BY <3>1, <3>2
    <3>4. a - a1 = b - b1 /\ a1 = c - b
      BY <2>5, <2>6, <3>2
    <3>5. a = c - b1
      BY <3>3, <3>4
    <3> QED  BY <3>2, <3>5
  <2>8. e - 1 = n - d
    BY <2>1
  <2> QED  BY <2>3, <2>7, <2>8
<1> HIDE DEF S
<1>7. \A d \in 0 .. n : d \in S
  BY <1>5, <1>6, UpTo
<1>8. n \in S /\ n - n = 0
  BY <1>7
<1>9. f[off[n]] = f2[off2[n]] - f2[off2[0]]
  BY <1>8 DEF S
<1>10. f2[off2[n]] \in Int /\ n \in 0 .. n
  BY <1>4
<1> QED  BY <1>3, <1>9, <1>10

-------------------------------------------------------------------------------
(* What only depends on what is said.                                       *)

\* Two readings of the same documents.
Reading(E, E2, own, own2, off, off2, n) ==
    Tagged(E, own, n, off) /\ Tagged(E2, own2, n, off2) /\ Mirrored(own, own2, n)
Numeric(listed, scalar) == listed \notin Structured /\ scalar \notin Structured
AreSeqs(own, n, numeric) == \A d \in 1 .. n : IsSeq(own[d]) /\ (numeric => IsNumeric(own[d]))

LEMMA Backwards ==
    ASSUME NEW docs, IsSeq(docs), NEW n \in Nat, n = Len(docs)
    PROVE  IsSeq(Reverse(docs)) /\ Len(Reverse(docs)) = n /\ \A d \in 1 .. n : Reverse(docs)[d] = docs[n + 1 - d]
<1> DEFINE f == [i \in 1 .. n |-> docs[(n - i) + 1]]
<1>1. Reverse(docs) = f
  BY DEF Reverse
<1>2. f = [i \in 1 .. n |-> f[i]]
  OBVIOUS
<1>3. \A d \in 1 .. n : f[d] = docs[n + 1 - d]
  <2> TAKE d \in 1 .. n
  <2>1. (n - d) + 1 = n + 1 - d
    OBVIOUS
  <2> QED  BY <2>1
<1> HIDE DEF f
<1>4. IsSeq(f) /\ Len(f) = n
  BY <1>2, FunctionIsSeq
<1> QED  BY <1>1, <1>3, <1>4

LEMMA ReadBothWays ==
    ASSUME NEW docs, IsSeq(docs), NEW n \in Nat, n = Len(docs), \A d \in 1 .. n : IsDocument(docs[d]),
           NEW listed, NEW scalar, listed # scalar, NEW needsYear,
           NEW E, E = Statements(docs, listed, scalar, needsYear),
           NEW E2, E2 = Statements(Reverse(docs), listed, scalar, needsYear)
    PROVE  \E own, own2, off, off2 :
              /\ Reading(E, E2, own, own2, off, off2, n)
              /\ AreSeqs(own, n, Numeric(listed, scalar))
<1>1. PICK back : back = Reverse(docs)
  OBVIOUS
<1>2. IsSeq(back) /\ Len(back) = n /\ \A d \in 1 .. n : back[d] = docs[n + 1 - d]
  BY <1>1, Backwards
<1>3. \A d \in 1 .. n : n + 1 - d \in 1 .. n
  OBVIOUS
<1>4. \A d \in 1 .. n : IsDocument(back[d])
  BY <1>2, <1>3
<1>5. PICK own : own = [d \in 1 .. n |-> Stated(docs[d], listed, scalar, needsYear)]
  OBVIOUS
<1>6. PICK own2 : own2 = [d \in 1 .. n |-> Stated(back[d], listed, scalar, needsYear)]
  OBVIOUS
<1>7. \A d \in 1 .. n : own[d] = Stated(docs[d], listed, scalar, needsYear)
  BY <1>5
<1>8. \A d \in 1 .. n : own2[d] = Stated(back[d], listed, scalar, needsYear)
  BY <1>6
<1>9. PICK off : Tagged(E, own, n, off)
  BY <1>7, StatementsAreTagged
<1>10. PICK off2 : Tagged(E2, own2, n, off2)
  BY <1>1, <1>2, <1>4, <1>8, StatementsAreTagged
<1>11. Mirrored(own, own2, n)
  BY <1>2, <1>3, <1>7, <1>8 DEF Mirrored
<1>12. ASSUME NEW d \in 1 .. n PROVE IsSeq(own[d]) /\ (Numeric(listed, scalar) => IsNumeric(own[d]))
  BY <1>7, StatedIsSeq DEF Numeric
<1> QED  BY <1>9, <1>10, <1>11, <1>12 DEF Reading, AreSeqs

Within(E, E2) == \A i \in 1 .. Len(E) : \E j \in 1 .. Len(E2) : E[i].year = E2[j].year /\ E[i].value = E2[j].value
SameSaid(E, E2) == IsSeq(E) /\ IsSeq(E2) /\ Within(E, E2) /\ Within(E2, E)

LEMMA ReadTheSame ==
    ASSUME NEW n \in Nat, NEW E, NEW E2, NEW own, NEW own2, NEW off, NEW off2,
           Reading(E, E2, own, own2, off, off2, n)
    PROVE  SameSaid(E, E2)
<1>1. Mirrored(own2, own, n)
  BY MirroredBack DEF Reading
<1>2. Within(E, E2)
  BY SamePlace DEF Reading, Within, Alike
<1>3. Within(E2, E)
  BY <1>1, SamePlace DEF Reading, Within, Alike
<1> QED  BY <1>2, <1>3 DEF SameSaid, Reading, Tagged

\* What only depends on what is said.
LEMMA SameYears ==
    ASSUME NEW E, NEW E2, SameSaid(E, E2)
    PROVE  Years(E) = Years(E2)
<1>1. ASSUME NEW A, NEW B, IsSeq(A), IsSeq(B), Within(A, B) PROVE Years(A) \subseteq Years(B)
  <2> SUFFICES ASSUME NEW p \in ToSet(A) PROVE \E q \in ToSet(B) : p.year = q.year
    BY DEF Years
  <2>1. PICK k \in 1 .. Len(A) : A[k] = p
    BY <1>1, SeqFacts
  <2>2. PICK j \in 1 .. Len(B) : A[k].year = B[j].year
    BY <1>1 DEF Within
  <2>3. B[j] \in ToSet(B)
    BY <1>1, SeqFacts
  <2> QED  BY <2>1, <2>2, <2>3
<1> QED  BY <1>1 DEF SameSaid

LEMMA SameChosen ==
    ASSUME NEW E, NEW E2, SameSaid(E, E2), NEW years,
           NEW C, C = Chosen(E, years), NEW C2, C2 = Chosen(E2, years)
    PROVE  /\ C = {} <=> C2 = {}
           /\ \A i \in C : \E j \in C2 : E[i].year = E2[j].year /\ E[i].value = E2[j].value
           /\ \A i \in C2 : \E j \in C : E2[i].year = E[j].year /\ E2[i].value = E[j].value
           /\ E = <<>> <=> E2 = <<>>
<1>1. ASSUME NEW A, NEW B, IsSeq(A), IsSeq(B), Within(A, B), NEW i \in Chosen(A, years)
      PROVE  \E j \in Chosen(B, years) : A[i].year = B[j].year /\ A[i].value = B[j].value
  <2>1. i \in 1 .. Len(A) /\ (years = {} \/ A[i].year \in years) /\ DOMAIN B = 1 .. Len(B)
    BY <1>1, SeqFacts DEF Chosen
  <2> QED  BY <1>1, <2>1 DEF Within, Chosen
<1>2. ASSUME NEW A, NEW B, IsSeq(A), IsSeq(B), Within(A, B), A # <<>> PROVE B # <<>>
  <2>1. PICK T, U : A \in Seq(T) /\ B \in Seq(U)
    BY <1>2 DEF IsSeq
  <2>2. Len(A) \in Nat /\ Len(A) # 0
    BY <1>2, <2>1, EmptySeq
  <2>3. 1 \in 1 .. Len(A)
    BY <2>2
  <2>4. 1 .. Len(B) # {}
    BY <1>2, <2>3 DEF Within
  <2>5. Len(<<>>) = 0 /\ 1 .. 0 = {}
    BY EmptySeq
  <2> QED  BY <2>4, <2>5
<1>3. IsSeq(E) /\ IsSeq(E2) /\ Within(E, E2) /\ Within(E2, E)
  BY DEF SameSaid
<1>4. \A i \in C : \E j \in C2 : E[i].year = E2[j].year /\ E[i].value = E2[j].value
  BY <1>1, <1>3
<1>5. \A i \in C2 : \E j \in C : E2[i].year = E[j].year /\ E2[i].value = E[j].value
  BY <1>1, <1>3
<1>6. C = {} <=> C2 = {}
  BY <1>4, <1>5
<1>7. E = <<>> <=> E2 = <<>>
  BY <1>2, <1>3
<1> QED  BY <1>4, <1>5, <1>6, <1>7

\* The evidence that is refused is refused from either end.
LEMMA SameRefused ==
    ASSUME NEW E, NEW E2, SameSaid(E, E2), NEW Bad
    PROVE  (\E s \in ToSet(E) : s.value \in Bad) <=> (\E s \in ToSet(E2) : s.value \in Bad)
<1>1. ASSUME NEW A, NEW B, IsSeq(A), IsSeq(B), Within(A, B), NEW s \in ToSet(A), s.value \in Bad
      PROVE  \E t \in ToSet(B) : t.value \in Bad
  <2>1. PICK k \in 1 .. Len(A) : A[k] = s
    BY <1>1, SeqFacts
  <2>2. PICK j \in 1 .. Len(B) : A[k].value = B[j].value
    BY <1>1 DEF Within
  <2>3. B[j] \in ToSet(B) /\ B[j].value \in Bad
    BY <1>1, <2>1, <2>2, SeqFacts
  <2> QED  BY <2>3
<1> QED  BY <1>1 DEF SameSaid

LEMMA SameProfileFails ==
    ASSUME NEW docs, IsSeq(docs), NEW n \in Nat, n = Len(docs), \A d \in 1 .. n : IsDocument(docs[d])
    PROVE  ProfileFails(docs) <=> ProfileFails(Reverse(docs))
<1>1. PICK back : back = Reverse(docs)
  OBVIOUS
<1>2. PICK T, T2 : /\ T = Statements(docs, "annual_turnovers", "turnover", TRUE)
                   /\ T2 = Statements(back, "annual_turnovers", "turnover", TRUE)
  OBVIOUS
<1>3. PICK S, S2 : /\ S = Statements(docs, "balance_sheets", "balance_sheet", FALSE)
                   /\ S2 = Statements(back, "balance_sheets", "balance_sheet", FALSE)
  OBVIOUS
<1>4. SameSaid(T, T2)
  <2>1. "annual_turnovers" # "turnover"
    OBVIOUS
  <2>2. PICK own, own2, off, off2 : Reading(T, T2, own, own2, off, off2, n)
    BY <1>1, <1>2, <2>1, ReadBothWays
  <2> QED  BY <2>2, ReadTheSame
<1>5. SameSaid(S, S2)
  <2>1. "balance_sheets" # "balance_sheet"
    OBVIOUS
  <2>2. PICK own, own2, off, off2 : Reading(S, S2, own, own2, off, off2, n)
    BY <1>1, <1>3, <2>1, ReadBothWays
  <2> QED  BY <2>2, ReadTheSame
<1>6. ProfileFails(docs) <=> (\E s \in ToSet(T) : s.value < 0)
                             \/ \E s \in ToSet(S) : s.value.ca < 0 \/ s.value.cl < 0
  BY <1>2, <1>3 DEF ProfileFails, Profile
<1>7. ProfileFails(back) <=> (\E s \in ToSet(T2) : s.value < 0)
                             \/ \E s \in ToSet(S2) : s.value.ca < 0 \/ s.value.cl < 0
  BY <1>2, <1>3 DEF ProfileFails, Profile
<1>8. (\E s \in ToSet(T) : s.value < 0) <=> \E s \in ToSet(T2) : s.value < 0
  <2>1. PICK V : V = {s.value : s \in ToSet(T) \cup ToSet(T2)}
    OBVIOUS
  <2>2. PICK Bad : Bad = {v \in V : v < 0}
    OBVIOUS
  <2>3. (\E s \in ToSet(T) : s.value \in Bad) <=> (\E s \in ToSet(T2) : s.value \in Bad)
    BY <1>4, SameRefused
  <2> QED  BY <2>1, <2>2, <2>3
<1>9. (\E s \in ToSet(S) : s.value.ca < 0 \/ s.value.cl < 0)
      <=> \E s \in ToSet(S2) : s.value.ca < 0 \/ s.value.cl < 0
  <2>1. PICK V : V = {s.value : s \in ToSet(S) \cup ToSet(S2)}
    OBVIOUS
  <2>2. PICK Bad : Bad = {v \in V : v.ca < 0 \/ v.cl < 0}
    OBVIOUS
  <2>3. (\E s \in ToSet(S) : s.value \in Bad) <=> (\E s \in ToSet(S2) : s.value \in Bad)
    BY <1>5, SameRefused
  <2> QED  BY <2>1, <2>2, <2>3
<1> QED  BY <1>1, <1>6, <1>7, <1>8, <1>9

LEMMA SameTotal ==
    ASSUME NEW n \in Nat, NEW E, NEW E2, NEW own, NEW own2, NEW off, NEW off2,
           Reading(E, E2, own, own2, off, off2, n), \A d \in 1 .. n : IsSeq(own[d]) /\ IsNumeric(own[d]),
           NEW years, NEW limit \in Int, NEW C, C = Chosen(E, years), NEW C2, C2 = Chosen(E2, years)
    PROVE  Sum([i \in DOMAIN E |-> IF i \in C THEN E[i].value - limit ELSE 0])
           = Sum([i \in DOMAIN E2 |-> IF i \in C2 THEN E2[i].value - limit ELSE 0])
<1> DEFINE X(A, D) == [i \in DOMAIN A |-> IF i \in D THEN A[i].value - limit ELSE 0]
<1>1. Mirrored(own2, own, n) /\ \A d \in 1 .. n : n + 1 - d \in 1 .. n
  BY MirroredBack DEF Reading
<1>2. \A d \in 1 .. n : IsSeq(own2[d]) /\ IsNumeric(own2[d])
  BY <1>1 DEF Reading, Mirrored
<1>3. ASSUME NEW A, NEW his, NEW o, Tagged(A, his, n, o), \A d \in 1 .. n : IsSeq(his[d]) /\ IsNumeric(his[d])
      PROVE  /\ Len(A) \in Nat /\ Len(X(A, Chosen(A, years))) = Len(A)
             /\ Weighs(X(A, Chosen(A, years)), A, years, limit) /\ Summands(X(A, Chosen(A, years)), Len(A))
  <2>1. PICK m \in Nat : m = Len(A) /\ DOMAIN A = 1 .. m
    BY <1>3, SeqFacts DEF Tagged
  <2>2. X(A, Chosen(A, years)) = [i \in 1 .. m |-> X(A, Chosen(A, years))[i]]
    BY <2>1
  <2>3. \A i \in 1 .. m : X(A, Chosen(A, years))[i] = Weighed(A[i], years, limit)
    BY <2>1 DEF Chosen, Weighed, Wanted
  <2> HIDE DEF X
  <2>4. Len(X(A, Chosen(A, years))) = m
    BY <2>2, FunctionIsSeq
  <2>5. ASSUME NEW i \in 1 .. m PROVE A[i].value \in Int
    <3>1. PICK d \in 1 .. n : \E k \in 1 .. Len(his[d]) : i = o[d - 1] + k /\ Says3(A[i], his[d][k], d)
      BY <1>3, <2>1, PlaceInDocument
    <3>2. PICK k \in 1 .. Len(his[d]) : Says3(A[i], his[d][k], d)
      BY <3>1
    <3> QED  BY <1>3, <3>2 DEF IsNumeric, Says3
  <2>6. Weighs(X(A, Chosen(A, years)), A, years, limit)
    BY <2>1, <2>3 DEF Weighs
  <2>7. Summands(X(A, Chosen(A, years)), m)
    BY <2>3, <2>5 DEF Summands, Weighed
  <2> QED  BY <2>1, <2>4, <2>6, <2>7
<1> HIDE DEF X
<1>4. PICK x, x2 : x = X(E, C) /\ x2 = X(E2, C2)
  OBVIOUS
<1>5. Len(E) \in Nat /\ Len(x) = Len(E) /\ Weighs(x, E, years, limit) /\ Summands(x, Len(E))
  BY <1>3, <1>4 DEF Reading
<1>6. Len(E2) \in Nat /\ Len(x2) = Len(E2) /\ Weighs(x2, E2, years, limit) /\ Summands(x2, Len(E2))
  BY <1>2, <1>3, <1>4 DEF Reading
<1>7. PICK f : Sum(x) = f[Len(E)] /\ Summed(f, x, Len(E))
  BY <1>5, SumIsSummed
<1>8. PICK f2 : Sum(x2) = f2[Len(E2)] /\ Summed(f2, x2, Len(E2))
  BY <1>6, SumIsSummed
<1>9. \A d \in 1 .. n : Len(own[d]) \in Nat
  BY SeqFacts
<1>10. f[Len(E)] = f2[Len(E2)]
  BY <1>5, <1>6, <1>7, <1>8, <1>9, SumsOfMirrored DEF Reading
<1>11. Sum(X(E, C)) = Sum(X(E2, C2))
  BY <1>4, <1>7, <1>8, <1>10
<1> QED  BY <1>11 DEF X

-------------------------------------------------------------------------------
(* The verdicts.                                                            *)

\* The verdict on turnover, from either end, unless the average is the limit.
LEMMA SameTurnover ==
    ASSUME NEW p, p.turnover \in Int, NEW E, ~AverageIsLimit(p, E),
           NEW n \in Nat, NEW E2, NEW own, NEW own2, NEW off, NEW off2,
           Reading(E, E2, own, own2, off, off2, n), \A d \in 1 .. n : IsSeq(own[d]) /\ IsNumeric(own[d])
    PROVE  EvaluateTurnover(p, E) = EvaluateTurnover(p, E2)
<1>1. SameSaid(E, E2)
  BY ReadTheSame
<1>2. PICK C, C2 : C = Chosen(E, p.years) /\ C2 = Chosen(E2, p.years)
  OBVIOUS
<1>3. /\ C = {} <=> C2 = {}
      /\ {E[i].year : i \in C} = {E2[i].year : i \in C2}
      /\ {E[i].value : i \in C} = {E2[i].value : i \in C2}
      /\ E = <<>> <=> E2 = <<>>
  <2>1. /\ C = {} <=> C2 = {}
        /\ \A i \in C : \E j \in C2 : E[i].year = E2[j].year /\ E[i].value = E2[j].value
        /\ \A i \in C2 : \E j \in C : E2[i].year = E[j].year /\ E2[i].value = E[j].value
        /\ E = <<>> <=> E2 = <<>>
    BY <1>1, <1>2, SameChosen
  <2>2. {E[i].year : i \in C} = {E2[i].year : i \in C2}
    BY <2>1
  <2>3. {E[i].value : i \in C} = {E2[i].value : i \in C2}
    BY <2>1
  <2> QED  BY <2>1, <2>2, <2>3
<1> DEFINE X == Excess(E, C, p.turnover)
           X2 == Excess(E2, C2, p.turnover)
<1>4. X = X2 /\ (p.mode # "MINIMUM_YEAR" => X # 0)
  <2>1. Sum([i \in DOMAIN E |-> IF i \in C THEN E[i].value - p.turnover ELSE 0])
        = Sum([i \in DOMAIN E2 |-> IF i \in C2 THEN E2[i].value - p.turnover ELSE 0])
    BY <1>2, SameTotal
  <2>2. X = X2
    BY <2>1 DEF Excess
  <2> QED  BY <1>2, <2>2 DEF AverageIsLimit
<1>5. TurnoverMeets(E, C, p.mode, p.op, p.turnover) = TurnoverMeets(E2, C2, p.mode, p.op, p.turnover)
  <2>1. ASSUME NEW A, NEW D, p.mode # "MINIMUM_YEAR" => Excess(A, D, p.turnover) # 0
        PROVE  TurnoverMeets(A, D, p.mode, p.op, p.turnover) =
                 IF p.mode = "MINIMUM_YEAR"
                 THEN EvaluateThreshold(Min({A[i].value : i \in D}), p.op, p.turnover)
                 ELSE EvaluateThreshold(Excess(A, D, p.turnover), p.op, 0)
    BY <2>1 DEF TurnoverMeets
  <2>2. PICK m, m2 : m = {E[i].value : i \in C} /\ m2 = {E2[i].value : i \in C2}
    OBVIOUS
  <2>3. TurnoverMeets(E, C, p.mode, p.op, p.turnover) =
          IF p.mode = "MINIMUM_YEAR" THEN EvaluateThreshold(Min(m), p.op, p.turnover)
          ELSE EvaluateThreshold(X, p.op, 0)
    BY <1>4, <2>1, <2>2
  <2>4. TurnoverMeets(E2, C2, p.mode, p.op, p.turnover) =
          IF p.mode = "MINIMUM_YEAR" THEN EvaluateThreshold(Min(m2), p.op, p.turnover)
          ELSE EvaluateThreshold(X2, p.op, 0)
    BY <1>4, <2>1, <2>2
  <2>5. m = m2
    BY <1>3, <2>2
  <2> HIDE DEF X, X2
  <2> QED  BY <1>4, <2>3, <2>4, <2>5
<1>6. TurnoverLadder(p, E) = TurnoverLadder(p, E2)
  <2>1. PICK y, y2 : y = {E[i].year : i \in C} /\ y2 = {E2[i].year : i \in C2}
    OBVIOUS
  <2>2. PICK t, t2 : /\ t = TurnoverMeets(E, C, p.mode, p.op, p.turnover)
                     /\ t2 = TurnoverMeets(E2, C2, p.mode, p.op, p.turnover)
    OBVIOUS
  <2> DEFINE Ladder(none, empty, years, meets) == <<
        <<p.turnover = NoNumber, Says("NOT_CHECKED", {})>>,
        <<p.op \notin Operators, Says("UNVERIFIABLE", {})>>,
        <<0 \in p.years, Says("UNVERIFIABLE", {})>>,
        <<none /\ p.years # {} /\ ~empty, Says("FAIL", {"TURNOVER_PERIOD_MISMATCH"})>>,
        <<none, Says("MISSING", {"TURNOVER_DATA_MISSING"})>>,
        <<p.years \ years # {}, Says("MISSING", {"TURNOVER_DATA_MISSING"})>>,
        <<p.years = {} /\ Cardinality(years) > 1, Says("NOT_CHECKED", {})>>,
        <<Cardinality(years) > 1 /\ p.mode = "none", Says("UNVERIFIABLE", {})>>,
        <<~none /\ meets, Says("PASS", {})>>,
        <<TRUE, Says("FAIL", {"TURNOVER_BELOW_THRESHOLD"})>> >>
  <2>3. TurnoverLadder(p, E) = Ladder(C = {}, E = <<>>, y, t)
    BY <1>2, <2>1, <2>2 DEF TurnoverLadder
  <2>4. TurnoverLadder(p, E2) = Ladder(C2 = {}, E2 = <<>>, y2, t2)
    BY <1>2, <2>1, <2>2 DEF TurnoverLadder
  <2>5. y = y2 /\ t = t2 /\ (C = {}) = (C2 = {}) /\ (E = <<>>) = (E2 = <<>>)
    BY <1>3, <1>5, <2>1, <2>2
  <2> HIDE DEF Ladder
  <2> QED  BY <2>3, <2>4, <2>5
<1> QED  BY <1>6 DEF EvaluateTurnover

\* The verdict on net worth: the same, unless two documents disagree about a
\* year, or agree with the limit between them, one of them names none, or
\* several years are asked for.
LEMMA LeastIsFirst ==
    ASSUME NEW E, IsSeq(E), NEW years, Chosen(E, years) # {}
    PROVE  FirstWanted(E, years, Min(Chosen(E, years)))
<1>1. DOMAIN E = 1 .. Len(E) /\ Len(E) \in Nat
  BY SeqFacts
<1>2. PICK C : C = Chosen(E, years)
  OBVIOUS
<1>3. C \in SUBSET Nat /\ C # {} /\ C = {i \in 1 .. Len(E) : Wanted(E[i], years)}
  BY <1>1, <1>2 DEF Chosen, Wanted
<1>4. \E x \in C : \A y \in C : x <= y
  BY <1>3, LeastElement
<1>5. Min(C) \in C /\ \A y \in C : Min(C) <= y
  BY <1>4 DEF Min
<1> QED  BY <1>2, <1>3, <1>5 DEF FirstWanted

LEMMA AtMostOne ==
    ASSUME NEW S, IsFiniteSet(S), ~(Cardinality(S) > 1), NEW a \in S, NEW b \in S
    PROVE  a = b
<1> SUFFICES ASSUME a # b PROVE FALSE
  OBVIOUS
<1>1. {a, b} \subseteq S
  OBVIOUS
<1>2. Cardinality({a, b}) <= Cardinality(S)
  BY <1>1, FS_Subset
<1>3. Cardinality({a, b}) = 2
  <2>1. IsFiniteSet({a}) /\ Cardinality({a}) = 1
    BY FS_Singleton
  <2>2. Cardinality({a} \cup {b}) = IF b \in {a} THEN Cardinality({a}) ELSE Cardinality({a}) + 1
    BY <2>1, FS_AddElement
  <2>3. {a, b} = {a} \cup {b} /\ b \notin {a}
    OBVIOUS
  <2> QED  BY <2>1, <2>2, <2>3
<1>4. Cardinality(S) \in Nat
  BY FS_CardinalityType
<1> QED  BY <1>2, <1>3, <1>4

LEMMA YearsFinite ==
    ASSUME NEW E, IsSeq(E)
    PROVE  IsFiniteSet(Years(E)) /\ \A i \in 1 .. Len(E) : E[i].year \in Years(E)
<1>1. PICK n \in Nat : n = Len(E) /\ DOMAIN E = 1 .. n
  BY SeqFacts
<1>2. PICK f : f = [k \in 1 .. n |-> E[k].year]
  OBVIOUS
<1>3. \A k \in 1 .. n : f[k] = E[k].year /\ f[k] \in Years(E)
  BY <1>1, <1>2, SeqFacts DEF Years
<1>4. \A y \in Years(E) : \E k \in 1 .. n : f[k] = y
  <2> SUFFICES ASSUME NEW s \in ToSet(E) PROVE \E k \in 1 .. n : f[k] = s.year
    BY DEF Years
  <2>1. PICK k \in 1 .. n : E[k] = s
    BY <1>1, SeqFacts
  <2> QED  BY <1>3, <2>1
<1>5. f \in Surjection(1 .. n, Years(E))
  BY <1>2, <1>3, <1>4 DEF Surjection
<1>6. IsFiniteSet(1 .. n)
  <2>1. n \in Int /\ 1 \in Int
    OBVIOUS
  <2> QED  BY <2>1, FS_Interval
<1>7. IsFiniteSet(Years(E))
  BY <1>5, <1>6, FS_Surjection
<1> QED  BY <1>1, <1>3, <1>7

LEMMA SameNetWorth ==
    ASSUME NEW p, p.netWorth \in Int, NEW n \in Nat, NEW E, NEW E2, NEW own, NEW own2, NEW off, NEW off2,
           Reading(E, E2, own, own2, off, off2, n), \A d \in 1 .. n : IsSeq(own[d]) /\ IsNumeric(own[d]),
           Conflicts(E) = {}, ~AgreeAcross(E, p.netWorth),
           0 \notin Years(E), ~(Cardinality(p.years \cap Years(E)) > 1)
    PROVE  EvaluateNetWorth(p, E) = EvaluateNetWorth(p, E2)
<1>1. SameSaid(E, E2) /\ IsSeq(E) /\ IsSeq(E2)
  BY ReadTheSame DEF SameSaid
<1>2. PICK C, C2 : C = Chosen(E, p.years) /\ C2 = Chosen(E2, p.years)
  OBVIOUS
<1>3. (C = {} <=> C2 = {}) /\ (E = <<>> <=> E2 = <<>>) /\ Years(E) = Years(E2)
  BY <1>1, <1>2, SameChosen, SameYears
<1>4. ASSUME C # {}, ~(p.years = {} /\ Cardinality(Years(E)) > 1)
      PROVE  E[Min(C)].value >= p.netWorth <=> E2[Min(C2)].value >= p.netWorth
  <2>1. PICK m, m2 : m = Min(C) /\ m2 = Min(C2)
    OBVIOUS
  <2>2. FirstWanted(E, p.years, m) /\ FirstWanted(E2, p.years, m2)
    BY <1>1, <1>2, <1>3, <1>4, <2>1, LeastIsFirst
  <2>3. CASE E[m].doc + E2[m2].doc = n + 1
    <3>1. E[m].value = E2[m2].value
      BY <2>2, <2>3, FirstOfDocument DEF Reading
    <3> QED  BY <2>1, <3>1
  <2>4. CASE E[m].doc + E2[m2].doc # n + 1
    <3>1. m \in 1 .. Len(E) /\ m2 \in 1 .. Len(E2) /\ Wanted(E[m], p.years) /\ Wanted(E2[m2], p.years)
      BY <2>2 DEF FirstWanted
    <3>2. Mirrored(own2, own, n)
      BY MirroredBack DEF Reading
    <3>3. PICK j \in 1 .. Len(E) : Alike(E2[m2], E[j], n)
      BY <3>1, <3>2, SamePlace DEF Reading
    <3>4. E[j].year = E2[m2].year /\ E[j].value = E2[m2].value
      BY <3>3 DEF Alike
    <3>5. E[j].doc # E[m].doc
      <4>1. E2[m2].doc + E[j].doc = n + 1
        BY <3>3 DEF Alike
      <4>2. PICK e \in 1 .. n : \E k \in 1 .. Len(own2[e]) : m2 = off2[e - 1] + k /\ Says3(E2[m2], own2[e][k], e)
        BY <3>1, PlaceInDocument DEF Reading
      <4>3. PICK d \in 1 .. n : \E k \in 1 .. Len(own[d]) : m = off[d - 1] + k /\ Says3(E[m], own[d][k], d)
        BY <3>1, PlaceInDocument DEF Reading
      <4>4. E2[m2].doc \in Int /\ E[m].doc \in Int
        BY <4>2, <4>3 DEF Says3
      <4> SUFFICES ASSUME E[j].doc = E[m].doc PROVE FALSE
        OBVIOUS
      <4> QED  BY <2>4, <4>1, <4>4
    <3>6. E[m].year = E[j].year
      <4>1. E[m].year \in Years(E) /\ E[j].year \in Years(E) /\ IsFiniteSet(Years(E))
        BY <1>1, <3>1, <3>3, YearsFinite
      <4>2. CASE p.years = {}
        <5>1. ~(Cardinality(Years(E)) > 1)
          BY <1>4, <4>2
        <5> QED  BY <4>1, <5>1, AtMostOne
      <4>3. CASE p.years # {}
        <5>1. PICK S : S = p.years \cap Years(E)
          OBVIOUS
        <5>2. E[m].year \in S /\ E[j].year \in S
          BY <3>1, <3>4, <4>1, <4>3, <5>1 DEF Wanted
        <5>3. IsFiniteSet(S)
          BY <4>1, <5>1, FS_Subset
        <5>4. ~(Cardinality(S) > 1)
          BY <5>1
        <5> QED  BY <5>2, <5>3, <5>4, AtMostOne
      <4> QED  BY <4>2, <4>3
    <3>7. E[m].year # 0
      BY <1>1, <3>1, YearsFinite
    <3>8. ASSUME NEW i \in 1 .. Len(E) PROVE E[i].value \in Int
      <4>1. PICK d \in 1 .. n : \E k \in 1 .. Len(own[d]) : i = off[d - 1] + k /\ Says3(E[i], own[d][k], d)
        BY <3>8, PlaceInDocument DEF Reading
      <4>2. PICK k \in 1 .. Len(own[d]) : Says3(E[i], own[d][k], d)
        BY <4>1
      <4> QED  BY <4>2 DEF IsNumeric, Says3
    <3>9. E[m].value >= p.netWorth <=> E[j].value >= p.netWorth
      <4>1. m \in DOMAIN E /\ j \in DOMAIN E /\ m \in Nat /\ j \in Nat
        BY <1>1, <3>1, <3>3, SeqFacts
      <4>2. m # j
        BY <3>5
      <4>3. m < j \/ j < m
        BY <4>1, <4>2
      <4>4. E[m].value \in Int /\ E[j].value \in Int
        BY <3>1, <3>3, <3>8
      <4>5. WithinTolerance(E[m].value, E[j].value) /\ WithinTolerance(E[j].value, E[m].value)
        <5>1. WithinTolerance(E[m].value, E[j].value) <=> WithinTolerance(E[j].value, E[m].value)
          BY DEF WithinTolerance
        <5>2. <<m, j>> \notin Conflicts(E) /\ <<j, m>> \notin Conflicts(E)
          OBVIOUS
        <5>3. \/ WithinTolerance(E[m].value, E[j].value)
              \/ WithinTolerance(E[j].value, E[m].value)
          BY <3>5, <3>6, <3>7, <4>1, <4>3, <5>2 DEF Conflicts
        <5> QED  BY <5>1, <5>3
      <4>6. /\ ~(E[m].value < p.netWorth /\ p.netWorth <= E[j].value)
            /\ ~(E[j].value < p.netWorth /\ p.netWorth <= E[m].value)
        BY <3>5, <3>6, <4>1, <4>5 DEF AgreeAcross
      <4> QED  BY <4>4, <4>6
    <3> QED  BY <2>1, <3>4, <3>9
  <2> QED  BY <2>3, <2>4
<1>5. PICK v, v2 : v = (E[Min(C)].value >= p.netWorth) /\ v2 = (E2[Min(C2)].value >= p.netWorth)
  OBVIOUS
<1> DEFINE Judged(none, empty, years, meets) ==
        IF p.netWorth = NoNumber THEN Says("NOT_CHECKED", {})
        ELSE IF 0 \in p.years THEN Says("UNVERIFIABLE", {})
        ELSE IF none
        THEN IF p.years # {} /\ ~empty /\ 0 \notin years THEN YearMismatch ELSE Says("MISSING", {})
        ELSE IF p.years = {} /\ Cardinality(years) > 1 THEN Says("NOT_CHECKED", {})
        ELSE IF meets THEN Says("PASS", {}) ELSE Says("FAIL", {"NET_WORTH_BELOW_THRESHOLD"})
<1>6. EvaluateNetWorth(p, E) = Judged(C = {}, E = <<>>, Years(E), v)
  BY <1>2, <1>5 DEF EvaluateNetWorth, ByFirst
<1>7. EvaluateNetWorth(p, E2) = Judged(C2 = {}, E2 = <<>>, Years(E2), v2)
  BY <1>2, <1>5 DEF EvaluateNetWorth, ByFirst
<1>8. C # {} /\ ~(p.years = {} /\ Cardinality(Years(E)) > 1) => v = v2
  BY <1>4, <1>5
<1>9. Judged(C = {}, E = <<>>, Years(E), v) = Judged(C2 = {}, E2 = <<>>, Years(E2), v2)
  BY <1>3, <1>8
<1> HIDE DEF Judged
<1> QED  BY <1>6, <1>7, <1>9

LEMMA SameRuleResult ==
    ASSUME NEW r, NEW back, back.params = r.params, back.p = r.p,
           ProfileFails(r.docs) <=> ProfileFails(back.docs),
           Evaluate(r.p, Profile(r.docs)) = Evaluate(r.p, Profile(back.docs))
    PROVE  FinancialCapacityRule(r) = FinancialCapacityRule(back)
BY DEF FinancialCapacityRule

\* THEOREM, for the verdict on turnover and on net worth: the order in which the
\* documents of a bidder are read decides nothing, except where the average is
\* exactly the limit, where the conflict is reported, where the statements are
\* those of no year or of several, or where two agree with the limit between.
THEOREM OrderMattersOnlyIfReportedHolds == Spec => []OrderMattersOnlyIfReported
<1>1. IInv => OrderMattersOnlyIfReported
  <2> SUFFICES ASSUME IInv PROVE OrderMattersOnlyIfReported
    OBVIOUS
  <2> SUFFICES ASSUME pc = "done", NEW i \in DOMAIN bid.reqs, bid.reqs[i].rule = "financial",
                      NEW r, r = bid.reqs[i],
                      NEW back, back = [params |-> r.params, p |-> r.p, docs |-> Reverse(r.docs)],
                      NEW W, W = Profile(r.docs).netWorth
               PROVE  /\ DetermineFocus(r.p) = "TURNOVER" =>
                            \/ FinancialCapacityRule(r) = FinancialCapacityRule(back)
                            \/ AverageIsLimit(r.p, Profile(r.docs).turnovers)
                      /\ DetermineFocus(r.p) = "NET_WORTH" =>
                            \/ FinancialCapacityRule(r) = FinancialCapacityRule(back)
                            \/ Inconsistent(r.docs) # {}
                            \/ 0 \in Years(W)
                            \/ Cardinality(r.p.years \cap Years(W)) > 1
                            \/ AgreeAcross(W, r.p.netWorth)
    BY DEF OrderMattersOnlyIfReported
  <2>1. r \in ToSet(bid.reqs)
    BY DEF IInv, Shape, IsBid, ToSet
  <2>2. r.p.turnover \in Int /\ r.p.netWorth \in Int /\ IsSeq(r.docs) /\ \A d \in ToSet(r.docs) : IsDocument(d)
    BY <2>1 DEF IInv, Shape, IsBid, IsSeq
  <2>3. PICK docs, n : docs = r.docs /\ n = Len(docs)
    OBVIOUS
  <2>4. IsSeq(docs) /\ n \in Nat /\ \A d \in 1 .. n : IsDocument(docs[d])
    BY <2>2, <2>3, SeqFacts
  <2>5. PICK rev : rev = Reverse(docs)
    OBVIOUS
  <2>6. back.params = r.params /\ back.p = r.p /\ back.docs = rev
    BY <2>3, <2>5
  <2>7. ProfileFails(r.docs) <=> ProfileFails(back.docs)
    BY <2>3, <2>4, <2>5, <2>6, SameProfileFails
  <2>8. ASSUME DetermineFocus(r.p) = "TURNOVER", ~AverageIsLimit(r.p, Profile(r.docs).turnovers)
        PROVE  FinancialCapacityRule(r) = FinancialCapacityRule(back)
    <3>1. PICK E, E2 : /\ E = Statements(docs, "annual_turnovers", "turnover", TRUE)
                       /\ E2 = Statements(rev, "annual_turnovers", "turnover", TRUE)
      OBVIOUS
    <3>2. "annual_turnovers" # "turnover" /\ Numeric("annual_turnovers", "turnover")
      BY DEF Numeric, Structured
    <3>3. PICK own, own2, off, off2 :
              /\ Reading(E, E2, own, own2, off, off2, n)
              /\ AreSeqs(own, n, Numeric("annual_turnovers", "turnover"))
      BY <2>3, <2>4, <2>5, <3>1, <3>2, ReadBothWays
    <3>4. Profile(r.docs).turnovers = E /\ Profile(back.docs).turnovers = E2
      BY <2>3, <2>6, <3>1 DEF Profile
    <3>5. EvaluateTurnover(r.p, E) = EvaluateTurnover(r.p, E2)
      BY <2>2, <2>4, <2>8, <3>2, <3>3, <3>4, SameTurnover DEF AreSeqs
    <3>6. Evaluate(r.p, Profile(r.docs)) = Evaluate(r.p, Profile(back.docs))
      BY <2>8, <3>4, <3>5 DEF Evaluate
    <3> QED  BY <2>6, <2>7, <3>6, SameRuleResult
  <2>9. ASSUME DetermineFocus(r.p) = "NET_WORTH", Inconsistent(r.docs) = {}, 0 \notin Years(W),
               ~(Cardinality(r.p.years \cap Years(W)) > 1), ~AgreeAcross(W, r.p.netWorth)
        PROVE  FinancialCapacityRule(r) = FinancialCapacityRule(back)
    <3>1. PICK E, E2 : /\ E = Statements(docs, "net_worths", "net_worth", FALSE)
                       /\ E2 = Statements(rev, "net_worths", "net_worth", FALSE)
      OBVIOUS
    <3>2. "net_worths" # "net_worth" /\ Numeric("net_worths", "net_worth")
      BY DEF Numeric, Structured
    <3>3. PICK own, own2, off, off2 :
              /\ Reading(E, E2, own, own2, off, off2, n)
              /\ AreSeqs(own, n, Numeric("net_worths", "net_worth"))
      BY <2>3, <2>4, <2>5, <3>1, <3>2, ReadBothWays
    <3>4. Profile(r.docs).netWorth = E /\ Profile(back.docs).netWorth = E2 /\ W = E
      BY <2>3, <2>6, <3>1 DEF Profile
    <3>5. Conflicts(E) = {}
      <4>1. ~("net_worth" \in Inconsistent(r.docs))
        BY <2>9
      <4> QED  BY <3>4, <4>1 DEF Inconsistent
    <3>6. EvaluateNetWorth(r.p, E) = EvaluateNetWorth(r.p, E2)
      BY <2>2, <2>4, <2>9, <3>2, <3>3, <3>4, <3>5, SameNetWorth DEF AreSeqs
    <3>7. Evaluate(r.p, Profile(r.docs)) = Evaluate(r.p, Profile(back.docs))
      BY <2>9, <3>4, <3>6 DEF Evaluate
    <3> QED  BY <2>6, <2>7, <3>7, SameRuleResult
  <2> QED  BY <2>8, <2>9
<1> QED  BY <1>1, Invariant, PTL
===============================================================================
