----------------------------- MODULE Financial -----------------------------
(***************************************************************************)
(* compliance_engine/financial: how the documents of a bidder become a     *)
(* financial profile, and how one requirement is judged against it.        *)
(* A document is [year, items]: the financial year its evidence names (0   *)
(* for none) and its fields in extraction order.  An item is [field, rows] *)
(* for a field that lists rows [year, value] and [field, body] for a       *)
(* scalar, whose body is an amount or a structure.  Amounts are multiples  *)
(* of half a lakh (0.005 crore), so that two of them can differ by less    *)
(* than the tolerance; NoNumber is what does not parse.                    *)
(***************************************************************************)
EXTENDS Integers, Sequences, FiniteSets, SequencesExt, Sums

(* How far the floating-point average of amounts, added up in the order of the  *)
(* sequence, comes out from an exact average that equals the limit.             *)
CONSTANT SumError

NoNumber == 999
Result(status, flags, cites) == [status |-> status, flags |-> flags, cites |-> cites]
Says(status, flags) == Result(status, flags, FALSE)

(* The outcome of the first row of a decision ladder whose condition holds.     *)
FirstRow(rows) ==
    rows[CHOOSE i \in DOMAIN rows : rows[i][1] /\ \A j \in 1..(i-1) : ~rows[j][1]][2]

(* The statements about one metric, in the order the documents are read.  A row *)
(* needs a year of its own; a scalar takes the year of its document, and only a *)
(* turnover is dropped when the document has none.                              *)
Structured == {"balance_sheets", "balance_sheet", "audit"}
Value(it) == IF it.field \in Structured THEN it.body ELSE it.body.amount
Parses(field, value) == field \notin Structured => value # NoNumber
IsDocument(d) ==
    /\ d.items \in Seq(ToSet(d.items))
    /\ \A it \in ToSet(d.items) :
          /\ it.rows \in Seq(ToSet(it.rows))
          /\ it.field \notin Structured =>
                it.body.amount \in Int /\ \A r \in ToSet(it.rows) : r.value \in Int
Accepted(ok, year, value) == IF ok THEN <<[year |-> year, value |-> value]>> ELSE <<>>
StatedBy(doc, it, listed, scalar, needsYear) ==
    CASE it.field = listed ->
           FlattenSeq([k \in DOMAIN it.rows |->
               LET r == it.rows[k] IN Accepted(r.year # 0 /\ Parses(listed, r.value), r.year, r.value)])
      [] it.field = scalar ->
           Accepted(Parses(scalar, Value(it)) /\ (needsYear => doc.year # 0), doc.year, Value(it))
      [] OTHER -> <<>>
Stated(doc, listed, scalar, needsYear) ==
    FlattenSeq([i \in DOMAIN doc.items |-> StatedBy(doc, doc.items[i], listed, scalar, needsYear)])
Statements(docs, listed, scalar, needsYear) ==
    FlattenSeq([d \in DOMAIN docs |->
        LET own == Stated(docs[d], listed, scalar, needsYear)
        IN  [i \in DOMAIN own |-> [year |-> own[i].year, value |-> own[i].value, doc |-> d]]])

(* The audit of the first document that has one.                                *)
Audits(docs) == Statements(docs, "none", "audit", FALSE)
NoAudit == [audited |-> "none", udin |-> FALSE]

Profile(docs) ==
    [turnovers |-> Statements(docs, "annual_turnovers", "turnover", TRUE),
     netWorth  |-> Statements(docs, "net_worths", "net_worth", FALSE),
     solvency  |-> Statements(docs, "solvencies", "is_solvency_positive", FALSE),
     sheets    |-> Statements(docs, "balance_sheets", "balance_sheet", FALSE),
     audit     |-> IF Audits(docs) = <<>> THEN NoAudit ELSE Audits(docs)[1].value]
(* A negative turnover or balance component is refused by the data model and    *)
(* fails the normalization of everything.                                       *)
ProfileFails(docs) ==
    LET profile == Profile(docs)
    IN  \/ \E s \in ToSet(profile.turnovers) : s.value < 0
        \/ \E s \in ToSet(profile.sheets) : s.value.ca < 0 \/ s.value.cl < 0

Years(points) == {p.year : p \in ToSet(points)}
(* The places of the points of the years that are asked for, all if none is.    *)
Chosen(points, years) == {i \in DOMAIN points : years = {} \/ points[i].year \in years}

EvaluateThreshold(value, op, limit) ==
    CASE op = ">=" -> value >= limit [] op = ">" -> value > limit [] op = "=" -> value = limit
      [] op = "<=" -> value <= limit [] op = "<" -> value < limit [] OTHER -> FALSE
Operators == {">=", ">", "=", "<=", "<"}

(* The average is over the points, not over the years they are about, and       *)
(* compares with the limit as what the points exceed it by compares with zero.  *)
(* Adding up floats rounds, which tells only when the two are equal and only    *)
(* the comparison for equality allows for it.                                   *)
Excess(points, selected, limit) ==
    Sum([i \in DOMAIN points |-> IF i \in selected THEN points[i].value - limit ELSE 0])
Amounts(points, selected) ==
    FlattenSeq([i \in DOMAIN points |-> IF i \in selected THEN <<points[i].value>> ELSE <<>>])
TurnoverMeets(points, selected, mode, op, limit) ==
    LET exact == Excess(points, selected, limit)
    IN  IF mode = "MINIMUM_YEAR" THEN EvaluateThreshold(Min({points[i].value : i \in selected}), op, limit)
        ELSE IF exact = 0 /\ op # "=" THEN EvaluateThreshold(SumError[Amounts(points, selected)], op, 0)
        ELSE EvaluateThreshold(exact, op, 0)

TurnoverLadder(p, points) ==
    LET selected == Chosen(points, p.years)
        years == {points[i].year : i \in selected}
    IN <<
        <<p.turnover = NoNumber, Says("NOT_CHECKED", {})>>,
        <<p.op \notin Operators, Says("UNVERIFIABLE", {})>>,
        <<0 \in p.years, Says("UNVERIFIABLE", {})>>,
        <<selected = {} /\ p.years # {} /\ points # <<>>, Says("FAIL", {"TURNOVER_PERIOD_MISMATCH"})>>,
        <<selected = {}, Says("MISSING", {"TURNOVER_DATA_MISSING"})>>,
        <<p.years \ years # {}, Says("MISSING", {"TURNOVER_DATA_MISSING"})>>,
        <<p.years = {} /\ Cardinality(years) > 1, Says("NOT_CHECKED", {})>>,
        <<Cardinality(years) > 1 /\ p.mode = "none", Says("UNVERIFIABLE", {})>>,
        <<selected # {} /\ TurnoverMeets(points, selected, p.mode, p.op, p.turnover), Says("PASS", {})>>,
        <<TRUE, Says("FAIL", {"TURNOVER_BELOW_THRESHOLD"})>> >>
EvaluateTurnover(p, points) == FirstRow(TurnoverLadder(p, points))

(* Solvency is 1 or 0; a listed row takes any text for true, so text is 2.      *)
(* Net worth, solvency and balance sheet judge the first statement of the years *)
(* that are asked for, or of the only year there is.                            *)
ByFirst(p, entries, mismatch, Judge(_)) ==
    LET chosen == Chosen(entries, p.years) IN
    IF 0 \in p.years THEN Says("UNVERIFIABLE", {})
    ELSE IF chosen = {}
    THEN IF p.years # {} /\ entries # <<>> /\ 0 \notin Years(entries) THEN mismatch ELSE Says("MISSING", {})
    ELSE IF p.years = {} /\ Cardinality(Years(entries)) > 1 THEN Says("NOT_CHECKED", {})
    ELSE Judge(entries[Min(chosen)].value)

YearMismatch == Says("FAIL", {"FINANCIAL_YEAR_MISMATCH"})
EvaluateNetWorth(p, entries) ==
    LET Judge(v) == IF v >= p.netWorth THEN Says("PASS", {}) ELSE Says("FAIL", {"NET_WORTH_BELOW_THRESHOLD"})
    IN  IF p.netWorth = NoNumber THEN Says("NOT_CHECKED", {}) ELSE ByFirst(p, entries, YearMismatch, Judge)

EvaluateSolvency(p, entries) ==
    LET Judge(v) == IF v # 0 THEN Says("PASS", {}) ELSE Says("FAIL", {"SOLVENCY_REQUIREMENT_FAILED"})
    IN  CASE p.solvency = "unset" -> Says("NOT_CHECKED", {})
          [] p.solvency = "no" -> Says("NOT_APPLICABLE", {})
          [] p.solvency = "yes" -> ByFirst(p, entries, YearMismatch, Judge)

AuditLadder(p, a) == <<
        <<p.audit = {}, Says("NOT_APPLICABLE", {})>>,
        <<a = NoAudit, Says("MISSING", {})>>,
        <<"audited" \in p.audit /\ a.audited = "no", Says("FAIL", {"AUDIT_EVIDENCE_MISSING"})>>,
        <<"audited" \in p.audit /\ a.audited = "unknown", Says("MISSING", {})>>,
        <<"udin" \in p.audit /\ ~a.udin, Says("FAIL", {"AUDIT_EVIDENCE_MISSING"})>>,
        <<TRUE, Says("PASS", {})>> >>
EvaluateAudit(p, a) == FirstRow(AuditLadder(p, a))

(* A lakh, the difference between two amounts that still counts as rounding.    *)
(* Of floats exactly a lakh apart some exceed it; here none of them does.       *)
FINANCIAL_NUMERIC_TOLERANCE == 2
WithinTolerance(a, b) == a - b <= FINANCIAL_NUMERIC_TOLERANCE /\ b - a <= FINANCIAL_NUMERIC_TOLERANCE

(* A sheet is a function from its fields to amounts; working capital is derived *)
(* when both of its parts are present.                                          *)
WorkingCapital(sheet) == IF NoNumber \in {sheet.ca, sheet.cl} THEN NoNumber ELSE sheet.ca - sheet.cl
SheetLadder(p, s) == <<
        <<\E f \in p.fields : s[f] = NoNumber, Says("FAIL", {"BALANCE_SHEET_INCOMPLETE"})>>,
        <<NoNumber \notin {s.wc, WorkingCapital(s)} /\ ~WithinTolerance(s.wc, WorkingCapital(s)),
          Says("FAIL", {"FINANCIAL_DATA_INCONSISTENCY"})>>,
        <<TRUE, Says("PASS", {})>> >>
EvaluateBalanceSheet(p, entries) ==
    LET Judge(s) == FirstRow(SheetLadder(p, s))
    IN  IF p.fields = {} THEN Says("NOT_CHECKED", {}) ELSE ByFirst(p, entries, Says("MISSING", {}), Judge)

(* The check a requirement asks for: the focus it names, or the only parameter  *)
(* it sets.                                                                     *)
Signals(p) ==
    {f \in {"TURNOVER", "NET_WORTH", "SOLVENCY", "AUDIT", "BALANCE_SHEET"} :
        CASE f = "TURNOVER" -> p.turnover # NoNumber [] f = "NET_WORTH" -> p.netWorth # NoNumber
          [] f = "SOLVENCY" -> p.solvency # "unset" [] f = "AUDIT" -> p.auditSet
          [] f = "BALANCE_SHEET" -> p.fields # {}}
DetermineFocus(p) ==
    IF p.focus # "none" THEN p.focus
    ELSE IF Cardinality(Signals(p)) = 1 THEN CHOOSE f \in Signals(p) : TRUE ELSE "unknown"

Evaluate(p, profile) ==
    CASE DetermineFocus(p) = "TURNOVER" -> EvaluateTurnover(p, profile.turnovers)
      [] DetermineFocus(p) = "NET_WORTH" -> EvaluateNetWorth(p, profile.netWorth)
      [] DetermineFocus(p) = "SOLVENCY" -> EvaluateSolvency(p, profile.solvency)
      [] DetermineFocus(p) = "AUDIT" -> EvaluateAudit(p, profile.audit)
      [] DetermineFocus(p) = "BALANCE_SHEET" -> EvaluateBalanceSheet(p, profile.sheets)
      [] OTHER -> Says("NOT_CHECKED", {})

(* FinancialCapacityRule: bad parameters, an unknown focus and evidence that    *)
(* cannot be normalized are NOT_CHECKED; MISSING always carries a flag.         *)
FinancialCapacityRule(r) ==
    IF r.params = "unknown" \/ DetermineFocus(r.p) = "unknown" \/ ProfileFails(r.docs)
    THEN Says("NOT_CHECKED", {})
    ELSE LET out == Evaluate(r.p, Profile(r.docs))
         IN  IF out.status = "MISSING" /\ out.flags = {} THEN Says("MISSING", {"FINANCIAL_CAPACITY_MISSING"}) ELSE out

(* Variant for the mutation runs: only an amount that shrinks is a conflict.    *)
ConflictsDownward(entries) ==
    {pair \in (DOMAIN entries) \X (DOMAIN entries) :
        LET i == pair[1]  j == pair[2] IN
        /\ i < j
        /\ entries[i].year = entries[j].year /\ entries[i].year # 0
        /\ entries[i].doc # entries[j].doc
        /\ entries[i].value - entries[j].value > FINANCIAL_NUMERIC_TOLERANCE}
(* check_financial_consistency: two documents state amounts for one metric and  *)
(* year that differ by more than the tolerance.  Statements without a year take *)
(* no part, and neither do solvency and working capital.                        *)
Conflicts(entries) ==
    {pair \in (DOMAIN entries) \X (DOMAIN entries) :
        LET i == pair[1]  j == pair[2] IN
        /\ i < j
        /\ entries[i].year = entries[j].year /\ entries[i].year # 0
        /\ entries[i].doc # entries[j].doc
        /\ ~WithinTolerance(entries[i].value, entries[j].value)}
SheetMetric(sheets, f) ==
    LET of == SelectSeq(sheets, LAMBDA s : s.value[f] # NoNumber)
    IN  [i \in DOMAIN of |-> [of[i] EXCEPT !.value = of[i].value[f]]]
Inconsistent(docs) ==
    LET profile == Profile(docs)
    IN  {m \in {"turnover", "net_worth", "ca", "cl"} :
            Conflicts(CASE m = "turnover" -> profile.turnovers [] m = "net_worth" -> profile.netWorth
                        [] OTHER -> SheetMetric(profile.sheets, m)) # {}}

(* detect_turnover_trend_anomaly: from three years on, a gap between the years  *)
(* or a change by more than the ratio.  The first point of a year counts.       *)
MinTrendYears == 3
MaxTrendRatio == 10
TrendAnomaly(points) ==
    LET First(y) == points[CHOOSE i \in DOMAIN points :
                              points[i].year = y /\ \A j \in 1..(i-1) : points[j].year # y].value
        Next(y) == CHOOSE z \in Years(points) : z > y /\ \A w \in Years(points) : w > y => z <= w
        Followed == {y \in Years(points) : \E z \in Years(points) : z > y}
        Jump(a, b) == IF a > b THEN a > MaxTrendRatio * b ELSE b > MaxTrendRatio * a
    IN  /\ Cardinality(Years(points)) >= MinTrendYears
        /\ \E y \in Followed : Next(y) - y > 1 \/ Jump(First(y), First(Next(y)))
=============================================================================
