---------------------------- MODULE MCAssessment ----------------------------
(* The bids and answers TLC assesses: every rule alone with all that its        *)
(* source may say, and bids of three requirements over what is registered.      *)
EXTENDS ComplianceEngine

(* A sum that comes out short when the larger of its amounts is added first.    *)
MCSumError == [amounts \in Seq(Int) |-> IF Len(amounts) > 1 /\ amounts[1] > Last(amounts) THEN -1 ELSE 0]

Ids == {"absent", "null", "empty", "value"}
Codes == {"2xx", "3xx", "4xx", "5xx"}
Req(rule, fields) == [rule |-> rule, cap |-> rule, applicability |-> "APPLICABLE", params |-> "ok"] @@ fields

(* A check a requirement makes: none configured, all met, or exactly one unmet. *)
Checks(names) ==
    {[n \in names |-> "unset"], [n \in names |-> "met"]}
    \cup {[n \in names |-> IF n = m THEN "unmet" ELSE "met"] : m \in names}

Simple == {Req(k, [id |-> i]) : k \in {"gst", "pan", "udyam", "gst_returns"}, i \in Ids}
McaReqs == {[Req("mca", [id |-> i, waived |-> w, required |-> q]) EXCEPT !.params = p] :
               i \in Ids, w \in BOOLEAN, q \in {"None", "ACTIVE", "INACTIVE"}, p \in {"ok", "unknown"}}
BisReqs == {Req("bis", [id |-> "value", waived |-> FALSE, required |-> q, on |-> o, checks |-> c]) :
               q \in {"None", "ACTIVE"}, o \in {"none", "date", "bad"},
               c \in Checks({"standard", "product", "manufacturer", "facility"})}
DigiReqs == {Req("digilocker", [id |-> i, hash |-> h, checks |-> c]) :
               i \in {"null", "value"}, h \in {"None", "h1"}, c \in Checks({"issuer", "type"})}
DebarReqs == {Req("debarment", [ids |-> i, on |-> o]) :
               i \in [1..3 -> {"absent", "null", "value"}], o \in {"none", "date", "text"}}
OemReqs == {[Req("oem", [id |-> i, waived |-> w, on |-> o, from |-> f, until |-> u, checks |-> c]) EXCEPT !.cap = "oem"] :
               i \in {"null", "value"}, w \in BOOLEAN, o \in {"none", "date", "bad"}, f \in Dates, u \in Dates,
               c \in Checks({"bidder", "oem", "type", "product", "territory"})}
MiiReqs == {Req("make_in_india", [percentages |-> s, threshold |-> t, op |-> o, checks |-> c]) :
               s \in SUBSET {40, 50, NoNumber}, t \in {0, 50}, o \in {">=", "=", "odd"},
               c \in Checks({"certificate", "country", "location"})}

(* Documents of at most one field each; two of them make a bid.                 *)
Row(y, v) == [year |-> y, value |-> v]
Listed(f, rows) == [field |-> f, rows |-> rows, body |-> [amount |-> NoNumber]]
Scalar(f, b) == [field |-> f, rows |-> <<>>, body |-> b]
Amount(v) == [amount |-> v]
Sheet(a, l, w) == [ca |-> a, cl |-> l, wc |-> w]
TurnoverItems == {Listed("annual_turnovers", <<Row(1, 5), Row(2, v)>>) : v \in {1, 5, NoNumber}}
    \cup {Scalar("turnover", Amount(v)) : v \in {-1, 1, 5}}
NetWorthItems ==
    {Scalar("net_worth", Amount(v)) : v \in {1, 2, 4, 5}} \cup {Listed("net_worths", <<Row(1, 1), Row(2, 5)>>)}
SolvencyItems ==
    {Scalar("is_solvency_positive", Amount(v)) : v \in {0, 1}} \cup {Listed("solvencies", <<Row(1, 2)>>)}
SheetItems == {Scalar("balance_sheet", s) : s \in {Sheet(5, 2, 3), Sheet(5, 2, 2), Sheet(5, 2, 0), Sheet(5, NoNumber, 3)}}
AuditItems ==
    {Scalar("audit", [audited |-> a, udin |-> b]) : a \in {"yes", "no", "unknown"}, b \in BOOLEAN}
Documents(items) == {[year |-> y, items |-> <<it>>] : y \in 0..2, it \in items}
NoParams == [focus |-> "none", turnover |-> NoNumber, op |-> ">=", mode |-> "none", years |-> {},
             netWorth |-> NoNumber, solvency |-> "unset", audit |-> {}, auditSet |-> FALSE, fields |-> {}]
TurnoverParams == {[NoParams EXCEPT !.turnover = 3, !.op = o, !.mode = m, !.years = y] :
    o \in {">=", "odd"}, m \in {"none", "MINIMUM_YEAR", "AVERAGE_ANNUAL"}, y \in {{}, {1}, {1, 2}, {0}, {3}}}
FinancialOver(params, items) == {Req("financial", [p |-> p, docs |-> <<d, e>>]) :
    p \in params, d \in Documents(items), e \in Documents(items)}
FinancialReqs ==
    FinancialOver(TurnoverParams, TurnoverItems)
    \cup FinancialOver({[NoParams EXCEPT !.netWorth = 3, !.years = y] : y \in {{}, {1}, {1, 2}, {3}, {0}}}, NetWorthItems)
    \cup FinancialOver({[NoParams EXCEPT !.solvency = q, !.years = y] : q \in {"yes", "no"}, y \in {{}, {1}}}, SolvencyItems)
    \cup FinancialOver({[NoParams EXCEPT !.audit = a, !.auditSet = TRUE] : a \in SUBSET {"audited", "udin"}}, AuditItems)
    \cup FinancialOver({[NoParams EXCEPT !.fields = {"ca", "cl"}, !.years = y] : y \in {{}, {1}}}, SheetItems)
    \cup FinancialOver({NoParams, [NoParams EXCEPT !.focus = "TURNOVER"], [NoParams EXCEPT !.focus = "unknown"]}, NetWorthItems)

(* Three requirements whose capabilities interleave.                            *)
Plain == {Req("gst", [id |-> "value"]), Req("pan", [id |-> "value"]),
          [Req("gst", [id |-> "value"]) EXCEPT !.applicability = "NOT_APPLICABLE"],
          [Req("oem", [id |-> "null", waived |-> FALSE, on |-> "none", from |-> 0, until |-> 0,
                       checks |-> [n \in {"bidder", "oem", "type", "product", "territory"} |-> "unset"]])
                  EXCEPT !.cap = "gst"],
          [Req("pan", [id |-> "value"]) EXCEPT !.applicability = "UNKNOWN"],
          [Req("none", [id |-> "value"]) EXCEPT !.cap = "gst"]}
AllRules == Asking \cup Free
Alone(reqs) == {[reqs |-> <<r>>, providers |-> Asking, rules |-> AllRules, world |-> "full"] : r \in reqs}
MCBids == Alone(Simple \cup McaReqs \cup BisReqs \cup DigiReqs \cup DebarReqs \cup OemReqs \cup MiiReqs
                \cup FinancialReqs)
    \cup {[reqs |-> <<a, b, c>>, providers |-> p, rules |-> AllRules \ q, world |-> "brief"] :
            a \in Plain, b \in Plain, c \in Plain, p \in SUBSET {"gst", "pan"}, q \in {{}, {"gst"}}}

Answer(code, body) == [code |-> code, body |-> body, route |-> "rest", url |-> "https"]
Registry == {Answer(c, b) : c \in Codes, b \in {"absent", "silent", "null", "odd", "ACTIVE", "INACTIVE", "INVALID"}}
    \cup {Answer("down", "absent")}
Wired(answers) == {[a EXCEPT !.route = "http", !.url = u] :
    a \in answers \cup {Answer("cut", "absent")}, u \in {"https", "empty"}}
Mocked == {Answer("mock", b) : b \in {"VERIFIED", "INACTIVE", "INVALID", "unknown"}}
Filings == {Answer(c, b) @@ [idInvalid |-> i, usable |-> u] :
    c \in Codes, b \in {"absent", "silent", "FILED", "NOT_FILED", "odd"}, i \in BOOLEAN, u \in BOOLEAN}
Soap == {[serviceError |-> e, panStatus |-> s, matches |-> m] :
    e \in BOOLEAN, s \in {"None", "E", "X"}, m \in SUBSET {"panMatch:N", "panMatch:Y", "nameMatch:Y"}}
Soaps == {[Answer(c, b) EXCEPT !.route = "soap"] @@ [soap |-> x, missing |-> m] :
    c \in {"2xx", "5xx", "down", "cut"}, b \in {"absent", "soap"}, x \in Soap, m \in {{}, {"client_id"}}}
Certificates == {Answer("2xx", "ACTIVE") @@ [usable |-> TRUE, from |-> f, until |-> u] : f \in Dates, u \in Dates}
    \cup {Answer(c, b) @@ [usable |-> u, from |-> 1, until |-> 3] :
            c \in {"2xx", "5xx", "down"}, b \in {"absent", "SUSPENDED", "EXPIRED", "INVALID", "odd"}, u \in BOOLEAN}
Papers == {Answer(c, b) @@ [usable |-> u, hash |-> h] :
    c \in {"2xx", "5xx", "down"}, b \in {"absent", "VALID", "silent", "odd"} \cup BadDocuments,
    u \in BOOLEAN, h \in {"None", "h1", "h2"}}
Restrictions == {Answer(c, b) @@ [idInvalid |-> FALSE, usable |-> TRUE, match |-> "None", from |-> 0, until |-> 0] :
        c \in Codes \cup {"down"}, b \in {"absent", "silent", "CLEAR", "UNKNOWN", "odd"}}
    \cup {Answer("2xx", "RESTRICTED") @@ [idInvalid |-> i, usable |-> u, match |-> m, from |-> f, until |-> t] :
        i \in BOOLEAN, u \in BOOLEAN, m \in {"None", "odd", "EXACT_NAME", "EXACT_IDENTIFIER"}, f \in 0..3, t \in 0..3}
Full == [gst |-> Registry \cup Wired(Registry) \cup Mocked, pan |-> Registry \cup Mocked \cup Soaps,
              udyam |-> Registry, mca |-> {a @@ [usable |-> u] : a \in Registry, u \in BOOLEAN},
              gst_returns |-> Filings, bis |-> Certificates, digilocker |-> Papers, debarment |-> Restrictions]
Brief == [gst |-> {Answer("2xx", "ACTIVE"), Answer("down", "absent"), Answer("mock", "VERIFIED"),
                   [Answer("cut", "absent") EXCEPT !.route = "http"]},
          pan |-> {Answer("2xx", "INVALID"), Answer("4xx", "absent")}]
MCAnswers == [full |-> Full, brief |-> Brief]
=============================================================================
