------------------------------- MODULE Quota -------------------------------
(***************************************************************************)
(* The Worker's quota guard (core/src/quota.rs, worker/src/quota_guard.rs):*)
(* a cron job asks Cloudflare for the account's usage since the start of   *)
(* the plan's window and warns near an allowance.  Beside it runs the      *)
(* calendar, one day after the other, that its date arithmetic must match. *)
(* Amounts and allowances are scaled; their units are left out.            *)
(***************************************************************************)
EXTENDS Integers, Sequences, FiniteSets

CONSTANTS
    Setting,    \* environments: enabled, plan, credentials
    Starts,     \* when a behaviour begins: day (since 1970-01-01) and date; and its bounds: the
                \* last day and the rows of usage
    DayLength,  \* MS_PER_DAY, in steps of the clock
    Allowance   \* of a plan's meters; 0 is none

VARIABLES
    setting,
    start,    \* how the behaviour began, and its bounds
    now,
    date,     \* <<year, month, day>>: the calendar's
    window,   \* the day on which the plan's window began, by the calendar
    rows,     \* the usage Cloudflare has recorded: one unit of a meter on a date
    query,    \* the guard's outstanding query: since and the window it is about, or none
    log       \* what the guard logged last, about which window and with what answer

vars == <<setting, start, now, date, window, rows, query, log>>

Meter == {"worker_requests", "worker_cpu_ms", "do_requests", "do_gb_seconds"}

NoQuery == [since |-> <<0, 0, 0>>, window |-> -1]
Silence == [says |-> "none", usage |-> [m \in Meter |-> 0], full |-> TRUE]

Today == now \div DayLength

(* `WORKERS_PLAN`: free when unset; a typo is an error. *)
ParseWorkersPlan(raw) == IF raw = "unset" THEN "free" ELSE IF raw \in {"free", "paid"} THEN raw ELSE "error"

Plan == ParseWorkersPlan(setting.plan)

Monthly(plan) == plan = "paid"

(* `plan_limits`: the meters that a plan has an allowance for. *)
Metered(plan) == {m \in Meter : Allowance[plan][m] > 0}

-----------------------------------------------------------------------------
(* The calendar. *)
Leap(y) == y % 4 = 0 /\ (y % 100 = 0 => y % 400 = 0)

MonthLength(y, m) ==
    IF m = 2 THEN IF Leap(y) THEN 29 ELSE 28 ELSE IF m \in {4, 6, 9, 11} THEN 30 ELSE 31

DayAfter(d) ==
    IF d[3] < MonthLength(d[1], d[2]) THEN <<d[1], d[2], d[3] + 1>>
    ELSE IF d[2] < 12 THEN <<d[1], d[2] + 1, 1>>
    ELSE <<d[1] + 1, 1, 1>>

IsDate(d) ==
    d = <<d[1], d[2], d[3]>> /\ d[1] \in Nat \ {0} /\ d[2] \in 1 .. 12 /\ d[3] \in 1 .. MonthLength(d[1], d[2])

NotBefore(d, e) ==
    \/ d[1] > e[1]
    \/ d[1] = e[1] /\ d[2] > e[2]
    \/ d[1] = e[1] /\ d[2] = e[2] /\ d[3] >= e[3]

-----------------------------------------------------------------------------
(* Mutant of CivilFromDays: every fourth year is a leap year. *)
CivilFromDaysJulian(z) ==
    LET doe == (z + 719466) % 1461
        yoe == (doe - doe \div 1460) \div 365
        doy == doe - 365 * yoe
        mp == (5 * doy + 2) \div 153
        m == IF mp < 10 THEN mp + 3 ELSE mp - 9
    IN  <<yoe + 4 * ((z + 719466) \div 1461) + (IF m <= 2 THEN 1 ELSE 0), m, doy - (153 * mp + 2) \div 5 + 1>>

(* A day of the 400-year era that begins in March: its year, its day of that year, and the
   month of such a day, counted from March. *)
YearOfEra(doe) == (doe - doe \div 1460 + doe \div 36524 - doe \div 146096) \div 365
DayOfYear(doe) == LET yoe == YearOfEra(doe) IN doe - (365 * yoe + yoe \div 4 - yoe \div 100)
MonthOfYear(doy) == (5 * doy + 2) \div 153

CivilFromDays(days) ==
    LET z == days + 719468
        doe == z % 146097
        doy == DayOfYear(doe)
        mp == MonthOfYear(doy)
        m == IF mp < 10 THEN mp + 3 ELSE mp - 9
    IN  <<YearOfEra(doe) + (z \div 146097) * 400 + (IF m <= 2 THEN 1 ELSE 0), m, doy - (153 * mp + 2) \div 5 + 1>>

DaysFromCivil(d) ==
    LET y == IF d[2] <= 2 THEN d[1] - 1 ELSE d[1]
        yoe == y % 400
        mp == IF d[2] > 2 THEN d[2] - 3 ELSE d[2] + 9
        doe == yoe * 365 + yoe \div 4 - yoe \div 100 + (153 * mp + 2) \div 5 + d[3] - 1
    IN  (y \div 400) * 146097 + doe - 719468

(* `window_start_ms`: midnight today, or of the first of the month. *)
WindowStart(plan, t) ==
    LET day == t - (t % DayLength)
        d == CivilFromDays(day \div DayLength)
        first == DaysFromCivil(<<d[1], d[2], 1>>)
    IN  IF Monthly(plan) THEN (IF first > 0 THEN first ELSE 0) * DayLength ELSE day

(* The date part of `iso_utc`, as the query sends it. *)
IsoDate(t) == CivilFromDays(t \div DayLength)

-----------------------------------------------------------------------------
(* What the constants must be; every instance assumes it.  A behaviour begins on a date of
   the calendar that falls on its day. *)
QuotaConstants ==
    /\ DayLength \in Nat \ {0}
    /\ Allowance \in [{"free", "paid"} -> [Meter -> Nat]]
    /\ \A s \in Starts :
          /\ {s.day, s.last, s.rows} \subseteq Nat /\ s.day <= s.last
          /\ IsDate(s.date) /\ DaysFromCivil(s.date) = s.day /\ s.date[3] <= s.day + 1

Unit == [meter : Meter, date : Nat \X (1 .. 12) \X (1 .. 31)]

TypeOK ==
    /\ setting \in Setting /\ start \in Starts
    /\ now \in Nat /\ Today \in start.day .. start.last
    /\ IsDate(date)
    /\ window \in 0 .. Today
    /\ rows \in Seq(Unit) /\ Len(rows) <= start.rows
    /\ query.window \in -1 .. Today
    /\ query # NoQuery => setting.enabled /\ setting.credentials /\ Plan # "error"
    /\ log.says \in {"none", "quiet", "warned", "failed", "skipped"}

Init ==
    /\ setting \in Setting /\ start \in Starts
    /\ now = start.day * DayLength /\ date = start.date
    /\ window = IF Monthly(Plan) THEN start.day + 1 - start.date[3] ELSE start.day
    /\ rows = << >> /\ query = NoQuery /\ log = Silence

-----------------------------------------------------------------------------
(* Answers of the Analytics API: failed, with errors, without the account, and with
   datasets or fields that are not there. *)
Answers ==
    {[ok |-> ok, errors |-> e, account |-> a, missing |-> m] :
        ok \in BOOLEAN, e \in BOOLEAN, a \in BOOLEAN, m \in {{}} \cup {{x} : x \in Meter}}

(* What it has recorded of a meter since a date. *)
Recorded(meter, since) == Cardinality({i \in DOMAIN rows : rows[i].meter = meter /\ NotBefore(rows[i].date, since)})

(* `usage_from_graphql`: what is not there counts as zero. *)
UsageFromGraphql(answer, since) ==
    [m \in Meter |-> IF m \in answer.missing THEN 0 ELSE Recorded(m, since)]

(* Mutant of AssessUsage: only the last meter decides. *)
AssessUsageLast(usage, plan) == usage["do_gb_seconds"] * 10 >= 8 * Allowance[plan]["do_gb_seconds"]

(* `assess_usage`: the worst ratio reaches WARN_AT. *)
AssessUsage(usage, plan) ==
    \E m \in Metered(plan) : usage[m] * 10 >= 8 * Allowance[plan][m]

-----------------------------------------------------------------------------
Skipped == [Silence EXCEPT !.says = "skipped"]

(* Mutant of Run: it asks without credentials too. *)
RunAnyway ==
    /\ query = NoQuery /\ setting.enabled /\ Plan # "error"
    /\ query' = [since |-> IsoDate(WindowStart(Plan, now)), window |-> window]
    /\ UNCHANGED <<setting, start, now, date, window, rows, log>>

(* The cron trigger: `run` up to its query. *)
Run ==
    /\ query = NoQuery /\ setting.enabled
    /\ \/ /\ Plan = "error" \/ ~setting.credentials
          /\ log' = Skipped /\ UNCHANGED query
       \/ /\ Plan # "error" /\ setting.credentials
          /\ query' = [since |-> IsoDate(WindowStart(Plan, now)), window |-> window]
          /\ UNCHANGED log
    /\ UNCHANGED <<setting, start, now, date, window, rows>>

Answered(a) == a.ok /\ ~a.errors /\ a.account

(* Every error is logged and swallowed. *)
Finish ==
    /\ query # NoQuery
    /\ \E a \in Answers :
          LET usage == UsageFromGraphql(a, query.since)
          IN  log' = IF Answered(a)
                     THEN [says |-> IF AssessUsage(usage, Plan) THEN "warned" ELSE "quiet",
                           usage |-> [m \in Meter |-> Recorded(m, CivilFromDays(query.window))],
                           full |-> a.missing = {}]
                     ELSE [Silence EXCEPT !.says = "failed"]
    /\ query' = NoQuery
    /\ UNCHANGED <<setting, start, now, date, window, rows>>

(* Other traffic of the account. *)
Use ==
    /\ Len(rows) < start.rows
    /\ \E m \in Meter : rows' = Append(rows, [meter |-> m, date |-> date])
    /\ UNCHANGED <<setting, start, now, date, window, query, log>>

Tick ==
    /\ now < (start.last + 1) * DayLength - 1
    /\ now' = now + 1
    /\ date' = IF now' % DayLength = 0 THEN DayAfter(date) ELSE date
    /\ window' = IF now' % DayLength = 0 /\ (Monthly(Plan) => date'[3] = 1) THEN now' \div DayLength ELSE window
    /\ UNCHANGED <<setting, start, rows, query, log>>

Next == Run \/ Finish \/ Use \/ Tick

Spec == Init /\ [][Next]_vars

-----------------------------------------------------------------------------
(* The conversions agree with the calendar, both ways, and the window they give began
   when the plan's did. *)
CalendarAgrees ==
    /\ CivilFromDays(Today) = date
    /\ DaysFromCivil(date) = Today
    /\ Plan # "error" => WindowStart(Plan, now) = window * DayLength

Near(usage) == \E m \in Meter : Allowance[Plan][m] # 0 /\ 5 * usage[m] >= 4 * Allowance[Plan][m]

(* What the guard asked for is the window that it meant. *)
AsksForWindow == query # NoQuery => query.since = CivilFromDays(query.window)

(* By the calendar, the window began today or on the first of the month. *)
WindowIsPlans == window = IF Monthly(Plan) THEN Today + 1 - date[3] ELSE Today

(* A full answer leads to a warning exactly if the usage of the window asked about has
   reached the threshold of some meter of the plan, also if midnight passed meanwhile. *)
WarnsExactly ==
    log.says \in {"quiet", "warned"} /\ log.full => (log.says = "warned" <=> Near(log.usage))

(* The inductive invariant. *)
QuotaInv == TypeOK /\ CalendarAgrees /\ WindowIsPlans /\ AsksForWindow /\ WarnsExactly
=============================================================================
