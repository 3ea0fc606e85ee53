--------------------------------- MODULE Hris ---------------------------------
(***************************************************************************)
(* Attendance and pay: frontend/src/pages/HrisPage.vue, backend/src/hris/  *)
(* hris.service.ts and hris-payroll.facade.ts, and the two calculators     *)
(* under hris/payroll, whose tables are data: here constants, in small     *)
(* units of money and of time.                                             *)
(***************************************************************************)
EXTENDS Integers, FiniteSets, SequencesExt

CONSTANTS
    Staffers, Salaries,          \* employees; base salaries
    Schedules,                   \* [start, end, break] of a work shift, in units of a day
    DayUnits, MonthEnds,         \* units of a day; the last day of each month
    Statuses, Counted,           \* of an attendance; those that a payroll counts
    WorkUnits, Tier,             \* paid units of a month; those of the first multiplier
    Ptkp, Brackets, Months,      \* allowance; <<[upTo, bps]>>; months of a tax year
    Jobs,                        \* calculations that may be under way at once, a bound
    MaxEntered                   \* bound

ASSUME HrisAssumption ==
    /\ Counted \subseteq Statuses /\ "PRESENT" \in Counted /\ WorkUnits \in Nat \ {0} /\ {DayUnits, Tier, Ptkp, Months, MaxEntered} \subseteq Nat
    /\ Schedules \subseteq [start : Nat, end : Nat, break : Nat]
    /\ MonthEnds \in Seq(Nat \ {0}) /\ MonthEnds # << >>
    /\ \A i \in 1..(Len(MonthEnds) - 1) : MonthEnds[i] < MonthEnds[i + 1]

Days == 1..Last(MonthEnds)
Periods == 1..Len(MonthEnds)
NoSlip == [status |-> "none"]
NotClocked == -1

VARIABLES
    schedule,      \* the work shift everybody is on
    salary,        \* employees
    attendance,    \* by employee and day; a "none" status where there is no row
    slip,          \* payroll_slips by employee and month
    payroll,       \* calculations under way
    entered,       \* bounded
    settled        \* history: slips whose last calculation has read what is entered now

hrisVars == <<schedule, salary, attendance, slip, payroll, entered, settled>>

NoRow == [status |-> "none", over |-> 0]
Entering == entered < MaxEntered /\ entered' = entered + 1
Least(a, b) == IF a < b THEN a ELSE b
Most(a, b) == IF a < b THEN b ELSE a
Rounded(amount, bps) == (amount * bps + 5000) \div 10000           \* mulBps
-------------------------------------------------------------------------------
(* createWorkShift, updateWorkShift: a shift may end on the next day.      *)
Span(s) == IF s.end > s.start THEN s.end - s.start ELSE s.end + DayUnits - s.start
Standard(s) == Most(1, Span(s) - s.break)

(* upsertAttendance: the times of one date; what was scheduled is copied.  *)
Worked(in, out) == IF in # NotClocked /\ out # NotClocked /\ out > in THEN out - in ELSE 0
OvertimeOf(in, out) == Most(0, Worked(in, out) - Standard(schedule))
AttendanceRow(in, out, status) == [status |-> status, over |-> OvertimeOf(in, out)]
Times == {NotClocked} \cup 0..(DayUnits - 1)
AttendanceRows == {AttendanceRow(in, out, status) : in \in Times, out \in Times, status \in Statuses}

(* monthRange: from the first day to the last, both of them counted.       *)
First(p) == IF p = 1 THEN 1 ELSE MonthEnds[p - 1] + 1
MonthRangeToEnd(p) == First(p)..(MonthEnds[p] - 1)         \* Mutant: before the end.
MonthRange(p) == First(p)..MonthEnds[p]
CountedOver(e) == [d \in Days |-> IF attendance[e][d].status \in Counted THEN attendance[e][d].over ELSE 0]
Overtime(e, p) == SumFunctionOnSet(CountedOver(e), MonthRange(p))

(* calculateOvertimePay: a floor by the hour and one by the unit.          *)
OvertimePay(base, units) ==
    LET rate == base \div WorkUnits IN
    Rounded(rate * Least(units, Tier), 15000) + Rounded(rate * Most(0, units - Tier), 20000)

(* calculatePph21Monthly: a year of it, less the allowance, by brackets.   *)
Lower(i) == IF i = 1 THEN 0 ELSE Brackets[i - 1].upTo
AnnualTaxOfAll(taxable) ==          \* Mutant: all of it at the rate of the last bracket.
    LET hit == {i \in 1..Len(Brackets) : taxable > Lower(i)} IN
    IF hit = {} THEN 0 ELSE Rounded(taxable, Brackets[Max(hit)].bps)
AnnualTax(taxable) ==
    FoldSet(LAMBDA i, n : n + Rounded(Most(0, Least(taxable, Brackets[i].upTo) - Lower(i)), Brackets[i].bps), 0, 1..Len(Brackets))
Withheld(gross) == AnnualTax(Most(0, gross * Months - Ptkp)) \div Months

Calculated(e, p) ==
    LET over == Overtime(e, p)
        gross == salary[e] + OvertimePay(salary[e], over) IN
    [status |-> "DRAFT", over |-> over, gross |-> gross, net |-> gross - Withheld(gross)]
-------------------------------------------------------------------------------
(* History: what is entered outdates the slips and calculations of one.    *)
Outdated(e) ==
    /\ settled' = {s \in settled : s[1] # e}
    /\ payroll' = {[c EXCEPT !.old = @ \/ c.who = e] : c \in payroll}

SaveShift(s) ==
    /\ Entering /\ s \in Schedules \ {schedule}
    /\ schedule' = s
    /\ UNCHANGED <<salary, attendance, slip, payroll, settled>>

SaveEmployee(e, amount) ==
    /\ Entering /\ salary[e] # amount
    /\ salary' = [salary EXCEPT ![e] = amount]
    /\ Outdated(e)
    /\ UNCHANGED <<schedule, attendance, slip>>

SaveAttendance(e, d, new) ==
    /\ Entering /\ attendance[e][d] # new
    /\ attendance' = [attendance EXCEPT ![e][d] = new]
    /\ Outdated(e)
    /\ UNCHANGED <<schedule, salary, slip>>

(* syncAttendanceFromShift: a till that clocks somebody in or out makes    *)
(* the row of the day PRESENT, or adds it.  The overtime of a row is not   *)
(* computed again; its times, which no property tells apart, are left out. *)
(* So is the insert that loses a race: it takes the whole request with it. *)
SyncAttendance(e, d) ==
    /\ Entering /\ attendance[e][d].status # "PRESENT"
    /\ attendance' = [attendance EXCEPT ![e][d].status = "PRESENT"]
    /\ Outdated(e)
    /\ UNCHANGED <<schedule, salary, slip>>

(* calculateForEmployee: reads, then upserts a draft over what there is.   *)
(* Calculations of one employee may overlap, and the one that has read     *)
(* first may write last.                                                   *)
RunPayroll(j, e, p) ==
    /\ \A c \in payroll : c.job # j
    /\ payroll' = payroll \cup
          {[job |-> j, who |-> e, period |-> p, result |-> Calculated(e, p), old |-> FALSE]}
    /\ UNCHANGED <<schedule, salary, attendance, slip, entered, settled>>
UpsertSlip(c) ==
    /\ c \in payroll /\ payroll' = payroll \ {c}
    /\ slip' = [slip EXCEPT ![c.who][c.period] = c.result]
    /\ settled' = IF c.old THEN settled \ {<<c.who, c.period>>} ELSE settled \cup {<<c.who, c.period>>}
    /\ UNCHANGED <<schedule, salary, attendance, entered>>
FinalizeSlip(e, p) ==
    /\ slip[e][p].status = "DRAFT"
    /\ slip' = [slip EXCEPT ![e][p].status = "FINALIZED"]
    /\ UNCHANGED <<schedule, salary, attendance, payroll, entered, settled>>
-------------------------------------------------------------------------------
HrisInit ==
    /\ schedule \in Schedules /\ salary \in [Staffers -> Salaries]
    /\ attendance = [e \in Staffers |-> [d \in Days |-> NoRow]]
    /\ slip = [e \in Staffers |-> [p \in Periods |-> NoSlip]]
    /\ payroll = {} /\ entered = 0 /\ settled = {}

HrisNext ==
    \/ \E s \in Schedules : SaveShift(s)
    \/ \E e \in Staffers :
          \/ \E amount \in Salaries : SaveEmployee(e, amount)
          \/ \E d \in Days, new \in AttendanceRows : SaveAttendance(e, d, new)
          \/ \E d \in Days : SyncAttendance(e, d)
          \/ \E p \in Periods : FinalizeSlip(e, p) \/ \E j \in Jobs : RunPayroll(j, e, p)
    \/ \E c \in payroll : UpsertSlip(c)

HrisSpec == HrisInit /\ [][HrisNext]_hrisVars
-------------------------------------------------------------------------------
(* Once the slip of every month is of a calculation that has read the      *)
(* attendance as it is, the slips of an employee carry every unit of       *)
(* overtime once, whatever was corrected while a payroll ran and whichever *)
(* calculations overlapped (monthRange, calculateForEmployee).             *)
OvertimePaidOnce ==
    \A e \in Staffers : (\A p \in Periods : <<e, p>> \in settled) =>
        SumFunctionOnSet([p \in Periods |-> slip[e][p].over], Periods) = SumFunctionOnSet(CountedOver(e), Days)

(* Nobody takes home less for earning more, at any bracket and rounding,   *)
(* nor less than nothing (PayrollService: "Net pay would be negative").    *)
MorePaysMore ==
    \A e, f \in Staffers, p, q \in Periods :
        slip[e][p] # NoSlip /\ slip[f][q] # NoSlip =>
            /\ slip[e][p].net >= 0
            /\ slip[e][p].gross <= slip[f][q].gross => slip[e][p].net <= slip[f][q].net

(* Refuted by hand: the slip that was calculated last has read last (two   *)
(* calculations overlap); a final slip stays (it is calculated anew as a draft); *)
(* a day of a schedule has no overtime (the break is paid as such), and a  *)
(* night of one is worked (its end is put before its start).               *)
FinalStays ==
    [][\A e \in Staffers, p \in Periods : slip[e][p].status = "FINALIZED" => slip'[e][p] = slip[e][p]]_hrisVars
PlannedDayIsNoOvertime == \A s \in Schedules : s.end > s.start => Worked(s.start, s.end) = Standard(s)
PlannedNightIsWorked == \A s \in Schedules : s.end < s.start => Worked(s.start, s.end) > 0
=============================================================================
