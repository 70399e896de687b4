------------------------------- MODULE People -------------------------------
(***************************************************************************)
(* HR: EmployeeService, AttendanceService, LeaveRequestService. The rates  *)
(* of the collective agreements (CcnlService) are read and never written.  *)
(*                                                                         *)
(* Times are minutes from the first day's midnight, hours are hundredths.  *)
(* The day an attendance is for and the time it is stamped with are        *)
(* separate inputs of the client. One tenant.                              *)
(***************************************************************************)
EXTENDS Requests, SequencesExt, FiniteSetsExt

CONSTANTS
    FiscalCodes,    \* of the people that may be employed
    Days,           \* days attendance and leave may be for
    Stamps,         \* times a client may clock in or out at
    Breaks          \* minutes of break a client may report

-----------------------------------------------------------------------------
(* Entities.                                                               *)

\* createdAt orders the rows: two that are both inserted never overlapped.
Employee(n, code, hired) ==
    [table |-> "employee", status |-> "prospect", key |-> n, alias |-> code,
     hireDate |-> hired, terminationDate |-> None, createdAt |-> calls]

Attendance(e, day, at) ==
    [table |-> "attendance", status |-> "open", key |-> <<e, day>>, day |-> day,
     clockInAt |-> at, clockOutAt |-> None, breakMinutes |-> 0, workedHours |-> 0]

LeaveRequest(e, from, until) ==
    [table |-> "leave", status |-> "draft", employee |-> e, from |-> from, until |-> until,
     submittedAt |-> None, decidedAt |-> None, decidedBy |-> None]

-----------------------------------------------------------------------------
(* Status graphs.                                                          *)

CanEmployee(from, to) ==
    \/ from = "prospect" /\ to \in {"onboarding", "terminated"}
    \/ from = "onboarding" /\ to \in {"active", "terminated"}
    \/ from = "active" /\ to = "terminated"

CanAttendance(from, to) == from = "open" /\ to \in {"closed", "auto_closed"}

CanLeave(from, to) ==
    \/ from = "draft" /\ to \in {"submitted", "cancelled"}
    \/ from = "submitted" /\ to \in {"approved", "rejected", "cancelled"}
    \/ from = "approved" /\ to = "cancelled"

-----------------------------------------------------------------------------
(* EmployeeService.                                                        *)

\* nextEmployeeNumber: one more than that of the employee created last.
NextEmployeeNumber ==
    LET all  == Rows("employee")
        last == CHOOSE e \in all : \A x \in all : db[x].createdAt <= db[e].createdAt
    IN  IF all = {} THEN 1 ELSE db[last].key + 1

HasCode(code) == code # None /\ \E e \in Rows("employee") : db[e].alias = code

CreateEmployee(p) ==
    /\ Free("employee") # {}
    /\ \E code \in FiscalCodes \cup {None}, hired \in {None, now} :
        /\ ~HasCode(code)
        /\ LET e == New("employee")
           IN  Handle(p, {e}, <<Only(e, Employee(NextEmployeeNumber, code, hired))>>)

\* update, of what the rest of the system reads: the fiscal code.
UpdateEmployee(p) ==
    \E e \in Rows("employee"), code \in FiscalCodes :
        /\ code # db[e].alias => ~HasCode(code)
        /\ Handle(p, {e}, <<Only(e, [db[e] EXCEPT !.alias = code])>>)

StartOnboarding(p) ==
    \E e \in Rows("employee"), hired \in {None, now} :
        /\ CanEmployee(db[e].status, "onboarding")
        /\ Handle(p, {e}, <<Only(e, [db[e] EXCEPT !.status = "onboarding",
                                       !.hireDate = IF hired = None THEN @ ELSE hired])>>)

\* activate: without a date of hire, today's.
Activate(p) ==
    \E e \in Rows("employee"), hired \in {None, now} :
        /\ CanEmployee(db[e].status, "active")
        /\ Handle(p, {e}, <<Only(e, [db[e] EXCEPT !.status = "active",
               !.hireDate = IF hired # None THEN hired ELSE IF @ = None THEN now ELSE @])>>)

Terminate(p) ==
    \E e \in Rows("employee") :
        /\ CanEmployee(db[e].status, "terminated")
        /\ Handle(p, {e}, <<Only(e, [db[e] EXCEPT !.status = "terminated",
                                                  !.terminationDate = now])>>)

-----------------------------------------------------------------------------
(* AttendanceService.                                                      *)

AttendanceOf(e, day) == {a \in Rows("attendance") : db[a].key = <<e, day>>}

\* Mutant: the status is not looked at.
ClockInAgain(p) ==
    \E e \in IdsOf("employee"), day \in Days, at \in Stamps :
        \/ \E a \in AttendanceOf(e, day) :
            Handle(p, {a}, <<Only(a, [db[a] EXCEPT !.clockInAt = at])>>)
        \/ /\ AttendanceOf(e, day) = {} /\ Free("attendance") # {}
           /\ LET a == New("attendance") IN Handle(p, {a}, <<Only(a, Attendance(e, day, at))>>)

\* clockIn: the time of an open row is replaced; nobody looks whether there is
\* such an employee.
ClockIn(p) ==
    \E e \in IdsOf("employee"), day \in Days, at \in Stamps :
        \/ \E a \in AttendanceOf(e, day) :
            /\ db[a].status = "open"
            /\ Handle(p, {a}, <<Only(a, [db[a] EXCEPT !.clockInAt = at])>>)
        \/ /\ AttendanceOf(e, day) = {} /\ Free("attendance") # {}
           /\ LET a == New("attendance") IN Handle(p, {a}, <<Only(a, Attendance(e, day, at))>>)

\* The hundredths of an hour between two times, but for a break.
WorkedHours(start, end, break) ==
    LET net == Max({0, end - start - break}) IN (net * 100 + 30) \div 60

ClockOut(p) ==
    \E a \in Rows("attendance"), at \in Stamps, break \in Breaks \cup {None} :
        /\ db[a].status = "open"
        /\ at >= db[a].clockInAt
        /\ LET minutes == IF break = None THEN db[a].breakMinutes ELSE break
           IN  Handle(p, {a}, <<Only(a, [db[a] EXCEPT !.status = "closed", !.clockOutAt = at,
                   !.breakMinutes = minutes,
                   !.workedHours = WorkedHours(db[a].clockInAt, at, minutes)])>>)

EndOfDay(day) == 1440 * day + 1439

AutoClosed(row) ==
    IF row.clockOutAt # None THEN [row EXCEPT !.status = "auto_closed"]
    ELSE [row EXCEPT !.status = "auto_closed", !.clockOutAt = EndOfDay(row.day),
               !.workedHours = WorkedHours(row.clockInAt, EndOfDay(row.day), row.breakMinutes)]

\* sweepOrphans: the open rows of days before the cutoff are read together and
\* saved one by one. No scheduler calls it yet.
SweepOrphans(p) ==
    \E cutoff \in {day + 1 : day \in Days} :
        LET orphans == {a \in Rows("attendance") : db[a].status = "open" /\ db[a].day < cutoff}
        IN  /\ orphans # {}
            /\ Handle(p, orphans,
                      [i \in 1 .. Cardinality(orphans) |->
                          LET a == SetToSeq(orphans)[i] IN Only(a, AutoClosed(db[a]))])

\* An attendance as the service leaves it: no hours while it is open, and then
\* those between its times.
HoursRight(row) ==
    IF row.status = "open" THEN row.clockOutAt = None /\ row.workedHours = 0
    ELSE row.workedHours = WorkedHours(row.clockInAt, row.clockOutAt, row.breakMinutes)

-----------------------------------------------------------------------------
(* LeaveRequestService.                                                    *)

\* Requests for days that another covers are not looked for.
CreateLeave(p) ==
    /\ Free("leave") # {}
    /\ \E e \in IdsOf("employee"), from, until \in Days :
        /\ from <= until
        /\ LET r == New("leave") IN Handle(p, {r}, <<Only(r, LeaveRequest(e, from, until))>>)

SubmitLeave(p) ==
    \E r \in Rows("leave") :
        /\ CanLeave(db[r].status, "submitted")
        /\ Handle(p, {r}, <<Only(r, [db[r] EXCEPT !.status = "submitted", !.submittedAt = now])>>)

\* approve, reject and cancel: the last of them is the decision that is kept.
DecideLeave(p) ==
    \E r \in Rows("leave"), to \in {"approved", "rejected", "cancelled"} :
        /\ CanLeave(db[r].status, to)
        /\ Handle(p, {r}, <<Only(r, [db[r] EXCEPT !.status = to, !.decidedAt = now,
                                                  !.decidedBy = p])>>)

\* HrController.
PeopleStep(p) ==
    \/ CreateEmployee(p) \/ UpdateEmployee(p) \/ StartOnboarding(p) \/ Activate(p) \/ Terminate(p)
    \/ ClockIn(p) \/ ClockOut(p) \/ SweepOrphans(p)
    \/ CreateLeave(p) \/ SubmitLeave(p) \/ DecideLeave(p)

-----------------------------------------------------------------------------
(* What should hold of it.                                                 *)

\* The hours of an attendance that is over are those between its two times, as
\* long as no clock-in, clock-out or sweep overlapped another: a clock-in that
\* read the row open may save its time after the hours were computed.
HoursMatchTimes ==
    \A a \in Rows("attendance") \ contended :
        db[a].workedHours =
            IF db[a].status = "open" THEN 0
            ELSE WorkedHours(db[a].clockInAt, db[a].clockOutAt, db[a].breakMinutes)
=============================================================================
