----------------------------- MODULE Attendance -----------------------------
(***************************************************************************)
(* AttendanceService: a worker checks in and out of a site, an office role  *)
(* corrects the record.  Times and hours are whole hours, which the         *)
(* rounding of the code leaves as they are.                                 *)
(***************************************************************************)
EXTENDS Handlers

CONSTANTS
    Workers,
    MaxRecords,     \* records of one worker in a behaviour
    MaxTime,        \* the clock stops there
    RegularHours    \* 8: what is worked beyond is overtime

VARIABLES
    clock,
    attendance,     \* rows of attendance_records
    correction      \* the latest row of attendance_corrections

attendanceVars == <<clock, attendance, correction>>

Records == Workers \X (1..MaxRecords)
Times   == 0..MaxTime
Sheets  == [in: Times, out: Times \cup {Null}, hours: Times, overtime: Times]

ASSUME AttendanceAssumption ==
    {MaxRecords, MaxTime, RegularHours} \subseteq Nat /\ Null \notin Times \cup Sheets

\* A correction names times and other columns, but not the hours.
AttendanceRequest(q) ==
    \/ q.kind = "checkIn" /\ q.worker \in Workers /\ q.worker \in q.on
    \/ q.kind = "checkOut" /\ q.worker \in Workers /\ q.worker \in q.on /\ q.record \in Records \cup {Null}
    \/ /\ q.kind = "correct" /\ q.record \in Records /\ q.record[1] \in q.on
       /\ DOMAIN q.patch \cap {"hours", "overtime"} = {}
       /\ "in" \in DOMAIN q.patch => q.patch.in \in Times
       /\ "out" \in DOMAIN q.patch => q.patch.out \in Times \cup {Null}

Recorded(r) == attendance[r] # Null
Open(r)     == Recorded(r) /\ attendance[r].out = Null
OpenOf(w)   == {r \in Records : r[1] = w /\ Open(r)}
NewRecord(w) == {<<w, n>> : n \in {m \in 1..MaxRecords :
                    ~Recorded(<<w, m>>) /\ \A k \in 1..(m - 1) : Recorded(<<w, k>>)}}

\* Faulty variant: an end before the start is not taken for zero.
HoursUnclamped(in, out) == IF out - in > RegularHours THEN RegularHours ELSE out - in

\* At most RegularHours of the time between two times, and the rest.
HoursOf(in, out)    == IF out < in THEN 0
                       ELSE IF out - in > RegularHours THEN RegularHours ELSE out - in
OvertimeOf(in, out) == IF out - in > RegularHours THEN out - in - RegularHours ELSE 0

Timed(sheet) == IF sheet.out = Null THEN sheet
                ELSE [sheet EXCEPT !.hours = HoursOf(sheet.in, sheet.out),
                                   !.overtime = OvertimeOf(sheet.in, sheet.out)]

----------------------------------------------------------------------------
\* The friendly pre-check; the time is taken when it has been answered.
CheckIn(c) ==
    /\ At(c, "checkIn")
    /\ \/ OpenOf(Req(c).worker) # {} /\ Answer(c)
       \/ OpenOf(Req(c).worker) = {} /\ Goto(c, "insert", [now |-> clock])
    /\ UNCHANGED attendanceVars

OpenAt(c, r) ==
    attendance' = [attendance EXCEPT ![r] = [in |-> Seen(c).now, out |-> Null, hours |-> 0, overtime |-> 0]]

\* Faulty variant: there is no unique index, the pre-check is all there is.
CheckInInsertUnindexed(c) ==
    /\ At(c, "insert")
    /\ \E r \in NewRecord(Req(c).worker) : OpenAt(c, r) /\ Answer(c)
    /\ UNCHANGED <<clock, correction>>

\* The partial unique index on the open records of a user has the last word.
CheckInInsert(c) ==
    /\ At(c, "insert")
    /\ \/ OpenOf(Req(c).worker) # {} /\ Answer(c) /\ UNCHANGED attendance
       \/ /\ OpenOf(Req(c).worker) = {}
          /\ \E r \in NewRecord(Req(c).worker) : OpenAt(c, r) /\ Answer(c)
    /\ UNCHANGED <<clock, correction>>

\* The record that is named, or the open one.  Nothing asks whether it is still open.
CheckOut(c) ==
    /\ At(c, "checkOut")
    /\ LET w == Req(c).worker
           found == IF Req(c).record # Null THEN {r \in {Req(c).record} : Recorded(r)} ELSE OpenOf(w)
       IN  \/ {r \in found : r[1] = w} = {} /\ Answer(c)
           \/ \E r \in found :
                 r[1] = w /\ Goto(c, "close", [record |-> r, in |-> attendance[r].in, now |-> clock])
    /\ UNCHANGED attendanceVars

\* UPDATE by id: the end, and the hours since the start that was read.
CheckOutWrite(c) ==
    /\ At(c, "close")
    /\ LET end == Timed([in |-> Seen(c).in, out |-> Seen(c).now, hours |-> 0, overtime |-> 0])
       IN  attendance' = [attendance EXCEPT ![Seen(c).record] = [end EXCEPT !.in = attendance[Seen(c).record].in]]
    /\ Answer(c)
    /\ UNCHANGED <<clock, correction>>

----------------------------------------------------------------------------
\* The columns a correction names, over the others.
Patched(sheet, patch) == [f \in DOMAIN sheet |-> IF f \in DOMAIN patch THEN patch[f] ELSE sheet[f]]

\* The record as the transaction reads it; an end before the start is refused.
Correct(c) ==
    /\ At(c, "correct")
    /\ LET r == Req(c).record
           sheet == Patched(attendance[r], Req(c).patch)
       IN  IF Recorded(r) /\ (sheet.out = Null \/ sheet.out >= sheet.in)
           THEN Goto(c, "rewrite", attendance[r]) ELSE Answer(c)
    /\ UNCHANGED attendanceVars

\* Faulty variant: only a corrected end makes the hours be derived again.
RetimedByEnd(patch) == "out" \in DOMAIN patch

Retimed(patch) == DOMAIN patch \cap {"in", "out"} # {}

\* The columns to write: those of the patch, and the hours when it names a time and the
\* record as it was read has both.
Rewrite(c) ==
    LET sheet  == Patched(Seen(c), Req(c).patch)
        hours  == IF Retimed(Req(c).patch) /\ sheet.out # Null THEN {"hours", "overtime"} ELSE {}
    IN  [f \in (DOMAIN Req(c).patch \cap DOMAIN sheet) \cup hours |-> Timed(sheet)[f]]

\* Faulty variant: the correction keeps the row it wrote as the one it replaced.
CorrectWriteUndone(c) ==
    /\ At(c, "rewrite")
    /\ LET r == Req(c).record
           sheet == Patched(attendance[r], Rewrite(c))
       IN  /\ sheet.out # Null \/ OpenOf(r[1]) \subseteq {r}
           /\ attendance' = [attendance EXCEPT ![r] = sheet]
           /\ correction' = [record |-> r, before |-> sheet, after |-> sheet]
           /\ Answer(c)
    /\ UNCHANGED clock

\* The update, the correction and the audit row.  Reopening a second record breaks the
\* unique index; an audit row that is refused takes the transaction with it, although
\* its error is swallowed and the request answered.
CorrectWrite(c) ==
    /\ At(c, "rewrite")
    /\ LET r == Req(c).record
           sheet == Patched(attendance[r], Rewrite(c))
       IN  \/ Answer(c) /\ UNCHANGED <<attendance, correction>>
           \/ /\ sheet.out # Null \/ OpenOf(r[1]) \subseteq {r}
              /\ attendance' = [attendance EXCEPT ![r] = sheet]
              /\ correction' = [record |-> r, before |-> Seen(c), after |-> sheet]
              /\ Answer(c)
    /\ UNCHANGED clock

----------------------------------------------------------------------------
AttendanceInit ==
    /\ clock       = 0
    /\ attendance  = [r \in Records |-> Null]
    /\ correction = Null

AttendanceStep(c) ==
    \/ CheckIn(c) \/ CheckInInsert(c)
    \/ CheckOut(c) \/ CheckOutWrite(c)
    \/ Correct(c) \/ CorrectWrite(c)

\* An hour passes.
Tick == clock < MaxTime /\ clock' = clock + 1 /\ UNCHANGED <<handlers, attendance, correction>>

AttendanceTypeOK ==
    /\ clock \in Times
    /\ attendance \in [Records -> Sheets \cup {Null}]
    /\ correction \in [record: Records, before: Sheets, after: Sheets] \cup {Null}

\* "A user may have only ONE open attendance session at any time, across ALL projects"
\* (attendance.service.ts:115-118): not two check-ins that both found none, and not a
\* correction that takes back an end while the worker is checked in again.
OneOpenSession == \A w \in Workers : Cardinality(OpenOf(w)) <= 1

\* The hours a record is paid by are those of its own times, however often it was closed,
\* reopened, closed again and corrected: only a correction that overlaps another request
\* about the worker derives them from times the record does not have any more.
HoursFollowTimes ==
    \A r \in Records : ~Open(r) /\ Recorded(r) /\ r[1] \notin raced =>
        LET s == attendance[r] IN s.hours = HoursOf(s.in, s.out) /\ s.overtime = OvertimeOf(s.in, s.out)

\* "before/after" of a correction (attendance.service.ts:384-394) are the record just
\* before and just after it: "after" always, "before" unless another request about the
\* worker overlapped.
CorrectionTellsTheTruth ==
    [][correction' # correction =>
          LET k == correction'
          IN  /\ k.after = attendance'[k.record]
              /\ k.record[1] \notin raced => k.before = attendance[k.record]]_<<attendance, correction>>
=============================================================================
