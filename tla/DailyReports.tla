---------------------------- MODULE DailyReports ----------------------------
(***************************************************************************)
(* DailyReportsService: create, update, submit and review of daily reports, *)
(* and the finalization that consumes the project's stock and writes the    *)
(* immutable revision, as READ COMMITTED transactions of concurrent calls.  *)
(*                                                                         *)
(* The other stock operations appear as the atomic steps module AtomicStock *)
(* promises (Elsewhere); they wait for a balance row that a finalization    *)
(* has locked.                                                              *)
(***************************************************************************)
EXTENDS Integers, FiniteSets, FiniteSetsExt, Functions

CONSTANTS
    Reports, Projects, Users,
    Materials,      \* material ids: numbers, because finalization sorts them
    Warehouses,
    Balances,       \* the rows of stock_balances: a project may have several per material
    Keys,           \* idempotency keys
    Admins,         \* the users with role ADMIN or OWNER
    Managers,       \* the users whose role may review
    Calls,          \* the HTTP calls of a behaviour
    Requests,       \* what a call may ask for
    Existing,       \* the reports there are at the start: status, leader, project, lines
    Opening,        \* what each balance row holds at the start
    MaxElsewhere,   \* per balance row, a bound on what other operations move, net
    Null

VARIABLES
    report,         \* committed rows of daily_reports
    children,       \* committed rows of daily_report_materials, per report
    revisions,      \* committed rows of daily_report_revisions, per report
    approvals,      \* committed rows of daily_report_approvals
    charged,        \* committed CONSUMPTION movements tagged 'daily_report'
    stock,          \* committed stock balances
    elsewhere,      \* what other stock operations have moved, net
    audit,          \* committed audit rows
    reportLock,     \* the call whose transaction holds a report row
    rowLock,        \* the call whose transaction holds a balance row
    call,           \* the control state of each call
    raced           \* the reports two calls were about at the same time

records == <<report, children, revisions, approvals, charged>>
locks   == <<reportLock, rowLock>>
vars    == <<report, children, revisions, approvals, charged, stock, elsewhere, audit,
             reportLock, rowLock, call, raced>>

BalanceRows == [project: Projects, material: Materials, warehouse: Warehouses \cup {Null}]
Statuses == {"DRAFT", "SUBMITTED", "APPROVED", "REJECTED"}
Lines    == [material: Materials, qty: Int]

ASSUME ReportsAssumption ==
    /\ Materials \subseteq Nat /\ IsFiniteSet(Materials)
    /\ Balances \subseteq BalanceRows /\ IsFiniteSet(Balances)
    /\ Opening \in [Balances -> Nat]
    /\ DOMAIN Existing \subseteq Reports
    /\ \A r \in DOMAIN Existing :
          /\ Existing[r] \in [status: Statuses, leader: Users, project: Projects, lines: SUBSET Lines]
          /\ IsFiniteSet(Existing[r].lines)
    /\ Admins \subseteq Managers /\ Managers \subseteq Users
    /\ MaxElsewhere \in [Balances -> Nat]
    /\ Null \notin Calls \cup Reports \cup Balances

\* status for a create, action for a review; lines and project may be Null in an update.
RequestKinds ==
    [kind: {"create", "update", "submit", "review"}, user: Users,
     status: {"DRAFT", "SUBMITTED", Null}, action: {"APPROVED", "REJECTED", Null},
     project: Projects \cup {Null}, lines: {Null} \cup SUBSET Lines, key: Keys \cup {Null}]

\* What the DTOs require: a create names its project and brings its lines and status,
\* a review brings its decision.
ASSUME RequestsAssumption ==
    /\ Requests \subseteq RequestKinds
    /\ \A q \in Requests :
          /\ q.kind = "create" => q.status # Null /\ q.project # Null /\ q.lines # Null
          /\ q.kind = "review" => q.action # Null
          /\ q.lines # Null => IsFiniteSet(q.lines)

NoReport == [status |-> "NONE", leader |-> Null, project |-> Null, key |-> Null, revision |-> 0]

\* The material rows a request's DTO turns into: rows of their own, whoever else writes.
RowsOf(c, lines) == {[by |-> c, material |-> l.material, qty |-> l.qty] : l \in lines}

\* aggregateMaterialLines: the total of each material over the report's rows.
Total(rows, m) == SumFunctionOnSet([x \in rows |-> x.qty], {x \in rows : x.material = m})
Listed(rows)   == {x.material : x \in rows}
Consumable(rows) == {m \in Listed(rows) : Total(rows, m) > 0}

----------------------------------------------------------------------------
At(c, kind, step) == call[c].pc = step /\ call[c].req.kind = kind
Req(c)            == call[c].req
Id(c)             == call[c].report
Running           == {c \in Calls : call[c].pc \notin {"free", "done"}}

Reply(c, answer) == call' = [call EXCEPT ![c].pc = "done", ![c].answer = answer]
Goto(c, step)    == call' = [call EXCEPT ![c].pc = step]
Log(c, action)   == audit' = audit \cup {[call |-> c, action |-> action, report |-> Id(c)]}

Unlock(c) ==
    /\ reportLock' = [r \in Reports |-> IF reportLock[r] = c THEN Null ELSE reportLock[r]]
    /\ rowLock'    = [b \in Balances |-> IF rowLock[b] = c THEN Null ELSE rowLock[b]]

\* The service threw or a statement failed: ROLLBACK and an error answer.
Fail(c, answer) == Unlock(c) /\ Reply(c, answer)

\* Ids of rows that no transaction has inserted.
Unused == {r \in Reports : /\ report[r].status = "NONE"
                           /\ \A d \in Calls : call[d].report = r => call[d].pc = "done"}

\* The request arrives: a create for no report yet, any other for an existing one.
Begin(c) ==
    /\ call[c].pc = "free"
    /\ \E q \in Requests, r \in Reports \cup {Null} :
          /\ IF q.kind = "create" THEN r = Null
                                  ELSE r # Null /\ report[r].status # "NONE"
          /\ call' = [call EXCEPT ![c].req = q, ![c].report = r, ![c].pc = "check",
                        ![c].retry = /\ q.kind = "create" /\ q.key # Null
                                     /\ \E x \in Reports : report[x].key = q.key]
          /\ raced' = raced \cup {x \in {r} \ {Null} : \E d \in Running : Id(d) = x}
    /\ UNCHANGED <<records, stock, elsewhere, audit, locks>>

\* May edit and submit: the team leader, an ADMIN or an OWNER.
MayEdit(c) == Req(c).user = report[Id(c)].leader \/ Req(c).user \in Admins

----------------------------------------------------------------------------
(* create *)

\* Faulty variant: no look-up before the transaction.
CreateCheckSkipped(c) ==
    /\ At(c, "create", "check")
    /\ Goto(c, "insert")
    /\ UNCHANGED <<records, stock, elsewhere, audit, locks>>

\* The look-up of the idempotency key, before the transaction.
CreateCheck(c) ==
    /\ At(c, "create", "check")
    /\ \/ /\ \E r \in Reports : Req(c).key # Null /\ report[r].key = Req(c).key
          /\ Reply(c, "existing")
       \/ /\ \A r \in Reports : Req(c).key = Null \/ report[r].key # Req(c).key
          /\ Goto(c, "insert")
    /\ UNCHANGED <<records, stock, elsewhere, audit, locks>>

\* Open transactions that have inserted a report with the same idempotency key.
KeyHolders(c) ==
    {d \in Calls \ {c} : /\ At(d, "create", "preflight") \/ At(d, "create", "consume")
                         /\ Req(d).key # Null /\ Req(d).key = Req(c).key}

\* finalizeWithin, up to the pre-flight: the rows are loaded, no total may be negative.
Finalizable(rows) == \A m \in Listed(rows) : Total(rows, m) >= 0

\* Faulty variant: created reports are walked in another order than submitted ones.
NextLineUnsorted(c, lines) == IF Req(c).kind = "create" THEN Max(lines) ELSE Min(lines)

\* The lines are walked in the order of their materials.
NextLine(c, lines) == Min(lines)

\* findFirst by material and project, in no order: what it may return for the next line.
Found(c, project, lines) ==
    LET rows == {b \in Balances : b.project = project /\ b.material = NextLine(c, lines)}
    IN  IF lines = {} \/ rows = {} THEN {Null} ELSE rows

StartFinalization(c, r, project, rows) ==
    \E row \in Found(c, project, Consumable(rows)) :
        call' = [call EXCEPT ![c].pc = "preflight", ![c].report = r, ![c].project = project,
                             ![c].rows = rows, ![c].todo = Consumable(rows), ![c].row = row]

\* INSERT INTO daily_reports with its rows.  A draft commits at once; a report
\* created as SUBMITTED is finalized in the same transaction.
CreateInsert(c) ==
    /\ At(c, "create", "insert")
    /\ KeyHolders(c) = {}
    /\ LET taken == Req(c).key # Null /\ \E r \in Reports : report[r].key = Req(c).key
       IN  \/ taken /\ Fail(c, "conflict") /\ UNCHANGED records
           \/ /\ ~taken /\ Req(c).status = "DRAFT"
              /\ \E r \in Unused :
                    /\ report' = [report EXCEPT ![r] =
                          [status |-> "DRAFT", leader |-> Req(c).user, project |-> Req(c).project,
                           key |-> Req(c).key, revision |-> 0]]
                    /\ children' = [children EXCEPT ![r] = RowsOf(c, Req(c).lines)]
                    /\ call' = [call EXCEPT ![c].report = r, ![c].pc = "audit"]
              /\ UNCHANGED <<revisions, approvals, charged, locks>>
           \/ /\ ~taken /\ Req(c).status = "SUBMITTED"
              /\ LET rows == RowsOf(c, Req(c).lines)
                 IN  \/ ~Finalizable(rows) /\ Fail(c, "rejected")
                     \/ /\ Finalizable(rows)
                        /\ \E r \in Unused : StartFinalization(c, r, Req(c).project, rows)
                        /\ UNCHANGED locks
              /\ UNCHANGED records
    /\ UNCHANGED <<stock, elsewhere, audit>>

----------------------------------------------------------------------------
(* update *)

\* Faulty variant: a report that was submitted can still be edited.
UpdateCheckAlways(c) ==
    /\ At(c, "update", "check")
    /\ IF MayEdit(c) THEN Goto(c, "delete") ELSE Reply(c, "rejected")
    /\ UNCHANGED <<records, stock, elsewhere, audit, locks>>

\* Status and authorization are read before the transaction and without a lock.
UpdateCheck(c) ==
    /\ At(c, "update", "check")
    /\ \/ (report[Id(c)].status # "DRAFT" \/ ~MayEdit(c)) /\ Reply(c, "rejected")
       \/ report[Id(c)].status = "DRAFT" /\ MayEdit(c) /\ Goto(c, "delete")
    /\ UNCHANGED <<records, stock, elsewhere, audit, locks>>

\* deleteMany on the child rows: the statement deletes the rows committed when it starts.
UpdateDelete(c) ==
    /\ At(c, "update", "delete")
    /\ call' = [call EXCEPT ![c].pc = "write",
                  ![c].rows = IF Req(c).lines = Null THEN {} ELSE children[Id(c)]]
    /\ UNCHANGED <<records, stock, elsewhere, audit, locks>>

\* UPDATE daily_reports waits for the report's lock; the new rows, then COMMIT.
UpdateWrite(c) ==
    /\ At(c, "update", "write")
    /\ reportLock[Id(c)] = Null
    /\ report' = IF Req(c).project = Null THEN report
                 ELSE [report EXCEPT ![Id(c)].project = Req(c).project]
    /\ children' = IF Req(c).lines = Null THEN children
                   ELSE [children EXCEPT ![Id(c)] = (@ \ call[c].rows) \cup RowsOf(c, Req(c).lines)]
    /\ Goto(c, "audit")
    /\ UNCHANGED <<revisions, approvals, charged, stock, elsewhere, audit, locks>>

\* The audit row of a saved draft is written after the transaction, best effort.
AuditDraft(c) ==
    /\ call[c].pc = "audit"
    /\ \/ Log(c, IF Req(c).kind = "create" THEN "CREATED" ELSE "UPDATED")
       \/ UNCHANGED audit
    /\ Reply(c, "ok")
    /\ UNCHANGED <<records, stock, elsewhere, locks>>

----------------------------------------------------------------------------
(* submit *)

\* Faulty variant: an already submitted report is finalized again.
SubmitLockUngated(c) ==
    /\ At(c, "submit", "check")
    /\ reportLock[Id(c)] = Null
    /\ MayEdit(c)
    /\ StartFinalization(c, Id(c), report[Id(c)].project, children[Id(c)])
    /\ reportLock' = [reportLock EXCEPT ![Id(c)] = c]
    /\ UNCHANGED <<records, stock, elsewhere, audit, rowLock>>

\* SELECT ... FOR UPDATE on the report, and the decisions made under that lock.
SubmitLock(c) ==
    /\ At(c, "submit", "check")
    /\ reportLock[Id(c)] = Null
    /\ LET r == report[Id(c)]
       IN  \/ ~MayEdit(c) /\ Fail(c, "rejected") /\ UNCHANGED audit
           \/ /\ MayEdit(c) /\ r.status = "SUBMITTED" /\ revisions[Id(c)] # {}
              /\ Log(c, "SUBMIT_REPLAYED")
              /\ Fail(c, "replayed")
           \/ /\ MayEdit(c) /\ r.status = "SUBMITTED" /\ revisions[Id(c)] = {}
              /\ Fail(c, "conflict")
              /\ UNCHANGED audit
           \/ /\ MayEdit(c) /\ r.status \in {"APPROVED", "REJECTED"}
              /\ Fail(c, "rejected")
              /\ UNCHANGED audit
           \/ /\ MayEdit(c) /\ r.status = "DRAFT" /\ ~Finalizable(children[Id(c)])
              /\ Fail(c, "rejected")
              /\ UNCHANGED audit
           \/ /\ MayEdit(c) /\ r.status = "DRAFT" /\ Finalizable(children[Id(c)])
              /\ StartFinalization(c, Id(c), r.project, children[Id(c)])
              /\ reportLock' = [reportLock EXCEPT ![Id(c)] = c]
              /\ UNCHANGED <<rowLock, audit>>
    /\ UNCHANGED <<records, stock, elsewhere>>

----------------------------------------------------------------------------
(* Finalization, shared by create and submit. *)

Needed(c, m) == Total(call[c].rows, m)
Line(c)      == NextLine(c, call[c].todo)
Short(c)     == call[c].row = Null \/ stock[call[c].row] < Needed(c, Line(c))

\* On to the line that follows, and the row that is found for it.
Advance(c, upd) ==
    \E row \in Found(c, call[c].project, call[c].todo \ {Line(c)}) :
        call' = [call EXCEPT ![c] = [upd EXCEPT !.todo = @ \ {Line(c)}, !.row = row]]

Holding(c, row) == rowLock' = [b \in Balances |-> IF b = row THEN c ELSE rowLock[b]]

\* assertConsumableStock: find the row of the line, lock it, compare.
Preflight(c) ==
    /\ call[c].pc = "preflight" /\ call[c].todo # {}
    /\ call[c].row # Null => rowLock[call[c].row] = Null
    /\ Holding(c, call[c].row)
    /\ Advance(c, [call[c] EXCEPT !.short = @ \/ Short(c)])
    /\ UNCHANGED <<records, stock, elsewhere, audit, reportLock>>

\* One refusal that names every shortage; nothing has been written.
RefuseShortage(c) ==
    /\ call[c].pc = "preflight" /\ call[c].todo = {} /\ call[c].short
    /\ Fail(c, "rejected")
    /\ UNCHANGED <<records, stock, elsewhere, audit>>

NextRevision(r) == 1 + Max({0} \cup {v.number : v \in revisions[r]})

Movement(c, number, m) ==
    [report |-> Id(c), revision |-> number, project |-> call[c].project, material |-> m,
     qty |-> Needed(c, m)]

\* consumeStockWithin finds a movement of the same key, daily_report:<id>:rev<n>:material:<m>.
Recorded(c, number, m) ==
    \E x \in charged : x.report = Id(c) /\ x.revision = number /\ x.material = m

Unrecorded(c) == {m \in Consumable(call[c].rows) : ~Recorded(c, NextRevision(Id(c)), m)}

\* The pre-flight has found every line.
StartConsuming(c) ==
    /\ call[c].pc = "preflight" /\ call[c].todo = {} /\ ~call[c].short
    /\ \E row \in Found(c, call[c].project, Unrecorded(c)) :
          call' = [call EXCEPT ![c].pc = "consume", ![c].todo = Unrecorded(c), ![c].row = row]
    /\ UNCHANGED <<records, stock, elsewhere, audit, locks>>

\* Faulty variant: what the pre-flight has found is not checked again.
ConsumeUnchecked(c) ==
    /\ call[c].pc = "consume" /\ call[c].todo # {}
    /\ rowLock[call[c].row] \in {Null, c}
    /\ Holding(c, call[c].row)
    /\ Advance(c, [call[c] EXCEPT !.taken = @ \cup {call[c].row}])
    /\ UNCHANGED <<records, stock, elsewhere, audit, reportLock>>

\* consumeStockWithin finds a row again, not always the one the pre-flight found, locks it,
\* checks it and decrements it.
Consume(c) ==
    /\ call[c].pc = "consume" /\ call[c].todo # {}
    /\ call[c].row # Null => rowLock[call[c].row] \in {Null, c}
    /\ \/ Short(c) /\ Fail(c, "rejected")
       \/ /\ ~Short(c)
          /\ Holding(c, call[c].row)
          /\ Advance(c, [call[c] EXCEPT !.taken = @ \cup {call[c].row}])
          /\ UNCHANGED reportLock
    /\ UNCHANGED <<records, stock, elsewhere, audit>>

\* Every line is consumed: the revision, the status, the audit row, COMMIT.
Finalize(c) ==
    /\ call[c].pc = "consume" /\ call[c].todo = {}
    /\ LET number == NextRevision(Id(c))
       IN  /\ charged' = charged \cup {Movement(c, number, b.material) : b \in call[c].taken}
           /\ stock' = [b \in Balances |-> IF b \in call[c].taken
                                           THEN stock[b] - Needed(c, b.material) ELSE stock[b]]
           /\ revisions' = [revisions EXCEPT ![Id(c)] = @ \cup
                  {[number |-> number, project |-> call[c].project, rows |-> call[c].rows]}]
           /\ report' = IF Req(c).kind = "create"
                  THEN [report EXCEPT ![Id(c)] =
                          [status |-> "SUBMITTED", leader |-> Req(c).user,
                           project |-> Req(c).project, key |-> Req(c).key, revision |-> number]]
                  ELSE [report EXCEPT ![Id(c)].status = "SUBMITTED", ![Id(c)].revision = number]
           /\ children' = IF Req(c).kind = "create"
                  THEN [children EXCEPT ![Id(c)] = call[c].rows] ELSE children
    /\ Log(c, "SUBMITTED")
    /\ Fail(c, "ok")
    /\ UNCHANGED <<approvals, elsewhere>>

----------------------------------------------------------------------------
(* review *)

\* Faulty variant: a review does not look at the status.
ReviewCheckAnyStatus(c) ==
    /\ At(c, "review", "check")
    /\ LET allowed == /\ Req(c).user \in Managers
                      /\ \A a \in approvals : a.report # Id(c)
                      /\ report[Id(c)].leader # Req(c).user
       IN  \/ allowed /\ Goto(c, "decide")
           \/ ~allowed /\ Reply(c, "rejected")
    /\ UNCHANGED <<records, stock, elsewhere, audit, locks>>

\* Role, status, earlier decisions and authorship, read without a lock.
ReviewCheck(c) ==
    /\ At(c, "review", "check")
    /\ LET allowed == /\ Req(c).user \in Managers
                      /\ report[Id(c)].status = "SUBMITTED"
                      /\ \A a \in approvals : a.report # Id(c)
                      /\ report[Id(c)].leader # Req(c).user
       IN  \/ allowed /\ Goto(c, "decide")
           \/ ~allowed /\ Reply(c, "rejected")
    /\ UNCHANGED <<records, stock, elsewhere, audit, locks>>

\* The approval row, the report's status and the audit row; COMMIT.
ReviewDecide(c) ==
    /\ At(c, "review", "decide")
    /\ reportLock[Id(c)] = Null
    /\ approvals' = approvals \cup
          {[call |-> c, report |-> Id(c), reviewer |-> Req(c).user, action |-> Req(c).action]}
    /\ report' = [report EXCEPT ![Id(c)].status = Req(c).action]
    /\ Log(c, Req(c).action)
    /\ Reply(c, "ok")
    /\ UNCHANGED <<children, revisions, charged, stock, elsewhere, locks>>

----------------------------------------------------------------------------
\* AuditService.record through the transaction swallows the error of a refused INSERT, but
\* PostgreSQL has aborted the transaction.  A created or reviewed report is not read again
\* before COMMIT, which is then carried out as a ROLLBACK without an error: the service
\* answers success.  A submission reads its report back and fails (Abort).
AuditSwallowed(c) ==
    /\ \/ call[c].pc = "consume" /\ call[c].todo = {} /\ Req(c).kind = "create"
       \/ At(c, "review", "decide") /\ reportLock[Id(c)] = Null
    /\ Fail(c, "ok")
    /\ UNCHANGED <<records, stock, elsewhere, audit>>

\* Another stock operation, carried out whole on a row no finalization has locked.
Elsewhere(b) ==
    /\ rowLock[b] = Null
    /\ \E delta \in {-1, 1} :
          /\ elsewhere[b] + delta \in -MaxElsewhere[b]..MaxElsewhere[b]
          /\ stock[b] + delta >= 0
          /\ stock' = [stock EXCEPT ![b] = @ + delta]
          /\ elsewhere' = [elsewhere EXCEPT ![b] = @ + delta]
    /\ UNCHANGED <<records, audit, locks, call>>

\* The connection is lost, the process dies, Prisma's transaction timeout fires, or the
\* deadlock detector picks the transaction.
Abort(c) ==
    /\ c \in Running
    /\ Fail(c, "aborted")
    /\ UNCHANGED <<records, stock, elsewhere, audit>>

Step(c) ==
    \/ CreateCheck(c) \/ CreateInsert(c)
    \/ UpdateCheck(c) \/ UpdateDelete(c) \/ UpdateWrite(c) \/ AuditDraft(c)
    \/ SubmitLock(c) \/ Preflight(c) \/ RefuseShortage(c) \/ StartConsuming(c) \/ Consume(c)
    \/ Finalize(c) \/ ReviewCheck(c) \/ ReviewDecide(c) \/ AuditSwallowed(c)

Finished == (\A c \in Calls : call[c].pc = "done") /\ UNCHANGED vars

Next ==
    \/ \E c \in Calls : Begin(c)
    \/ \E c \in Calls : (Step(c) \/ Abort(c)) /\ UNCHANGED raced
    \/ \E b \in Balances : Elsewhere(b) /\ UNCHANGED raced
    \/ Finished

Init ==
    /\ report = [r \in Reports |->
          IF r \in DOMAIN Existing
          THEN [status |-> Existing[r].status, leader |-> Existing[r].leader,
                project |-> Existing[r].project, key |-> Null, revision |-> 0]
          ELSE NoReport]
    /\ children = [r \in Reports |->
          IF r \in DOMAIN Existing THEN RowsOf(Null, Existing[r].lines) ELSE {}]
    /\ revisions  = [r \in Reports |-> {}]
    /\ approvals  = {}
    /\ charged    = {}
    /\ stock      = Opening
    /\ elsewhere  = [b \in Balances |-> 0]
    /\ audit      = {}
    /\ reportLock = [r \in Reports |-> Null]
    /\ rowLock    = [b \in Balances |-> Null]
    /\ call       = [c \in Calls |->
          [req |-> Null, pc |-> "free", report |-> Null, project |-> Null, rows |-> {},
           todo |-> {}, row |-> Null, taken |-> {}, short |-> FALSE, answer |-> Null, retry |-> FALSE]]
    /\ raced      = {}

Spec == Init /\ [][Next]_vars

----------------------------------------------------------------------------
Rows      == [by: Calls \cup {Null}, material: Materials, qty: Int]
Answers   == {Null, "ok", "existing", "replayed", "rejected", "conflict", "aborted"}
Actions   == {"CREATED", "UPDATED", "SUBMITTED", "SUBMIT_REPLAYED", "APPROVED", "REJECTED"}
CallSteps == {"free", "check", "insert", "delete", "write", "preflight", "consume", "decide",
              "audit", "done"}

\* Every variable has its type.
TypeOK ==
    /\ report \in [Reports -> {NoReport} \cup
          [status: Statuses, leader: Users, project: Projects, key: Keys \cup {Null}, revision: Nat]]
    /\ children \in [Reports -> SUBSET Rows]
    /\ revisions \in [Reports -> SUBSET [number: Nat, project: Projects, rows: SUBSET Rows]]
    /\ approvals \subseteq [call: Calls, report: Reports, reviewer: Users,
                            action: {"APPROVED", "REJECTED"}]
    /\ charged \subseteq [report: Reports, revision: Nat, project: Projects,
                          material: Materials, qty: Int]
    /\ stock \in [Balances -> Int]
    /\ elsewhere \in [Balances -> Int]
    /\ audit \subseteq [call: Calls, report: Reports, action: Actions]
    /\ reportLock \in [Reports -> Calls \cup {Null}]
    /\ rowLock \in [Balances -> Calls \cup {Null}]
    /\ call \in [Calls -> [req: Requests \cup {Null}, pc: CallSteps, report: Reports \cup {Null},
          project: Projects \cup {Null}, rows: SUBSET Rows, todo: SUBSET Materials,
          row: Balances \cup {Null}, taken: SUBSET Balances, short: BOOLEAN, answer: Answers, retry: BOOLEAN]]
    /\ raced \subseteq Reports

\* The report left DRAFT under this code, not before revisions existed.
Finalized(r) ==
    /\ report[r].status \in {"SUBMITTED", "APPROVED", "REJECTED"}
    /\ r \in DOMAIN Existing => Existing[r].status = "DRAFT"

\* The stock of a report is consumed exactly once: a report that left DRAFT has one
\* revision and one movement per consumable material of that revision, for its total
\* and from its project; a report that did not has neither
\* (daily-reports.service.ts:582-589).  DAILY_REPORT_SUBMITTED means exactly one thing,
\* DRAFT -> SUBMITTED (367): one such audit row for each revision.
ChargedExactlyOnce ==
    \A r \in Reports :
        LET mine == {x \in charged : x.report = r}
            told == {e \in audit : e.report = r /\ e.action = "SUBMITTED"}
        IN  /\ Cardinality(told) = Cardinality(revisions[r])
            /\ IF Finalized(r)
               THEN \E v \in revisions[r] :
                       /\ revisions[r] = {v} /\ v.number = report[r].revision
                       /\ mine = {[report |-> r, revision |-> v.number, project |-> v.project,
                                   material |-> m, qty |-> Total(v.rows, m)] : m \in Consumable(v.rows)}
               ELSE revisions[r] = {} /\ mine = {}

\* What the rows of a project and a material hold together.
RowsFor(k)  == {b \in Balances : b.project = k[1] /\ b.material = k[2]}
OnHand(f, k)  == SumFunctionOnSet(f, RowsFor(k))
Together(f) == [k \in Projects \X Materials |-> OnHand(f, k)]

\* Nothing is consumed that was not there: no balance row is ever negative, although the
\* check and the decrement are separate statements that may find different rows, and a
\* project holds of a material what it held at the start plus what other operations moved
\* less what its reports were charged.
StockAccountsForReports ==
    /\ \A b \in Balances : stock[b] >= 0
    /\ \A k \in Projects \X Materials :
          OnHand(stock, k) = OnHand(Opening, k) + OnHand(elsewhere, k)
             - SumFunctionOnSet([x \in charged |-> x.qty],
                                {x \in charged : x.project = k[1] /\ x.material = k[2]})

\* The calls a call's next statement waits for.
WaitsFor(c) ==
    CASE call[c].pc = "check" /\ call[c].req.kind = "submit" -> {reportLock[Id(c)]} \ {Null}
      [] call[c].pc \in {"write", "decide"}                  -> {reportLock[Id(c)]} \ {Null}
      [] call[c].pc \in {"preflight", "consume"} /\ call[c].row # Null
                                                             -> {rowLock[call[c].row]} \ {Null, c}
      [] call[c].pc = "insert"                               -> KeyHolders(c)
      [] OTHER                                               -> {}

\* The consumption has found another row than the pre-flight has locked for that line.
FoundAnother(c) ==
    /\ call[c].pc = "consume"
    /\ \E b \in Balances : /\ rowLock[b] = c /\ b # call[c].row
                            /\ b.project = call[c].row.project /\ b.material = call[c].row.material

\* "Two concurrent finalizations that touch the same balances lock them in the same order and
\* cannot deadlock" (daily-reports.service.ts:855-857) holds of the materials and not of the
\* rows: calls wait for each other in a circle only where the two look-ups of one line have
\* found different rows, so never in a project with one row per material.  And whoever is
\* waited for is still running: no lock outlives its transaction on any error path.
DeadlocksNeedTwoRows ==
    /\ \A S \in (SUBSET Calls) \ {{}} : \E c \in S : WaitsFor(c) \cap S = {} \/ FoundAnother(c)
    /\ \A c \in Calls : \A d \in WaitsFor(c) : call[d].pc # "done"

\* Retries of the offline queue do not create duplicates (daily-reports.service.ts:260):
\* at most one report per idempotency key, and a retry of a report that exists is
\* answered with it.
RetryCreatesNoDuplicate ==
    /\ \A r, s \in Reports : r # s /\ report[r].key # Null => report[r].key # report[s].key
    /\ \A c \in Calls : call[c].retry => call[c].answer \in {Null, "existing", "aborted"}

\* What holds of a report whose calls came one after the other.  After it was submitted
\* "the report is read-only" (daily-reports.service.ts:581-582): content and project are
\* those of its revision.  It is reviewed once, "has already been reviewed" (718-720).
\* "Child collections are replaced atomically" (389-390): its material rows are those of
\* one request.  Each of the three may fail when calls overlap.
OneAfterTheOther ==
    \A r \in Reports \ raced :
        /\ \A v \in revisions[r] :
              v.number = report[r].revision => children[r] = v.rows /\ report[r].project = v.project
        /\ Cardinality({a \in approvals : a.report = r}) <= 1
        /\ Cardinality({x.by : x \in children[r]}) <= 1

\* Submission is one transaction that "consumes the project stock, writes the immutable
\* revision, flips the status and audits" (daily-reports.service.ts:580-581), and neither a
\* report that left DRAFT nor its revision is ever taken back: the statements and locks of all
\* calls implement reports that are drafted, submitted and decided in one step each.
Atomic == INSTANCE AtomicReports WITH
    NoKey   <- Null,
    Initial <- [r \in Reports |-> IF r \in DOMAIN Existing THEN Existing[r].status ELSE "NONE"],
    status  <- [r \in Reports |-> report[r].status],
    key     <- [r \in Reports |-> report[r].key],
    used    <- [r \in Reports |->
                  {[project |-> v.project, need |-> [m \in Consumable(v.rows) |-> Total(v.rows, m)]] :
                      v \in revisions[r]}],
    Opening <- Together(Opening),
    balance <- Together(stock)

ImplementsAtomicReports == Atomic!Spec

\* "Audit failures stay non-fatal either way" (audit.service.ts:28-31): a report that is
\* answered as created or reviewed has been, whatever became of its audit row.
AuditFailureIsNonFatal ==
    \A c \in Calls : call[c].answer = "ok" =>
        /\ call[c].req.kind = "create" => report[Id(c)].status # "NONE"
        /\ call[c].req.kind = "review" => \E a \in approvals : a.call = c
=============================================================================
