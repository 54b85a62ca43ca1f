--------------------------- MODULE ReportsProofs ---------------------------
(***************************************************************************)
(* Proofs about module DailyReports, for all reports, projects, materials,  *)
(* users, idempotency keys, requests and numbers of concurrent calls.       *)
(***************************************************************************)
EXTENDS DailyReports, Sums

CallStates == [req: Requests \cup {Null}, pc: CallSteps, report: Reports \cup {Null},
               project: Projects \cup {Null}, rows: SUBSET Rows, todo: SUBSET Materials,
               row: Balances \cup {Null}, taken: SUBSET Balances,
               short: BOOLEAN, answer: Answers, retry: BOOLEAN]

(* What holds of the control state s of every call. *)

Live(s) == s.pc \notin {"free", "done"}

\* The transaction that finalizes a report, for a new one or for a submitted draft.
Finalizing(s) == s.pc \in {"preflight", "consume"}
Creating(s)   == Finalizing(s) /\ s.req.kind = "create"
Submitting(s) == Finalizing(s) /\ s.req.kind = "submit"

\* The materials that its walk over the lines has passed, and those the pre-flight has.
Held(s)    == Consumable(s.rows) \ s.todo
Checked(s) == IF s.pc = "consume" THEN Consumable(s.rows) ELSE Held(s)

Stages(kind) ==
    CASE kind = "create" -> {"check", "insert", "preflight", "consume", "audit"}
      [] kind = "update" -> {"check", "delete", "write", "audit"}
      [] kind = "submit" -> {"check", "preflight", "consume"}
      [] kind = "review" -> {"check", "decide"}

\* The walk of a finalization over its lines goes in the order of the materials, and has
\* found a row for the first line that is left, if there is any.
WalkOK(s) ==
    /\ s.project \in Projects /\ IsFiniteSet(s.rows)
    /\ s.todo \subseteq Consumable(s.rows)
    /\ \A m \in Held(s), n \in s.todo : m < n
    /\ s.row # Null => /\ s.row.project = s.project /\ s.row.material \in s.todo
                       /\ \A n \in s.todo : s.row.material <= n

\* The rows it has taken from: one for each line that it has consumed.
TakenOK(s) ==
    /\ \A b \in s.taken : b.project = s.project /\ b.material \in Held(s)
    /\ \A a, b \in s.taken : a.material = b.material => a = b
    /\ \A m \in Held(s) : \E b \in s.taken : b.material = m

\* A call is at a stage of its own request, about a report unless it has yet to create one.
StateOK(s) ==
    /\ IF s.pc = "free" THEN s.answer = Null ELSE s.req \in Requests
    /\ Live(s) => /\ s.pc \in Stages(s.req.kind)
                  /\ s.report = Null <=> s.req.kind = "create" /\ s.pc \in {"check", "insert"}
    /\ s.pc \notin {"consume", "done"} => s.taken = {}
    /\ Finalizing(s) => WalkOK(s)
    /\ s.pc = "consume" => ~s.short /\ TakenOK(s)

\* A retry is answered with the report there is, or its connection is lost.
RetryOK(s) ==
    s.retry => /\ s.pc \in {"check", "done"} /\ s.req.kind = "create" /\ s.req.key # Null
               /\ s.answer \in {Null, "existing", "aborted"}

(* Types. *)

Tables ==
    /\ report \in [Reports -> {NoReport} \cup
          [status: Statuses, leader: Users, project: Projects, key: Keys \cup {Null}, revision: Nat]]
    /\ children \in [Reports -> SUBSET Rows]
    /\ revisions \in [Reports -> SUBSET [number: Nat, project: Projects, rows: SUBSET Rows]]
    /\ approvals \subseteq [call: Calls, report: Reports, reviewer: Users,
                            action: {"APPROVED", "REJECTED"}]

Ledger ==
    /\ charged \subseteq [report: Reports, revision: Nat, project: Projects,
                          material: Materials, qty: Int]
    /\ stock \in [Balances -> Int]
    /\ elsewhere \in [Balances -> Int]

Rest ==
    /\ audit \subseteq [call: Calls, report: Reports, action: Actions]
    /\ reportLock \in [Reports -> Calls \cup {Null}]
    /\ rowLock \in [Balances -> Calls \cup {Null}]
    /\ raced \subseteq Reports

CallsOK ==
    /\ call \in [Calls -> CallStates]
    /\ \A c \in Calls : StateOK(call[c]) /\ RetryOK(call[c])

\* The report a call is about exists, unless the call is creating it.
AboutOK ==
    \A c \in Calls : Live(call[c]) /\ call[c].report # Null /\ ~Creating(call[c])
                        => report[call[c].report].status # "NONE"

RowsFinite ==
    /\ \A r \in Reports : IsFiniteSet(children[r])
    /\ IsFiniteSet(charged)

TypeInv == Tables /\ Ledger /\ Rest /\ CallsOK /\ AboutOK /\ RowsFinite

(* Locks. *)

\* A report's lock is held by the one submit that finalizes it, from the draft it locked.
ReportLocks ==
    /\ \A r \in Reports : reportLock[r] # Null =>
          Submitting(call[reportLock[r]]) /\ call[reportLock[r]].report = r
    /\ \A c \in Calls : Submitting(call[c]) =>
          LET r == call[c].report
          IN  /\ reportLock[r] = c /\ report[r].status = "DRAFT"
              /\ call[c].rows = children[r] /\ call[c].project = report[r].project

\* A finalization has locked a row of each material its pre-flight has passed, and every
\* row that it has taken from; those hold what it takes.
LocksOf(c) ==
    /\ \A m \in Checked(call[c]) :
          call[c].short \/ \E b \in Balances :
              rowLock[b] = c /\ b.project = call[c].project /\ b.material = m
    /\ \A b \in call[c].taken :
          rowLock[b] = c /\ stock[b] >= Total(call[c].rows, b.material)

\* A balance row's lock is held by the one finalization that has come to its material.
RowLocks ==
    /\ \A b \in Balances : rowLock[b] # Null =>
          /\ Finalizing(call[rowLock[b]]) /\ call[rowLock[b]].project = b.project
          /\ b.material \in Checked(call[rowLock[b]])
    /\ \A c \in Calls : Finalizing(call[c]) => LocksOf(c)

(* Reports and their idempotency keys. *)

\* The row that a create inserts is its own until it commits, and so is its key.
Creates ==
    \A c \in Calls : Creating(call[c]) =>
        /\ report[call[c].report].status = "NONE" /\ call[c].project = call[c].req.project
        /\ \A x \in call[c].rows : x.by = c
        /\ \A d \in Calls \ {c} : call[d].report = call[c].report => call[d].pc = "done"
        /\ call[c].req.key # Null =>
              /\ \A r \in Reports : report[r].key # call[c].req.key
              /\ \A d \in Calls \ {c} : Creating(call[d]) => call[d].req.key # call[c].req.key

KeysOnce ==
    /\ \A r, s \in Reports : r # s /\ report[r].key # Null => report[r].key # report[s].key
    /\ \A c \in Calls : call[c].retry => \E r \in Reports : report[r].key = call[c].req.key

(* Charges. *)

Told(r) == {e \in audit : e.report = r /\ e.action = "SUBMITTED"}
Mine(r) == {x \in charged : x.report = r}

Uncharged(r) == revisions[r] = {} /\ Mine(r) = {} /\ Told(r) = {}

Charged(r) ==
    \E v \in revisions[r], e \in audit :
        /\ revisions[r] = {v} /\ v.number = report[r].revision /\ Told(r) = {e}
        /\ Mine(r) = {[report |-> r, revision |-> v.number, project |-> v.project,
                       material |-> m, qty |-> Total(v.rows, m)] : m \in Consumable(v.rows)}

Charges ==
    /\ \A r \in Reports : IF Finalized(r) THEN Charged(r) ELSE Uncharged(r)
    /\ \A r \in DOMAIN Existing :
          report[r].status \in {"NONE", "DRAFT"} => Existing[r].status = "DRAFT"
    /\ \A c \in Calls : call[c].pc = "decide" => report[call[c].report].status # "DRAFT"

(* Calls that come one after the other. *)

Alone ==
    \A c \in Calls : Live(call[c]) /\ call[c].report \in Reports \ raced =>
        LET r == call[c].report
        IN  /\ \A d \in Calls \ {c} : call[d].report = r => ~Live(call[d])
            /\ call[c].pc \in {"delete", "write"} => report[r].status = "DRAFT"
            /\ call[c].pc = "write" =>
                  call[c].rows = IF call[c].req.lines = Null THEN {} ELSE children[r]
            /\ call[c].pc = "decide" => \A a \in approvals : a.report # r

Reviewed(r) == {a \in approvals : a.report = r}

ReadOnly ==
    \A r \in Reports \ raced :
        /\ \A v \in revisions[r] : children[r] = v.rows /\ report[r].project = v.project
        /\ \A a, b \in Reviewed(r) : a = b
        /\ \A x, y \in children[r] : x.by = y.by

Inv == /\ TypeInv /\ ReportLocks /\ RowLocks /\ Creates /\ KeysOnce /\ Charges
       /\ Alone /\ ReadOnly /\ StockAccountsForReports
----------------------------------------------------------------------------
(* Lemmas about the operators of the model. *)

\* A finite set of numbers has a least and a greatest.
LEMMA MinIsLeast ==
    ASSUME NEW S, S \subseteq Nat, S # {}
    PROVE  Min(S) \in S /\ \A y \in S : Min(S) <= y
<1> DEFINE R == {p \in Nat \X Nat : p[1] < p[2]}
<1>1. IsWellFoundedOn(R, Nat) BY NatLessThanWellFounded DEF OpToRel
<1>2. PICK x \in S : \A y \in S : ~(<<y, x>> \in R) BY <1>1, WFMin
<1>3. ASSUME NEW y \in S PROVE x <= y
  <2>1. x \in Nat /\ y \in Nat OBVIOUS
  <2>2. y < x => <<y, x>> \in R BY <2>1
  <2> QED BY <1>2, <2>1, <2>2
<1> QED BY <1>3 DEF Min

LEMMA GreatestExists ==
    ASSUME NEW S, IsFiniteSet(S), S \subseteq Nat, S # {}
    PROVE  \E x \in S : \A y \in S : y <= x
<1> DEFINE G == {s \in SUBSET S : s # {} => \E x \in s : \A y \in s : y <= x}
<1>1. {} \in G OBVIOUS
<1>2. ASSUME NEW s \in SUBSET S, NEW z \in S \ s, s \in G PROVE s \cup {z} \in G
  <2>1. CASE s = {}
    BY <2>1
  <2>2. CASE s # {}
    <3>1. PICK x \in s : \A y \in s : y <= x BY <1>2, <2>2
    <3>2. x \in Nat /\ z \in Nat BY <3>1
    <3>3. CASE x <= z
      <4>1. \A y \in s \cup {z} : y <= z BY <3>1, <3>2, <3>3
      <4> QED BY <4>1
    <3>4. CASE z <= x
      <4>1. \A y \in s \cup {z} : y <= x BY <3>1, <3>2, <3>4
      <4> QED BY <3>1, <4>1
    <3> QED BY <3>2, <3>3, <3>4
  <2> QED BY <2>1, <2>2
<1>3. S \in G
  <2> HIDE DEF G
  <2> QED BY <1>1, <1>2, SetInduction
<1> QED BY <1>3

LEMMA TotalIsInt ==
    ASSUME NEW rows \in SUBSET Rows, IsFiniteSet(rows), NEW m
    PROVE  Total(rows, m) \in Int
<1> DEFINE f == [x \in rows |-> x.qty]
           S == {x \in rows : x.material = m}
<1>1. IsFiniteSet(S) BY FS_Subset
<1>2. \A x \in S : f[x] \in Int BY DEF Rows
<1>3. SumFunctionOnSet(f, S) \in Int
  <2> HIDE DEF f, S
  <2> QED BY <1>1, <1>2, SumIsInt
<1> QED BY <1>3 DEF Total

LEMMA ConsumableShape ==
    ASSUME NEW rows \in SUBSET Rows
    PROVE  /\ Consumable(rows) \subseteq Materials /\ Consumable(rows) \subseteq Nat
           /\ IsFiniteSet(Consumable(rows))
<1>1. Consumable(rows) \subseteq Materials BY DEF Consumable, Listed, Rows
<1> QED BY <1>1, ReportsAssumption, FS_Subset

LEMMA ImageIsFinite ==
    ASSUME NEW S, IsFiniteSet(S), NEW f, f = [x \in S |-> f[x]]
    PROVE  IsFiniteSet({f[x] : x \in S})
<1> DEFINE T == {f[x] : x \in S}
<1>1. f \in [S -> T] OBVIOUS
<1>2. f \in Surjection(S, T) BY <1>1 DEF Surjection
<1> QED BY <1>2, FS_Surjection

LEMMA RowsOfShape ==
    ASSUME NEW c \in Calls \cup {Null}, NEW lines \in SUBSET Lines
    PROVE  /\ RowsOf(c, lines) \in SUBSET Rows
           /\ IsFiniteSet(lines) => IsFiniteSet(RowsOf(c, lines))
           /\ \A x \in RowsOf(c, lines) : x.by = c
<1> DEFINE f == [l \in lines |-> [by |-> c, material |-> l.material, qty |-> l.qty]]
<1>1. RowsOf(c, lines) = {f[l] : l \in lines} BY DEF RowsOf
<1>2. \A l \in lines : f[l] \in Rows BY DEF Rows, Lines
<1>3. IsFiniteSet(lines) => IsFiniteSet({f[l] : l \in lines})
  <2>1. f = [l \in lines |-> f[l]] OBVIOUS
  <2> HIDE DEF f
  <2> QED BY <2>1, ImageIsFinite
<1>4. \A l \in lines : f[l].by = c OBVIOUS
<1> QED BY <1>1, <1>2, <1>3, <1>4

LEMMA RequestShape ==
    ASSUME NEW q \in Requests
    PROVE  /\ q.kind \in {"create", "update", "submit", "review"} /\ q.user \in Users
           /\ q.key \in Keys \cup {Null} /\ q.project \in Projects \cup {Null}
           /\ q.lines # Null => q.lines \in SUBSET Lines /\ IsFiniteSet(q.lines)
           /\ q.kind = "create" => /\ q.status \in {"DRAFT", "SUBMITTED"} /\ q.project \in Projects
                                   /\ q.lines # Null
           /\ q.kind = "review" => q.action \in {"APPROVED", "REJECTED"}
BY RequestsAssumption DEF RequestKinds

\* The first revision has number 1.
LEMMA FirstRevision == ASSUME NEW r, revisions[r] = {} PROVE NextRevision(r) = 1
<1>1. {0} \cup {v.number : v \in revisions[r]} = {0} OBVIOUS
<1>2. Max({0}) = 0
  <2>1. Max({0}) \in {0} BY DEF Max
  <2> QED BY <2>1
<1> QED BY <1>1, <1>2 DEF NextRevision

----------------------------------------------------------------------------
(* What a step does to the call it is about, and to no other. *)

Only(c) == \A d \in Calls \ {c} : call'[d] = call[d]

\* Two states that differ only in the step and the answer.
SameWork(s, t) ==
    /\ t.req = s.req /\ t.report = s.report /\ t.project = s.project /\ t.rows = s.rows
    /\ t.todo = s.todo /\ t.row = s.row /\ t.taken = s.taken /\ t.short = s.short /\ t.retry = s.retry

LEMMA GotoShape ==
    ASSUME CallsOK, NEW c \in Calls, NEW step \in CallSteps, Goto(c, step)
    PROVE  /\ call' \in [Calls -> CallStates] /\ Only(c)
           /\ SameWork(call[c], call'[c]) /\ call'[c].pc = step /\ call'[c].answer = call[c].answer
BY DEF CallsOK, Goto, Only, SameWork, CallStates

LEMMA ReplyShape ==
    ASSUME CallsOK, NEW c \in Calls, NEW answer \in Answers, Reply(c, answer)
    PROVE  /\ call' \in [Calls -> CallStates] /\ Only(c)
           /\ SameWork(call[c], call'[c]) /\ call'[c].pc = "done" /\ call'[c].answer = answer
BY DEF CallsOK, Reply, Only, SameWork, CallStates, CallSteps

LEMMA FoundShape ==
    ASSUME NEW c \in Calls, NEW project, NEW lines \in SUBSET Nat, NEW row \in Found(c, project, lines)
    PROVE  /\ row \in Balances \cup {Null}
           /\ row # Null => /\ row.project = project /\ row.material \in lines
                            /\ \A n \in lines : row.material <= n
<1>1. CASE row = Null
  BY <1>1
<1>2. CASE row # Null
  <2>1. row \in Balances /\ row.project = project /\ row.material = NextLine(c, lines) /\ lines # {}
    BY <1>2 DEF Found
  <2> QED BY <2>1, MinIsLeast DEF NextLine
<1> QED BY <1>1, <1>2

LEMMA StartShape ==
    ASSUME CallsOK, NEW c \in Calls, NEW r \in Reports, NEW project \in Projects,
           NEW rows \in SUBSET Rows, StartFinalization(c, r, project, rows), IsFiniteSet(rows)
    PROVE  /\ call' \in [Calls -> CallStates] /\ Only(c)
           /\ call'[c].pc = "preflight" /\ call'[c].report = r /\ call'[c].project = project
           /\ call'[c].rows = rows /\ call'[c].todo = Consumable(rows) /\ WalkOK(call'[c])
           /\ call'[c].req = call[c].req /\ call'[c].retry = call[c].retry
           /\ call'[c].answer = call[c].answer /\ call'[c].taken = call[c].taken
<1>1. Consumable(rows) \in SUBSET Materials /\ Consumable(rows) \in SUBSET Nat BY ConsumableShape
<1>2. PICK row \in Found(c, project, Consumable(rows)) :
          call' = [call EXCEPT ![c].pc = "preflight", ![c].report = r, ![c].project = project,
                               ![c].rows = rows, ![c].todo = Consumable(rows), ![c].row = row]
  BY DEF StartFinalization
<1>3. /\ row \in Balances \cup {Null}
      /\ row # Null => /\ row.project = project /\ row.material \in Consumable(rows)
                       /\ \A n \in Consumable(rows) : row.material <= n
  BY <1>1, <1>2, FoundShape
<1> DEFINE t == [call[c] EXCEPT !.pc = "preflight", !.report = r, !.project = project,
                                !.rows = rows, !.todo = Consumable(rows), !.row = row]
<1>4. call[c] \in CallStates BY DEF CallsOK
<1>5. t \in CallStates BY <1>1, <1>3, <1>4 DEF CallStates, CallSteps
<1>6. /\ t.pc = "preflight" /\ t.report = r /\ t.project = project /\ t.rows = rows
      /\ t.todo = Consumable(rows) /\ t.row = row /\ t.req = call[c].req /\ t.retry = call[c].retry
      /\ t.answer = call[c].answer /\ t.taken = call[c].taken
  BY <1>4 DEF CallStates
<1>7. call' = [call EXCEPT ![c] = t] BY <1>2 DEF CallsOK
<1> HIDE DEF t
<1>8. Held(t) = {} BY <1>6 DEF Held
<1>9. WalkOK(t) BY <1>3, <1>6, <1>8 DEF WalkOK
<1> QED BY <1>5, <1>6, <1>7, <1>9 DEF CallsOK, Only

\* A finalization takes its line from the row it has found.
ConsumeRow(c) ==
    /\ call[c].pc = "consume" /\ call[c].todo # {}
    /\ call[c].row # Null => rowLock[call[c].row] \in {Null, c}
    /\ ~Short(c)
    /\ Holding(c, call[c].row)
    /\ Advance(c, [call[c] EXCEPT !.taken = @ \cup {call[c].row}])
    /\ UNCHANGED <<records, stock, elsewhere, audit, reportLock>>

\* A finalization goes on; what it is about stays the same.
GoesOn(c) == Preflight(c) \/ StartConsuming(c) \/ ConsumeRow(c)

SameReport(s, t) ==
    /\ t.req = s.req /\ t.report = s.report /\ t.project = s.project /\ t.rows = s.rows
    /\ t.retry = s.retry /\ t.answer = s.answer

\* The walk goes on from one line to the next.
LEMMA AdvanceShape ==
    ASSUME CallsOK, NEW c \in Calls, NEW upd \in CallStates, Advance(c, upd), upd.todo = call[c].todo,
           call[c].todo # {}
    PROVE  /\ call' \in [Calls -> CallStates] /\ Only(c)
           /\ Line(c) \in call[c].todo /\ \A m \in call[c].todo : Line(c) <= m
           /\ call'[c].todo = call[c].todo \ {Line(c)}
           /\ call'[c].row \in Found(c, call[c].project, call'[c].todo)
           /\ call'[c].pc = upd.pc /\ SameReport(upd, call'[c])
           /\ call'[c].taken = upd.taken /\ call'[c].short = upd.short
<1>1. call[c].todo \subseteq Nat BY ReportsAssumption DEF CallsOK, CallStates
<1>2. Line(c) \in call[c].todo /\ \A m \in call[c].todo : Line(c) <= m
  BY <1>1, MinIsLeast DEF Line, NextLine
<1>3. PICK m : m = Line(c) OBVIOUS
<1>4. PICK row \in Found(c, call[c].project, call[c].todo \ {m}) :
          call' = [call EXCEPT ![c] = [upd EXCEPT !.todo = @ \ {m}, !.row = row]]
  BY <1>3 DEF Advance
<1>5. row \in Balances \cup {Null}
  <2>1. call[c].todo \ {m} \in SUBSET Nat BY <1>1
  <2> QED BY <1>4, <2>1, FoundShape
<1> DEFINE t == [upd EXCEPT !.todo = @ \ {m}, !.row = row]
<1>6. t \in CallStates BY <1>5 DEF CallStates
<1>7. /\ t.todo = upd.todo \ {m} /\ t.row = row /\ t.pc = upd.pc /\ SameReport(upd, t)
      /\ t.taken = upd.taken /\ t.short = upd.short
  BY DEF CallStates, SameReport
<1>8. call' = [call EXCEPT ![c] = t] BY <1>4
<1> HIDE DEF t
<1>9. call' \in [Calls -> CallStates] /\ Only(c) /\ call'[c] = t BY <1>6, <1>8 DEF CallsOK, Only
<1> QED BY <1>2, <1>3, <1>4, <1>7, <1>9, Zenon

LEMMA PreflightShape ==
    ASSUME CallsOK, NEW c \in Calls, Preflight(c)
    PROVE  /\ call' \in [Calls -> CallStates] /\ Only(c)
           /\ call[c].pc = "preflight" /\ call'[c].pc = "preflight"
           /\ Line(c) \in call[c].todo /\ \A m \in call[c].todo : Line(c) <= m
           /\ call'[c].todo = call[c].todo \ {Line(c)}
           /\ call'[c].row \in Found(c, call[c].project, call'[c].todo)
           /\ call'[c].short = (call[c].short \/ Short(c))
           /\ SameReport(call[c], call'[c]) /\ call'[c].taken = call[c].taken
<1>1. PICK b : b = (call[c].short \/ Short(c)) OBVIOUS
<1>2. b \in BOOLEAN BY <1>1, Zenon
<1>3. PICK upd : upd = [call[c] EXCEPT !.short = b] OBVIOUS
<1>4. call[c] \in CallStates BY DEF CallsOK
<1>5. /\ upd \in CallStates /\ upd.todo = call[c].todo /\ upd.pc = call[c].pc
      /\ SameReport(call[c], upd) /\ upd.taken = call[c].taken /\ upd.short = b
  BY <1>2, <1>3, <1>4 DEF CallStates, SameReport
<1>6. call[c].pc = "preflight" /\ call[c].todo # {} BY DEF Preflight
<1>7. Advance(c, upd)
  <2>1. Advance(c, [call[c] EXCEPT !.short = @ \/ Short(c)]) BY Zenon DEF Preflight
  <2>2. [call[c] EXCEPT !.short = @ \/ Short(c)] = upd BY <1>1, <1>3, Zenon
  <2> QED BY <2>1, <2>2, Zenon
<1>8. /\ call' \in [Calls -> CallStates] /\ Only(c)
      /\ Line(c) \in call[c].todo /\ \A m \in call[c].todo : Line(c) <= m
      /\ call'[c].todo = call[c].todo \ {Line(c)}
      /\ call'[c].row \in Found(c, call[c].project, call'[c].todo)
      /\ call'[c].pc = upd.pc /\ SameReport(upd, call'[c])
      /\ call'[c].taken = upd.taken /\ call'[c].short = upd.short
  BY <1>5, <1>6, <1>7, AdvanceShape
<1>9. SameReport(call[c], call'[c]) BY <1>5, <1>8 DEF SameReport
<1> QED BY <1>1, <1>5, <1>6, <1>8, <1>9, Zenon

LEMMA ConsumeShape ==
    ASSUME CallsOK, NEW c \in Calls, ConsumeRow(c)
    PROVE  /\ call' \in [Calls -> CallStates] /\ Only(c)
           /\ call[c].pc = "consume" /\ call'[c].pc = "consume"
           /\ Line(c) \in call[c].todo /\ \A m \in call[c].todo : Line(c) <= m
           /\ call'[c].todo = call[c].todo \ {Line(c)}
           /\ call'[c].row \in Found(c, call[c].project, call'[c].todo)
           /\ call'[c].short = call[c].short /\ SameReport(call[c], call'[c])
           /\ call[c].row \in Balances /\ call'[c].taken = call[c].taken \cup {call[c].row}
<1>1. call[c] \in CallStates BY DEF CallsOK
<1>2. call[c].row \in Balances BY <1>1 DEF ConsumeRow, Short, CallStates
<1>3. PICK upd : upd = [call[c] EXCEPT !.taken = @ \cup {call[c].row}] OBVIOUS
<1>4. /\ upd \in CallStates /\ upd.todo = call[c].todo /\ upd.pc = call[c].pc
      /\ SameReport(call[c], upd) /\ upd.taken = call[c].taken \cup {call[c].row}
      /\ upd.short = call[c].short
  BY <1>1, <1>2, <1>3 DEF CallStates, SameReport
<1>5. Advance(c, upd) /\ call[c].todo # {} /\ call[c].pc = "consume" BY <1>3 DEF ConsumeRow
<1>6. /\ call' \in [Calls -> CallStates] /\ Only(c)
      /\ Line(c) \in call[c].todo /\ \A m \in call[c].todo : Line(c) <= m
      /\ call'[c].todo = call[c].todo \ {Line(c)}
      /\ call'[c].row \in Found(c, call[c].project, call'[c].todo)
      /\ call'[c].pc = upd.pc /\ SameReport(upd, call'[c])
      /\ call'[c].taken = upd.taken /\ call'[c].short = upd.short
  BY <1>4, <1>5, AdvanceShape
<1>7. SameReport(call[c], call'[c]) BY <1>4, <1>6 DEF SameReport
<1> QED BY <1>2, <1>4, <1>5, <1>6, <1>7, Zenon

LEMMA StartConsumingShape ==
    ASSUME CallsOK, NEW c \in Calls, StartConsuming(c)
    PROVE  /\ call' \in [Calls -> CallStates] /\ Only(c)
           /\ call[c].pc = "preflight" /\ call'[c].pc = "consume"
           /\ call[c].todo = {} /\ ~call[c].short /\ call'[c].short = call[c].short
           /\ call'[c].todo = Unrecorded(c)
           /\ call'[c].row \in Found(c, call[c].project, call'[c].todo)
           /\ SameReport(call[c], call'[c]) /\ call'[c].taken = call[c].taken
<1>1. call[c] \in CallStates BY DEF CallsOK
<1>2. PICK lines : lines = Unrecorded(c) OBVIOUS
<1>3. lines \in SUBSET Materials /\ lines \in SUBSET Nat
  <2>1. call[c].rows \in SUBSET Rows BY <1>1 DEF CallStates
  <2>2. Unrecorded(c) \subseteq Consumable(call[c].rows) BY DEF Unrecorded
  <2> QED BY <1>2, <2>1, <2>2, ConsumableShape
<1>4. PICK row \in Found(c, call[c].project, lines) :
          call' = [call EXCEPT ![c].pc = "consume", ![c].todo = lines, ![c].row = row]
  BY <1>2 DEF StartConsuming
<1>5. row \in Balances \cup {Null} BY <1>3, <1>4, FoundShape
<1> DEFINE t == [call[c] EXCEPT !.pc = "consume", !.todo = lines, !.row = row]
<1>6. t \in CallStates BY <1>1, <1>3, <1>5 DEF CallStates, CallSteps
<1>7. /\ t.pc = "consume" /\ t.todo = lines /\ t.row = row /\ SameReport(call[c], t)
      /\ t.taken = call[c].taken /\ t.short = call[c].short
  BY <1>1 DEF CallStates, SameReport
<1>8. call' = [call EXCEPT ![c] = t] BY <1>4 DEF CallsOK
<1>9. call[c].pc = "preflight" /\ call[c].todo = {} /\ ~call[c].short
  BY DEF StartConsuming
<1> HIDE DEF t
<1>10. call' \in [Calls -> CallStates] /\ Only(c) /\ call'[c] = t BY <1>6, <1>8 DEF CallsOK, Only
<1> QED BY <1>2, <1>4, <1>7, <1>9, <1>10, Zenon

LEMMA GoesOnShape ==
    ASSUME CallsOK, NEW c \in Calls, GoesOn(c)
    PROVE  /\ call' \in [Calls -> CallStates] /\ Only(c) /\ SameReport(call[c], call'[c])
           /\ Finalizing(call[c]) /\ Finalizing(call'[c]) /\ call[c].pc \in {"preflight", "consume"}
           /\ UNCHANGED <<report, children, revisions, approvals, charged, stock, elsewhere, audit,
                          reportLock>>
<1>1. UNCHANGED <<report, children, revisions, approvals, charged, stock, elsewhere, audit, reportLock>>
  BY DEF GoesOn, Preflight, StartConsuming, ConsumeRow, records, locks
<1> QED BY <1>1, PreflightShape, StartConsumingShape, ConsumeShape DEF GoesOn, Finalizing

LEMMA BeginShape ==
    ASSUME CallsOK, NEW c \in Calls, Begin(c)
    PROVE  /\ call' \in [Calls -> CallStates] /\ Only(c)
           /\ call[c].pc = "free" /\ call'[c].pc = "check"
           /\ call'[c].req \in Requests /\ call'[c].report \in Reports \cup {Null}
           /\ call'[c].req.kind = "create" => call'[c].report = Null
           /\ call'[c].req.kind # "create" => /\ call'[c].report \in Reports
                                              /\ report[call'[c].report].status # "NONE"
           /\ call'[c].retry => /\ call'[c].req.kind = "create" /\ call'[c].req.key # Null
                                /\ \E x \in Reports : report[x].key = call'[c].req.key
           /\ call'[c].answer = call[c].answer /\ call'[c].taken = call[c].taken
           /\ raced' = raced \cup {x \in {call'[c].report} \ {Null} : \E d \in Running : Id(d) = x}
<1>1. PICK q \in Requests, r \in Reports \cup {Null} :
          /\ IF q.kind = "create" THEN r = Null
                                  ELSE r # Null /\ report[r].status # "NONE"
          /\ call' = [call EXCEPT ![c].req = q, ![c].report = r, ![c].pc = "check",
                        ![c].retry = /\ q.kind = "create" /\ q.key # Null
                                     /\ \E x \in Reports : report[x].key = q.key]
          /\ raced' = raced \cup {x \in {r} \ {Null} : \E d \in Running : Id(d) = x}
  BY DEF Begin
<1>2. PICK b : b = (/\ q.kind = "create" /\ q.key # Null
                    /\ \E x \in Reports : report[x].key = q.key) OBVIOUS
<1>3. b \in BOOLEAN BY <1>2, Zenon
<1>4. call' = [call EXCEPT ![c].req = q, ![c].report = r, ![c].pc = "check", ![c].retry = b]
  BY <1>1, <1>2, Zenon
<1>5. /\ call' \in [Calls -> CallStates] /\ Only(c) /\ call'[c].pc = "check"
      /\ call'[c].req = q /\ call'[c].report = r /\ call'[c].retry = b
      /\ call'[c].answer = call[c].answer /\ call'[c].taken = call[c].taken
  <2> DEFINE t == [call[c] EXCEPT !.req = q, !.report = r, !.pc = "check", !.retry = b]
  <2>1. call[c] \in CallStates BY DEF CallsOK
  <2>2. t \in CallStates BY <1>3, <2>1 DEF CallStates, CallSteps
  <2>3. /\ t.pc = "check" /\ t.req = q /\ t.report = r /\ t.retry = b /\ t.answer = call[c].answer
        /\ t.taken = call[c].taken
    BY <2>1 DEF CallStates
  <2>4. call' = [call EXCEPT ![c] = t] BY <1>4 DEF CallsOK
  <2> HIDE DEF t
  <2> QED BY <2>2, <2>3, <2>4 DEF CallsOK, Only
<1> QED BY <1>1, <1>2, <1>5 DEF Begin

LEMMA DeleteShape ==
    ASSUME CallsOK, Tables, NEW c \in Calls, UpdateDelete(c), Id(c) \in Reports
    PROVE  /\ call' \in [Calls -> CallStates] /\ Only(c)
           /\ call'[c].pc = "write" /\ call'[c].req = call[c].req
           /\ call'[c].report = call[c].report /\ call'[c].retry = call[c].retry
           /\ call'[c].answer = call[c].answer /\ call'[c].taken = call[c].taken
           /\ call'[c].rows = IF call[c].req.lines = Null THEN {} ELSE children[call[c].report]
<1>1. PICK rows : rows = IF Req(c).lines = Null THEN {} ELSE children[Id(c)] OBVIOUS
<1>2. rows \in SUBSET Rows BY <1>1 DEF Tables
<1>3. call' = [call EXCEPT ![c].pc = "write", ![c].rows = rows]
  BY <1>1 DEF UpdateDelete
<1> DEFINE t == [call[c] EXCEPT !.pc = "write", !.rows = rows]
<1>4. call[c] \in CallStates BY DEF CallsOK
<1>5. t \in CallStates BY <1>2, <1>4 DEF CallStates, CallSteps
<1>6. /\ t.pc = "write" /\ t.rows = rows /\ t.req = call[c].req /\ t.report = call[c].report
      /\ t.retry = call[c].retry /\ t.answer = call[c].answer /\ t.taken = call[c].taken
  BY <1>4 DEF CallStates
<1>7. call' = [call EXCEPT ![c] = t] BY <1>3 DEF CallsOK
<1> HIDE DEF t
<1> QED BY <1>1, <1>5, <1>6, <1>7 DEF CallsOK, Only, Id, Req

----------------------------------------------------------------------------
(* The kinds of step. *)

\* What a step tells the audit, short of a submission.
Tells(c) == UNCHANGED audit \/ \E action \in {"CREATED", "UPDATED", "SUBMIT_REPLAYED"} : Log(c, action)

\* A call ends with nothing more written, and gives back its locks.
Ends(c) ==
    /\ Live(call[c]) /\ (call[c].report = Null => UNCHANGED audit)
    /\ \E answer \in Answers :
          /\ call[c].retry => answer \in {"existing", "aborted"}
          /\ Fail(c, answer)
    /\ UNCHANGED <<records, stock, elsewhere, raced>>
    /\ Tells(c)

\* A call has read what it needs to go on.
Advances(c) ==
    /\ \/ /\ At(c, "create", "check") /\ Goto(c, "insert") /\ ~call[c].retry
       \/ /\ At(c, "update", "check") /\ Goto(c, "delete") /\ report[Id(c)].status = "DRAFT"
       \/ /\ At(c, "review", "check") /\ Goto(c, "decide") /\ report[Id(c)].status = "SUBMITTED"
          /\ \A a \in approvals : a.report # Id(c)
    /\ UNCHANGED <<records, stock, elsewhere, audit, locks, raced>>

\* A create begins to finalize its report; a submit does.
StartsCreate(c) ==
    /\ At(c, "create", "insert") /\ KeyHolders(c) = {}
    /\ Req(c).key # Null => \A r \in Reports : report[r].key # Req(c).key
    /\ \E r \in Unused : StartFinalization(c, r, Req(c).project, RowsOf(c, Req(c).lines))
    /\ UNCHANGED <<records, stock, elsewhere, audit, locks, raced>>

StartsSubmit(c) ==
    /\ At(c, "submit", "check") /\ reportLock[Id(c)] = Null
    /\ report[Id(c)].status = "DRAFT"
    /\ StartFinalization(c, Id(c), report[Id(c)].project, children[Id(c)])
    /\ reportLock' = [reportLock EXCEPT ![Id(c)] = c]
    /\ UNCHANGED <<records, stock, elsewhere, audit, rowLock, raced>>

\* A new draft is inserted.
Drafts(c) ==
    /\ At(c, "create", "insert") /\ KeyHolders(c) = {}
    /\ Req(c).key # Null => \A r \in Reports : report[r].key # Req(c).key
    /\ \E r \in Unused :
          /\ report' = [report EXCEPT ![r] =
                [status |-> "DRAFT", leader |-> Req(c).user, project |-> Req(c).project,
                 key |-> Req(c).key, revision |-> 0]]
          /\ children' = [children EXCEPT ![r] = RowsOf(c, Req(c).lines)]
          /\ call' = [call EXCEPT ![c].report = r, ![c].pc = "audit"]
    /\ UNCHANGED <<revisions, approvals, charged, stock, elsewhere, audit, locks, raced>>

\* A call that has no transaction to finalize holds no lock.
LEMMA NothingToUnlock ==
    ASSUME Tables, Rest, ReportLocks, RowLocks, NEW c \in Calls, ~Finalizing(call[c]), UNCHANGED locks
    PROVE  Unlock(c)
<1>1. \A r \in Reports : reportLock[r] # c
  BY ReportsAssumption DEF ReportLocks, Submitting
<1>2. \A b \in Balances : rowLock[b] # c
  BY ReportsAssumption DEF RowLocks
<1> QED BY <1>1, <1>2 DEF Unlock, locks, Rest

LEMMA Replies ==
    ASSUME Tables, Rest, ReportLocks, RowLocks, NEW c \in Calls, Live(call[c]), ~Finalizing(call[c]),
           NEW answer \in Answers, call[c].retry => answer \in {"existing", "aborted"},
           Reply(c, answer), call[c].report = Null => UNCHANGED audit, Tells(c),
           UNCHANGED <<records, stock, elsewhere, locks, raced>>
    PROVE  Ends(c)
<1>1. Unlock(c) BY NothingToUnlock
<1> QED BY <1>1 DEF Ends, Fail

\* Every step of a call is one of these kinds.
LEMMA StepKinds ==
    ASSUME Inv, NEW c \in Calls, Step(c) \/ Abort(c), UNCHANGED raced
    PROVE  /\ call[c].pc # "free" /\ call[c].pc # "done"
           /\ \/ Ends(c) \/ Advances(c) \/ UpdateDelete(c) \/ UpdateWrite(c)
              \/ StartsCreate(c) \/ StartsSubmit(c) \/ Drafts(c)
              \/ GoesOn(c) \/ Finalize(c) \/ ReviewDecide(c)
<1> USE DEF Answers
<1>1. /\ Tables /\ Rest /\ ReportLocks /\ RowLocks /\ StateOK(call[c]) /\ RetryOK(call[c])
      /\ call[c] \in CallStates
  BY DEF Inv, TypeInv, CallsOK
<1>2. call[c].retry => /\ call[c].pc \in {"check", "done"} /\ call[c].req.kind = "create"
                       /\ \E r \in Reports : report[r].key = call[c].req.key /\ call[c].req.key # Null
  BY <1>1 DEF RetryOK, Inv, KeysOnce
<1>3. CASE CreateCheck(c)
  <2>1. CASE Reply(c, "existing")
    BY <1>1, <1>3, <2>1, Replies DEF CreateCheck, At, Live, Tells, Finalizing
  <2>2. CASE /\ \A r \in Reports : Req(c).key = Null \/ report[r].key # Req(c).key
             /\ Goto(c, "insert")
    BY <1>2, <1>3, <2>2 DEF CreateCheck, Advances, At, Req
  <2> QED BY <1>3, <2>1, <2>2 DEF CreateCheck, At
<1>4. CASE CreateInsert(c)
  <2>1. At(c, "create", "insert") /\ KeyHolders(c) = {} /\ UNCHANGED <<stock, elsewhere, audit, raced>>
    BY <1>4 DEF CreateInsert
  <2>2. Live(call[c]) /\ ~call[c].retry /\ Tells(c)
    BY <1>2, <2>1 DEF At, Live, Tells
  <2> DEFINE taken == Req(c).key # Null /\ \E r \in Reports : report[r].key = Req(c).key
  <2>3. CASE UNCHANGED records /\ (Fail(c, "conflict") \/ Fail(c, "rejected"))
    <3>1. PICK answer \in Answers : Fail(c, answer)
      BY <2>3
    <3>2. UNCHANGED <<records, stock, elsewhere, raced>> /\ UNCHANGED audit
      BY <2>1, <2>3
    <3>3. \E reply \in Answers : /\ call[c].retry => reply \in {"existing", "aborted"}
                                 /\ Fail(c, reply)
      BY <2>2, <3>1, Zenon
    <3>4. Ends(c) BY <2>2, <3>2, <3>3, Zenon DEF Ends
    <3> QED BY <2>2, <3>4 DEF Live
  <2>4. CASE /\ ~taken
             /\ \E r \in Unused :
                    /\ report' = [report EXCEPT ![r] =
                          [status |-> "DRAFT", leader |-> Req(c).user, project |-> Req(c).project,
                           key |-> Req(c).key, revision |-> 0]]
                    /\ children' = [children EXCEPT ![r] = RowsOf(c, Req(c).lines)]
                    /\ call' = [call EXCEPT ![c].report = r, ![c].pc = "audit"]
             /\ UNCHANGED <<revisions, approvals, charged, locks>>
    BY <2>1, <2>2, <2>4 DEF Drafts, Live
  <2>5. CASE /\ ~taken
             /\ \E r \in Unused : StartFinalization(c, r, Req(c).project, RowsOf(c, Req(c).lines))
             /\ UNCHANGED locks /\ UNCHANGED records
    BY <2>1, <2>2, <2>5 DEF StartsCreate, Live
  <2>6. \/ UNCHANGED records /\ (Fail(c, "conflict") \/ Fail(c, "rejected"))
        \/ /\ ~taken
           /\ \E r \in Unused :
                    /\ report' = [report EXCEPT ![r] =
                          [status |-> "DRAFT", leader |-> Req(c).user, project |-> Req(c).project,
                           key |-> Req(c).key, revision |-> 0]]
                    /\ children' = [children EXCEPT ![r] = RowsOf(c, Req(c).lines)]
                    /\ call' = [call EXCEPT ![c].report = r, ![c].pc = "audit"]
           /\ UNCHANGED <<revisions, approvals, charged, locks>>
        \/ /\ ~taken
           /\ \E r \in Unused : StartFinalization(c, r, Req(c).project, RowsOf(c, Req(c).lines))
           /\ UNCHANGED locks /\ UNCHANGED records
    BY <1>4, Zenon DEF CreateInsert
  <2> QED BY <2>2, <2>3, <2>4, <2>5, <2>6 DEF Live
<1>5. CASE UpdateCheck(c)
  <2>1. CASE Reply(c, "rejected")
    BY <1>1, <1>2, <1>5, <2>1, Replies DEF UpdateCheck, At, Live, Tells, Finalizing
  <2>2. CASE report[Id(c)].status = "DRAFT" /\ Goto(c, "delete")
    BY <1>5, <2>2 DEF UpdateCheck, Advances, At
  <2> QED BY <1>5, <2>1, <2>2 DEF UpdateCheck, At
<1>6. CASE UpdateDelete(c) \/ UpdateWrite(c) \/ Finalize(c) \/ ReviewDecide(c)
  BY <1>6 DEF UpdateDelete, UpdateWrite, Finalize, ReviewDecide, At
<1>7. CASE AuditDraft(c)
  <2>1. call[c].pc = "audit" /\ Reply(c, "ok") /\ UNCHANGED <<records, stock, elsewhere, locks>>
    BY <1>7 DEF AuditDraft
  <2>2. Tells(c)
    <3>1. PICK action \in {"CREATED", "UPDATED"} : Log(c, action) \/ UNCHANGED audit
      BY <1>7, Zenon DEF AuditDraft
    <3> QED BY <3>1, Zenon DEF Tells
  <2>3. call[c].report # Null /\ ~call[c].retry /\ Live(call[c])
    BY <1>1, <1>2, <2>1 DEF StateOK, Live
  <2> QED BY <1>1, <2>1, <2>2, <2>3, Replies DEF Live, Finalizing
<1>8. CASE SubmitLock(c)
  <2>1. At(c, "submit", "check") /\ reportLock[Id(c)] = Null /\ UNCHANGED <<records, stock, elsewhere>>
    BY <1>8 DEF SubmitLock
  <2>2. Live(call[c]) /\ ~call[c].retry /\ call[c].report # Null
    BY <1>1, <1>2, <2>1 DEF At, Live, StateOK
  <2>3. CASE (\E answer \in {"rejected", "replayed", "conflict"} : Fail(c, answer))
             /\ (UNCHANGED audit \/ Log(c, "SUBMIT_REPLAYED"))
    <3>1. PICK answer \in Answers : Fail(c, answer)
      BY <2>3
    <3>2. Tells(c)
      BY <2>3, Zenon DEF Tells
    <3>3. UNCHANGED <<records, stock, elsewhere, raced>>
      BY <2>1
    <3>4. \E reply \in Answers : /\ call[c].retry => reply \in {"existing", "aborted"}
                                 /\ Fail(c, reply)
      BY <2>2, <3>1, Zenon
    <3>5. Ends(c) BY <2>2, <3>2, <3>3, <3>4, Zenon DEF Ends
    <3> QED BY <2>2, <3>5 DEF Live
  <2>4. CASE /\ report[Id(c)].status = "DRAFT"
             /\ StartFinalization(c, Id(c), report[Id(c)].project, children[Id(c)])
             /\ reportLock' = [reportLock EXCEPT ![Id(c)] = c]
             /\ UNCHANGED <<rowLock, audit>>
    BY <2>1, <2>2, <2>4 DEF StartsSubmit, Live
  <2>5. \/ (\E answer \in {"rejected", "replayed", "conflict"} : Fail(c, answer))
           /\ (UNCHANGED audit \/ Log(c, "SUBMIT_REPLAYED"))
        \/ /\ report[Id(c)].status = "DRAFT"
           /\ StartFinalization(c, Id(c), report[Id(c)].project, children[Id(c)])
           /\ reportLock' = [reportLock EXCEPT ![Id(c)] = c]
           /\ UNCHANGED <<rowLock, audit>>
    BY <1>8, Zenon DEF SubmitLock
  <2> QED BY <2>2, <2>3, <2>4, <2>5 DEF Live
<1>9. CASE RefuseShortage(c)
  BY <1>2, <1>9 DEF RefuseShortage, Ends, Tells, Live
<1>10. CASE ReviewCheck(c)
  <2>1. CASE Reply(c, "rejected")
    BY <1>1, <1>2, <1>10, <2>1, Replies DEF ReviewCheck, At, Live, Tells, Finalizing
  <2>2. CASE /\ report[Id(c)].status = "SUBMITTED" /\ Goto(c, "decide")
             /\ \A a \in approvals : a.report # Id(c)
    BY <1>10, <2>2 DEF ReviewCheck, Advances, At
  <2> QED BY <1>10, <2>1, <2>2 DEF ReviewCheck, At
<1>11. CASE Abort(c)
  BY <1>11 DEF Abort, Running, Ends, Tells, Live
<1>12. CASE Preflight(c) \/ StartConsuming(c)
  BY <1>12 DEF GoesOn, Preflight, StartConsuming
<1>13. CASE Consume(c)
  <2>1. Live(call[c]) /\ ~call[c].retry BY <1>2, <1>13 DEF Consume, Live
  <2>2. CASE Fail(c, "rejected")
    BY <1>13, <2>1, <2>2 DEF Consume, Ends, Tells
  <2>3. CASE ConsumeRow(c)
    BY <2>1, <2>3 DEF GoesOn, Live
  <2>4. Fail(c, "rejected") \/ ConsumeRow(c)
    BY <1>13, Zenon DEF Consume, ConsumeRow
  <2> QED BY <2>1, <2>2, <2>3, <2>4 DEF Live
<1>14. CASE AuditSwallowed(c)
  <2>1. call[c].pc \in {"consume", "decide"} BY <1>14 DEF AuditSwallowed, At
  <2>2. Live(call[c]) /\ ~call[c].retry BY <1>2, <2>1 DEF Live
  <2> QED BY <1>14, <2>2 DEF AuditSwallowed, Ends, Tells, Live
<1> QED BY <1>3, <1>4, <1>5, <1>6, <1>7, <1>8, <1>9, <1>10, <1>11, <1>12, <1>13, <1>14 DEF Step

----------------------------------------------------------------------------
(* Types. *)

LEMMA CallsKept ==
    ASSUME CallsOK, NEW c \in Calls, call' \in [Calls -> CallStates], Only(c),
           StateOK(call'[c]), RetryOK(call'[c])
    PROVE  CallsOK'
BY DEF CallsOK, Only

\* No report is ever deleted.
Keeps == \A r \in Reports : report[r].status # "NONE" => report'[r].status # "NONE"

LEMMA AboutKept ==
    ASSUME CallsOK, AboutOK, Keeps, NEW c \in Calls, Only(c),
           Live(call'[c]) /\ call'[c].report # Null /\ ~Creating(call'[c])
               => report'[call'[c].report].status # "NONE"
    PROVE  AboutOK'
<1> SUFFICES ASSUME NEW d \in Calls, Live(call'[d]), call'[d].report # Null, ~Creating(call'[d])
             PROVE  report'[call'[d].report].status # "NONE"
  BY DEF AboutOK
<1>1. CASE d = c
  BY <1>1
<1>2. CASE d # c
  <2>1. call'[d] = call[d] BY <1>2 DEF Only
  <2>2. call[d].report \in Reports BY <2>1 DEF CallsOK, CallStates
  <2> QED BY <2>1, <2>2 DEF AboutOK, Keeps
<1> QED BY <1>1, <1>2

\* A call's report, and that its request is one of them.
LEMMA CallShape ==
    ASSUME TypeInv, NEW c \in Calls
    PROVE  /\ call[c] \in CallStates /\ StateOK(call[c]) /\ RetryOK(call[c])
           /\ Live(call[c]) => /\ call[c].req \in Requests
                               /\ call[c].report # Null => call[c].report \in Reports
BY DEF TypeInv, CallsOK, CallStates, StateOK, Live

LEMMA UnlockShape ==
    ASSUME TypeInv, NEW c \in Calls, Unlock(c)
    PROVE  /\ reportLock' \in [Reports -> Calls \cup {Null}]
           /\ rowLock' \in [Balances -> Calls \cup {Null}]
BY DEF TypeInv, Rest, Unlock

LEMMA TellsShape ==
    ASSUME TypeInv, NEW c \in Calls, Tells(c), Live(call[c]), call[c].report = Null => UNCHANGED audit
    PROVE  audit' \subseteq [call: Calls, report: Reports, action: Actions]
<1>1. CASE UNCHANGED audit
  BY <1>1 DEF TypeInv, Rest
<1>2. CASE ~UNCHANGED audit
  <2>1. PICK action \in {"CREATED", "UPDATED", "SUBMIT_REPLAYED"} : Log(c, action)
    BY <1>2 DEF Tells
  <2>2. call[c].report \in Reports BY <1>2, CallShape
  <2>3. action \in Actions BY DEF Actions
  <2> DEFINE e == [call |-> c, action |-> action, report |-> call[c].report]
  <2>4. e \in [call: Calls, report: Reports, action: Actions] BY <2>2, <2>3
  <2>5. audit' = audit \cup {e} BY <2>1 DEF Log, Id
  <2> HIDE DEF e
  <2> QED BY <2>4, <2>5 DEF TypeInv, Rest
<1> QED BY <1>1, <1>2

LEMMA TypeEnds == ASSUME TypeInv, NEW c \in Calls, Ends(c) PROVE TypeInv'
<1>1. PICK answer \in Answers : /\ call[c].retry => answer \in {"existing", "aborted"}
                                /\ Unlock(c) /\ Reply(c, answer)
  BY Zenon DEF Ends, Fail
<1>2. /\ call' \in [Calls -> CallStates] /\ Only(c) /\ SameWork(call[c], call'[c])
      /\ call'[c].pc = "done" /\ call'[c].answer = answer
  BY <1>1, ReplyShape DEF TypeInv
<1>3. UNCHANGED <<report, children, revisions, approvals, charged, stock, elsewhere, raced>>
  BY DEF Ends, records
<1>4. Tables' /\ Ledger' /\ RowsFinite' BY <1>3 DEF TypeInv, Tables, Ledger, RowsFinite
<1>5. Rest' BY <1>1, <1>3, UnlockShape, TellsShape DEF TypeInv, Rest, Ends
<1>6. StateOK(call'[c]) /\ RetryOK(call'[c])
  BY <1>1, <1>2, CallShape DEF StateOK, RetryOK, SameWork, Live, Ends, Finalizing
<1>7. CallsOK' BY <1>2, <1>6, CallsKept DEF TypeInv
<1>8. AboutOK' BY <1>2, <1>3, AboutKept DEF TypeInv, Keeps, Live
<1> QED BY <1>4, <1>5, <1>7, <1>8 DEF TypeInv

LEMMA TypeAdvances == ASSUME TypeInv, NEW c \in Calls, Advances(c) PROVE TypeInv'
<1>1. PICK step \in {"insert", "delete", "decide"} :
          /\ Goto(c, step) /\ call[c].pc = "check" /\ ~call[c].retry
          /\ call[c].req.kind = IF step = "insert" THEN "create" ELSE IF step = "delete" THEN "update" ELSE "review"
  BY CallShape DEF Advances, At, RetryOK
<1>2. /\ call' \in [Calls -> CallStates] /\ Only(c) /\ SameWork(call[c], call'[c]) /\ call'[c].pc = step
  BY <1>1, GotoShape DEF TypeInv, CallSteps
<1>3. UNCHANGED <<report, children, revisions, approvals, charged, stock, elsewhere, audit,
                  reportLock, rowLock, raced>>
  BY DEF Advances, records, locks
<1>4. Tables' /\ Ledger' /\ RowsFinite' /\ Rest'
  BY <1>3 DEF TypeInv, Tables, Ledger, RowsFinite, Rest
<1>5. StateOK(call[c]) /\ Live(call[c]) BY <1>1, CallShape DEF Live
<1>6. StateOK(call'[c]) /\ RetryOK(call'[c])
  BY <1>1, <1>2, <1>5 DEF StateOK, RetryOK, SameWork, Live, Stages, Finalizing
<1>7. CallsOK' BY <1>2, <1>6, CallsKept DEF TypeInv
<1>8. AboutOK'
  BY <1>1, <1>2, <1>3, <1>5, AboutKept DEF TypeInv, AboutOK, Keeps, SameWork, Creating, Finalizing
<1> QED BY <1>4, <1>7, <1>8 DEF TypeInv

LEMMA TypeDelete ==
    ASSUME TypeInv, NEW c \in Calls, UpdateDelete(c), UNCHANGED raced
    PROVE  TypeInv'
<1>1. /\ call[c].pc = "delete" /\ call[c].req.kind = "update" /\ ~call[c].retry /\ StateOK(call[c])
      /\ call[c].report \in Reports /\ Live(call[c])
  <2>1. call[c].pc = "delete" /\ call[c].req.kind = "update" BY DEF UpdateDelete, At
  <2>2. Live(call[c]) BY <2>1 DEF Live
  <2> QED BY <2>1, <2>2, CallShape DEF RetryOK, StateOK
<1>2. /\ call' \in [Calls -> CallStates] /\ Only(c)
      /\ call'[c].pc = "write" /\ call'[c].req = call[c].req /\ call'[c].taken = call[c].taken
      /\ call'[c].report = call[c].report /\ call'[c].retry = call[c].retry
  BY <1>1, DeleteShape DEF TypeInv, Id
<1>3. UNCHANGED <<report, children, revisions, approvals, charged, stock, elsewhere, audit,
                  reportLock, rowLock>>
  BY DEF UpdateDelete, records, locks
<1>4. Tables' /\ Ledger' /\ RowsFinite' /\ Rest'
  BY <1>3 DEF TypeInv, Tables, Ledger, RowsFinite, Rest
<1>5. StateOK(call'[c]) /\ RetryOK(call'[c])
  BY <1>1, <1>2 DEF StateOK, RetryOK, Live, Stages, Finalizing
<1>6. CallsOK' BY <1>2, <1>5, CallsKept DEF TypeInv
<1>7. AboutOK'
  BY <1>1, <1>2, <1>3, AboutKept, ReportsAssumption DEF TypeInv, AboutOK, Keeps, Creating, Finalizing
<1> QED BY <1>4, <1>6, <1>7 DEF TypeInv

LEMMA TypeUpdate ==
    ASSUME TypeInv, NEW c \in Calls, UpdateWrite(c), UNCHANGED raced
    PROVE  TypeInv'
<1>1. /\ call[c].pc = "write" /\ call[c].req.kind = "update" /\ ~call[c].retry /\ StateOK(call[c])
      /\ call[c].report \in Reports /\ Live(call[c]) /\ call[c].req \in Requests
  <2>1. call[c].pc = "write" /\ call[c].req.kind = "update" BY DEF UpdateWrite, At
  <2>2. Live(call[c]) BY <2>1 DEF Live
  <2> QED BY <2>1, <2>2, CallShape DEF RetryOK, StateOK
<1>2. /\ call' \in [Calls -> CallStates] /\ Only(c) /\ SameWork(call[c], call'[c])
      /\ call'[c].pc = "audit"
  BY GotoShape DEF TypeInv, CallSteps, UpdateWrite
<1>3. UNCHANGED <<revisions, approvals, charged, stock, elsewhere, audit, reportLock, rowLock>>
  BY DEF UpdateWrite, locks
<1> DEFINE r == call[c].report
<1>4. report[r] \in [status: Statuses, leader: Users, project: Projects, key: Keys \cup {Null}, revision: Nat]
  BY <1>1, ReportsAssumption DEF TypeInv, Tables, AboutOK, Creating, Finalizing, NoReport
<1>5. /\ report' \in [Reports -> {NoReport} \cup
          [status: Statuses, leader: Users, project: Projects, key: Keys \cup {Null}, revision: Nat]]
      /\ Keeps
  <2>1. CASE Req(c).project = Null
    BY <2>1 DEF UpdateWrite, TypeInv, Tables, Keeps
  <2>2. CASE Req(c).project # Null
    <3>1. Req(c).project \in Projects BY <1>1, <2>2, RequestShape DEF Req
    <3>2. report' = [report EXCEPT ![r].project = Req(c).project]
      BY <2>2 DEF UpdateWrite, Id
    <3> HIDE DEF r
    <3> QED BY <1>1, <1>4, <3>1, <3>2 DEF TypeInv, Tables, Keeps
  <2> QED BY <2>1, <2>2
<1>6. children' \in [Reports -> SUBSET Rows] /\ \A x \in Reports : IsFiniteSet(children'[x])
  <2>1. CASE Req(c).lines = Null
    BY <2>1 DEF UpdateWrite, TypeInv, Tables, RowsFinite
  <2>2. CASE Req(c).lines # Null
    <3>1. Req(c).lines \in SUBSET Lines /\ IsFiniteSet(Req(c).lines)
      BY <1>1, <2>2, RequestShape DEF Req
    <3>2. RowsOf(c, Req(c).lines) \in SUBSET Rows /\ IsFiniteSet(RowsOf(c, Req(c).lines))
      BY <3>1, RowsOfShape
    <3>3. PICK new : new = (children[r] \ call[c].rows) \cup RowsOf(c, Req(c).lines) OBVIOUS
    <3>4. children' = [children EXCEPT ![r] = new]
      BY <2>2, <3>3 DEF UpdateWrite, Id
    <3>5. IsFiniteSet(children[r] \ call[c].rows)
      BY <1>1, FS_Difference DEF TypeInv, RowsFinite
    <3>6. new \in SUBSET Rows /\ IsFiniteSet(new)
      BY <1>1, <3>2, <3>3, <3>5, FS_Union DEF TypeInv, Tables
    <3> HIDE DEF r
    <3> QED BY <3>4, <3>6 DEF TypeInv, Tables, RowsFinite
  <2> QED BY <2>1, <2>2
<1>7. Tables' /\ Ledger' /\ RowsFinite' /\ Rest'
  BY <1>3, <1>5, <1>6 DEF TypeInv, Tables, Ledger, RowsFinite, Rest
<1>8. StateOK(call'[c]) /\ RetryOK(call'[c])
  BY <1>1, <1>2 DEF StateOK, RetryOK, SameWork, Live, Stages, Finalizing
<1>9. CallsOK' BY <1>2, <1>8, CallsKept DEF TypeInv
<1>10. AboutOK'
  <2>1. report[r].status # "NONE" BY <1>4 DEF Statuses
  <2>2. report'[r].status # "NONE" BY <1>1, <1>5, <2>1 DEF Keeps
  <2>3. call'[c].report = r BY <1>2 DEF SameWork
  <2> HIDE DEF r
  <2> QED BY <1>2, <1>5, <2>2, <2>3, AboutKept DEF TypeInv
<1> QED BY <1>7, <1>9, <1>10 DEF TypeInv

LEMMA TypeStartsCreate == ASSUME TypeInv, NEW c \in Calls, StartsCreate(c) PROVE TypeInv'
<1>1. /\ call[c].pc = "insert" /\ call[c].req.kind = "create" /\ ~call[c].retry /\ StateOK(call[c])
      /\ Live(call[c]) /\ call[c].req \in Requests
  <2>1. call[c].pc = "insert" /\ call[c].req.kind = "create" BY DEF StartsCreate, At
  <2>2. Live(call[c]) BY <2>1 DEF Live
  <2> QED BY <2>1, <2>2, CallShape DEF RetryOK, StateOK
<1>2. /\ Req(c).project \in Projects
      /\ RowsOf(c, Req(c).lines) \in SUBSET Rows /\ IsFiniteSet(RowsOf(c, Req(c).lines))
  BY <1>1, RequestShape, RowsOfShape DEF Req
<1>3. PICK r \in Unused : StartFinalization(c, r, Req(c).project, RowsOf(c, Req(c).lines))
  BY DEF StartsCreate
<1>4. r \in Reports BY DEF Unused
<1>5. PICK rows : rows = RowsOf(c, Req(c).lines) OBVIOUS
<1>6. /\ call' \in [Calls -> CallStates] /\ Only(c)
      /\ call'[c].pc = "preflight" /\ call'[c].report = r /\ call'[c].project = Req(c).project
      /\ call'[c].rows = rows /\ WalkOK(call'[c]) /\ call'[c].taken = call[c].taken
      /\ call'[c].req = call[c].req /\ call'[c].retry = call[c].retry
  BY <1>2, <1>3, <1>4, <1>5, StartShape DEF TypeInv
<1>7. UNCHANGED <<report, children, revisions, approvals, charged, stock, elsewhere, audit,
                  reportLock, rowLock, raced>>
  BY DEF StartsCreate, records, locks
<1>8. Tables' /\ Ledger' /\ RowsFinite' /\ Rest'
  BY <1>7 DEF TypeInv, Tables, Ledger, RowsFinite, Rest
<1>9. StateOK(call'[c]) /\ RetryOK(call'[c])
  BY <1>1, <1>4, <1>6, ReportsAssumption DEF StateOK, RetryOK, Live, Stages, Finalizing
<1>10. CallsOK' BY <1>6, <1>9, CallsKept DEF TypeInv
<1>11. AboutOK'
  BY <1>1, <1>6, <1>7, AboutKept DEF TypeInv, Keeps, Creating, Finalizing
<1> QED BY <1>8, <1>10, <1>11 DEF TypeInv

LEMMA TypeStartsSubmit == ASSUME TypeInv, NEW c \in Calls, StartsSubmit(c) PROVE TypeInv'
<1>1. /\ call[c].pc = "check" /\ call[c].req.kind = "submit" /\ ~call[c].retry /\ StateOK(call[c])
      /\ Live(call[c]) /\ call[c].report \in Reports
  <2>1. call[c].pc = "check" /\ call[c].req.kind = "submit" BY DEF StartsSubmit, At
  <2>2. Live(call[c]) BY <2>1 DEF Live
  <2> QED BY <2>1, <2>2, CallShape DEF RetryOK, StateOK
<1>2. PICK r, rows, project : r = Id(c) /\ rows = children[Id(c)] /\ project = report[Id(c)].project
  OBVIOUS
<1>3. /\ r \in Reports /\ rows \in SUBSET Rows /\ IsFiniteSet(rows) /\ project \in Projects
      /\ report[r].status = "DRAFT" /\ r = call[c].report
  <2>1. report[r] # NoReport BY <1>2 DEF StartsSubmit, NoReport
  <2> QED BY <1>1, <1>2, <2>1 DEF TypeInv, Tables, RowsFinite, Id, StartsSubmit
<1>4. StartFinalization(c, r, project, rows) BY <1>2 DEF StartsSubmit
<1>5. /\ call' \in [Calls -> CallStates] /\ Only(c)
      /\ call'[c].pc = "preflight" /\ call'[c].report = r /\ call'[c].project = project
      /\ call'[c].rows = rows /\ WalkOK(call'[c]) /\ call'[c].taken = call[c].taken
      /\ call'[c].req = call[c].req /\ call'[c].retry = call[c].retry
  BY <1>3, <1>4, StartShape DEF TypeInv
<1>6. /\ UNCHANGED <<report, children, revisions, approvals, charged, stock, elsewhere, audit,
                     rowLock, raced>>
      /\ reportLock' = [reportLock EXCEPT ![r] = c]
  BY <1>2 DEF StartsSubmit, records
<1>7. Tables' /\ Ledger' /\ RowsFinite' /\ Rest'
  BY <1>6 DEF TypeInv, Tables, Ledger, RowsFinite, Rest
<1>8. StateOK(call'[c]) /\ RetryOK(call'[c])
  BY <1>1, <1>3, <1>5, ReportsAssumption DEF StateOK, RetryOK, Live, Stages, Finalizing
<1>9. CallsOK' BY <1>5, <1>8, CallsKept DEF TypeInv
<1>10. AboutOK' BY <1>3, <1>5, <1>6, AboutKept DEF TypeInv, Keeps
<1> QED BY <1>7, <1>9, <1>10 DEF TypeInv

ReportRows == [status: Statuses, leader: Users, project: Projects, key: Keys \cup {Null}, revision: Nat]

\* A new draft: its row was unused, and no other call is about it.
LEMMA DraftShape ==
    ASSUME TypeInv, NEW c \in Calls, Drafts(c)
    PROVE  \E r \in Reports :
              /\ report[r].status = "NONE"
              /\ \A d \in Calls : call[d].report = r => call[d].pc = "done"
              /\ report' \in [Reports -> {NoReport} \cup ReportRows]
              /\ \A x \in Reports \ {r} : report'[x] = report[x] /\ children'[x] = children[x]
              /\ report'[r].status = "DRAFT" /\ report'[r].key = call[c].req.key
              /\ children' \in [Reports -> SUBSET Rows] /\ IsFiniteSet(children'[r])
              /\ \A x \in children'[r] : x.by = c
              /\ call' \in [Calls -> CallStates] /\ Only(c)
              /\ call'[c].pc = "audit" /\ call'[c].report = r /\ call'[c].req = call[c].req
              /\ call'[c].retry = call[c].retry /\ call'[c].answer = call[c].answer
              /\ call'[c].taken = call[c].taken
<1>1. /\ call[c].req.kind = "create" /\ Live(call[c]) /\ call[c].req \in Requests
  <2>1. call[c].pc = "insert" /\ call[c].req.kind = "create" BY DEF Drafts, At
  <2>2. Live(call[c]) BY <2>1 DEF Live
  <2> QED BY <2>1, <2>2, CallShape
<1>2. /\ RowsOf(c, Req(c).lines) \in SUBSET Rows /\ IsFiniteSet(RowsOf(c, Req(c).lines))
      /\ \A x \in RowsOf(c, Req(c).lines) : x.by = c
  BY <1>1, RequestShape, RowsOfShape DEF Req
<1> DEFINE row == [status |-> "DRAFT", leader |-> Req(c).user, project |-> Req(c).project,
                   key |-> Req(c).key, revision |-> 0]
<1>3. row \in ReportRows BY <1>1, RequestShape DEF Req, ReportRows, Statuses
<1>4. row.status = "DRAFT" /\ row.key = call[c].req.key BY DEF Req
<1>5. PICK r \in Unused :
          /\ report' = [report EXCEPT ![r] = row]
          /\ children' = [children EXCEPT ![r] = RowsOf(c, Req(c).lines)]
          /\ call' = [call EXCEPT ![c].report = r, ![c].pc = "audit"]
  BY DEF Drafts
<1>6. /\ r \in Reports /\ report[r].status = "NONE"
      /\ \A d \in Calls : call[d].report = r => call[d].pc = "done"
  BY <1>5 DEF Unused
<1> HIDE DEF row
<1>7. /\ report' \in [Reports -> {NoReport} \cup ReportRows] /\ report'[r] = row
      /\ \A x \in Reports \ {r} : report'[x] = report[x] /\ children'[x] = children[x]
  BY <1>3, <1>5, <1>6 DEF TypeInv, Tables, ReportRows
<1>8. children' \in [Reports -> SUBSET Rows] /\ children'[r] = RowsOf(c, Req(c).lines)
  BY <1>2, <1>5, <1>6 DEF TypeInv, Tables
<1>9. /\ call' \in [Calls -> CallStates] /\ Only(c)
      /\ call'[c].pc = "audit" /\ call'[c].report = r /\ call'[c].req = call[c].req
      /\ call'[c].retry = call[c].retry /\ call'[c].answer = call[c].answer
      /\ call'[c].taken = call[c].taken
  <2> DEFINE t == [call[c] EXCEPT !.report = r, !.pc = "audit"]
  <2>1. call \in [Calls -> CallStates] BY DEF TypeInv, CallsOK
  <2>2. t \in CallStates BY <1>6, <2>1 DEF CallStates, CallSteps
  <2>3. /\ t.pc = "audit" /\ t.report = r /\ t.req = call[c].req /\ t.retry = call[c].retry
        /\ t.answer = call[c].answer /\ t.taken = call[c].taken
    BY <2>1 DEF CallStates
  <2>4. call' = [call EXCEPT ![c] = t] BY <1>5, <2>1
  <2> HIDE DEF t
  <2> QED BY <2>1, <2>2, <2>3, <2>4 DEF Only
<1> QED BY <1>2, <1>4, <1>6, <1>7, <1>8, <1>9

LEMMA TypeDrafts == ASSUME TypeInv, NEW c \in Calls, Drafts(c) PROVE TypeInv'
<1>1. /\ call[c].pc = "insert" /\ call[c].req.kind = "create" /\ ~call[c].retry /\ StateOK(call[c])
      /\ Live(call[c])
  <2>1. call[c].pc = "insert" /\ call[c].req.kind = "create" BY DEF Drafts, At
  <2>2. Live(call[c]) BY <2>1 DEF Live
  <2> QED BY <2>1, <2>2, CallShape DEF RetryOK
<1>2. PICK r \in Reports :
              /\ report' \in [Reports -> {NoReport} \cup ReportRows]
              /\ \A x \in Reports \ {r} : report'[x] = report[x] /\ children'[x] = children[x]
              /\ report'[r].status = "DRAFT"
              /\ children' \in [Reports -> SUBSET Rows] /\ IsFiniteSet(children'[r])
              /\ call' \in [Calls -> CallStates] /\ Only(c)
              /\ call'[c].pc = "audit" /\ call'[c].report = r /\ call'[c].req = call[c].req
              /\ call'[c].retry = call[c].retry /\ call'[c].taken = call[c].taken
  BY DraftShape
<1>3. UNCHANGED <<revisions, approvals, charged, stock, elsewhere, audit, reportLock, rowLock, raced>>
  BY DEF Drafts, locks
<1>4. Tables' /\ Ledger' /\ RowsFinite' /\ Rest'
  BY <1>2, <1>3 DEF TypeInv, Tables, Ledger, RowsFinite, Rest, ReportRows
<1>5. StateOK(call'[c]) /\ RetryOK(call'[c])
  BY <1>1, <1>2, ReportsAssumption DEF StateOK, RetryOK, Live, Stages, Finalizing
<1>6. CallsOK' BY <1>2, <1>5, CallsKept DEF TypeInv
<1>7. Keeps BY <1>2 DEF Keeps
<1>8. AboutOK' BY <1>2, <1>7, AboutKept DEF TypeInv
<1> QED BY <1>4, <1>6, <1>8 DEF TypeInv

LEMMA TypeReview ==
    ASSUME TypeInv, NEW c \in Calls, ReviewDecide(c), UNCHANGED raced
    PROVE  TypeInv'
<1>1. /\ call[c].pc = "decide" /\ call[c].req.kind = "review" /\ ~call[c].retry /\ StateOK(call[c])
      /\ Live(call[c]) /\ call[c].report \in Reports /\ call[c].req \in Requests
  <2>1. call[c].pc = "decide" /\ call[c].req.kind = "review" BY DEF ReviewDecide, At
  <2>2. Live(call[c]) BY <2>1 DEF Live
  <2> QED BY <2>1, <2>2, CallShape DEF RetryOK, StateOK
<1>2. PICK r, action : r = call[c].report /\ action = call[c].req.action OBVIOUS
<1>3. action \in {"APPROVED", "REJECTED"} /\ call[c].req.user \in Users
  BY <1>1, <1>2, RequestShape
<1>4. /\ report[r] \in ReportRows /\ r \in Reports
  BY <1>1, <1>2, ReportsAssumption DEF TypeInv, Tables, AboutOK, Creating, Finalizing, NoReport, ReportRows
<1>5. /\ report' = [report EXCEPT ![r].status = action]
      /\ audit' = audit \cup {[call |-> c, action |-> action, report |-> r]}
      /\ approvals' = approvals \cup
            {[call |-> c, report |-> r, reviewer |-> call[c].req.user, action |-> action]}
      /\ Reply(c, "ok")
      /\ UNCHANGED <<children, revisions, charged, stock, elsewhere, reportLock, rowLock>>
  BY <1>2 DEF ReviewDecide, Log, Id, Req, locks
<1>6. /\ call' \in [Calls -> CallStates] /\ Only(c) /\ SameWork(call[c], call'[c])
      /\ call'[c].pc = "done"
  BY <1>5, ReplyShape DEF TypeInv, Answers
<1>7. report' \in [Reports -> {NoReport} \cup ReportRows] /\ Keeps
  BY <1>3, <1>4, <1>5 DEF TypeInv, Tables, Keeps, ReportRows, Statuses
<1>8. Tables' /\ Ledger' /\ RowsFinite' /\ Rest'
  BY <1>3, <1>4, <1>5, <1>7 DEF TypeInv, Tables, Ledger, RowsFinite, Rest, ReportRows, Actions
<1>9. StateOK(call'[c]) /\ RetryOK(call'[c])
  BY <1>1, <1>6 DEF StateOK, RetryOK, SameWork, Live, Finalizing
<1>10. CallsOK' BY <1>6, <1>9, CallsKept DEF TypeInv
<1>11. AboutOK' BY <1>6, <1>7, AboutKept DEF TypeInv, Live
<1> QED BY <1>8, <1>10, <1>11 DEF TypeInv

LEMMA TypeBegin == ASSUME TypeInv, NEW c \in Calls, Begin(c) PROVE TypeInv'
<1>1. /\ call' \in [Calls -> CallStates] /\ Only(c)
      /\ call[c].pc = "free" /\ call'[c].pc = "check"
      /\ call'[c].req \in Requests /\ call'[c].report \in Reports \cup {Null}
      /\ call'[c].req.kind = "create" => call'[c].report = Null
      /\ call'[c].req.kind # "create" => /\ call'[c].report \in Reports
                                         /\ report[call'[c].report].status # "NONE"
      /\ call'[c].retry => call'[c].req.kind = "create" /\ call'[c].req.key # Null
      /\ call'[c].answer = call[c].answer /\ call'[c].taken = call[c].taken
      /\ raced' = raced \cup {x \in {call'[c].report} \ {Null} : \E d \in Running : Id(d) = x}
  BY BeginShape DEF TypeInv
<1>2. UNCHANGED <<report, children, revisions, approvals, charged, stock, elsewhere, audit,
                  reportLock, rowLock>>
  BY DEF Begin, records, locks
<1>3. Tables' /\ Ledger' /\ RowsFinite'
  BY <1>2 DEF TypeInv, Tables, Ledger, RowsFinite
<1>4. Rest' BY <1>1, <1>2 DEF TypeInv, Rest
<1>5. call'[c].req.kind \in {"create", "update", "submit", "review"}
  BY <1>1, RequestShape
<1>6. StateOK(call'[c])
  BY <1>1, <1>5, CallShape, ReportsAssumption DEF StateOK, Live, Stages, Finalizing
<1>7. RetryOK(call'[c])
  BY <1>1, CallShape DEF RetryOK, StateOK
<1>8. CallsOK' BY <1>1, <1>6, <1>7, CallsKept DEF TypeInv
<1>9. AboutOK' BY <1>1, <1>2, AboutKept DEF TypeInv, Keeps
<1> QED BY <1>3, <1>4, <1>8, <1>9 DEF TypeInv

LEMMA TypeElsewhere ==
    ASSUME TypeInv, NEW b \in Balances, Elsewhere(b), UNCHANGED raced
    PROVE  TypeInv'
<1>1. PICK delta \in {-1, 1} :
          /\ stock' = [stock EXCEPT ![b] = @ + delta]
          /\ elsewhere' = [elsewhere EXCEPT ![b] = @ + delta]
  BY DEF Elsewhere
<1>2. UNCHANGED <<report, children, revisions, approvals, charged, audit, reportLock, rowLock, call>>
  BY DEF Elsewhere, records, locks
<1>3. Ledger' BY <1>1, <1>2 DEF TypeInv, Ledger
<1>4. Tables' /\ RowsFinite' /\ Rest' BY <1>2 DEF TypeInv, Tables, RowsFinite, Rest
<1>5. CallsOK' BY <1>2 DEF TypeInv, CallsOK
<1>6. AboutOK' BY <1>2 DEF TypeInv, AboutOK
<1> QED BY <1>3, <1>4, <1>5, <1>6 DEF TypeInv

LEMMA TypeInit == ASSUME Init PROVE TypeInv
<1>1. ASSUME NEW r \in DOMAIN Existing
      PROVE  /\ [status |-> Existing[r].status, leader |-> Existing[r].leader,
                 project |-> Existing[r].project, key |-> Null, revision |-> 0] \in ReportRows
             /\ RowsOf(Null, Existing[r].lines) \in SUBSET Rows
             /\ IsFiniteSet(RowsOf(Null, Existing[r].lines))
             /\ \A x \in RowsOf(Null, Existing[r].lines) : x.by = Null
  BY ReportsAssumption, RowsOfShape DEF ReportRows
<1>2. Tables BY <1>1 DEF Init, Tables, ReportRows
<1>3. Ledger BY ReportsAssumption DEF Init, Ledger
<1>4. Rest BY DEF Init, Rest
<1>5. RowsFinite BY <1>1, FS_EmptySet DEF Init, RowsFinite
<1> DEFINE t == [req |-> Null, pc |-> "free", report |-> Null, project |-> Null, rows |-> {},
                 todo |-> {}, row |-> Null, taken |-> {}, short |-> FALSE, answer |-> Null,
                 retry |-> FALSE]
<1>6. t \in CallStates BY DEF CallStates, CallSteps, Answers
<1>7. t.pc = "free" /\ t.answer = Null /\ t.retry = FALSE /\ t.taken = {} OBVIOUS
<1>8. call = [c \in Calls |-> t] BY DEF Init
<1> HIDE DEF t
<1>9. CallsOK BY <1>6, <1>7, <1>8 DEF CallsOK, StateOK, RetryOK, Live, Finalizing
<1>10. AboutOK BY <1>7, <1>8 DEF AboutOK, Live
<1> QED BY <1>2, <1>3, <1>4, <1>5, <1>9, <1>10 DEF TypeInv

----------------------------------------------------------------------------
(* What a finalization writes. *)

\* The movement of material m of the first revision of report r.
Charge(r, project, rows, m) ==
    [report |-> r, revision |-> 1, project |-> project, material |-> m, qty |-> Total(rows, m)]

NewCharges(r, project, rows) == {Charge(r, project, rows, m) : m \in Consumable(rows)}

Ready(c) == call[c].pc = "consume" /\ call[c].todo = {}

\* A report that is being finalized has never been.
LEMMA Fresh ==
    ASSUME Inv, NEW c \in Calls, call[c].pc \in {"preflight", "consume"}
    PROVE  /\ call[c].report \in Reports /\ ~Finalized(call[c].report) /\ Uncharged(call[c].report)
           /\ call[c].req.kind \in {"create", "submit"} /\ call[c].req \in Requests
           /\ call[c].project \in Projects /\ call[c].rows \in SUBSET Rows /\ IsFiniteSet(call[c].rows)
<1>1. /\ call[c].req \in Requests /\ call[c].req.kind \in {"create", "submit"}
      /\ call[c].report \in Reports /\ call[c].project \in Projects
      /\ call[c].rows \in SUBSET Rows /\ IsFiniteSet(call[c].rows)
  <2>1. Live(call[c]) /\ Finalizing(call[c]) /\ TypeInv BY DEF Live, Finalizing, Inv
  <2>2. StateOK(call[c]) /\ call[c] \in CallStates /\ call[c].req \in Requests BY <2>1, CallShape
  <2>3. call[c].req.kind \in {"create", "update", "submit", "review"} BY <2>2, RequestShape
  <2>4. call[c].pc \in Stages(call[c].req.kind) BY <2>1, <2>2 DEF StateOK
  <2>5. call[c].req.kind \in {"create", "submit"} BY <2>3, <2>4 DEF Stages
  <2>6. call[c].report # Null BY <2>1, <2>2, <2>5 DEF StateOK
  <2> QED BY <2>1, <2>2, <2>5, <2>6 DEF StateOK, WalkOK, CallStates
<1>2. report[call[c].report].status \in {"NONE", "DRAFT"}
  BY <1>1 DEF Inv, Creates, ReportLocks, Creating, Submitting, Finalizing
<1>3. ~Finalized(call[c].report) BY <1>2 DEF Finalized
<1> QED BY <1>1, <1>3 DEF Inv, Charges

\* No movement of a report that is being finalized has been recorded: it consumes all lines.
LEMMA AllUnrecorded ==
    ASSUME Inv, NEW c \in Calls, call[c].pc \in {"preflight", "consume"}
    PROVE  NextRevision(Id(c)) = 1 /\ Unrecorded(c) = Consumable(call[c].rows)
<1>1. Uncharged(Id(c)) BY Fresh DEF Id
<1>2. NextRevision(Id(c)) = 1 BY <1>1, FirstRevision DEF Uncharged
<1>3. \A m : ~Recorded(c, NextRevision(Id(c)), m) BY <1>1 DEF Recorded, Uncharged, Mine
<1> QED BY <1>2, <1>3 DEF Unrecorded

\* The walk over the lines after the step to the next one.
LEMMA WalkGoesOn ==
    ASSUME TypeInv, NEW c \in Calls, Finalizing(call[c]), NEW m, m \in call[c].todo,
           \A n \in call[c].todo : m <= n, call'[c].todo = call[c].todo \ {m},
           call'[c].row \in Found(c, call[c].project, call'[c].todo), SameReport(call[c], call'[c])
    PROVE  /\ WalkOK(call'[c]) /\ Held(call'[c]) = Held(call[c]) \cup {m} /\ m \in Consumable(call[c].rows)
           /\ call[c].row # Null => call[c].row.project = call[c].project /\ call[c].row.material = m
<1>1. WalkOK(call[c]) /\ call[c] \in CallStates BY CallShape DEF StateOK
<1>2. /\ Consumable(call[c].rows) \subseteq Nat /\ call[c].todo \subseteq Consumable(call[c].rows)
      /\ call[c].todo \subseteq Nat
  BY <1>1, ConsumableShape DEF WalkOK, CallStates
<1>3. /\ call'[c].project = call[c].project /\ call'[c].rows = call[c].rows
  BY DEF SameReport
<1>4. Held(call'[c]) = Held(call[c]) \cup {m} BY <1>2, <1>3 DEF Held
<1>5. ASSUME NEW a \in Held(call'[c]), NEW n \in call'[c].todo PROVE a < n
  <2>1. a \in Nat /\ n \in Nat /\ n \in call[c].todo /\ n # m /\ m \in Nat
    BY <1>2, <1>3 DEF Held
  <2>2. CASE a = m
    BY <2>1, <2>2
  <2>3. CASE a # m
    BY <1>1, <1>4, <2>1, <2>3 DEF WalkOK
  <2> QED BY <2>2, <2>3
<1>6. call'[c].row # Null => /\ call'[c].row.project = call'[c].project
                             /\ call'[c].row.material \in call'[c].todo
                             /\ \A n \in call'[c].todo : call'[c].row.material <= n
  <2>1. call'[c].todo \in SUBSET Nat BY <1>2
  <2> QED BY <1>3, <2>1, FoundShape
<1>7. call'[c].todo \subseteq Consumable(call'[c].rows) BY <1>2, <1>3
<1>8. WalkOK(call'[c]) BY <1>1, <1>3, <1>5, <1>6, <1>7 DEF WalkOK
<1>9. call[c].row # Null => call[c].row.project = call[c].project /\ call[c].row.material = m
  BY <1>1, <1>2 DEF WalkOK
<1> QED BY <1>2, <1>4, <1>8, <1>9

LEMMA TypeGoesOn ==
    ASSUME Inv, NEW c \in Calls, GoesOn(c), UNCHANGED raced
    PROVE  TypeInv'
<1>1. TypeInv /\ CallsOK BY DEF Inv, TypeInv
<1>2. /\ call' \in [Calls -> CallStates] /\ Only(c) /\ SameReport(call[c], call'[c])
      /\ Finalizing(call[c]) /\ Finalizing(call'[c]) /\ call[c].pc \in {"preflight", "consume"}
      /\ UNCHANGED <<report, children, revisions, approvals, charged, stock, elsewhere, audit, reportLock>>
  BY <1>1, GoesOnShape
<1>3. /\ StateOK(call[c]) /\ RetryOK(call[c]) /\ Live(call[c]) /\ WalkOK(call[c])
      /\ call[c] \in CallStates /\ call[c].req \in Requests
  BY <1>1, <1>2, CallShape DEF Live, StateOK
<1>4. WalkOK(call'[c]) /\ (call'[c].pc = "preflight" => call'[c].taken = {})
      /\ (call'[c].pc = "consume" => ~call'[c].short /\ TakenOK(call'[c]))
      /\ (call'[c].pc = "consume" => "consume" \in Stages(call[c].req.kind))
      /\ (call'[c].pc = "preflight" => call[c].pc = "preflight")
  <2>0. call[c].req.kind \in {"create", "submit"} BY <1>2, Fresh
  <2>1. "consume" \in Stages(call[c].req.kind) BY <2>0 DEF Stages
  <2>2. CASE Preflight(c)
    <3>1. PICK m : m = Line(c) OBVIOUS
    <3>2. /\ call[c].pc = "preflight" /\ call'[c].pc = "preflight"
          /\ m \in call[c].todo /\ \A n \in call[c].todo : m <= n
          /\ call'[c].todo = call[c].todo \ {m}
          /\ call'[c].row \in Found(c, call[c].project, call'[c].todo)
          /\ call'[c].taken = call[c].taken
      BY <1>1, <2>2, <3>1, PreflightShape
    <3>3. WalkOK(call'[c]) BY <1>1, <1>2, <3>2, WalkGoesOn
    <3>4. call'[c].taken = {} BY <1>3, <3>2 DEF StateOK
    <3> QED BY <2>1, <3>2, <3>3, <3>4
  <2>3. CASE StartConsuming(c)
    <3>1. /\ call[c].pc = "preflight" /\ call'[c].pc = "consume" /\ ~call'[c].short
          /\ call'[c].todo = Consumable(call[c].rows)
          /\ call'[c].row \in Found(c, call[c].project, call'[c].todo)
          /\ call'[c].taken = call[c].taken
      BY <1>1, <1>2, <2>3, StartConsumingShape, AllUnrecorded, Zenon
    <3>2. call'[c].taken = {} BY <1>3, <3>1 DEF StateOK
    <3>3. call'[c].project = call[c].project /\ call'[c].rows = call[c].rows
      BY <1>2 DEF SameReport
    <3>4. Held(call'[c]) = {} BY <3>1, <3>3 DEF Held
    <3>5. TakenOK(call'[c]) BY <3>2, <3>4 DEF TakenOK
    <3>6. call'[c].todo \in SUBSET Nat BY <1>3, <3>1, ConsumableShape DEF CallStates
    <3>7. call'[c].row # Null => /\ call'[c].row.project = call'[c].project
                                 /\ call'[c].row.material \in call'[c].todo
                                 /\ \A n \in call'[c].todo : call'[c].row.material <= n
      BY <3>1, <3>3, <3>6, FoundShape
    <3>8. WalkOK(call'[c]) BY <1>3, <3>1, <3>3, <3>4, <3>7 DEF WalkOK
    <3> QED BY <2>1, <3>1, <3>5, <3>8
  <2>4. CASE ConsumeRow(c)
    <3>1. PICK m : m = Line(c) OBVIOUS
    <3>2. PICK b : b = call[c].row OBVIOUS
    <3>3. /\ call[c].pc = "consume" /\ call'[c].pc = "consume"
          /\ m \in call[c].todo /\ \A n \in call[c].todo : m <= n
          /\ call'[c].todo = call[c].todo \ {m}
          /\ call'[c].row \in Found(c, call[c].project, call'[c].todo)
          /\ b \in Balances /\ call'[c].taken = call[c].taken \cup {b}
          /\ call'[c].short = call[c].short
      BY <1>1, <2>4, <3>1, <3>2, ConsumeShape
    <3>4. b # Null BY <3>3, ReportsAssumption
    <3>5. /\ WalkOK(call'[c]) /\ Held(call'[c]) = Held(call[c]) \cup {m}
          /\ b.project = call[c].project /\ b.material = m
      BY <1>1, <1>2, <3>2, <3>3, <3>4, WalkGoesOn
    <3>6. ~call[c].short /\ TakenOK(call[c]) BY <1>3, <3>3 DEF StateOK
    <3>7. ~call'[c].short BY <3>3, <3>6, Zenon
    <3>8. m \notin Held(call[c]) BY <3>3 DEF Held
    <3>9. call'[c].project = call[c].project BY <1>2 DEF SameReport
    <3>10. TakenOK(call'[c]) BY <3>3, <3>5, <3>6, <3>8, <3>9 DEF TakenOK
    <3> QED BY <2>1, <3>3, <3>5, <3>7, <3>10
  <2> QED BY <2>2, <2>3, <2>4 DEF GoesOn
<1>5. StateOK(call'[c]) /\ RetryOK(call'[c])
  BY <1>2, <1>3, <1>4 DEF StateOK, RetryOK, Live, SameReport, Finalizing
<1>6. rowLock' \in [Balances -> Calls \cup {Null}]
  <2>1. rowLock' = rowLock \/ \E b : Holding(c, b)
    BY DEF GoesOn, Preflight, StartConsuming, ConsumeRow, locks
  <2> QED BY <1>1, <2>1 DEF TypeInv, Rest, Holding
<1>7. Tables' /\ Ledger' /\ RowsFinite' /\ Rest'
  BY <1>1, <1>2, <1>6 DEF TypeInv, Tables, Ledger, RowsFinite, Rest
<1>8. CallsOK' BY <1>1, <1>2, <1>5, CallsKept
<1>9. AboutOK'
  <2>1. Live(call'[c]) /\ call'[c].report # Null /\ ~Creating(call'[c])
           => report'[call'[c].report].status # "NONE"
    BY <1>1, <1>2, <1>3 DEF TypeInv, AboutOK, Creating, SameReport
  <2> QED BY <1>1, <1>2, <2>1, AboutKept DEF TypeInv, Keeps
<1> QED BY <1>7, <1>8, <1>9 DEF TypeInv

\* What the finalization of call c, of report r, does.
Finalizes(c, r, p, rows) ==
    /\ r = call[c].report /\ p = call[c].project /\ rows = call[c].rows
    /\ r \in Reports /\ p \in Projects /\ rows \in SUBSET Rows /\ IsFiniteSet(rows)
    /\ Ready(c) /\ Uncharged(r) /\ ~Finalized(r)
    /\ charged' = charged \cup NewCharges(r, p, rows)
    /\ TakenOK(call[c]) /\ {b.material : b \in call[c].taken} = Consumable(rows)
    /\ stock' = [b \in Balances |-> IF b \in call[c].taken
                                    THEN stock[b] - Total(rows, b.material) ELSE stock[b]]
    /\ revisions' = [revisions EXCEPT ![r] = {[number |-> 1, project |-> p, rows |-> rows]}]
    /\ report' \in [Reports -> {NoReport} \cup ReportRows]
    /\ \A x \in Reports \ {r} : report'[x] = report[x] /\ children'[x] = children[x]
    /\ report'[r].status = "SUBMITTED" /\ report'[r].revision = 1 /\ report'[r].project = p
    /\ report'[r].key = IF call[c].req.kind = "create" THEN call[c].req.key ELSE report[r].key
    /\ children' \in [Reports -> SUBSET Rows] /\ children'[r] = rows
    /\ audit' = audit \cup {[call |-> c, action |-> "SUBMITTED", report |-> r]}
    /\ Unlock(c) /\ UNCHANGED <<approvals, elsewhere>>
    /\ call' \in [Calls -> CallStates] /\ Only(c) /\ SameWork(call[c], call'[c])
    /\ call'[c].pc = "done" /\ call'[c].answer = "ok"

LEMMA FinalizeShape ==
    ASSUME Inv, NEW c \in Calls, Finalize(c)
    PROVE  \E r, p, rows : Finalizes(c, r, p, rows)
<1>0. PICK r, p, rows : r = call[c].report /\ p = call[c].project /\ rows = call[c].rows OBVIOUS
<1>1. /\ Ready(c) /\ call[c].pc = "consume" /\ call[c].todo = {} /\ Finalizing(call[c])
  BY DEF Finalize, Ready, Finalizing
<1>2. /\ r \in Reports /\ p \in Projects /\ rows \in SUBSET Rows /\ IsFiniteSet(rows)
      /\ Uncharged(r) /\ ~Finalized(r) /\ call[c].req \in Requests
      /\ call[c].req.kind \in {"create", "submit"}
  BY <1>0, <1>1, Fresh
<1>3. revisions[r] = {} /\ NextRevision(r) = 1
  BY <1>0, <1>1, <1>2, AllUnrecorded DEF Uncharged, Id
<1>4. TakenOK(call[c]) BY <1>1, CallShape DEF StateOK, Inv
<1>5. {b.material : b \in call[c].taken} = Consumable(rows)
  <2>1. Held(call[c]) = Consumable(rows) BY <1>0, <1>1 DEF Held
  <2> QED BY <1>4, <2>1 DEF TakenOK
<1>6. \A m : Needed(c, m) = Total(rows, m) /\ Movement(c, 1, m) = Charge(r, p, rows, m)
  BY <1>0 DEF Needed, Movement, Charge, Id
<1>7. /\ charged' = charged \cup {Movement(c, 1, b.material) : b \in call[c].taken}
      /\ stock' = [b \in Balances |-> IF b \in call[c].taken
                                      THEN stock[b] - Needed(c, b.material) ELSE stock[b]]
      /\ revisions' = [revisions EXCEPT ![r] = @ \cup {[number |-> 1, project |-> p, rows |-> rows]}]
      /\ report' = IF Req(c).kind = "create"
             THEN [report EXCEPT ![r] =
                     [status |-> "SUBMITTED", leader |-> Req(c).user,
                      project |-> Req(c).project, key |-> Req(c).key, revision |-> 1]]
             ELSE [report EXCEPT ![r].status = "SUBMITTED", ![r].revision = 1]
      /\ children' = IF Req(c).kind = "create" THEN [children EXCEPT ![r] = rows] ELSE children
  BY <1>0, <1>3 DEF Finalize, Id
<1>8. /\ Unlock(c) /\ Reply(c, "ok") /\ UNCHANGED <<approvals, elsewhere>>
      /\ audit' = audit \cup {[call |-> c, action |-> "SUBMITTED", report |-> r]}
  BY <1>0 DEF Finalize, Fail, Log, Id
<1>9. charged' = charged \cup NewCharges(r, p, rows)
  <2>1. {Movement(c, 1, b.material) : b \in call[c].taken} =
           {Charge(r, p, rows, b.material) : b \in call[c].taken}
    BY <1>6
  <2>2. {Charge(r, p, rows, b.material) : b \in call[c].taken} = NewCharges(r, p, rows)
    <3>1. \A b \in call[c].taken : b.material \in Consumable(rows) BY <1>5
    <3>2. \A m \in Consumable(rows) : \E b \in call[c].taken : m = b.material BY <1>5
    <3> QED BY <3>1, <3>2 DEF NewCharges
  <2> QED BY <1>7, <2>1, <2>2
<1>10. stock' = [b \in Balances |-> IF b \in call[c].taken
                                   THEN stock[b] - Total(rows, b.material) ELSE stock[b]]
  BY <1>6, <1>7
<1>11. revisions' = [revisions EXCEPT ![r] = {[number |-> 1, project |-> p, rows |-> rows]}]
  BY <1>2, <1>3, <1>7 DEF Inv, TypeInv, Tables
<1>12. /\ report' \in [Reports -> {NoReport} \cup ReportRows]
       /\ \A x \in Reports \ {r} : report'[x] = report[x] /\ children'[x] = children[x]
       /\ report'[r].status = "SUBMITTED" /\ report'[r].revision = 1 /\ report'[r].project = p
       /\ report'[r].key = IF call[c].req.kind = "create" THEN call[c].req.key ELSE report[r].key
       /\ children' \in [Reports -> SUBSET Rows] /\ children'[r] = rows
  <2>1. Tables BY DEF Inv, TypeInv
  <2>2. CASE call[c].req.kind = "create"
    <3>1. Creating(call[c]) BY <1>1, <2>2 DEF Creating
    <3>2. p = call[c].req.project BY <1>0, <3>1 DEF Inv, Creates
    <3> DEFINE row == [status |-> "SUBMITTED", leader |-> Req(c).user,
                       project |-> Req(c).project, key |-> Req(c).key, revision |-> 1]
    <3>3. /\ row \in ReportRows /\ row.status = "SUBMITTED" /\ row.revision = 1 /\ row.project = p
          /\ row.key = call[c].req.key
      BY <1>2, <2>2, <3>2, RequestShape DEF ReportRows, Statuses, Req
    <3>4. report' = [report EXCEPT ![r] = row] /\ children' = [children EXCEPT ![r] = rows]
      BY <1>7, <2>2 DEF Req
    <3> HIDE DEF row
    <3> QED BY <1>2, <2>1, <2>2, <3>3, <3>4 DEF Tables, ReportRows
  <2>3. CASE call[c].req.kind = "submit"
    <3>1. Submitting(call[c]) BY <1>1, <2>3 DEF Submitting
    <3>2. report[r].status = "DRAFT" /\ rows = children[r] /\ p = report[r].project
      BY <1>0, <3>1 DEF Inv, ReportLocks
    <3>3. report[r] \in ReportRows
      BY <1>2, <2>1, <3>2 DEF Tables, ReportRows, NoReport
    <3>4. report' = [report EXCEPT ![r].status = "SUBMITTED", ![r].revision = 1] /\ children' = children
      BY <1>7, <2>3 DEF Req
    <3> DEFINE row == [report[r] EXCEPT !.status = "SUBMITTED", !.revision = 1]
    <3>5. /\ row \in ReportRows /\ row.status = "SUBMITTED" /\ row.revision = 1 /\ row.project = p
          /\ row.key = report[r].key
      BY <3>2, <3>3 DEF ReportRows, Statuses
    <3>6. report' = [report EXCEPT ![r] = row] BY <1>2, <2>1, <3>4 DEF Tables
    <3> HIDE DEF row
    <3> QED BY <1>2, <2>1, <2>3, <3>2, <3>4, <3>5, <3>6 DEF Tables, ReportRows
  <2> QED BY <1>2, <2>2, <2>3
<1>13. /\ call' \in [Calls -> CallStates] /\ Only(c) /\ SameWork(call[c], call'[c])
       /\ call'[c].pc = "done" /\ call'[c].answer = "ok"
  BY <1>8, ReplyShape DEF Inv, TypeInv, Answers
<1>14. Finalizes(c, r, p, rows)
  BY <1>0, <1>1, <1>2, <1>4, <1>5, <1>8, <1>9, <1>10, <1>11, <1>12, <1>13 DEF Finalizes
<1> QED BY <1>14

\* The movements a finalization writes: one per consumable material, none of them there yet.
LEMMA ChargesShape ==
    ASSUME NEW r \in Reports, NEW p \in Projects, NEW rows \in SUBSET Rows, IsFiniteSet(rows)
    PROVE  /\ NewCharges(r, p, rows) \subseteq [report: Reports, revision: Nat, project: Projects,
                                               material: Materials, qty: Int]
           /\ IsFiniteSet(NewCharges(r, p, rows))
<1>1. Consumable(rows) \subseteq Materials /\ IsFiniteSet(Consumable(rows)) BY ConsumableShape
<1>2. \A m \in Consumable(rows) : Total(rows, m) \in Int BY TotalIsInt
<1>3. \A m \in Consumable(rows) : Charge(r, p, rows, m) \in
          [report: Reports, revision: Nat, project: Projects, material: Materials, qty: Int]
  BY <1>1, <1>2 DEF Charge
<1> DEFINE f == [m \in Consumable(rows) |-> Charge(r, p, rows, m)]
<1>4. NewCharges(r, p, rows) = {f[m] : m \in Consumable(rows)} BY DEF NewCharges
<1>5. f = [m \in Consumable(rows) |-> f[m]] OBVIOUS
<1>6. IsFiniteSet({f[m] : m \in Consumable(rows)})
  <2> HIDE DEF f
  <2> QED BY <1>1, <1>5, ImageIsFinite
<1>7. NewCharges(r, p, rows) \subseteq [report: Reports, revision: Nat, project: Projects,
                                        material: Materials, qty: Int]
  BY <1>3 DEF NewCharges
<1> QED BY <1>4, <1>6, <1>7

LEMMA TypeFinalize ==
    ASSUME Inv, NEW c \in Calls, Finalize(c), UNCHANGED raced
    PROVE  TypeInv'
<1>2. PICK r, p, rows : Finalizes(c, r, p, rows) BY FinalizeShape
<1>3. TypeInv BY DEF Inv
<1>4. Tables' BY <1>2, <1>3 DEF TypeInv, Tables, ReportRows, Finalizes
<1>5. PICK new : new = NewCharges(r, p, rows) OBVIOUS
<1>6. /\ new \subseteq [report: Reports, revision: Nat, project: Projects,
                        material: Materials, qty: Int]
      /\ IsFiniteSet(new)
  BY <1>2, <1>5, ChargesShape DEF Finalizes
<1>7. Ledger'
  <2>1. \A m \in Materials : Total(rows, m) \in Int BY <1>2, TotalIsInt DEF Finalizes
  <2>2. \A b \in Balances : b.material \in Materials BY ReportsAssumption DEF BalanceRows
  <2>3. stock' \in [Balances -> Int] BY <1>2, <1>3, <2>1, <2>2 DEF TypeInv, Ledger, Finalizes
  <2> QED BY <1>2, <1>3, <1>5, <1>6, <2>3 DEF TypeInv, Ledger, Finalizes
<1>8. Rest' BY <1>2, <1>3, UnlockShape DEF TypeInv, Rest, Actions, Finalizes
<1>9. RowsFinite' BY <1>2, <1>3, <1>5, <1>6, FS_Union DEF TypeInv, RowsFinite, Finalizes
<1>10. StateOK(call[c]) /\ RetryOK(call[c]) /\ call[c].pc = "consume" /\ Live(call[c])
  BY <1>2, <1>3, CallShape DEF Ready, Live, Finalizes
<1>11. StateOK(call'[c]) /\ RetryOK(call'[c])
  BY <1>2, <1>10 DEF StateOK, RetryOK, SameWork, Live, Finalizing, Finalizes
<1>12. CallsOK' BY <1>2, <1>3, <1>11, CallsKept DEF TypeInv, Finalizes
<1>13. Keeps BY <1>2 DEF Keeps, Finalizes
<1>14. AboutOK' BY <1>2, <1>3, <1>13, AboutKept DEF TypeInv, Live, Finalizes
<1> QED BY <1>4, <1>7, <1>8, <1>9, <1>12, <1>14 DEF TypeInv

----------------------------------------------------------------------------
(* Locks. *)

\* A step that moves no report lock, and changes nothing of a report that is locked.
LEMMA ReportLocksStay ==
    ASSUME TypeInv, ReportLocks, NEW c \in Calls, Only(c), reportLock' = reportLock,
           Submitting(call[c]) \/ Submitting(call'[c]) =>
              /\ Submitting(call[c]) /\ Submitting(call'[c]) /\ call'[c].report = call[c].report
              /\ call'[c].rows = call[c].rows /\ call'[c].project = call[c].project,
           \A r \in Reports : reportLock[r] # Null =>
              /\ children'[r] = children[r] /\ report'[r].status = report[r].status
              /\ report'[r].project = report[r].project
    PROVE  ReportLocks'
<1>1. ASSUME NEW r \in Reports, reportLock'[r] # Null
      PROVE  Submitting(call'[reportLock'[r]]) /\ call'[reportLock'[r]].report = r
  <2>1. PICK d \in Calls : d = reportLock[r] BY <1>1 DEF TypeInv, Rest
  <2>2. Submitting(call[d]) /\ call[d].report = r BY <1>1, <2>1 DEF ReportLocks
  <2> QED BY <2>1, <2>2 DEF Only
<1>2. ASSUME NEW d \in Calls, Submitting(call'[d])
      PROVE  /\ reportLock'[call'[d].report] = d /\ report'[call'[d].report].status = "DRAFT"
             /\ call'[d].rows = children'[call'[d].report]
             /\ call'[d].project = report'[call'[d].report].project
  <2>1. /\ Submitting(call[d]) /\ call'[d].report = call[d].report
        /\ call'[d].rows = call[d].rows /\ call'[d].project = call[d].project
    BY <1>2 DEF Only
  <2>2. Live(call[d]) BY <2>1 DEF Submitting, Finalizing, Live
  <2>3. call[d].report \in Reports
    BY <2>1, <2>2, CallShape DEF StateOK, Submitting, Finalizing
  <2>4. reportLock[call[d].report] # Null BY <2>1, ReportsAssumption DEF ReportLocks
  <2> QED BY <2>1, <2>3, <2>4 DEF ReportLocks
<1> QED BY <1>1, <1>2 DEF ReportLocks

\* A step that ends a call's transaction, and changes nothing of a report another has locked.
LEMMA ReportLocksRelease ==
    ASSUME TypeInv, ReportLocks, NEW c \in Calls, Only(c), Unlock(c), call'[c].pc = "done",
           \A r \in Reports : reportLock[r] \notin {Null, c} =>
              /\ children'[r] = children[r] /\ report'[r].status = report[r].status
              /\ report'[r].project = report[r].project
    PROVE  ReportLocks'
<1>1. ASSUME NEW r \in Reports, reportLock'[r] # Null
      PROVE  Submitting(call'[reportLock'[r]]) /\ call'[reportLock'[r]].report = r
  <2>1. reportLock'[r] = reportLock[r] /\ reportLock[r] # c BY <1>1 DEF Unlock
  <2>2. PICK d \in Calls : d = reportLock[r] BY <1>1, <2>1 DEF TypeInv, Rest
  <2>3. Submitting(call[d]) /\ call[d].report = r BY <1>1, <2>1, <2>2 DEF ReportLocks
  <2> QED BY <2>1, <2>2, <2>3 DEF Only
<1>2. ASSUME NEW d \in Calls, Submitting(call'[d])
      PROVE  /\ reportLock'[call'[d].report] = d /\ report'[call'[d].report].status = "DRAFT"
             /\ call'[d].rows = children'[call'[d].report]
             /\ call'[d].project = report'[call'[d].report].project
  <2>1. d # c /\ call'[d] = call[d] BY <1>2 DEF Only, Submitting, Finalizing
  <2>2. Live(call[d]) BY <1>2, <2>1 DEF Submitting, Finalizing, Live
  <2>3. call[d].report \in Reports
    BY <1>2, <2>1, <2>2, CallShape DEF StateOK, Submitting, Finalizing
  <2>4. reportLock[call[d].report] = d /\ d # Null BY <1>2, <2>1, ReportsAssumption DEF ReportLocks
  <2> QED BY <1>2, <2>1, <2>3, <2>4 DEF ReportLocks, Unlock
<1> QED BY <1>1, <1>2 DEF ReportLocks

\* A finalization that a step is not about keeps its locks, and what they hold.
LEMMA LocksKept ==
    ASSUME TypeInv, RowLocks, NEW d \in Calls, Finalizing(call[d]), call'[d] = call[d],
           \A b \in Balances : rowLock[b] = d => rowLock'[b] = d /\ stock'[b] = stock[b]
    PROVE  LocksOf(d)'
<1>1. LocksOf(d) BY DEF RowLocks
<1>2. call[d].taken \subseteq Balances BY CallShape DEF CallStates
<1>3. Checked(call[d])' = Checked(call[d]) BY DEF Checked, Held
<1> QED BY <1>1, <1>2, <1>3 DEF LocksOf

LEMMA LockerShape ==
    ASSUME TypeInv, RowLocks, NEW b \in Balances, rowLock[b] # Null
    PROVE  /\ rowLock[b] \in Calls /\ Finalizing(call[rowLock[b]])
           /\ call[rowLock[b]].project = b.project /\ b.material \in Checked(call[rowLock[b]])
BY DEF TypeInv, Rest, RowLocks

\* A step that moves no balance lock and takes from no balance that is locked,
\* of a call that held none and has yet to lock its first.
LEMMA RowLocksStay ==
    ASSUME TypeInv, RowLocks, NEW c \in Calls, Only(c), rowLock' = rowLock, ~Finalizing(call[c]),
           Finalizing(call'[c]) => /\ call'[c].pc = "preflight" /\ Held(call'[c]) = {}
                                   /\ call'[c].taken = {},
           \A b \in Balances : rowLock[b] # Null => stock'[b] = stock[b]
    PROVE  RowLocks'
<1>1. ASSUME NEW b \in Balances, rowLock'[b] # Null
      PROVE  /\ Finalizing(call'[rowLock'[b]]) /\ call'[rowLock'[b]].project = b.project
             /\ b.material \in Checked(call'[rowLock'[b]])
  <2>1. PICK d : d = rowLock[b] OBVIOUS
  <2>2. /\ d \in Calls /\ Finalizing(call[d]) /\ call[d].project = b.project
        /\ b.material \in Checked(call[d])
    BY <1>1, <2>1, LockerShape
  <2>3. call'[d] = call[d] BY <2>2 DEF Only
  <2> QED BY <2>1, <2>2, <2>3
<1>2. ASSUME NEW d \in Calls, Finalizing(call'[d]) PROVE LocksOf(d)'
  <2>1. CASE d = c
    <3>1. Checked(call'[d]) = {} /\ call'[d].taken = {} BY <1>2, <2>1 DEF Checked
    <3> QED BY <3>1 DEF LocksOf
  <2>2. CASE d # c
    <3>1. call'[d] = call[d] BY <2>2 DEF Only
    <3>2. d # Null BY ReportsAssumption
    <3> QED BY <1>2, <3>1, <3>2, LocksKept
  <2> QED BY <2>1, <2>2
<1> QED BY <1>1, <1>2 DEF RowLocks

\* The call's transaction ends; what it has taken is in no other's hands.
LEMMA RowLocksRelease ==
    ASSUME TypeInv, RowLocks, NEW c \in Calls, Only(c), Unlock(c), call'[c].pc = "done",
           \A b \in Balances : rowLock[b] \notin {Null, c} => stock'[b] = stock[b]
    PROVE  RowLocks'
<1>1. ASSUME NEW b \in Balances, rowLock'[b] # Null
      PROVE  /\ Finalizing(call'[rowLock'[b]]) /\ call'[rowLock'[b]].project = b.project
             /\ b.material \in Checked(call'[rowLock'[b]])
  <2>1. PICK d : d = rowLock[b] OBVIOUS
  <2>2. rowLock'[b] = d /\ d # c /\ d # Null BY <1>1, <2>1 DEF Unlock
  <2>3. /\ d \in Calls /\ Finalizing(call[d]) /\ call[d].project = b.project
        /\ b.material \in Checked(call[d])
    BY <2>1, <2>2, LockerShape
  <2>4. call'[d] = call[d] BY <2>2, <2>3 DEF Only
  <2> QED BY <2>2, <2>3, <2>4
<1>2. ASSUME NEW d \in Calls, Finalizing(call'[d]) PROVE LocksOf(d)'
  <2>1. d # c BY <1>2 DEF Finalizing
  <2>2. call'[d] = call[d] /\ d # Null BY <2>1, ReportsAssumption DEF Only
  <2>3. \A b \in Balances : rowLock[b] = d => rowLock'[b] = d /\ stock'[b] = stock[b]
    BY <2>1, <2>2 DEF Unlock
  <2> QED BY <1>2, <2>2, <2>3, LocksKept
<1> QED BY <1>1, <1>2 DEF RowLocks

\* What a finalization locks was free or its own.
LEMMA HoldingShape ==
    ASSUME TypeInv, NEW c \in Calls, NEW row, row # Null => rowLock[row] \in {Null, c}, Holding(c, row)
    PROVE  /\ \A b \in Balances : rowLock[b] # Null => rowLock'[b] = rowLock[b]
           /\ \A b \in Balances : rowLock'[b] = rowLock[b] \/ (b = row /\ rowLock'[b] = c)
           /\ row \in Balances => rowLock'[row] = c
<1>1. rowLock' = [b \in Balances |-> IF b = row THEN c ELSE rowLock[b]] BY DEF Holding
<1>2. \A b \in Balances : b # Null BY ReportsAssumption
<1>3. \A b \in Balances : rowLock'[b] = IF b = row THEN c ELSE rowLock[b] BY <1>1
<1>4. ASSUME NEW b \in Balances, rowLock[b] # Null PROVE rowLock'[b] = rowLock[b]
  BY <1>2, <1>3, <1>4
<1> QED BY <1>3, <1>4

LEMMA GoesOnLocks ==
    ASSUME Inv, NEW c \in Calls, GoesOn(c)
    PROVE  RowLocks'
<1>1. TypeInv /\ RowLocks /\ CallsOK BY DEF Inv, TypeInv
<1>2. /\ Only(c) /\ SameReport(call[c], call'[c]) /\ Finalizing(call[c]) /\ Finalizing(call'[c])
      /\ stock' = stock
  BY <1>1, GoesOnShape
<1>3. /\ StateOK(call[c]) /\ WalkOK(call[c]) /\ LocksOf(c) /\ call[c] \in CallStates
  BY <1>1, <1>2, CallShape DEF RowLocks, StateOK
<1>4. call'[c].project = call[c].project /\ call'[c].rows = call[c].rows BY <1>2 DEF SameReport
<1>5. /\ \A b \in Balances : rowLock[b] # Null => rowLock'[b] = rowLock[b]
      /\ \A b \in Balances : rowLock'[b] # rowLock[b] =>
            /\ rowLock'[b] = c /\ b.project = call[c].project /\ b.material \in Checked(call'[c])
      /\ Checked(call[c]) \subseteq Checked(call'[c])
      /\ LocksOf(c)'
  <2>1. CASE Preflight(c)
    <3>1. PICK m, row : m = Line(c) /\ row = call[c].row OBVIOUS
    <3>2. /\ call[c].pc = "preflight" /\ call'[c].pc = "preflight"
          /\ m \in call[c].todo /\ \A n \in call[c].todo : m <= n
          /\ call'[c].todo = call[c].todo \ {m}
          /\ call'[c].row \in Found(c, call[c].project, call'[c].todo)
          /\ call'[c].short = (call[c].short \/ Short(c)) /\ call'[c].taken = call[c].taken
      BY <1>1, <2>1, <3>1, PreflightShape
    <3>3. /\ Held(call'[c]) = Held(call[c]) \cup {m} /\ m \in Consumable(call[c].rows)
          /\ row # Null => row.project = call[c].project /\ row.material = m
      BY <1>1, <1>2, <3>1, <3>2, WalkGoesOn
    <3>4. /\ \A b \in Balances : rowLock[b] # Null => rowLock'[b] = rowLock[b]
          /\ \A b \in Balances : rowLock'[b] = rowLock[b] \/ (b = row /\ rowLock'[b] = c)
          /\ row \in Balances => rowLock'[row] = c
      <4>1. (row # Null => rowLock[row] \in {Null, c}) /\ Holding(c, row)
        BY <2>1, <3>1 DEF Preflight
      <4> QED BY <1>1, <4>1, HoldingShape
    <3>5. Checked(call'[c]) = Held(call[c]) \cup {m} /\ Checked(call[c]) = Held(call[c])
      BY <3>2, <3>3 DEF Checked
    <3>6. call'[c].taken = {} BY <1>3, <3>2 DEF StateOK
    <3>7. call[c].short => call'[c].short BY <3>2, Zenon
    <3>8. row = Null => call'[c].short BY <3>1, <3>2, Zenon DEF Short
    <3>9. row \in Balances \cup {Null} BY <1>3, <3>1 DEF CallStates
    <3>10. ASSUME NEW n \in Checked(call'[c])
           PROVE  call'[c].short \/ \E b \in Balances :
                     rowLock'[b] = c /\ b.project = call'[c].project /\ b.material = n
      <4>1. CASE n = m
        BY <1>4, <3>3, <3>4, <3>8, <3>9, <4>1
      <4>2. CASE n # m
        <5>1. call[c].short \/ \E b \in Balances :
                  rowLock[b] = c /\ b.project = call[c].project /\ b.material = n
          BY <1>3, <3>5, <4>2 DEF LocksOf
        <5>2. c # Null BY ReportsAssumption
        <5> QED BY <1>4, <3>4, <3>7, <5>1, <5>2
      <4> QED BY <4>1, <4>2
    <3>11. LocksOf(c)' BY <3>6, <3>10 DEF LocksOf
    <3>12. \A b \in Balances : rowLock'[b] # rowLock[b] =>
              /\ rowLock'[b] = c /\ b.project = call[c].project /\ b.material \in Checked(call'[c])
      <4>1. \A b \in Balances : b # Null BY ReportsAssumption
      <4> QED BY <3>3, <3>4, <3>5, <4>1
    <3> QED BY <3>4, <3>5, <3>11, <3>12
  <2>2. CASE StartConsuming(c)
    <3>1. /\ call[c].pc = "preflight" /\ call'[c].pc = "consume" /\ call[c].todo = {}
          /\ ~call[c].short /\ call'[c].taken = call[c].taken
      BY <1>1, <2>2, StartConsumingShape
    <3>2. Checked(call'[c]) = Checked(call[c]) BY <1>4, <3>1 DEF Checked, Held
    <3>3. call'[c].taken = {} BY <1>3, <3>1 DEF StateOK
    <3>4. rowLock' = rowLock BY <2>2 DEF StartConsuming, locks
    <3>5. LocksOf(c)' BY <1>3, <1>4, <3>1, <3>2, <3>3, <3>4 DEF LocksOf
    <3> QED BY <3>2, <3>4, <3>5
  <2>3. CASE ConsumeRow(c)
    <3>1. PICK m, row : m = Line(c) /\ row = call[c].row OBVIOUS
    <3>2. /\ call[c].pc = "consume" /\ call'[c].pc = "consume"
          /\ m \in call[c].todo /\ \A n \in call[c].todo : m <= n
          /\ call'[c].todo = call[c].todo \ {m}
          /\ call'[c].row \in Found(c, call[c].project, call'[c].todo)
          /\ row \in Balances /\ call'[c].taken = call[c].taken \cup {row}
      BY <1>1, <2>3, <3>1, ConsumeShape
    <3>3. row # Null BY <3>2, ReportsAssumption
    <3>4. m \in Consumable(call[c].rows) /\ row.project = call[c].project /\ row.material = m
      BY <1>1, <1>2, <3>1, <3>2, <3>3, WalkGoesOn
    <3>5. /\ \A b \in Balances : rowLock[b] # Null => rowLock'[b] = rowLock[b]
          /\ \A b \in Balances : rowLock'[b] = rowLock[b] \/ (b = row /\ rowLock'[b] = c)
          /\ rowLock'[row] = c
      <4>1. (row # Null => rowLock[row] \in {Null, c}) /\ Holding(c, row)
        BY <2>3, <3>1 DEF ConsumeRow
      <4> QED BY <1>1, <3>2, <4>1, HoldingShape
    <3>6. Checked(call'[c]) = Consumable(call[c].rows) /\ Checked(call[c]) = Consumable(call[c].rows)
      BY <1>4, <3>2 DEF Checked
    <3>7. stock[row] >= Total(call[c].rows, m)
      <4>1. ~(stock[row] < Total(call[c].rows, m)) BY <2>3, <3>1 DEF ConsumeRow, Short, Needed
      <4>2. stock[row] \in Int BY <1>1, <3>2 DEF TypeInv, Ledger
      <4>3. Total(call[c].rows, m) \in Int BY <1>3, TotalIsInt DEF WalkOK, CallStates
      <4> QED BY <4>1, <4>2, <4>3
    <3>8. ~call[c].short BY <1>3, <3>2 DEF StateOK
    <3>9. c # Null /\ call[c].taken \subseteq Balances BY <1>3, ReportsAssumption DEF CallStates
    <3>10. \A n \in Checked(call'[c]) : \E b \in Balances :
               rowLock'[b] = c /\ b.project = call'[c].project /\ b.material = n
      BY <1>3, <1>4, <3>5, <3>6, <3>8, <3>9 DEF LocksOf
    <3>11. \A b \in call'[c].taken : rowLock'[b] = c /\ stock[b] >= Total(call[c].rows, b.material)
      BY <1>3, <3>2, <3>4, <3>5, <3>7, <3>9 DEF LocksOf
    <3>12. LocksOf(c)' BY <1>2, <1>4, <3>10, <3>11 DEF LocksOf
    <3> QED BY <3>4, <3>5, <3>6, <3>12
  <2> QED BY <2>1, <2>2, <2>3 DEF GoesOn
<1>6. ASSUME NEW b \in Balances, rowLock'[b] # Null
      PROVE  /\ Finalizing(call'[rowLock'[b]]) /\ call'[rowLock'[b]].project = b.project
             /\ b.material \in Checked(call'[rowLock'[b]])
  <2>1. CASE rowLock'[b] # rowLock[b]
    BY <1>2, <1>4, <1>5, <2>1
  <2>2. CASE rowLock'[b] = rowLock[b]
    <3>1. PICK d : d = rowLock[b] OBVIOUS
    <3>2. /\ d \in Calls /\ Finalizing(call[d]) /\ call[d].project = b.project
          /\ b.material \in Checked(call[d])
      BY <1>1, <1>6, <2>2, <3>1, LockerShape
    <3>3. CASE d = c
      BY <1>2, <1>4, <1>5, <2>2, <3>1, <3>2, <3>3
    <3>4. CASE d # c
      <4>1. call'[d] = call[d] BY <1>2, <3>2, <3>4 DEF Only
      <4> QED BY <2>2, <3>1, <3>2, <4>1
    <3> QED BY <3>3, <3>4
  <2> QED BY <2>1, <2>2
<1>7. ASSUME NEW d \in Calls, Finalizing(call'[d]) PROVE LocksOf(d)'
  <2>1. CASE d = c
    BY <1>5, <2>1
  <2>2. CASE d # c
    <3>1. call'[d] = call[d] /\ d # Null BY <1>2, <2>2, ReportsAssumption DEF Only
    <3>2. \A b \in Balances : rowLock[b] = d => rowLock'[b] = d /\ stock'[b] = stock[b]
      BY <1>2, <1>5, <3>1
    <3> QED BY <1>1, <1>7, <3>1, <3>2, LocksKept
  <2> QED BY <2>1, <2>2
<1> QED BY <1>6, <1>7 DEF RowLocks

----------------------------------------------------------------------------
(* The kinds of step again, with what the types say of each. *)

LEMMA TellsNothing == ASSUME NEW c \in Calls, Tells(c) PROVE \A r \in Reports : Told(r)' = Told(r)
BY DEF Tells, Log, Told

LEMMA EndsShape ==
    ASSUME TypeInv, NEW c \in Calls, Ends(c)
    PROVE  /\ Only(c) /\ SameWork(call[c], call'[c]) /\ Unlock(c) /\ Live(call[c])
           /\ call'[c].pc = "done"
           /\ call[c].retry => call'[c].answer \in {"existing", "aborted"}
           /\ UNCHANGED <<report, children, revisions, approvals, charged, stock, elsewhere, raced>>
           /\ \A r \in Reports : Told(r)' = Told(r)
<1>1. PICK answer \in Answers : /\ call[c].retry => answer \in {"existing", "aborted"}
                                /\ Unlock(c) /\ Reply(c, answer)
  BY Zenon DEF Ends, Fail
<1>2. /\ Only(c) /\ SameWork(call[c], call'[c])
      /\ call'[c].pc = "done" /\ call'[c].answer = answer
  BY <1>1, ReplyShape DEF TypeInv
<1>3. call[c].retry => call'[c].answer \in {"existing", "aborted"} BY <1>1, <1>2, Zenon
<1> QED BY <1>1, <1>2, <1>3, TellsNothing DEF Ends, records

LEMMA AdvancesShape ==
    ASSUME TypeInv, NEW c \in Calls, Advances(c)
    PROVE  /\ Only(c) /\ SameWork(call[c], call'[c]) /\ call[c].pc = "check" /\ ~call[c].retry
           /\ \/ call'[c].pc = "insert" /\ call[c].req.kind = "create"
              \/ call'[c].pc = "delete" /\ call[c].req.kind = "update" /\ report[call[c].report].status = "DRAFT"
              \/ /\ call'[c].pc = "decide" /\ call[c].req.kind = "review"
                 /\ report[call[c].report].status = "SUBMITTED"
                 /\ \A a \in approvals : a.report # call[c].report
           /\ UNCHANGED <<report, children, revisions, approvals, charged, stock, elsewhere, audit,
                          reportLock, rowLock, raced>>
<1>1. call[c].pc = "check" /\ RetryOK(call[c]) BY CallShape DEF Advances, At
<1>2. ~call[c].retry BY <1>1 DEF Advances, At, RetryOK
<1>3. CASE At(c, "create", "check") /\ Goto(c, "insert")
  BY <1>1, <1>2, <1>3, GotoShape DEF TypeInv, CallSteps, Advances, At, records, locks
<1>4. CASE At(c, "update", "check") /\ Goto(c, "delete") /\ report[Id(c)].status = "DRAFT"
  BY <1>1, <1>2, <1>4, GotoShape DEF TypeInv, CallSteps, Advances, At, Id, records, locks
<1>5. CASE /\ At(c, "review", "check") /\ Goto(c, "decide") /\ report[Id(c)].status = "SUBMITTED"
           /\ \A a \in approvals : a.report # Id(c)
  BY <1>1, <1>2, <1>5, GotoShape DEF TypeInv, CallSteps, Advances, At, Id, records, locks
<1> QED BY <1>3, <1>4, <1>5 DEF Advances

\* The finalization of a report begins; r, p and rows are what it is about.
Starts(c, r, p, rows) ==
    /\ r \in Reports /\ p \in Projects /\ rows \in SUBSET Rows
    /\ Only(c) /\ call'[c].pc = "preflight" /\ call'[c].taken = {} /\ call'[c].report = r /\ call'[c].project = p
    /\ call'[c].rows = rows /\ call'[c].todo = Consumable(rows) /\ Held(call'[c]) = {}
    /\ call'[c].req = call[c].req /\ call'[c].retry = call[c].retry /\ ~call[c].retry
    /\ call[c].req \in Requests
    /\ UNCHANGED <<report, children, revisions, approvals, charged, stock, elsewhere, audit,
                   rowLock, raced>>

LEMMA StartsCreateShape ==
    ASSUME TypeInv, NEW c \in Calls, StartsCreate(c)
    PROVE  \E r, p, rows :
              /\ Starts(c, r, p, rows) /\ p = call[c].req.project /\ \A x \in rows : x.by = c
              /\ call[c].pc = "insert" /\ call[c].req.kind = "create" /\ report[r].status = "NONE"
              /\ \A d \in Calls : call[d].report = r => call[d].pc = "done"
              /\ reportLock' = reportLock
<1>1. /\ call[c].pc = "insert" /\ call[c].req.kind = "create" /\ ~call[c].retry
      /\ call[c].req \in Requests /\ call[c].taken = {}
  <2>1. call[c].pc = "insert" /\ call[c].req.kind = "create" BY DEF StartsCreate, At
  <2>2. Live(call[c]) BY <2>1 DEF Live
  <2> QED BY <2>1, <2>2, CallShape DEF RetryOK, StateOK
<1>2. PICK p, rows : p = Req(c).project /\ rows = RowsOf(c, Req(c).lines) OBVIOUS
<1>3. p \in Projects /\ rows \in SUBSET Rows /\ IsFiniteSet(rows) /\ \A x \in rows : x.by = c
  BY <1>1, <1>2, RequestShape, RowsOfShape DEF Req
<1>4. PICK r \in Unused : StartFinalization(c, r, p, rows)
  BY <1>2 DEF StartsCreate
<1>5. /\ r \in Reports /\ report[r].status = "NONE"
      /\ \A d \in Calls : call[d].report = r => call[d].pc = "done"
  BY DEF Unused
<1>6. /\ Only(c) /\ call'[c].pc = "preflight" /\ call'[c].report = r /\ call'[c].project = p
      /\ call'[c].rows = rows /\ call'[c].todo = Consumable(rows) /\ call'[c].taken = {}
      /\ call'[c].req = call[c].req /\ call'[c].retry = call[c].retry
  BY <1>1, <1>3, <1>4, <1>5, StartShape DEF TypeInv
<1>7. Held(call'[c]) = {} BY <1>6 DEF Held
<1>8. Starts(c, r, p, rows)
  BY <1>1, <1>3, <1>5, <1>6, <1>7 DEF Starts, StartsCreate, records, locks
<1> QED BY <1>1, <1>2, <1>3, <1>5, <1>8 DEF StartsCreate, locks, Req

LEMMA StartsSubmitShape ==
    ASSUME TypeInv, NEW c \in Calls, StartsSubmit(c)
    PROVE  \E r, p, rows :
              /\ Starts(c, r, p, rows) /\ r = call[c].report
              /\ call[c].pc = "check" /\ call[c].req.kind = "submit" /\ report[r].status = "DRAFT"
              /\ p = report[r].project /\ rows = children[r] /\ reportLock[r] = Null
              /\ reportLock' = [reportLock EXCEPT ![r] = c]
<1>1. /\ call[c].pc = "check" /\ call[c].req.kind = "submit" /\ ~call[c].retry
      /\ call[c].req \in Requests /\ call[c].report \in Reports /\ call[c].taken = {}
  <2>1. call[c].pc = "check" /\ call[c].req.kind = "submit" BY DEF StartsSubmit, At
  <2>2. Live(call[c]) BY <2>1 DEF Live
  <2> QED BY <2>1, <2>2, CallShape DEF RetryOK, StateOK
<1>2. PICK r, rows, p : r = Id(c) /\ rows = children[Id(c)] /\ p = report[Id(c)].project
  OBVIOUS
<1>3. /\ r \in Reports /\ rows \in SUBSET Rows /\ p \in Projects /\ IsFiniteSet(rows)
      /\ report[r].status = "DRAFT" /\ r = call[c].report
  <2>1. report[r] # NoReport BY <1>2 DEF StartsSubmit, NoReport
  <2> QED BY <1>1, <1>2, <2>1 DEF TypeInv, Tables, RowsFinite, Id, StartsSubmit
<1>4. StartFinalization(c, r, p, rows) BY <1>2 DEF StartsSubmit
<1>5. /\ Only(c) /\ call'[c].pc = "preflight" /\ call'[c].report = r /\ call'[c].project = p
      /\ call'[c].rows = rows /\ call'[c].todo = Consumable(rows) /\ call'[c].taken = {}
      /\ call'[c].req = call[c].req /\ call'[c].retry = call[c].retry
  BY <1>1, <1>3, <1>4, StartShape DEF TypeInv
<1>6. Held(call'[c]) = {} BY <1>5 DEF Held
<1>7. Starts(c, r, p, rows) BY <1>1, <1>3, <1>5, <1>6 DEF Starts, StartsSubmit, records
<1> QED BY <1>1, <1>2, <1>3, <1>7 DEF StartsSubmit

LEMMA UpdateShape ==
    ASSUME TypeInv, NEW c \in Calls, UpdateWrite(c)
    PROVE  \E r \in Reports :
              /\ r = call[c].report /\ reportLock[r] = Null
              /\ call[c].pc = "write" /\ call[c].req.kind = "update" /\ ~call[c].retry
              /\ Only(c) /\ SameWork(call[c], call'[c]) /\ call'[c].pc = "audit"
              /\ report[r].status # "NONE"
              /\ \A x \in Reports \ {r} : report'[x] = report[x] /\ children'[x] = children[x]
              /\ report'[r].status = report[r].status /\ report'[r].key = report[r].key
              /\ report'[r].revision = report[r].revision
              /\ call[c].req.lines = Null => children'[r] = children[r]
              /\ call[c].req.lines # Null => \A x \in children'[r] : x.by = c \/ x \in children[r] \ call[c].rows
              /\ UNCHANGED <<revisions, approvals, charged, stock, elsewhere, audit, reportLock, rowLock>>
<1>1. /\ call[c].pc = "write" /\ call[c].req.kind = "update" /\ ~call[c].retry
      /\ call[c].report \in Reports /\ Live(call[c]) /\ call[c].req \in Requests
  <2>1. call[c].pc = "write" /\ call[c].req.kind = "update" BY DEF UpdateWrite, At
  <2>2. Live(call[c]) BY <2>1 DEF Live
  <2> QED BY <2>1, <2>2, CallShape DEF RetryOK, StateOK
<1>2. PICK r \in Reports : r = call[c].report BY <1>1
<1>3. Only(c) /\ SameWork(call[c], call'[c]) /\ call'[c].pc = "audit"
  BY GotoShape DEF TypeInv, CallSteps, UpdateWrite
<1>4. report[r].status # "NONE"
  BY <1>1, <1>2, ReportsAssumption DEF TypeInv, AboutOK, Creating, Finalizing
<1>5. report[r] \in ReportRows
  BY <1>4 DEF TypeInv, Tables, NoReport, ReportRows
<1>6. /\ \A x \in Reports \ {r} : report'[x] = report[x]
      /\ report'[r].status = report[r].status /\ report'[r].key = report[r].key
      /\ report'[r].revision = report[r].revision
  <2>1. CASE Req(c).project = Null
    BY <2>1 DEF UpdateWrite
  <2>2. CASE Req(c).project # Null
    <3>1. report' = [report EXCEPT ![r].project = Req(c).project]
      BY <1>2, <2>2 DEF UpdateWrite, Id
    <3> QED BY <1>5, <3>1 DEF TypeInv, Tables, ReportRows
  <2> QED BY <2>1, <2>2
<1>7. /\ \A x \in Reports \ {r} : children'[x] = children[x]
      /\ call[c].req.lines = Null => children'[r] = children[r]
      /\ call[c].req.lines # Null => \A x \in children'[r] : x.by = c \/ x \in children[r] \ call[c].rows
  <2>1. CASE Req(c).lines = Null
    BY <2>1 DEF UpdateWrite, Req
  <2>2. CASE Req(c).lines # Null
    <3>1. children' = [children EXCEPT ![r] = (@ \ call[c].rows) \cup RowsOf(c, Req(c).lines)]
      BY <1>2, <2>2 DEF UpdateWrite, Id
    <3>2. \A x \in RowsOf(c, Req(c).lines) : x.by = c
      BY <1>1, <2>2, RequestShape, RowsOfShape DEF Req
    <3>3. PICK new : new = RowsOf(c, Req(c).lines) OBVIOUS
    <3>4. /\ children'[r] = (children[r] \ call[c].rows) \cup new
          /\ \A x \in Reports \ {r} : children'[x] = children[x]
      BY <3>1, <3>3 DEF TypeInv, Tables
    <3> QED BY <2>2, <3>2, <3>3, <3>4 DEF Req
  <2> QED BY <2>1, <2>2
<1>8. reportLock[r] = Null /\ UNCHANGED <<revisions, approvals, charged, stock, elsewhere, audit, reportLock, rowLock>>
  BY <1>2 DEF UpdateWrite, Id, locks
<1> QED BY <1>1, <1>2, <1>3, <1>4, <1>6, <1>7, <1>8

\* The review of report r is recorded.
Reviews(c, r, action) ==
    /\ r \in Reports /\ action \in {"APPROVED", "REJECTED"}
    /\ r = call[c].report /\ reportLock[r] = Null
    /\ call[c].pc = "decide" /\ call[c].req.kind = "review" /\ ~call[c].retry
    /\ Only(c) /\ SameWork(call[c], call'[c]) /\ call'[c].pc = "done"
    /\ report[r].status # "NONE"
    /\ \A x \in Reports \ {r} : report'[x] = report[x]
    /\ report'[r] = [report[r] EXCEPT !.status = action]
    /\ report'[r].status = action /\ report'[r].key = report[r].key
    /\ report'[r].revision = report[r].revision /\ report'[r].project = report[r].project
    /\ audit' = audit \cup {[call |-> c, action |-> action, report |-> r]}
    /\ approvals' = approvals \cup
          {[call |-> c, report |-> r, reviewer |-> call[c].req.user, action |-> action]}
    /\ UNCHANGED <<children, revisions, charged, stock, elsewhere, reportLock, rowLock>>

LEMMA ReviewShape ==
    ASSUME TypeInv, NEW c \in Calls, ReviewDecide(c)
    PROVE  \E r, action : Reviews(c, r, action)
<1>1. /\ call[c].pc = "decide" /\ call[c].req.kind = "review" /\ ~call[c].retry
      /\ Live(call[c]) /\ call[c].report \in Reports /\ call[c].req \in Requests
  <2>1. call[c].pc = "decide" /\ call[c].req.kind = "review" BY DEF ReviewDecide, At
  <2>2. Live(call[c]) BY <2>1 DEF Live
  <2> QED BY <2>1, <2>2, CallShape DEF RetryOK, StateOK
<1>2. PICK r, action : r = call[c].report /\ action = call[c].req.action OBVIOUS
<1>3. action \in {"APPROVED", "REJECTED"} /\ call[c].req.user \in Users /\ r \in Reports
  BY <1>1, <1>2, RequestShape
<1>4. report[r].status # "NONE"
  BY <1>1, <1>2, ReportsAssumption DEF TypeInv, AboutOK, Creating, Finalizing
<1>5. report[r] \in ReportRows
  BY <1>3, <1>4 DEF TypeInv, Tables, NoReport, ReportRows
<1>6. /\ report' = [report EXCEPT ![r].status = action]
      /\ audit' = audit \cup {[call |-> c, action |-> action, report |-> r]}
      /\ approvals' = approvals \cup
            {[call |-> c, report |-> r, reviewer |-> call[c].req.user, action |-> action]}
      /\ Reply(c, "ok") /\ reportLock[r] = Null
      /\ UNCHANGED <<children, revisions, charged, stock, elsewhere, reportLock, rowLock>>
  BY <1>2 DEF ReviewDecide, Log, Id, Req, locks
<1>7. Only(c) /\ SameWork(call[c], call'[c]) /\ call'[c].pc = "done"
  BY <1>6, ReplyShape DEF TypeInv, Answers
<1>8. /\ \A x \in Reports \ {r} : report'[x] = report[x]
      /\ report'[r] = [report[r] EXCEPT !.status = action]
  BY <1>3, <1>6 DEF TypeInv, Tables
<1>9. /\ report'[r].status = action /\ report'[r].key = report[r].key
      /\ report'[r].revision = report[r].revision /\ report'[r].project = report[r].project
  BY <1>5, <1>8 DEF ReportRows
<1>10. Reviews(c, r, action) BY <1>1, <1>2, <1>3, <1>4, <1>6, <1>7, <1>8, <1>9 DEF Reviews
<1> QED BY <1>10

\* A step of a call that has begun and not ended.
Kinds(c) ==
    /\ Live(call[c]) /\ UNCHANGED raced
    /\ \/ Ends(c) \/ Advances(c) \/ UpdateDelete(c) \/ UpdateWrite(c)
       \/ StartsCreate(c) \/ StartsSubmit(c) \/ Drafts(c)
       \/ GoesOn(c) \/ Finalize(c) \/ ReviewDecide(c)

LEMMA NextKinds ==
    ASSUME Inv, [Next]_vars
    PROVE  \/ \E c \in Calls : Begin(c) \/ Kinds(c)
           \/ \E b \in Balances : Elsewhere(b) /\ UNCHANGED raced
           \/ UNCHANGED vars
<1>1. ASSUME NEW c \in Calls, Step(c) \/ Abort(c), UNCHANGED raced PROVE Kinds(c)
  BY <1>1, StepKinds DEF Kinds, Live
<1> QED BY <1>1 DEF Next, Finished

LEMMA TypeNext == ASSUME Inv, [Next]_vars PROVE TypeInv'
<1>1. TypeInv BY DEF Inv
<1>2. ASSUME NEW c \in Calls, Begin(c) PROVE TypeInv' BY <1>1, <1>2, TypeBegin
<1>3. ASSUME NEW c \in Calls, Kinds(c) PROVE TypeInv'
  <2>1. UNCHANGED raced BY <1>3 DEF Kinds
  <2> QED BY <1>1, <1>3, <2>1, TypeEnds, TypeAdvances, TypeDelete, TypeUpdate, TypeStartsCreate,
             TypeStartsSubmit, TypeDrafts, TypeGoesOn, TypeFinalize, TypeReview DEF Kinds
<1>4. ASSUME NEW b \in Balances, Elsewhere(b), UNCHANGED raced PROVE TypeInv'
  BY <1>1, <1>4, TypeElsewhere
<1>5. CASE UNCHANGED vars
  BY <1>1, <1>5 DEF vars, TypeInv, Tables, Ledger, Rest, CallsOK, AboutOK, RowsFinite
<1> QED BY <1>2, <1>3, <1>4, <1>5, NextKinds

LEMMA LocksNext == ASSUME Inv, [Next]_vars PROVE ReportLocks' /\ RowLocks'
<1>1. TypeInv /\ ReportLocks /\ RowLocks BY DEF Inv
<1>2. ASSUME NEW r \in Reports, reportLock[r] # Null PROVE report[r].status = "DRAFT"
  BY <1>1, <1>2 DEF ReportLocks, TypeInv, Rest
<1>3. ASSUME NEW c \in Calls, Begin(c) PROVE ReportLocks' /\ RowLocks'
  <2>1. Only(c) /\ call[c].pc = "free" /\ call'[c].pc = "check" BY <1>1, <1>3, BeginShape DEF TypeInv
  <2>2. UNCHANGED <<report, children, stock, reportLock, rowLock>>
    BY <1>3 DEF Begin, records, locks
  <2>3. ReportLocks' BY <1>1, <2>1, <2>2, ReportLocksStay DEF Submitting, Finalizing
  <2> QED BY <1>1, <2>1, <2>2, <2>3, RowLocksStay DEF Finalizing
<1>4. ASSUME NEW c \in Calls, Ends(c) PROVE ReportLocks' /\ RowLocks'
  <2>1. /\ Only(c) /\ Unlock(c) /\ call'[c].pc = "done" /\ UNCHANGED <<report, children, stock>>
    BY <1>1, <1>4, EndsShape
  <2> QED BY <1>1, <2>1, ReportLocksRelease, RowLocksRelease
<1>5. ASSUME NEW c \in Calls, Advances(c) PROVE ReportLocks' /\ RowLocks'
  <2>1. /\ Only(c) /\ call[c].pc = "check" /\ call'[c].pc \notin {"preflight", "consume"}
        /\ UNCHANGED <<report, children, stock, reportLock, rowLock>>
    BY <1>1, <1>5, AdvancesShape
  <2>2. ReportLocks' BY <1>1, <2>1, ReportLocksStay DEF Submitting, Finalizing
  <2> QED BY <1>1, <2>1, <2>2, RowLocksStay DEF Finalizing
<1>6. ASSUME NEW c \in Calls, UpdateDelete(c), Live(call[c]) PROVE ReportLocks' /\ RowLocks'
  <2>1. call[c].pc = "delete" /\ call[c].req.kind = "update" BY <1>6 DEF UpdateDelete, At
  <2>2. Id(c) \in Reports BY <1>1, <1>6, <2>1, CallShape DEF StateOK, Id
  <2>3. Only(c) /\ call'[c].pc = "write" BY <1>1, <1>6, <2>2, DeleteShape DEF TypeInv
  <2>4. UNCHANGED <<report, children, stock, reportLock, rowLock>>
    BY <1>6 DEF UpdateDelete, records, locks
  <2>5. ReportLocks' BY <1>1, <2>1, <2>3, <2>4, ReportLocksStay DEF Submitting, Finalizing
  <2> QED BY <1>1, <2>1, <2>3, <2>4, <2>5, RowLocksStay DEF Finalizing
<1>7. ASSUME NEW c \in Calls, UpdateWrite(c) PROVE ReportLocks' /\ RowLocks'
  <2>1. PICK r \in Reports :
              /\ reportLock[r] = Null
              /\ call[c].pc = "write" /\ Only(c) /\ call'[c].pc = "audit"
              /\ \A x \in Reports \ {r} : report'[x] = report[x] /\ children'[x] = children[x]
              /\ UNCHANGED <<stock, reportLock, rowLock>>
    BY <1>1, <1>7, UpdateShape
  <2>2. ReportLocks' BY <1>1, <2>1, ReportLocksStay DEF Submitting, Finalizing
  <2> QED BY <1>1, <2>1, <2>2, RowLocksStay DEF Finalizing
<1>8. ASSUME NEW c \in Calls, StartsCreate(c) PROVE ReportLocks' /\ RowLocks'
  <2>1. PICK r, p, rows : /\ Starts(c, r, p, rows) /\ call[c].pc = "insert"
                          /\ call[c].req.kind = "create" /\ reportLock' = reportLock
    BY <1>1, <1>8, StartsCreateShape
  <2>2. ReportLocks' BY <1>1, <2>1, ReportLocksStay DEF Submitting, Starts, Finalizing
  <2>3. RowLocks' BY <1>1, <2>1, RowLocksStay DEF Starts, Finalizing
  <2> QED BY <2>2, <2>3
<1>9. ASSUME NEW c \in Calls, StartsSubmit(c) PROVE ReportLocks' /\ RowLocks'
  <2>1. PICK r, p, rows :
              /\ Starts(c, r, p, rows) /\ call[c].pc = "check" /\ call[c].req.kind = "submit"
              /\ report[r].status = "DRAFT" /\ p = report[r].project /\ rows = children[r]
              /\ reportLock[r] = Null /\ reportLock' = [reportLock EXCEPT ![r] = c]
    BY <1>1, <1>9, StartsSubmitShape
  <2>2. RowLocks' BY <1>1, <2>1, RowLocksStay DEF Starts, Finalizing
  <2>3. r \in Reports /\ reportLock'[r] = c /\ \A x \in Reports \ {r} : reportLock'[x] = reportLock[x]
    BY <1>1, <2>1 DEF Starts, TypeInv, Rest
  <2>4. /\ Submitting(call'[c]) /\ call'[c].report = r /\ call'[c].project = p /\ call'[c].rows = rows
        /\ Only(c) /\ UNCHANGED <<report, children>> /\ ~Submitting(call[c])
    BY <2>1 DEF Starts, Submitting, Finalizing
  <2>5. ASSUME NEW x \in Reports, reportLock'[x] # Null
        PROVE  Submitting(call'[reportLock'[x]]) /\ call'[reportLock'[x]].report = x
    <3>1. CASE x = r
      BY <2>3, <2>4, <3>1
    <3>2. CASE x # r
      <4>1. PICK d \in Calls : d = reportLock[x] BY <1>1, <2>3, <2>5, <3>2 DEF TypeInv, Rest
      <4>2. Submitting(call[d]) /\ call[d].report = x BY <1>1, <2>3, <2>5, <3>2, <4>1 DEF ReportLocks
      <4> QED BY <2>3, <2>4, <3>2, <4>1, <4>2 DEF Only
    <3> QED BY <3>1, <3>2
  <2>6. ASSUME NEW d \in Calls, Submitting(call'[d])
        PROVE  /\ reportLock'[call'[d].report] = d /\ report'[call'[d].report].status = "DRAFT"
               /\ call'[d].rows = children'[call'[d].report]
               /\ call'[d].project = report'[call'[d].report].project
    <3>1. CASE d = c
      BY <2>1, <2>3, <2>4, <3>1
    <3>2. CASE d # c
      <4>1. call'[d] = call[d] BY <2>4, <3>2 DEF Only
      <4>2. Live(call[d]) BY <2>6, <4>1 DEF Submitting, Live, Finalizing
      <4>3. call[d].report \in Reports
        BY <1>1, <2>6, <4>1, <4>2, CallShape DEF StateOK, Submitting, Finalizing
      <4>4. reportLock[call[d].report] = d /\ d # Null
        BY <1>1, <2>6, <4>1, ReportsAssumption DEF ReportLocks
      <4>5. call[d].report # r BY <2>1, <4>4
      <4> QED BY <1>1, <2>3, <2>4, <2>6, <4>1, <4>3, <4>5 DEF ReportLocks
    <3> QED BY <3>1, <3>2
  <2>7. ReportLocks' BY <2>5, <2>6 DEF ReportLocks
  <2> QED BY <2>2, <2>7
<1>10. ASSUME NEW c \in Calls, Drafts(c) PROVE ReportLocks' /\ RowLocks'
  <2>1. PICK r \in Reports :
              /\ report[r].status = "NONE" /\ Only(c) /\ call'[c].pc = "audit"
              /\ \A x \in Reports \ {r} : report'[x] = report[x] /\ children'[x] = children[x]
    BY <1>1, <1>10, DraftShape
  <2>2. call[c].pc = "insert" /\ UNCHANGED <<stock, reportLock, rowLock>>
    BY <1>10 DEF Drafts, At, locks
  <2>3. reportLock[r] = Null BY <1>2, <2>1
  <2>4. ReportLocks' BY <1>1, <2>1, <2>2, <2>3, ReportLocksStay DEF Submitting, Finalizing
  <2> QED BY <1>1, <2>1, <2>2, <2>4, RowLocksStay DEF Finalizing
<1>11. ASSUME NEW c \in Calls, GoesOn(c) PROVE ReportLocks' /\ RowLocks'
  <2>1. /\ Only(c) /\ SameReport(call[c], call'[c]) /\ Finalizing(call[c]) /\ Finalizing(call'[c])
        /\ UNCHANGED <<report, children, reportLock>>
    BY <1>1, <1>11, GoesOnShape DEF TypeInv
  <2>2. ReportLocks' BY <1>1, <2>1, ReportLocksStay DEF Submitting, SameReport
  <2> QED BY <1>11, <2>2, GoesOnLocks
<1>12. ASSUME NEW c \in Calls, Finalize(c) PROVE ReportLocks' /\ RowLocks'
  <2>1. PICK r, p, rows : Finalizes(c, r, p, rows) BY <1>12, FinalizeShape
  <2>2. /\ Only(c) /\ Unlock(c) /\ call'[c].pc = "done" /\ call[c].pc = "consume" /\ r \in Reports
        /\ \A x \in Reports \ {r} : report'[x] = report[x] /\ children'[x] = children[x]
        /\ r = call[c].report
        /\ stock' = [b \in Balances |-> IF b \in call[c].taken
                                        THEN stock[b] - Total(rows, b.material) ELSE stock[b]]
    BY <2>1 DEF Finalizes, Ready
  <2>3. reportLock[r] \in {Null, c}
    <3>1. call[c].req.kind \in {"create", "submit"} BY <2>2, Fresh
    <3>2. CASE call[c].req.kind = "create"
      <4>1. report[r].status = "NONE" BY <2>2, <3>2 DEF Inv, Creates, Creating, Finalizing
      <4> QED BY <1>2, <2>2, <4>1
    <3>3. CASE call[c].req.kind = "submit"
      BY <1>1, <2>2, <3>3 DEF ReportLocks, Submitting, Finalizing
    <3> QED BY <3>1, <3>2, <3>3
  <2>4. ReportLocks' BY <1>1, <2>2, <2>3, ReportLocksRelease
  <2>5. ASSUME NEW b \in Balances, rowLock[b] \notin {Null, c} PROVE stock'[b] = stock[b]
    <3>1. LocksOf(c) BY <1>1, <2>2 DEF RowLocks, Finalizing
    <3>2. b \notin call[c].taken BY <2>5, <3>1 DEF LocksOf
    <3> QED BY <2>2, <3>2
  <2>6. RowLocks' BY <1>1, <2>2, <2>5, RowLocksRelease
  <2> QED BY <2>4, <2>6
<1>13. ASSUME NEW c \in Calls, ReviewDecide(c) PROVE ReportLocks' /\ RowLocks'
  <2>0. PICK r, action : Reviews(c, r, action) BY <1>1, <1>13, ReviewShape
  <2>1. /\ r \in Reports /\ action \in {"APPROVED", "REJECTED"}
        /\ reportLock[r] = Null
        /\ call[c].pc = "decide" /\ Only(c) /\ call'[c].pc = "done"
        /\ \A x \in Reports \ {r} : report'[x] = report[x]
        /\ UNCHANGED <<children, stock, reportLock, rowLock>>
    BY <2>0 DEF Reviews
  <2>2. ReportLocks' BY <1>1, <2>1, ReportLocksStay DEF Submitting, Finalizing
  <2> QED BY <1>1, <2>1, <2>2, RowLocksStay DEF Finalizing
<1>14. ASSUME NEW b \in Balances, Elsewhere(b) PROVE ReportLocks' /\ RowLocks'
  <2>1. PICK delta \in {-1, 1} : stock' = [stock EXCEPT ![b] = @ + delta] BY <1>14 DEF Elsewhere
  <2>2. UNCHANGED <<report, children, reportLock, rowLock, call>> /\ rowLock[b] = Null
    BY <1>14 DEF Elsewhere, records, locks
  <2>3. \A x \in Balances : rowLock[x] # Null => stock'[x] = stock[x]
    BY <1>1, <2>1, <2>2 DEF TypeInv, Ledger
  <2>4. ReportLocks' BY <1>1, <2>2 DEF ReportLocks
  <2>5. ASSUME NEW d \in Calls, Finalizing(call[d]) PROVE LocksOf(d)'
    <3>1. d # Null /\ call'[d] = call[d] BY <2>2, ReportsAssumption
    <3>2. \A x \in Balances : rowLock[x] = d => rowLock'[x] = d /\ stock'[x] = stock[x]
      BY <2>2, <2>3, <3>1
    <3> QED BY <1>1, <2>5, <3>1, <3>2, LocksKept
  <2>6. RowLocks' BY <1>1, <2>2, <2>5 DEF RowLocks
  <2> QED BY <2>4, <2>6
<1>15. CASE UNCHANGED vars
  BY <1>1, <1>15 DEF vars, ReportLocks, RowLocks, LocksOf
<1> QED BY <1>3, <1>4, <1>5, <1>6, <1>7, <1>8, <1>9, <1>10, <1>11, <1>12, <1>13, <1>14, <1>15,
           NextKinds DEF Kinds

----------------------------------------------------------------------------
(* Reports that are being created, and idempotency keys. *)

\* What the step of call c must leave to another call d that is creating its report.
Spares(c, d) ==
    /\ report'[call[d].report].status = "NONE"
    /\ call'[c].report = call[d].report => call'[c].pc = "done"
    /\ call[d].req.key # Null => \A r \in Reports : report'[r].key # call[d].req.key

LEMMA CreatesStep ==
    ASSUME Creates, NEW c \in Calls, Only(c),
           \A d \in Calls \ {c} : Creating(call[d]) => Spares(c, d),
           Creating(call'[c]) =>
              /\ report'[call'[c].report].status = "NONE" /\ call'[c].project = call'[c].req.project
              /\ \A x \in call'[c].rows : x.by = c
              /\ \A d \in Calls \ {c} : call[d].report = call'[c].report => call[d].pc = "done"
              /\ call'[c].req.key # Null =>
                    /\ \A r \in Reports : report'[r].key # call'[c].req.key
                    /\ \A d \in Calls \ {c} : Creating(call[d]) => call[d].req.key # call'[c].req.key
    PROVE  Creates'
<1> SUFFICES ASSUME NEW d \in Calls, Creating(call'[d])
             PROVE  /\ report'[call'[d].report].status = "NONE" /\ call'[d].project = call'[d].req.project
                    /\ \A x \in call'[d].rows : x.by = d
                    /\ \A e \in Calls \ {d} : call'[e].report = call'[d].report => call'[e].pc = "done"
                    /\ call'[d].req.key # Null =>
                          /\ \A r \in Reports : report'[r].key # call'[d].req.key
                          /\ \A e \in Calls \ {d} : Creating(call'[e]) => call'[e].req.key # call'[d].req.key
  BY DEF Creates
<1>1. CASE d = c
  BY <1>1 DEF Only
<1>2. CASE d # c
  <2>1. call'[d] = call[d] /\ Creating(call[d]) BY <1>2 DEF Only
  <2>2. Spares(c, d) BY <1>2, <2>1
  <2>3. ASSUME NEW e \in Calls \ {d}, call'[e].report = call'[d].report PROVE call'[e].pc = "done"
    <3>1. CASE e = c
      BY <2>1, <2>2, <2>3, <3>1 DEF Spares
    <3>2. CASE e # c
      BY <2>1, <2>3, <3>2 DEF Only, Creates
    <3> QED BY <3>1, <3>2
  <2>4. ASSUME call'[d].req.key # Null, NEW e \in Calls \ {d}, Creating(call'[e])
        PROVE  call'[e].req.key # call'[d].req.key
    <3>1. CASE e = c
      BY <1>2, <2>1, <2>4, <3>1
    <3>2. CASE e # c
      BY <2>1, <2>4, <3>2 DEF Only, Creates
    <3> QED BY <3>1, <3>2
  <2> QED BY <2>1, <2>2, <2>3, <2>4 DEF Spares, Creates
<1> QED BY <1>1, <1>2

\* A call with a report of its own leaves the reports that others create alone.
LEMMA SparesOthers ==
    ASSUME TypeInv, Creates, NEW c \in Calls, Live(call[c]), call'[c].report = call[c].report,
           \A r \in Reports : /\ report'[r].key = report[r].key
                              /\ report[r].status = "NONE" => report'[r].status = "NONE"
    PROVE  \A d \in Calls \ {c} : Creating(call[d]) => Spares(c, d)
<1> SUFFICES ASSUME NEW d \in Calls \ {c}, Creating(call[d]) PROVE Spares(c, d)
  OBVIOUS
<1>1. Live(call[d]) BY DEF Creating, Live, Finalizing
<1>2. call[d].report \in Reports
  BY <1>1, CallShape DEF StateOK, Creating, Finalizing
<1> QED BY <1>2 DEF Spares, Creates, Live

LEMMA CreatesNext == ASSUME Inv, [Next]_vars PROVE Creates'
<1>1. TypeInv /\ Creates BY DEF Inv
<1>2. ASSUME NEW d \in Calls, Creating(call[d])
      PROVE  call[d].report \in Reports /\ report[call[d].report].status = "NONE" /\ Live(call[d])
  <2>1. Live(call[d]) BY <1>2 DEF Creating, Live, Finalizing
  <2> QED BY <1>1, <1>2, <2>1, CallShape DEF StateOK, Creating, Creates, Finalizing
<1>3. ASSUME NEW c \in Calls, Begin(c) PROVE Creates'
  <2>1. /\ Only(c) /\ call[c].pc = "free" /\ call'[c].pc = "check"
        /\ call'[c].report = Null \/ report[call'[c].report].status # "NONE"
    BY <1>1, <1>3, BeginShape, RequestShape DEF TypeInv
  <2>2. report' = report BY <1>3 DEF Begin, records
  <2>3. ASSUME NEW d \in Calls \ {c}, Creating(call[d]) PROVE Spares(c, d)
    BY <1>1, <1>2, <2>1, <2>2, <2>3, ReportsAssumption DEF Spares, Creates
  <2> QED BY <1>1, <2>1, <2>3, CreatesStep DEF Creating, Finalizing
<1>4. ASSUME NEW c \in Calls, Ends(c) PROVE Creates'
  <2>1. Only(c) /\ SameWork(call[c], call'[c]) /\ Live(call[c]) /\ call'[c].pc = "done" /\ report' = report
    BY <1>1, <1>4, EndsShape
  <2>2. \A d \in Calls \ {c} : Creating(call[d]) => Spares(c, d)
    BY <1>1, <2>1, SparesOthers DEF SameWork
  <2> QED BY <1>1, <2>1, <2>2, CreatesStep DEF Creating, Finalizing
<1>5. ASSUME NEW c \in Calls, Advances(c) PROVE Creates'
  <2>1. /\ Only(c) /\ SameWork(call[c], call'[c]) /\ call[c].pc = "check" /\ call'[c].pc \notin {"preflight", "consume"}
        /\ report' = report
    BY <1>1, <1>5, AdvancesShape
  <2>2. \A d \in Calls \ {c} : Creating(call[d]) => Spares(c, d)
    BY <1>1, <2>1, SparesOthers DEF SameWork, Live
  <2> QED BY <1>1, <2>1, <2>2, CreatesStep DEF Creating, Finalizing
<1>6. ASSUME NEW c \in Calls, UpdateDelete(c), Live(call[c]) PROVE Creates'
  <2>1. call[c].pc = "delete" /\ call[c].req.kind = "update" BY <1>6 DEF UpdateDelete, At
  <2>2. Id(c) \in Reports BY <1>1, <1>6, <2>1, CallShape DEF StateOK, Id
  <2>3. Only(c) /\ call'[c].pc = "write" /\ call'[c].report = call[c].report
    BY <1>1, <1>6, <2>2, DeleteShape DEF TypeInv
  <2>4. report' = report BY <1>6 DEF UpdateDelete, records
  <2>5. \A d \in Calls \ {c} : Creating(call[d]) => Spares(c, d)
    BY <1>1, <1>6, <2>3, <2>4, SparesOthers
  <2> QED BY <1>1, <2>3, <2>5, CreatesStep DEF Creating, Finalizing
<1>7. ASSUME NEW c \in Calls, UpdateWrite(c) PROVE Creates'
  <2>1. PICK r \in Reports :
              /\ r = call[c].report /\ call[c].pc = "write"
              /\ Only(c) /\ SameWork(call[c], call'[c]) /\ call'[c].pc = "audit"
              /\ \A x \in Reports \ {r} : report'[x] = report[x]
              /\ report'[r].status = report[r].status /\ report'[r].key = report[r].key
    BY <1>1, <1>7, UpdateShape
  <2>2. \A d \in Calls \ {c} : Creating(call[d]) => Spares(c, d)
    BY <1>1, <2>1, SparesOthers DEF SameWork, Live
  <2> QED BY <1>1, <2>1, <2>2, CreatesStep DEF Creating, Finalizing
<1>8. ASSUME NEW c \in Calls, StartsCreate(c) PROVE Creates'
  <2>1. PICK r, p, rows :
              /\ Starts(c, r, p, rows) /\ p = call[c].req.project /\ \A x \in rows : x.by = c
              /\ call[c].pc = "insert" /\ call[c].req.kind = "create" /\ report[r].status = "NONE"
              /\ \A d \in Calls : call[d].report = r => call[d].pc = "done"
    BY <1>1, <1>8, StartsCreateShape
  <2>2. /\ KeyHolders(c) = {}
        /\ call[c].req.key # Null => \A x \in Reports : report[x].key # call[c].req.key
    BY <1>8 DEF StartsCreate, Req
  <2>3. /\ Only(c) /\ call'[c].report = r /\ call'[c].project = p /\ call'[c].req = call[c].req
        /\ report' = report /\ call'[c].rows = rows
    BY <2>1 DEF Starts
  <2>4. ASSUME NEW d \in Calls \ {c}, Creating(call[d]) PROVE Spares(c, d)
    <3>1. call[d].report # r BY <2>1, <2>4 DEF Creating, Finalizing
    <3> QED BY <1>1, <2>3, <2>4, <3>1 DEF Spares, Creates
  <2>5. ASSUME call[c].req.key # Null, NEW d \in Calls \ {c}, Creating(call[d])
        PROVE  call[d].req.key # call[c].req.key
    BY <2>2, <2>5 DEF KeyHolders, At, Creating, Req, Finalizing
  <2> QED BY <1>1, <2>1, <2>2, <2>3, <2>4, <2>5, CreatesStep
<1>9. ASSUME NEW c \in Calls, StartsSubmit(c) PROVE Creates'
  <2>1. PICK r, p, rows :
              /\ Starts(c, r, p, rows) /\ r = call[c].report
              /\ call[c].pc = "check" /\ call[c].req.kind = "submit"
    BY <1>1, <1>9, StartsSubmitShape
  <2>2. Only(c) /\ call'[c].report = r /\ call'[c].req = call[c].req /\ report' = report
    BY <2>1 DEF Starts
  <2>3. \A d \in Calls \ {c} : Creating(call[d]) => Spares(c, d)
    BY <1>1, <2>1, <2>2, SparesOthers DEF Live
  <2> QED BY <1>1, <2>1, <2>2, <2>3, CreatesStep DEF Creating, Finalizing
<1>10. ASSUME NEW c \in Calls, Drafts(c) PROVE Creates'
  <2>1. PICK r \in Reports :
              /\ \A d \in Calls : call[d].report = r => call[d].pc = "done"
              /\ \A x \in Reports \ {r} : report'[x] = report[x]
              /\ report'[r].key = call[c].req.key
              /\ Only(c) /\ call'[c].pc = "audit" /\ call'[c].report = r
    BY <1>1, <1>10, DraftShape
  <2>2. KeyHolders(c) = {} BY <1>10 DEF Drafts
  <2>3. ASSUME NEW d \in Calls \ {c}, Creating(call[d]) PROVE Spares(c, d)
    <3>1. call[d].report # r BY <2>1, <2>3 DEF Creating, Finalizing
    <3>2. call[d].req.key # Null => call[d].req.key # call[c].req.key
      BY <2>2, <2>3 DEF KeyHolders, At, Creating, Req, Finalizing
    <3> QED BY <1>1, <1>2, <2>1, <2>3, <3>1, <3>2 DEF Spares, Creates
  <2> QED BY <1>1, <2>1, <2>3, CreatesStep DEF Creating, Finalizing
<1>11. ASSUME NEW c \in Calls, GoesOn(c) PROVE Creates'
  <2>1. /\ Only(c) /\ SameReport(call[c], call'[c]) /\ Finalizing(call[c]) /\ Finalizing(call'[c])
        /\ report' = report
    BY <1>1, <1>11, GoesOnShape DEF TypeInv
  <2>2. \A d \in Calls \ {c} : Creating(call[d]) => Spares(c, d)
    BY <1>1, <2>1, SparesOthers DEF Live, SameReport, Finalizing
  <2>3. Creating(call'[c]) => Creating(call[c]) BY <2>1 DEF Creating, SameReport
  <2> QED BY <1>1, <2>1, <2>2, <2>3, CreatesStep DEF Creates, SameReport
<1>12. ASSUME NEW c \in Calls, Finalize(c) PROVE Creates'
  <2>1. PICK r, p, rows : Finalizes(c, r, p, rows) BY <1>12, FinalizeShape
  <2>2. /\ Only(c) /\ call'[c].pc = "done" /\ call[c].pc = "consume" /\ r \in Reports
        /\ \A x \in Reports \ {r} : report'[x] = report[x]
        /\ report'[r].key = IF call[c].req.kind = "create" THEN call[c].req.key ELSE report[r].key
        /\ r = call[c].report
    BY <2>1 DEF Finalizes, Ready
  <2>3. call[c].req.kind \in {"create", "submit"} BY <2>2, Fresh
  <2>4. ASSUME NEW d \in Calls \ {c}, Creating(call[d]) PROVE Spares(c, d)
    <3>1. CASE call[c].req.kind = "create"
      <4>1. Creating(call[c]) BY <2>2, <3>1 DEF Creating, Finalizing
      <4>2. call[d].report # r BY <1>1, <2>2, <2>4, <4>1 DEF Creates, Creating, Finalizing
      <4>3. call[d].req.key # Null => call[d].req.key # call[c].req.key
        BY <1>1, <2>4, <4>1 DEF Creates
      <4> QED BY <1>1, <1>2, <2>2, <2>4, <3>1, <4>2, <4>3 DEF Spares, Creates
    <3>2. CASE call[c].req.kind = "submit"
      <4>1. report[r].status = "DRAFT"
        BY <2>2, <3>2 DEF Inv, ReportLocks, Submitting, Finalizing
      <4>2. call[d].report # r BY <1>2, <2>4, <4>1
      <4> QED BY <1>1, <1>2, <2>2, <2>4, <3>2, <4>2 DEF Spares, Creates
    <3> QED BY <2>3, <3>1, <3>2
  <2> QED BY <1>1, <2>2, <2>4, CreatesStep DEF Creating, Finalizing
<1>13. ASSUME NEW c \in Calls, ReviewDecide(c) PROVE Creates'
  <2>0. PICK r, action : Reviews(c, r, action) BY <1>1, <1>13, ReviewShape
  <2>1. /\ r \in Reports /\ action \in {"APPROVED", "REJECTED"}
        /\ r = call[c].report /\ call[c].pc = "decide" /\ report[r].status # "NONE"
        /\ Only(c) /\ SameWork(call[c], call'[c]) /\ call'[c].pc = "done"
        /\ \A x \in Reports \ {r} : report'[x] = report[x]
        /\ report'[r].key = report[r].key
    BY <2>0 DEF Reviews
  <2>2. \A d \in Calls \ {c} : Creating(call[d]) => Spares(c, d)
    BY <1>1, <2>1, SparesOthers DEF SameWork, Live
  <2> QED BY <1>1, <2>1, <2>2, CreatesStep DEF Creating, Finalizing
<1>14. ASSUME NEW b \in Balances, Elsewhere(b) PROVE Creates'
  BY <1>1, <1>14 DEF Creates, Elsewhere, records
<1>15. CASE UNCHANGED vars
  BY <1>1, <1>15 DEF vars, Creates
<1> QED BY <1>3, <1>4, <1>5, <1>6, <1>7, <1>8, <1>9, <1>10, <1>11, <1>12, <1>13, <1>14, <1>15,
           NextKinds DEF Kinds

\* A step that gives no report a key.
LEMMA KeysStay ==
    ASSUME TypeInv, KeysOnce, NEW c \in Calls, Only(c),
           \A r \in Reports : report'[r].key = report[r].key,
           call'[c].retry => \/ call[c].retry /\ call'[c].req = call[c].req
                             \/ \E r \in Reports : report[r].key = call'[c].req.key
    PROVE  KeysOnce'
<1>1. ASSUME NEW d \in Calls, call'[d].retry PROVE \E r \in Reports : report[r].key = call'[d].req.key
  <2>1. CASE d = c
    BY <1>1, <2>1 DEF KeysOnce
  <2>2. CASE d # c
    BY <1>1, <2>2 DEF Only, KeysOnce
  <2> QED BY <2>1, <2>2
<1>2. ASSUME NEW d \in Calls, call'[d].retry PROVE \E r \in Reports : report'[r].key = call'[d].req.key
  BY <1>1, <1>2
<1> QED BY <1>2 DEF KeysOnce

\* A step that gives report r the key of call c, which no report had.
LEMMA KeyGiven ==
    ASSUME TypeInv, KeysOnce, NEW c \in Calls, Only(c), NEW r \in Reports, report[r].status = "NONE",
           ~call'[c].retry, report'[r].key = call[c].req.key,
           call[c].req.key # Null => \A x \in Reports : report[x].key # call[c].req.key,
           \A x \in Reports \ {r} : report'[x] = report[x]
    PROVE  KeysOnce'
<1>1. report[r].key = Null BY DEF TypeInv, Tables, NoReport, Statuses
<1>2. ASSUME NEW d \in Calls, call'[d].retry PROVE \E x \in Reports : report'[x].key = call'[d].req.key
  <2>1. d # c /\ call'[d] = call[d] BY <1>2 DEF Only
  <2>2. call[d].retry /\ call[d].req.key # Null
    BY <1>2, <2>1 DEF TypeInv, CallsOK, RetryOK
  <2>3. PICK x \in Reports : report[x].key = call[d].req.key BY <2>2 DEF KeysOnce
  <2>4. x # r BY <1>1, <2>2, <2>3
  <2> QED BY <2>1, <2>3, <2>4
<1>3. ASSUME NEW x \in Reports, NEW y \in Reports, x # y, report'[x].key # Null
      PROVE  report'[x].key # report'[y].key
  BY <1>3 DEF KeysOnce
<1> QED BY <1>2, <1>3 DEF KeysOnce

LEMMA KeysNext == ASSUME Inv, [Next]_vars PROVE KeysOnce'
<1>1. TypeInv /\ KeysOnce BY DEF Inv
<1>2. ASSUME NEW c \in Calls, Begin(c) PROVE KeysOnce'
  <2>1. /\ Only(c)
        /\ call'[c].retry => \E r \in Reports : report[r].key = call'[c].req.key
    BY <1>1, <1>2, BeginShape DEF TypeInv
  <2>2. report' = report BY <1>2 DEF Begin, records
  <2> QED BY <1>1, <2>1, <2>2, KeysStay
<1>3. ASSUME NEW c \in Calls, Ends(c) PROVE KeysOnce'
  <2>1. Only(c) /\ SameWork(call[c], call'[c]) /\ report' = report BY <1>1, <1>3, EndsShape
  <2> QED BY <1>1, <2>1, KeysStay DEF SameWork
<1>4. ASSUME NEW c \in Calls, Advances(c) PROVE KeysOnce'
  <2>1. Only(c) /\ SameWork(call[c], call'[c]) /\ report' = report BY <1>1, <1>4, AdvancesShape
  <2> QED BY <1>1, <2>1, KeysStay DEF SameWork
<1>5. ASSUME NEW c \in Calls, UpdateDelete(c), Live(call[c]) PROVE KeysOnce'
  <2>1. call[c].pc = "delete" /\ call[c].req.kind = "update" BY <1>5 DEF UpdateDelete, At
  <2>2. Id(c) \in Reports BY <1>1, <1>5, <2>1, CallShape DEF StateOK, Id
  <2>3. Only(c) /\ call'[c].req = call[c].req /\ call'[c].retry = call[c].retry
    BY <1>1, <1>5, <2>2, DeleteShape DEF TypeInv
  <2>4. report' = report BY <1>5 DEF UpdateDelete, records
  <2> QED BY <1>1, <2>3, <2>4, KeysStay
<1>6. ASSUME NEW c \in Calls, UpdateWrite(c) PROVE KeysOnce'
  <2>1. PICK r \in Reports :
              /\ Only(c) /\ SameWork(call[c], call'[c])
              /\ \A x \in Reports \ {r} : report'[x] = report[x]
              /\ report'[r].key = report[r].key
    BY <1>1, <1>6, UpdateShape
  <2> QED BY <1>1, <2>1, KeysStay DEF SameWork
<1>7. ASSUME NEW c \in Calls, StartsCreate(c) \/ StartsSubmit(c) PROVE KeysOnce'
  <2>1. PICK r, p, rows : Starts(c, r, p, rows)
    BY <1>1, <1>7, StartsCreateShape, StartsSubmitShape
  <2> QED BY <1>1, <2>1, KeysStay DEF Starts
<1>8. ASSUME NEW c \in Calls, Drafts(c) PROVE KeysOnce'
  <2>1. PICK r \in Reports :
              /\ report[r].status = "NONE"
              /\ \A x \in Reports \ {r} : report'[x] = report[x]
              /\ report'[r].key = call[c].req.key
              /\ Only(c) /\ call'[c].retry = call[c].retry
    BY <1>1, <1>8, DraftShape
  <2>2. /\ call[c].req.key # Null => \A x \in Reports : report[x].key # call[c].req.key
        /\ call[c].pc = "insert"
    BY <1>8 DEF Drafts, Req, At
  <2>3. ~call[c].retry BY <1>1, <2>2 DEF TypeInv, CallsOK, RetryOK
  <2>4. ~call'[c].retry BY <2>1, <2>3, Zenon
  <2> QED BY <1>1, <2>1, <2>2, <2>4, KeyGiven
<1>9. ASSUME NEW c \in Calls, GoesOn(c) PROVE KeysOnce'
  <2>1. Only(c) /\ SameReport(call[c], call'[c]) /\ report' = report
    BY <1>1, <1>9, GoesOnShape DEF TypeInv
  <2> QED BY <1>1, <2>1, KeysStay DEF SameReport
<1>10. ASSUME NEW c \in Calls, Finalize(c) PROVE KeysOnce'
  <2>1. PICK r, p, rows : Finalizes(c, r, p, rows) BY <1>10, FinalizeShape
  <2>2. /\ Only(c) /\ call[c].pc = "consume" /\ r \in Reports
        /\ \A x \in Reports \ {r} : report'[x] = report[x]
        /\ report'[r].key = IF call[c].req.kind = "create" THEN call[c].req.key ELSE report[r].key
        /\ r = call[c].report /\ SameWork(call[c], call'[c])
    BY <2>1 DEF Finalizes, Ready
  <2>3. call[c].req.kind \in {"create", "submit"} BY <2>2, Fresh
  <2>4. CASE call[c].req.kind = "create"
    <3>1. Creating(call[c]) BY <2>2, <2>4 DEF Creating, Finalizing
    <3>2. /\ report[r].status = "NONE"
          /\ call[c].req.key # Null => \A x \in Reports : report[x].key # call[c].req.key
      BY <2>2, <3>1 DEF Inv, Creates
    <3>3. ~call[c].retry BY <1>1, <2>2 DEF TypeInv, CallsOK, RetryOK
    <3>4. ~call'[c].retry BY <2>2, <3>3, Zenon DEF SameWork
    <3> QED BY <1>1, <2>2, <2>4, <3>2, <3>4, KeyGiven
  <2>5. CASE call[c].req.kind = "submit"
    BY <1>1, <2>2, <2>5, KeysStay DEF SameWork
  <2> QED BY <2>3, <2>4, <2>5
<1>11. ASSUME NEW c \in Calls, ReviewDecide(c) PROVE KeysOnce'
  <2>0. PICK r, action : Reviews(c, r, action) BY <1>1, <1>11, ReviewShape
  <2>1. /\ r \in Reports /\ action \in {"APPROVED", "REJECTED"}
        /\ Only(c) /\ SameWork(call[c], call'[c])
        /\ \A x \in Reports \ {r} : report'[x] = report[x]
        /\ report'[r].key = report[r].key
    BY <2>0 DEF Reviews
  <2> QED BY <1>1, <2>1, KeysStay DEF SameWork
<1>12. ASSUME NEW b \in Balances, Elsewhere(b) PROVE KeysOnce'
  BY <1>1, <1>12 DEF KeysOnce, Elsewhere, records
<1>13. CASE UNCHANGED vars
  BY <1>1, <1>13 DEF vars, KeysOnce
<1> QED BY <1>2, <1>3, <1>4, <1>5, <1>6, <1>7, <1>8, <1>9, <1>10, <1>11, <1>12, <1>13,
           NextKinds DEF Kinds

----------------------------------------------------------------------------
(* Charges. *)

\* A step that leaves status, revisions, movements and submissions as they are.
LEMMA ChargesStay ==
    ASSUME Charges, NEW c \in Calls, Only(c),
           \A r \in Reports : report'[r].status = report[r].status /\ report'[r].revision = report[r].revision,
           revisions' = revisions, charged' = charged, \A r \in Reports : Told(r)' = Told(r),
           \/ call'[c].pc # "decide"
           \/ call'[c].report \in Reports /\ report[call'[c].report].status # "DRAFT",
           TypeInv
    PROVE  Charges'
<1>1. ASSUME NEW r \in Reports PROVE IF Finalized(r)' THEN Charged(r)' ELSE Uncharged(r)'
  <2>1. Finalized(r)' <=> Finalized(r) BY DEF Finalized
  <2>2. CASE Finalized(r)
    <3>1. PICK v \in revisions[r], e \in audit :
            /\ revisions[r] = {v} /\ v.number = report[r].revision /\ Told(r) = {e}
            /\ Mine(r) = {[report |-> r, revision |-> v.number, project |-> v.project,
                           material |-> m, qty |-> Total(v.rows, m)] : m \in Consumable(v.rows)}
      BY <2>2 DEF Charges, Charged
    <3>2. e \in audit' BY <3>1 DEF Told
    <3>3. Mine(r)' = Mine(r) BY DEF Mine
    <3>4. Told(r)' = {e} BY <3>1
    <3>5. Charged(r)' BY <3>1, <3>2, <3>3, <3>4 DEF Charged
    <3> QED BY <2>1, <2>2, <3>5
  <2>3. CASE ~Finalized(r)
    <3>1. Uncharged(r) BY <2>3 DEF Charges
    <3>2. Mine(r)' = Mine(r) BY DEF Mine
    <3> QED BY <2>1, <2>3, <3>1, <3>2 DEF Uncharged
  <2> QED BY <2>2, <2>3
<1>2. ASSUME NEW r \in DOMAIN Existing, report'[r].status \in {"NONE", "DRAFT"}
      PROVE  Existing[r].status = "DRAFT"
  BY <1>2, ReportsAssumption DEF Charges
<1>3. ASSUME NEW d \in Calls, call'[d].pc = "decide" PROVE report'[call'[d].report].status # "DRAFT"
  <2>1. CASE d = c
    BY <1>3, <2>1
  <2>2. CASE d # c
    <3>1. call'[d] = call[d] BY <2>2 DEF Only
    <3>2. Live(call[d]) BY <1>3, <3>1 DEF Live
    <3>3. call[d].report \in Reports
      BY <1>3, <3>1, <3>2, CallShape DEF StateOK
    <3> QED BY <1>3, <3>1, <3>3 DEF Charges
  <2> QED BY <2>1, <2>2
<1> QED BY <1>1, <1>2, <1>3 DEF Charges

\* A step after which every report is charged as before, but for one that it submits.
LEMMA ChargesFinalize == ASSUME Inv, NEW c \in Calls, Finalize(c) PROVE Charges'
<1>1. PICK r, p, rows : Finalizes(c, r, p, rows) BY FinalizeShape
<1>2. TypeInv /\ Charges BY DEF Inv
<1>3. /\ r \in Reports /\ p \in Projects /\ Uncharged(r) /\ ~Finalized(r) /\ Only(c) /\ call'[c].pc = "done"
      /\ charged' = charged \cup NewCharges(r, p, rows)
      /\ revisions' = [revisions EXCEPT ![r] = {[number |-> 1, project |-> p, rows |-> rows]}]
      /\ \A x \in Reports \ {r} : report'[x] = report[x]
      /\ report'[r].status = "SUBMITTED" /\ report'[r].revision = 1
      /\ audit' = audit \cup {[call |-> c, action |-> "SUBMITTED", report |-> r]}
      /\ r = call[c].report
  BY <1>1 DEF Finalizes
<1>4. ASSUME NEW x \in Reports \ {r} PROVE IF Finalized(x)' THEN Charged(x)' ELSE Uncharged(x)'
  <2>1. Finalized(x)' <=> Finalized(x) BY <1>3 DEF Finalized
  <2>2. revisions'[x] = revisions[x] BY <1>2, <1>3 DEF TypeInv, Tables
  <2>3. Mine(x)' = Mine(x)
    <3>1. \A y \in NewCharges(r, p, rows) : y.report = r BY DEF NewCharges, Charge
    <3> QED BY <1>3, <3>1 DEF Mine
  <2>4. Told(x)' = Told(x) BY <1>3 DEF Told
  <2>5. CASE Finalized(x)
    <3>1. PICK v \in revisions[x], e \in audit :
            /\ revisions[x] = {v} /\ v.number = report[x].revision /\ Told(x) = {e}
            /\ Mine(x) = {[report |-> x, revision |-> v.number, project |-> v.project,
                           material |-> m, qty |-> Total(v.rows, m)] : m \in Consumable(v.rows)}
      BY <1>2, <2>5 DEF Charges, Charged
    <3>2. e \in audit' BY <1>3
    <3>3. Charged(x)' BY <1>3, <2>2, <2>3, <2>4, <3>1, <3>2 DEF Charged
    <3> QED BY <2>1, <2>5, <3>3
  <2>6. CASE ~Finalized(x)
    <3>1. Uncharged(x) BY <1>2, <2>6 DEF Charges
    <3> QED BY <2>1, <2>2, <2>3, <2>4, <2>6, <3>1 DEF Uncharged
  <2> QED BY <2>5, <2>6
<1>5. Charged(r)'
  <2>1. PICK v, e : /\ v = [number |-> 1, project |-> p, rows |-> rows]
                    /\ e = [call |-> c, action |-> "SUBMITTED", report |-> r]
    OBVIOUS
  <2>2. revisions'[r] = {v} /\ e \in audit' /\ v.number = 1 /\ v.project = p /\ v.rows = rows
    BY <1>2, <1>3, <2>1 DEF TypeInv, Tables
  <2>3. Told(r)' = {e} BY <1>3, <2>1 DEF Told, Uncharged
  <2>4. Mine(r)' = NewCharges(r, p, rows)
    <3>1. \A y \in NewCharges(r, p, rows) : y.report = r BY DEF NewCharges, Charge
    <3> QED BY <1>3, <3>1 DEF Mine, Uncharged
  <2>5. NewCharges(r, p, rows) =
          {[report |-> r, revision |-> v.number, project |-> v.project,
            material |-> m, qty |-> Total(v.rows, m)] : m \in Consumable(v.rows)}
    BY <2>2 DEF NewCharges, Charge
  <2> QED BY <1>3, <2>2, <2>3, <2>4, <2>5 DEF Charged
<1>6. report[r].status \in {"NONE", "DRAFT"}
  <2>1. call[c].pc = "consume" BY <1>1 DEF Finalizes, Ready
  <2> QED BY <1>3, <2>1, Fresh DEF Inv, Creates, ReportLocks, Creating, Submitting, Finalizing
<1>7. Finalized(r)' BY <1>2, <1>3, <1>6 DEF Charges, Finalized
<1>8. ASSUME NEW x \in DOMAIN Existing, report'[x].status \in {"NONE", "DRAFT"}
      PROVE  Existing[x].status = "DRAFT"
  BY <1>2, <1>3, <1>8, ReportsAssumption DEF Charges
<1>9. ASSUME NEW d \in Calls, call'[d].pc = "decide" PROVE report'[call'[d].report].status # "DRAFT"
  <2>1. d # c /\ call'[d] = call[d] BY <1>3, <1>9 DEF Only
  <2>2. Live(call[d]) BY <1>9, <2>1 DEF Live
  <2>3. call[d].report \in Reports
    BY <1>2, <1>9, <2>1, <2>2, CallShape DEF StateOK
  <2> QED BY <1>2, <1>3, <1>9, <2>1, <2>3 DEF Charges
<1> QED BY <1>4, <1>5, <1>7, <1>8, <1>9 DEF Charges

LEMMA ChargesNext == ASSUME Inv, [Next]_vars PROVE Charges'
<1>1. TypeInv /\ Charges BY DEF Inv
<1>2. ASSUME NEW c \in Calls, Begin(c) PROVE Charges'
  <2>1. Only(c) /\ call'[c].pc = "check" BY <1>1, <1>2, BeginShape DEF TypeInv
  <2>2. UNCHANGED <<report, revisions, charged, audit>> BY <1>2 DEF Begin, records
  <2>3. \A r \in Reports : Told(r)' = Told(r) BY <2>2 DEF Told
  <2> QED BY <1>1, <2>1, <2>2, <2>3, ChargesStay
<1>3. ASSUME NEW c \in Calls, Ends(c) PROVE Charges'
  <2>1. /\ Only(c) /\ call'[c].pc = "done" /\ UNCHANGED <<report, revisions, charged>>
        /\ \A r \in Reports : Told(r)' = Told(r)
    BY <1>1, <1>3, EndsShape
  <2> QED BY <1>1, <2>1, ChargesStay
<1>4. ASSUME NEW c \in Calls, Advances(c) PROVE Charges'
  <2>1. /\ Only(c) /\ SameWork(call[c], call'[c]) /\ call[c].pc = "check"
        /\ call'[c].pc = "decide" => /\ call[c].req.kind = "review"
                                     /\ report[call[c].report].status = "SUBMITTED"
        /\ UNCHANGED <<report, revisions, charged, audit>>
    BY <1>1, <1>4, AdvancesShape
  <2>2. \A r \in Reports : Told(r)' = Told(r) BY <2>1 DEF Told
  <2>3. call'[c].pc = "decide" => call'[c].report \in Reports
    BY <1>1, <2>1, CallShape DEF SameWork, StateOK, Live
  <2>4. call'[c].pc = "decide" => report[call'[c].report].status # "DRAFT"
    BY <2>1 DEF SameWork
  <2> QED BY <1>1, <2>1, <2>2, <2>3, <2>4, ChargesStay
<1>5. ASSUME NEW c \in Calls, UpdateDelete(c), Live(call[c]) PROVE Charges'
  <2>1. call[c].pc = "delete" /\ call[c].req.kind = "update" BY <1>5 DEF UpdateDelete, At
  <2>2. Id(c) \in Reports BY <1>1, <1>5, <2>1, CallShape DEF StateOK, Id
  <2>3. Only(c) /\ call'[c].pc = "write" BY <1>1, <1>5, <2>2, DeleteShape DEF TypeInv
  <2>4. UNCHANGED <<report, revisions, charged, audit>> BY <1>5 DEF UpdateDelete, records
  <2>5. \A r \in Reports : Told(r)' = Told(r) BY <2>4 DEF Told
  <2> QED BY <1>1, <2>3, <2>4, <2>5, ChargesStay
<1>6. ASSUME NEW c \in Calls, UpdateWrite(c) PROVE Charges'
  <2>1. PICK r \in Reports :
              /\ Only(c) /\ call'[c].pc = "audit"
              /\ \A x \in Reports \ {r} : report'[x] = report[x]
              /\ report'[r].status = report[r].status /\ report'[r].revision = report[r].revision
              /\ UNCHANGED <<revisions, charged, audit>>
    BY <1>1, <1>6, UpdateShape
  <2>2. \A x \in Reports : Told(x)' = Told(x) BY <2>1 DEF Told
  <2> QED BY <1>1, <2>1, <2>2, ChargesStay
<1>7. ASSUME NEW c \in Calls, StartsCreate(c) \/ StartsSubmit(c) PROVE Charges'
  <2>1. PICK r, p, rows : Starts(c, r, p, rows)
    BY <1>1, <1>7, StartsCreateShape, StartsSubmitShape
  <2>2. Only(c) /\ call'[c].pc = "preflight" /\ UNCHANGED <<report, revisions, charged, audit>>
    BY <2>1 DEF Starts
  <2>3. \A x \in Reports : Told(x)' = Told(x) BY <2>2 DEF Told
  <2> QED BY <1>1, <2>2, <2>3, ChargesStay
<1>8. ASSUME NEW c \in Calls, Drafts(c) PROVE Charges'
  <2>1. PICK r \in Reports :
              /\ report[r].status = "NONE"
              /\ \A x \in Reports \ {r} : report'[x] = report[x]
              /\ report'[r].status = "DRAFT"
              /\ Only(c) /\ call'[c].pc = "audit"
    BY <1>1, <1>8, DraftShape
  <2>2. UNCHANGED <<revisions, charged, audit>> BY <1>8 DEF Drafts
  <2>3. ASSUME NEW x \in Reports PROVE IF Finalized(x)' THEN Charged(x)' ELSE Uncharged(x)'
    <3>1. Finalized(x)' <=> Finalized(x) BY <2>1 DEF Finalized
    <3>2. Mine(x)' = Mine(x) /\ Told(x)' = Told(x) BY <2>2 DEF Mine, Told
    <3>3. CASE Finalized(x)
      <4>1. x # r BY <2>1, <3>3 DEF Finalized
      <4>2. Charged(x)' <=> Charged(x) BY <2>1, <2>2, <3>2, <4>1 DEF Charged
      <4> QED BY <1>1, <3>1, <3>3, <4>2 DEF Charges
    <3>4. CASE ~Finalized(x)
      <4>1. Uncharged(x)' <=> Uncharged(x) BY <2>2, <3>2 DEF Uncharged
      <4> QED BY <1>1, <3>1, <3>4, <4>1 DEF Charges
    <3> QED BY <3>3, <3>4
  <2>4. ASSUME NEW x \in DOMAIN Existing, report'[x].status \in {"NONE", "DRAFT"}
        PROVE  Existing[x].status = "DRAFT"
    BY <1>1, <2>1, <2>4, ReportsAssumption DEF Charges
  <2>5. ASSUME NEW d \in Calls, call'[d].pc = "decide" PROVE report'[call'[d].report].status # "DRAFT"
    <3>1. d # c /\ call'[d] = call[d] BY <2>1, <2>5 DEF Only
    <3>2. Live(call[d]) BY <2>5, <3>1 DEF Live
    <3>3. call[d].report \in Reports
      BY <1>1, <2>5, <3>1, <3>2, CallShape DEF StateOK
    <3>4. call[d].report # r
      BY <1>1, <2>1, <2>5, <3>1, <3>2, <3>3, ReportsAssumption DEF TypeInv, AboutOK, Creating, Finalizing
    <3> QED BY <1>1, <2>1, <2>5, <3>1, <3>3, <3>4 DEF Charges
  <2> QED BY <2>3, <2>4, <2>5 DEF Charges
<1>9. ASSUME NEW c \in Calls, GoesOn(c) PROVE Charges'
  <2>1. Only(c) /\ Finalizing(call'[c]) /\ UNCHANGED <<report, revisions, charged, audit>>
    BY <1>1, <1>9, GoesOnShape DEF TypeInv
  <2>2. \A r \in Reports : Told(r)' = Told(r) BY <2>1 DEF Told
  <2>3. call'[c].pc # "decide" BY <2>1 DEF Finalizing
  <2> QED BY <1>1, <2>1, <2>2, <2>3, ChargesStay
<1>10. ASSUME NEW c \in Calls, ReviewDecide(c) PROVE Charges'
  <2>0. PICK r, action : Reviews(c, r, action) BY <1>1, <1>10, ReviewShape
  <2>1. /\ r \in Reports /\ action \in {"APPROVED", "REJECTED"}
        /\ r = call[c].report /\ call[c].pc = "decide"
        /\ Only(c) /\ call'[c].pc = "done" /\ report[r].status # "NONE"
        /\ \A x \in Reports \ {r} : report'[x] = report[x]
        /\ report'[r].status = action /\ report'[r].revision = report[r].revision
        /\ audit' = audit \cup {[call |-> c, action |-> action, report |-> r]}
        /\ UNCHANGED <<revisions, charged>>
    BY <2>0 DEF Reviews
  <2>2. report[r].status \in {"SUBMITTED", "APPROVED", "REJECTED"}
    <3>1. report[r].status \in Statuses BY <1>1, <2>1 DEF TypeInv, Tables, NoReport
    <3> QED BY <1>1, <2>1, <3>1 DEF Charges, Statuses
  <2>3. ASSUME NEW x \in Reports PROVE IF Finalized(x)' THEN Charged(x)' ELSE Uncharged(x)'
    <3>1. Finalized(x)' <=> Finalized(x) BY <2>1, <2>2 DEF Finalized
    <3>2. Mine(x)' = Mine(x) /\ Told(x)' = Told(x) BY <2>1 DEF Mine, Told
    <3>3. report'[x].revision = report[x].revision BY <2>1
    <3>4. CASE Finalized(x)
      <4>1. PICK v \in revisions[x], e \in audit :
              /\ revisions[x] = {v} /\ v.number = report[x].revision /\ Told(x) = {e}
              /\ Mine(x) = {[report |-> x, revision |-> v.number, project |-> v.project,
                             material |-> m, qty |-> Total(v.rows, m)] : m \in Consumable(v.rows)}
        BY <1>1, <3>4 DEF Charges, Charged
      <4>2. e \in audit' BY <2>1
      <4>3. Charged(x)' BY <2>1, <3>2, <3>3, <4>1, <4>2 DEF Charged
      <4> QED BY <3>1, <3>4, <4>3
    <3>5. CASE ~Finalized(x)
      <4>1. Uncharged(x)' <=> Uncharged(x) BY <2>1, <3>2 DEF Uncharged
      <4> QED BY <1>1, <3>1, <3>5, <4>1 DEF Charges
    <3> QED BY <3>4, <3>5
  <2>4. ASSUME NEW x \in DOMAIN Existing, report'[x].status \in {"NONE", "DRAFT"}
        PROVE  Existing[x].status = "DRAFT"
    BY <1>1, <2>1, <2>4, ReportsAssumption DEF Charges
  <2>5. ASSUME NEW d \in Calls, call'[d].pc = "decide" PROVE report'[call'[d].report].status # "DRAFT"
    <3>1. d # c /\ call'[d] = call[d] BY <2>1, <2>5 DEF Only
    <3>2. Live(call[d]) BY <2>5, <3>1 DEF Live
    <3>3. call[d].report \in Reports
      BY <1>1, <2>5, <3>1, <3>2, CallShape DEF StateOK
    <3> QED BY <1>1, <2>1, <2>5, <3>1, <3>3 DEF Charges
  <2> QED BY <2>3, <2>4, <2>5 DEF Charges
<1>11. ASSUME NEW b \in Balances, Elsewhere(b) PROVE Charges'
  BY <1>1, <1>11 DEF Charges, Charged, Uncharged, Finalized, Mine, Told, Elsewhere, records
<1>12. CASE UNCHANGED vars
  BY <1>1, <1>12 DEF vars, Charges, Charged, Uncharged, Finalized, Mine, Told
<1> QED BY <1>2, <1>3, <1>4, <1>5, <1>6, <1>7, <1>8, <1>9, <1>10, <1>11, <1>12,
           ChargesFinalize, NextKinds DEF Kinds

----------------------------------------------------------------------------
(* Calls that come one after the other. *)

\* What holds of a call that is the only one about its report.
AloneAt(c) ==
    LET r == call[c].report
    IN  /\ \A d \in Calls \ {c} : call[d].report = r => ~Live(call[d])
        /\ call[c].pc \in {"delete", "write"} => report[r].status = "DRAFT"
        /\ call[c].pc = "write" =>
              call[c].rows = IF call[c].req.lines = Null THEN {} ELSE children[r]
        /\ call[c].pc = "decide" => \A a \in approvals : a.report # r

\* The step of call c has nothing to do with the report of call d.
Apart(c, d) ==
    LET r == call[d].report
    IN  /\ call'[c].report = r => ~Live(call'[c])
        /\ report'[r].status = report[r].status /\ children'[r] = children[r]
        /\ \A a \in approvals' : a.report = r => a \in approvals

LEMMA AloneStep ==
    ASSUME Alone, NEW c \in Calls, Only(c), raced \subseteq raced',
           \A d \in Calls \ {c} : Live(call[d]) /\ call[d].report \in Reports \ raced' => Apart(c, d),
           Live(call'[c]) /\ call'[c].report \in Reports \ raced' => AloneAt(c)'
    PROVE  Alone'
<1> SUFFICES ASSUME NEW d \in Calls, Live(call'[d]), call'[d].report \in Reports \ raced'
             PROVE  AloneAt(d)'
  BY DEF Alone, AloneAt
<1>1. CASE d = c
  BY <1>1
<1>2. CASE d # c
  <2>1. call'[d] = call[d] /\ Live(call[d]) /\ call[d].report \in Reports \ raced
    BY <1>2 DEF Only
  <2>2. AloneAt(d) BY <2>1 DEF Alone, AloneAt
  <2>3. Apart(c, d) BY <1>2, <2>1
  <2>4. ASSUME NEW e \in Calls \ {d}, call'[e].report = call[d].report PROVE ~Live(call'[e])
    <3>1. CASE e = c
      BY <2>3, <2>4, <3>1 DEF Apart
    <3>2. CASE e # c
      BY <2>2, <2>4, <3>2 DEF Only, AloneAt
    <3> QED BY <3>1, <3>2
  <2> QED BY <2>1, <2>2, <2>3, <2>4 DEF AloneAt, Apart
<1> QED BY <1>1, <1>2

\* A call that stays at its report is apart from every other that is alone at one.
LEMMA StaysApart ==
    ASSUME Alone, NEW c \in Calls, Live(call[c]), raced \subseteq raced', call'[c].report = call[c].report,
           \A r \in Reports \ {call[c].report} :
              /\ report'[r].status = report[r].status /\ children'[r] = children[r]
              /\ \A a \in approvals' : a.report = r => a \in approvals
    PROVE  \A d \in Calls \ {c} : Live(call[d]) /\ call[d].report \in Reports \ raced' => Apart(c, d)
<1> SUFFICES ASSUME NEW d \in Calls \ {c}, Live(call[d]), call[d].report \in Reports \ raced'
             PROVE  Apart(c, d)
  OBVIOUS
<1>1. call[c].report # call[d].report BY DEF Alone
<1> QED BY <1>1 DEF Apart

LEMMA AloneNext == ASSUME Inv, [Next]_vars PROVE Alone'
<1>1. TypeInv /\ Alone BY DEF Inv
<1>2. ASSUME NEW c \in Calls, Begin(c) PROVE Alone'
  <2>1. /\ Only(c) /\ call[c].pc = "free" /\ call'[c].pc = "check"
        /\ raced' = raced \cup {x \in {call'[c].report} \ {Null} : \E d \in Running : Id(d) = x}
    BY <1>1, <1>2, BeginShape DEF TypeInv
  <2>2. UNCHANGED <<report, children, approvals>> BY <1>2 DEF Begin, records
  <2>3. ASSUME NEW d \in Calls \ {c}, Live(call[d]), call[d].report \in Reports \ raced'
        PROVE  call'[c].report # call[d].report
    <3>1. d \in Running /\ Id(d) = call[d].report BY <2>3 DEF Running, Live, Id
    <3> QED BY <2>1, <2>3, <3>1, ReportsAssumption
  <2>4. ASSUME NEW d \in Calls \ {c}, Live(call[d]), call[d].report \in Reports \ raced' PROVE Apart(c, d)
    BY <2>2, <2>3, <2>4 DEF Apart
  <2>5. ASSUME call'[c].report \in Reports \ raced' PROVE AloneAt(c)'
    BY <2>1, <2>3, <2>5 DEF AloneAt, Only
  <2> QED BY <1>1, <2>1, <2>4, <2>5, AloneStep
<1>3. ASSUME NEW c \in Calls, Ends(c) PROVE Alone'
  <2>1. /\ Only(c) /\ SameWork(call[c], call'[c]) /\ Live(call[c]) /\ call'[c].pc = "done"
        /\ UNCHANGED <<report, children, approvals, raced>>
    BY <1>1, <1>3, EndsShape
  <2>2. \A d \in Calls \ {c} : Live(call[d]) /\ call[d].report \in Reports \ raced' => Apart(c, d)
    BY <1>1, <2>1, StaysApart DEF SameWork
  <2> QED BY <1>1, <2>1, <2>2, AloneStep DEF Live
<1>4. ASSUME NEW c \in Calls, Advances(c) PROVE Alone'
  <2>1. /\ Only(c) /\ SameWork(call[c], call'[c]) /\ call[c].pc = "check"
        /\ call'[c].pc \in {"insert", "delete", "decide"}
        /\ call'[c].pc = "delete" => report[call[c].report].status = "DRAFT"
        /\ call'[c].pc = "decide" => \A a \in approvals : a.report # call[c].report
        /\ UNCHANGED <<report, children, approvals, raced>>
    BY <1>1, <1>4, AdvancesShape
  <2>2. \A d \in Calls \ {c} : Live(call[d]) /\ call[d].report \in Reports \ raced' => Apart(c, d)
    BY <1>1, <2>1, StaysApart DEF SameWork, Live
  <2>3. ASSUME call'[c].report \in Reports \ raced' PROVE AloneAt(c)'
    <3>1. Live(call[c]) /\ call[c].report \in Reports \ raced BY <2>1, <2>3 DEF Live, SameWork
    <3>2. AloneAt(c) BY <1>1, <3>1 DEF Alone, AloneAt
    <3> QED BY <2>1, <3>2 DEF AloneAt, Only, SameWork
  <2> QED BY <1>1, <2>1, <2>2, <2>3, AloneStep
<1>5. ASSUME NEW c \in Calls, UpdateDelete(c), Live(call[c]), UNCHANGED raced PROVE Alone'
  <2>1. call[c].pc = "delete" /\ call[c].req.kind = "update" BY <1>5 DEF UpdateDelete, At
  <2>2. Id(c) \in Reports BY <1>1, <1>5, <2>1, CallShape DEF StateOK, Id
  <2>3. /\ Only(c) /\ call'[c].pc = "write" /\ call'[c].report = call[c].report
        /\ call'[c].req = call[c].req
        /\ call'[c].rows = IF call[c].req.lines = Null THEN {} ELSE children[call[c].report]
    BY <1>1, <1>5, <2>2, DeleteShape DEF TypeInv
  <2>4. UNCHANGED <<report, children, approvals>> BY <1>5 DEF UpdateDelete, records
  <2>5. \A d \in Calls \ {c} : Live(call[d]) /\ call[d].report \in Reports \ raced' => Apart(c, d)
    BY <1>1, <1>5, <2>3, <2>4, StaysApart
  <2>6. ASSUME call'[c].report \in Reports \ raced' PROVE AloneAt(c)'
    <3>1. AloneAt(c) BY <1>1, <1>5, <2>3, <2>6 DEF Alone, AloneAt
    <3> QED BY <2>1, <2>3, <2>4, <3>1 DEF AloneAt, Only
  <2> QED BY <1>1, <1>5, <2>3, <2>5, <2>6, AloneStep
<1>6. ASSUME NEW c \in Calls, UpdateWrite(c), UNCHANGED raced PROVE Alone'
  <2>1. PICK r \in Reports :
              /\ r = call[c].report /\ call[c].pc = "write"
              /\ Only(c) /\ SameWork(call[c], call'[c]) /\ call'[c].pc = "audit"
              /\ \A x \in Reports \ {r} : report'[x] = report[x] /\ children'[x] = children[x]
              /\ UNCHANGED approvals
    BY <1>1, <1>6, UpdateShape
  <2>2. \A d \in Calls \ {c} : Live(call[d]) /\ call[d].report \in Reports \ raced' => Apart(c, d)
    BY <1>1, <1>6, <2>1, StaysApart DEF SameWork, Live
  <2>3. ASSUME call'[c].report \in Reports \ raced' PROVE AloneAt(c)'
    <3>1. AloneAt(c) BY <1>1, <1>6, <2>1, <2>3 DEF Alone, AloneAt, SameWork, Live
    <3> QED BY <2>1, <3>1 DEF AloneAt, Only, SameWork
  <2> QED BY <1>1, <1>6, <2>1, <2>2, <2>3, AloneStep
<1>7. ASSUME NEW c \in Calls, StartsCreate(c) PROVE Alone'
  <2>1. PICK r, p, rows :
              /\ Starts(c, r, p, rows) /\ \A d \in Calls : call[d].report = r => call[d].pc = "done"
    BY <1>1, <1>7, StartsCreateShape
  <2>2. /\ Only(c) /\ call'[c].report = r /\ call'[c].pc = "preflight"
        /\ UNCHANGED <<report, children, approvals, raced>>
    BY <2>1 DEF Starts
  <2>3. ASSUME NEW d \in Calls \ {c}, Live(call[d]) PROVE Apart(c, d)
    BY <2>1, <2>2, <2>3 DEF Apart, Live
  <2>4. AloneAt(c)' BY <2>1, <2>2 DEF AloneAt, Only, Live
  <2> QED BY <1>1, <2>2, <2>3, <2>4, AloneStep
<1>8. ASSUME NEW c \in Calls, StartsSubmit(c) PROVE Alone'
  <2>1. PICK r, p, rows : Starts(c, r, p, rows) /\ r = call[c].report /\ call[c].pc = "check"
    BY <1>1, <1>8, StartsSubmitShape
  <2>2. /\ Only(c) /\ call'[c].report = r /\ call'[c].pc = "preflight"
        /\ UNCHANGED <<report, children, approvals, raced>>
    BY <2>1 DEF Starts
  <2>3. \A d \in Calls \ {c} : Live(call[d]) /\ call[d].report \in Reports \ raced' => Apart(c, d)
    BY <1>1, <2>1, <2>2, StaysApart DEF Live
  <2>4. ASSUME call'[c].report \in Reports \ raced' PROVE AloneAt(c)'
    <3>1. AloneAt(c) BY <1>1, <2>1, <2>2, <2>4 DEF Alone, AloneAt, Live
    <3> QED BY <2>1, <2>2, <3>1 DEF AloneAt, Only
  <2> QED BY <1>1, <2>2, <2>3, <2>4, AloneStep
<1>9. ASSUME NEW c \in Calls, Drafts(c) PROVE Alone'
  <2>1. PICK r \in Reports :
              /\ \A d \in Calls : call[d].report = r => call[d].pc = "done"
              /\ \A x \in Reports \ {r} : report'[x] = report[x] /\ children'[x] = children[x]
              /\ Only(c) /\ call'[c].pc = "audit" /\ call'[c].report = r
    BY <1>1, <1>9, DraftShape
  <2>2. UNCHANGED <<approvals, raced>> BY <1>9 DEF Drafts
  <2>3. ASSUME NEW d \in Calls \ {c}, Live(call[d]), call[d].report \in Reports PROVE Apart(c, d)
    BY <2>1, <2>2, <2>3 DEF Apart, Live
  <2>4. AloneAt(c)' BY <2>1, <2>2 DEF AloneAt, Only, Live
  <2> QED BY <1>1, <2>1, <2>2, <2>3, <2>4, AloneStep
<1>10. ASSUME NEW c \in Calls, GoesOn(c), UNCHANGED raced PROVE Alone'
  <2>1. /\ Only(c) /\ SameReport(call[c], call'[c]) /\ Finalizing(call[c]) /\ Finalizing(call'[c])
        /\ UNCHANGED <<report, children, approvals>>
    BY <1>1, <1>10, GoesOnShape DEF TypeInv
  <2>2. \A d \in Calls \ {c} : Live(call[d]) /\ call[d].report \in Reports \ raced' => Apart(c, d)
    BY <1>1, <1>10, <2>1, StaysApart DEF Live, SameReport, Finalizing
  <2>3. ASSUME call'[c].report \in Reports \ raced' PROVE AloneAt(c)'
    <3>1. AloneAt(c) BY <1>1, <1>10, <2>1, <2>3 DEF Alone, AloneAt, Live, SameReport, Finalizing
    <3> QED BY <2>1, <3>1 DEF AloneAt, Only, SameReport, Finalizing
  <2> QED BY <1>1, <1>10, <2>1, <2>2, <2>3, AloneStep
<1>11. ASSUME NEW c \in Calls, Finalize(c), UNCHANGED raced PROVE Alone'
  <2>1. PICK r, p, rows : Finalizes(c, r, p, rows) BY <1>11, FinalizeShape
  <2>2. /\ Only(c) /\ call'[c].pc = "done" /\ call[c].pc = "consume" /\ r = call[c].report
        /\ \A x \in Reports \ {r} : report'[x] = report[x] /\ children'[x] = children[x]
        /\ SameWork(call[c], call'[c]) /\ UNCHANGED approvals
    BY <2>1 DEF Finalizes, Ready
  <2>3. \A d \in Calls \ {c} : Live(call[d]) /\ call[d].report \in Reports \ raced' => Apart(c, d)
    BY <1>1, <1>11, <2>2, StaysApart DEF Live, SameWork
  <2> QED BY <1>1, <1>11, <2>2, <2>3, AloneStep DEF Live
<1>12. ASSUME NEW c \in Calls, ReviewDecide(c), UNCHANGED raced PROVE Alone'
  <2>0. PICK r, action : Reviews(c, r, action) BY <1>1, <1>12, ReviewShape
  <2>1. /\ r \in Reports /\ action \in {"APPROVED", "REJECTED"}
        /\ r = call[c].report /\ call[c].pc = "decide"
        /\ Only(c) /\ SameWork(call[c], call'[c]) /\ call'[c].pc = "done"
        /\ \A x \in Reports \ {r} : report'[x] = report[x]
        /\ approvals' = approvals \cup
              {[call |-> c, report |-> r, reviewer |-> call[c].req.user, action |-> action]}
        /\ UNCHANGED children
    BY <2>0 DEF Reviews
  <2>2. \A x \in Reports \ {r} : \A a \in approvals' : a.report = x => a \in approvals
    BY <2>1
  <2>3. \A d \in Calls \ {c} : Live(call[d]) /\ call[d].report \in Reports \ raced' => Apart(c, d)
    BY <1>1, <1>12, <2>1, <2>2, StaysApart DEF SameWork, Live
  <2> QED BY <1>1, <1>12, <2>1, <2>3, AloneStep DEF Live
<1>13. ASSUME NEW b \in Balances, Elsewhere(b), UNCHANGED raced PROVE Alone'
  BY <1>1, <1>13 DEF Alone, Elsewhere, records
<1>14. CASE UNCHANGED vars
  BY <1>1, <1>14 DEF vars, Alone
<1> QED BY <1>2, <1>3, <1>4, <1>5, <1>6, <1>7, <1>8, <1>9, <1>10, <1>11, <1>12, <1>13, <1>14,
           NextKinds DEF Kinds

\* What holds of a report that calls were about one after the other.
ReadOnlyAt(r) ==
    /\ \A v \in revisions[r] : children[r] = v.rows /\ report[r].project = v.project
    /\ \A a, b \in Reviewed(r) : a = b
    /\ \A x, y \in children[r] : x.by = y.by

\* A step that changes report r at most.
LEMMA ReadOnlyStep ==
    ASSUME ReadOnly, raced \subseteq raced', NEW r,
           \A x \in Reports \ {r} : /\ report'[x].project = report[x].project
                                    /\ children'[x] = children[x] /\ revisions'[x] = revisions[x]
                                    /\ \A a \in approvals' : a.report = x => a \in approvals,
           r \in Reports \ raced' => ReadOnlyAt(r)'
    PROVE  ReadOnly'
<1> SUFFICES ASSUME NEW x \in Reports \ raced' PROVE ReadOnlyAt(x)'
  BY DEF ReadOnly, ReadOnlyAt
<1>1. CASE x = r
  BY <1>1
<1>2. CASE x # r
  <2>1. ReadOnlyAt(x) BY DEF ReadOnly, ReadOnlyAt
  <2> QED BY <1>2, <2>1 DEF ReadOnlyAt, Reviewed
<1> QED BY <1>1, <1>2

LEMMA ReadOnlyNext == ASSUME Inv, [Next]_vars PROVE ReadOnly'
<1>1. TypeInv /\ ReadOnly BY DEF Inv
<1>2. ASSUME raced \subseteq raced', UNCHANGED <<report, children, revisions, approvals>>
      PROVE  ReadOnly'
  BY <1>1, <1>2 DEF ReadOnly, Reviewed
<1>3. ASSUME NEW c \in Calls, Begin(c) PROVE ReadOnly'
  <2>1. raced \subseteq raced' BY <1>1, <1>3, BeginShape DEF TypeInv
  <2> QED BY <1>2, <1>3, <2>1 DEF Begin, records
<1>4. ASSUME NEW c \in Calls, Ends(c) PROVE ReadOnly'
  BY <1>2, <1>4 DEF Ends, records
<1>5. ASSUME NEW c \in Calls, Advances(c) PROVE ReadOnly'
  BY <1>2, <1>5 DEF Advances, records
<1>6. ASSUME NEW c \in Calls, UpdateDelete(c), UNCHANGED raced PROVE ReadOnly'
  BY <1>2, <1>6 DEF UpdateDelete, records
<1>7. ASSUME NEW c \in Calls, StartsCreate(c) \/ StartsSubmit(c) PROVE ReadOnly'
  BY <1>2, <1>7 DEF StartsCreate, StartsSubmit, records
<1>8. ASSUME NEW c \in Calls, GoesOn(c), UNCHANGED raced PROVE ReadOnly'
  BY <1>1, <1>2, <1>8, GoesOnShape DEF TypeInv
<1>9. ASSUME NEW b \in Balances, Elsewhere(b), UNCHANGED raced PROVE ReadOnly'
  BY <1>2, <1>9 DEF Elsewhere, records
<1>10. CASE UNCHANGED vars
  BY <1>2, <1>10 DEF vars
<1>11. ASSUME NEW c \in Calls, UpdateWrite(c), UNCHANGED raced PROVE ReadOnly'
  <2>1. PICK r \in Reports :
              /\ r = call[c].report /\ call[c].pc = "write"
              /\ \A x \in Reports \ {r} : report'[x] = report[x] /\ children'[x] = children[x]
              /\ call[c].req.lines = Null => children'[r] = children[r]
              /\ call[c].req.lines # Null => \A x \in children'[r] : x.by = c \/ x \in children[r] \ call[c].rows
              /\ UNCHANGED <<revisions, approvals>>
    BY <1>1, <1>11, UpdateShape
  <2>2. ASSUME r \in Reports \ raced' PROVE ReadOnlyAt(r)'
    <3>1. /\ report[r].status = "DRAFT"
          /\ call[c].rows = IF call[c].req.lines = Null THEN {} ELSE children[r]
      BY <1>11, <2>1, <2>2 DEF Inv, Alone, Live
    <3>2. revisions[r] = {} BY <2>1, <3>1 DEF Inv, Charges, Finalized, Uncharged
    <3>3. ReadOnlyAt(r) BY <1>1, <1>11, <2>2 DEF ReadOnly, ReadOnlyAt
    <3>4. \A x, y \in children'[r] : x.by = y.by
      <4>1. CASE call[c].req.lines = Null
        BY <2>1, <3>3, <4>1 DEF ReadOnlyAt
      <4>2. CASE call[c].req.lines # Null
        <5>1. \A x \in children'[r] : x.by = c BY <2>1, <3>1, <4>2
        <5> QED BY <5>1
      <4> QED BY <4>1, <4>2
    <3> QED BY <2>1, <3>2, <3>3, <3>4 DEF ReadOnlyAt, Reviewed
  <2> QED BY <1>1, <1>11, <2>1, <2>2, ReadOnlyStep
<1>12. ASSUME NEW c \in Calls, Drafts(c) PROVE ReadOnly'
  <2>1. PICK r \in Reports :
              /\ report[r].status = "NONE"
              /\ \A x \in Reports \ {r} : report'[x] = report[x] /\ children'[x] = children[x]
              /\ \A x \in children'[r] : x.by = c
    BY <1>1, <1>12, DraftShape
  <2>2. UNCHANGED <<revisions, approvals, raced>> BY <1>12 DEF Drafts
  <2>3. ASSUME r \in Reports \ raced' PROVE ReadOnlyAt(r)'
    <3>1. revisions[r] = {} BY <2>1 DEF Inv, Charges, Finalized, Uncharged
    <3>2. ReadOnlyAt(r) BY <1>1, <2>2, <2>3 DEF ReadOnly, ReadOnlyAt
    <3>3. \A x, y \in children'[r] : x.by = y.by BY <2>1
    <3> QED BY <2>2, <3>1, <3>2, <3>3 DEF ReadOnlyAt, Reviewed
  <2> QED BY <1>1, <2>1, <2>2, <2>3, ReadOnlyStep
<1>13. ASSUME NEW c \in Calls, Finalize(c), UNCHANGED raced PROVE ReadOnly'
  <2>1. PICK r, p, rows : Finalizes(c, r, p, rows) BY <1>13, FinalizeShape
  <2>2. /\ r \in Reports /\ r = call[c].report /\ call[c].pc = "consume" /\ rows = call[c].rows
        /\ revisions' = [revisions EXCEPT ![r] = {[number |-> 1, project |-> p, rows |-> rows]}]
        /\ \A x \in Reports \ {r} : report'[x] = report[x] /\ children'[x] = children[x]
        /\ report'[r].project = p /\ children'[r] = rows /\ UNCHANGED approvals
    BY <2>1 DEF Finalizes, Ready
  <2>3. /\ revisions'[r] = {[number |-> 1, project |-> p, rows |-> rows]}
        /\ \A x \in Reports \ {r} : revisions'[x] = revisions[x]
    BY <1>1, <2>2 DEF TypeInv, Tables
  <2>4. ASSUME r \in Reports \ raced' PROVE ReadOnlyAt(r)'
    <3>1. ReadOnlyAt(r) BY <1>1, <1>13, <2>4 DEF ReadOnly, ReadOnlyAt
    <3>2. \A x, y \in rows : x.by = y.by
      <4>1. call[c].req.kind \in {"create", "submit"} BY <2>2, Fresh
      <4>2. CASE call[c].req.kind = "create"
        <5>1. \A x \in rows : x.by = c BY <2>2, <4>2 DEF Inv, Creates, Creating, Finalizing
        <5> QED BY <5>1
      <4>3. CASE call[c].req.kind = "submit"
        <5>1. rows = children[r] BY <2>2, <4>3 DEF Inv, ReportLocks, Submitting, Finalizing
        <5> QED BY <3>1, <5>1 DEF ReadOnlyAt
      <4> QED BY <4>1, <4>2, <4>3
    <3> QED BY <2>2, <2>3, <3>1, <3>2 DEF ReadOnlyAt, Reviewed
  <2> QED BY <1>1, <1>13, <2>2, <2>3, <2>4, ReadOnlyStep
<1>14. ASSUME NEW c \in Calls, ReviewDecide(c), UNCHANGED raced PROVE ReadOnly'
  <2>0. PICK r, action : Reviews(c, r, action) BY <1>1, <1>14, ReviewShape
  <2>1. PICK new : new = [call |-> c, report |-> r, reviewer |-> call[c].req.user, action |-> action]
    OBVIOUS
  <2>2. /\ r \in Reports /\ r = call[c].report /\ call[c].pc = "decide" /\ new.report = r
        /\ \A x \in Reports \ {r} : report'[x] = report[x]
        /\ report'[r].project = report[r].project
        /\ approvals' = approvals \cup {new} /\ UNCHANGED <<children, revisions>>
    BY <2>0, <2>1 DEF Reviews
  <2>3. ASSUME r \in Reports \ raced' PROVE ReadOnlyAt(r)'
    <3>1. ReadOnlyAt(r) BY <1>1, <1>14, <2>3 DEF ReadOnly, ReadOnlyAt
    <3>2. \A a \in approvals : a.report # r BY <1>14, <2>2, <2>3 DEF Inv, Alone, Live
    <3>3. \A a, b \in Reviewed(r)' : a = b BY <2>2, <3>2 DEF Reviewed
    <3> QED BY <2>2, <3>1, <3>3 DEF ReadOnlyAt
  <2> QED BY <1>1, <1>14, <2>2, <2>3, ReadOnlyStep
<1> QED BY <1>3, <1>4, <1>5, <1>6, <1>7, <1>8, <1>9, <1>10, <1>11, <1>12, <1>13, <1>14,
           NextKinds DEF Kinds

----------------------------------------------------------------------------
(* Stock. *)

Pairs == Projects \X Materials

\* The movements of a project and a material, what each takes, and what they take together.
Taking(set, k) == {x \in set : x.project = k[1] /\ x.material = k[2]}
Takes(set)     == [x \in set |-> x.qty]
Taken(set, k)  == SumFunctionOnSet(Takes(set), Taking(set, k))

Movements == [report: Reports, revision: Nat, project: Projects, material: Materials, qty: Int]

LEMMA AccountsShape ==
    StockAccountsForReports <=>
        /\ \A b \in Balances : stock[b] >= 0
        /\ \A k \in Pairs : OnHand(stock, k) = OnHand(Opening, k) + OnHand(elsewhere, k) - Taken(charged, k)
BY DEF StockAccountsForReports, Taken, Takes, Taking, Pairs

\* What the rows of a project and a material hold together: an integer, which depends on
\* those rows only and changes with one of them.
LEMMA RowsForShape == ASSUME NEW k PROVE RowsFor(k) \subseteq Balances /\ IsFiniteSet(RowsFor(k))
BY ReportsAssumption, FS_Subset DEF RowsFor

LEMMA OnHandIsInt == ASSUME NEW f \in [Balances -> Int], NEW k PROVE OnHand(f, k) \in Int
<1>1. PICK S : S = RowsFor(k) OBVIOUS
<1>2. IsFiniteSet(S) /\ \A x \in S : f[x] \in Int BY <1>1, RowsForShape
<1> QED BY <1>1, <1>2, SumIsInt DEF OnHand

LEMMA OnHandAgree ==
    ASSUME NEW f \in [Balances -> Int], NEW g \in [Balances -> Int], NEW k,
           \A b \in RowsFor(k) : g[b] = f[b]
    PROVE  OnHand(g, k) = OnHand(f, k)
<1>1. PICK S : S = RowsFor(k) OBVIOUS
<1>2. IsFiniteSet(S) /\ \A x \in S : f[x] \in Int /\ g[x] = f[x] BY <1>1, RowsForShape
<1> QED BY <1>1, <1>2, SumAgree DEF OnHand

LEMMA OnHandOne ==
    ASSUME NEW f \in [Balances -> Int], NEW g \in [Balances -> Int], NEW k, NEW a \in RowsFor(k),
           \A b \in RowsFor(k) \ {a} : g[b] = f[b]
    PROVE  OnHand(g, k) = OnHand(f, k) + (g[a] - f[a])
<1>1. PICK S, T : S = RowsFor(k) /\ T = S \ {a} OBVIOUS
<1>2. /\ IsFiniteSet(S) /\ IsFiniteSet(T) /\ a \in S /\ \A x \in S : f[x] \in Int /\ g[x] \in Int
      /\ \A x \in T : f[x] \in Int /\ g[x] = f[x]
  BY <1>1, RowsForShape, FS_RemoveElement
<1>3. /\ SumFunctionOnSet(f, S) = f[a] + SumFunctionOnSet(f, S \ {a})
      /\ SumFunctionOnSet(g, S) = g[a] + SumFunctionOnSet(g, S \ {a})
  BY <1>2, SumSplit DEF Splits
<1>4. SumFunctionOnSet(g, T) = SumFunctionOnSet(f, T) BY <1>2, SumAgree
<1>5. SumFunctionOnSet(f, T) \in Int BY <1>2, SumIsInt
<1>6. PICK t : t = SumFunctionOnSet(f, T) OBVIOUS
<1>7. SumFunctionOnSet(f, S) = f[a] + t /\ SumFunctionOnSet(g, S) = g[a] + t
  BY <1>1, <1>3, <1>4, <1>6
<1>8. OnHand(f, k) = f[a] + t /\ OnHand(g, k) = g[a] + t BY <1>1, <1>7 DEF OnHand
<1>9. f[a] \in Int /\ g[a] \in Int /\ t \in Int BY <1>2, <1>5, <1>6
<1> QED BY <1>8, <1>9

\* With no row below zero it is not below any of them.
LEMMA OnHandCovers ==
    ASSUME NEW f \in [Balances -> Int], NEW k, \A b \in Balances : f[b] >= 0
    PROVE  OnHand(f, k) >= 0 /\ \A a \in RowsFor(k) : f[a] <= OnHand(f, k)
<1>1. PICK S : S = RowsFor(k) OBVIOUS
<1>2. IsFiniteSet(S) /\ \A x \in S : f[x] \in Nat BY <1>1, RowsForShape
<1>3. SumFunctionOnSet(f, S) \in Nat BY <1>2, SumIsNat
<1>4. ASSUME NEW a \in S PROVE f[a] <= SumFunctionOnSet(f, S)
  <2>1. IsFiniteSet(S \ {a}) BY <1>2, FS_RemoveElement
  <2>2. SumFunctionOnSet(f, S \ {a}) \in Nat BY <1>2, <2>1, SumIsNat
  <2>3. \A x \in S : f[x] \in Int BY <1>2
  <2>4. SumFunctionOnSet(f, S) = f[a] + SumFunctionOnSet(f, S \ {a})
    BY <1>2, <2>3, SumSplit DEF Splits
  <2>5. f[a] \in Nat BY <1>2
  <2> QED BY <2>2, <2>4, <2>5
<1> QED BY <1>1, <1>3, <1>4 DEF OnHand

LEMMA TakenIsInt ==
    ASSUME NEW set \in SUBSET Movements, IsFiniteSet(set), NEW k
    PROVE  /\ IsFiniteSet(Taking(set, k)) /\ \A x \in Taking(set, k) : Takes(set)[x] \in Int
           /\ Taken(set, k) \in Int
<1>1. IsFiniteSet(Taking(set, k)) BY FS_Subset DEF Taking
<1>2. \A x \in Taking(set, k) : Takes(set)[x] \in Int BY DEF Taking, Takes, Movements
<1>3. PICK f, S : f = Takes(set) /\ S = Taking(set, k) OBVIOUS
<1>4. SumFunctionOnSet(f, S) \in Int BY <1>1, <1>2, <1>3, SumIsInt
<1> QED BY <1>1, <1>2, <1>3, <1>4 DEF Taken

\* What a report's rows take of a material of a project.
Takeaway(p, rows, k) == IF k[1] = p /\ k[2] \in Consumable(rows) THEN Total(rows, k[2]) ELSE 0

\* A new report's movements take the total of each of its materials, once, from its project.
LEMMA TakenByCharges ==
    ASSUME NEW r \in Reports, NEW p \in Projects, NEW rows \in SUBSET Rows, IsFiniteSet(rows),
           TypeInv, Mine(r) = {}, NEW k \in Pairs
    PROVE  Taken(charged \cup NewCharges(r, p, rows), k) = Takeaway(p, rows, k) + Taken(charged, k)
<1>1. PICK new, all : new = NewCharges(r, p, rows) /\ all = charged \cup new OBVIOUS
<1>2. charged \in SUBSET Movements /\ IsFiniteSet(charged) BY DEF TypeInv, Ledger, RowsFinite, Movements
<1>3. all \in SUBSET Movements
  <2>1. new \subseteq Movements BY <1>1, ChargesShape DEF Movements
  <2> QED BY <1>1, <1>2, <2>1
<1>4. \A x \in charged : x.report # r BY DEF Mine
<1>5. PICK S, f, g : S = Taking(charged, k) /\ f = Takes(charged) /\ g = Takes(all) OBVIOUS
<1>6. /\ IsFiniteSet(S) /\ \A x \in S : x \in charged /\ f[x] \in Int /\ g[x] = f[x]
  <2>1. IsFiniteSet(S) /\ \A x \in S : f[x] \in Int BY <1>2, <1>5, TakenIsInt
  <2>2. \A x \in S : x \in charged /\ g[x] = f[x] BY <1>1, <1>5 DEF Taking, Takes
  <2> QED BY <2>1, <2>2
<1>7. SumFunctionOnSet(g, S) = SumFunctionOnSet(f, S) BY <1>6, SumAgree
<1>8. CASE k[1] = p /\ k[2] \in Consumable(rows)
  <2>1. PICK y : y = Charge(r, p, rows, k[2]) OBVIOUS
  <2>2. y \in new /\ y.report = r /\ y.qty = Total(rows, k[2])
    BY <1>1, <1>8, <2>1 DEF NewCharges, Charge
  <2>3. y \notin S BY <1>4, <1>6, <2>2
  <2>4. Taking(all, k) = S \cup {y}
    BY <1>1, <1>5, <1>8, <2>1 DEF Taking, NewCharges, Charge
  <2>5. g[y] = Total(rows, k[2]) BY <1>1, <1>5, <2>2 DEF Takes
  <2>6. g[y] \in Int BY <2>5, TotalIsInt
  <2>7. SumFunctionOnSet(g, S \cup {y}) = g[y] + SumFunctionOnSet(g, S)
    BY <1>6, <2>3, <2>6, SumAdd
  <2>8. Taken(all, k) = g[y] + SumFunctionOnSet(f, S) BY <1>5, <1>7, <2>4, <2>7 DEF Taken
  <2>9. Taken(charged, k) = SumFunctionOnSet(f, S) BY <1>5 DEF Taken
  <2>10. Takeaway(p, rows, k) = Total(rows, k[2]) BY <1>8 DEF Takeaway
  <2> QED BY ONLY <1>1, <2>5, <2>8, <2>9, <2>10
<1>9. CASE ~(k[1] = p /\ k[2] \in Consumable(rows))
  <2>1. Taking(all, k) = S BY <1>1, <1>5, <1>9 DEF Taking, NewCharges, Charge
  <2>2. Taken(all, k) = Taken(charged, k) BY <1>5, <1>7, <2>1 DEF Taken
  <2>3. Takeaway(p, rows, k) = 0 BY <1>9 DEF Takeaway
  <2>4. Taken(charged, k) \in Int BY <1>2, TakenIsInt
  <2> QED BY <1>1, <2>2, <2>3, <2>4
<1> QED BY <1>8, <1>9

\* A finalization takes what the report uses from one row of each material, which holds it.
LEMMA FinalizeTakes ==
    ASSUME Inv, NEW c \in Calls, NEW r, NEW p, NEW rows, Finalizes(c, r, p, rows)
    PROVE  /\ \A b \in Balances : stock'[b] >= 0
           /\ stock' \in [Balances -> Int]
           /\ \A k \in Pairs : /\ Takeaway(p, rows, k) \in Nat
                               /\ Takeaway(p, rows, k) <= OnHand(stock, k)
                               /\ OnHand(stock', k) = OnHand(stock, k) - Takeaway(p, rows, k)
<1>1. /\ p = call[c].project /\ rows = call[c].rows /\ rows \in SUBSET Rows /\ IsFiniteSet(rows)
      /\ call[c].pc = "consume" /\ TakenOK(call[c])
      /\ {b.material : b \in call[c].taken} = Consumable(rows)
      /\ stock' = [b \in Balances |-> IF b \in call[c].taken
                                      THEN stock[b] - Total(rows, b.material) ELSE stock[b]]
  BY DEF Finalizes, Ready
<1>2. PICK taken : taken = call[c].taken OBVIOUS
<1>3. /\ \A b \in taken : b.project = p /\ b.material \in Consumable(rows)
      /\ \A a, b \in taken : a.material = b.material => a = b
      /\ \A m \in Consumable(rows) : \E b \in taken : b.material = m
  BY <1>1, <1>2 DEF TakenOK
<1>4. taken \subseteq Balances /\ stock \in [Balances -> Int] /\ \A b \in Balances : stock[b] >= 0
  BY <1>2, CallShape DEF Inv, TypeInv, Ledger, CallStates, StockAccountsForReports
<1>5. ASSUME NEW b \in taken
      PROVE  stock[b] >= Total(rows, b.material) /\ Total(rows, b.material) > 0
             /\ Total(rows, b.material) \in Int
  <2>1. LocksOf(c) BY <1>1 DEF Inv, RowLocks, Finalizing
  <2>2. stock[b] >= Total(rows, b.material) BY <1>1, <1>2, <2>1 DEF LocksOf
  <2>3. Total(rows, b.material) > 0 BY <1>3 DEF Consumable
  <2>4. Total(rows, b.material) \in Int BY <1>1, TotalIsInt
  <2> QED BY <2>2, <2>3, <2>4
<1>6. ASSUME NEW b \in Balances
      PROVE  /\ b \in taken => stock'[b] = stock[b] - Total(rows, b.material)
             /\ b \notin taken => stock'[b] = stock[b]
             /\ stock'[b] \in Int /\ stock'[b] >= 0
  <2>1. /\ b \in taken => stock'[b] = stock[b] - Total(rows, b.material)
        /\ b \notin taken => stock'[b] = stock[b]
    BY <1>1, <1>2
  <2> QED BY <1>4, <1>5, <2>1
<1>7. stock' \in [Balances -> Int] BY <1>1, <1>6
<1>8. ASSUME NEW k \in Pairs
      PROVE  /\ Takeaway(p, rows, k) \in Nat
             /\ Takeaway(p, rows, k) <= OnHand(stock, k)
             /\ OnHand(stock', k) = OnHand(stock, k) - Takeaway(p, rows, k)
  <2>1. OnHand(stock, k) \in Int BY <1>4, OnHandIsInt
  <2>2. OnHand(stock, k) >= 0 /\ \A a \in RowsFor(k) : stock[a] <= OnHand(stock, k)
    BY <1>4, OnHandCovers
  <2>3. CASE k[1] = p /\ k[2] \in Consumable(rows)
    <3>1. PICK a \in taken : a.material = k[2] BY <1>3, <2>3
    <3>2. a \in RowsFor(k) BY <1>3, <1>4, <2>3, <3>1 DEF RowsFor
    <3>3. \A b \in RowsFor(k) \ {a} : stock'[b] = stock[b]
      BY <1>3, <1>6, <3>1 DEF RowsFor
    <3>4. OnHand(stock', k) = OnHand(stock, k) + (stock'[a] - stock[a])
      BY <1>4, <1>7, <3>2, <3>3, OnHandOne
    <3>5. PICK n : n = Total(rows, k[2]) OBVIOUS
    <3>6. stock'[a] = stock[a] - n /\ stock[a] >= n /\ n > 0 /\ n \in Int
      BY <1>4, <1>5, <1>6, <3>1, <3>5
    <3>7. Takeaway(p, rows, k) = n BY <2>3, <3>5 DEF Takeaway
    <3>8. stock[a] \in Int /\ stock[a] <= OnHand(stock, k) BY <1>4, <2>2, <3>2 DEF RowsFor
    <3>9. PICK h, x : h = OnHand(stock, k) /\ x = stock[a] OBVIOUS
    <3>10. OnHand(stock', k) = h + ((x - n) - x) BY <3>4, <3>6, <3>9
    <3>11. h \in Int /\ x \in Int /\ n \in Int /\ n > 0 /\ n <= x /\ x <= h
      BY <2>1, <3>6, <3>8, <3>9
    <3>12. h + ((x - n) - x) = h - n /\ n <= h /\ n \in Nat BY ONLY <3>11
    <3> QED BY <3>7, <3>9, <3>10, <3>12
  <2>4. CASE ~(k[1] = p /\ k[2] \in Consumable(rows))
    <3>1. \A b \in RowsFor(k) : stock'[b] = stock[b] BY <1>3, <1>6, <2>4 DEF RowsFor
    <3>2. OnHand(stock', k) = OnHand(stock, k) BY <1>4, <1>7, <3>1, OnHandAgree
    <3>3. Takeaway(p, rows, k) = 0 BY <2>4 DEF Takeaway
    <3> QED BY <2>1, <2>2, <3>2, <3>3
  <2> QED BY <2>3, <2>4
<1> QED BY <1>6, <1>7, <1>8

\* Another stock operation moves one row, and what it has moved of it with it.
LEMMA ElsewhereMoves ==
    ASSUME TypeInv, NEW a \in Balances, Elsewhere(a)
    PROVE  \E delta \in Int :
              /\ stock[a] + delta >= 0
              /\ stock' = [stock EXCEPT ![a] = @ + delta] /\ stock' \in [Balances -> Int]
              /\ elsewhere' = [elsewhere EXCEPT ![a] = @ + delta] /\ elsewhere' \in [Balances -> Int]
              /\ \A k \in Pairs :
                    /\ OnHand(stock', k) = OnHand(stock, k) + IF a \in RowsFor(k) THEN delta ELSE 0
                    /\ OnHand(elsewhere', k) = OnHand(elsewhere, k) + IF a \in RowsFor(k) THEN delta ELSE 0
<1>1. PICK delta \in {-1, 1} :
          /\ stock[a] + delta >= 0
          /\ stock' = [stock EXCEPT ![a] = @ + delta]
          /\ elsewhere' = [elsewhere EXCEPT ![a] = @ + delta]
  BY DEF Elsewhere
<1>2. delta \in Int OBVIOUS
<1>3. stock \in [Balances -> Int] /\ elsewhere \in [Balances -> Int] BY DEF TypeInv, Ledger
<1>4. stock' \in [Balances -> Int] /\ elsewhere' \in [Balances -> Int] BY <1>1, <1>2, <1>3
<1>5. ASSUME NEW f \in [Balances -> Int], NEW g \in [Balances -> Int], g = [f EXCEPT ![a] = @ + delta],
             NEW k \in Pairs
      PROVE  OnHand(g, k) = OnHand(f, k) + IF a \in RowsFor(k) THEN delta ELSE 0
  <2>1. g[a] = f[a] + delta /\ f[a] \in Int /\ \A b \in Balances \ {a} : g[b] = f[b] BY <1>5
  <2>2. OnHand(f, k) \in Int BY OnHandIsInt
  <2>3. CASE a \in RowsFor(k)
    <3>1. \A b \in RowsFor(k) \ {a} : g[b] = f[b] BY <2>1 DEF RowsFor
    <3>2. OnHand(g, k) = OnHand(f, k) + (g[a] - f[a]) BY <2>3, <3>1, OnHandOne
    <3>3. g[a] - f[a] = delta BY <1>2, <2>1
    <3> QED BY <2>3, <3>2, <3>3
  <2>4. CASE a \notin RowsFor(k)
    <3>1. \A b \in RowsFor(k) : g[b] = f[b] BY <2>1, <2>4 DEF RowsFor
    <3>2. OnHand(g, k) = OnHand(f, k) BY <3>1, OnHandAgree
    <3> QED BY <2>2, <2>4, <3>2
  <2> QED BY <2>3, <2>4
<1>6. \A k \in Pairs :
          /\ OnHand(stock', k) = OnHand(stock, k) + IF a \in RowsFor(k) THEN delta ELSE 0
          /\ OnHand(elsewhere', k) = OnHand(elsewhere, k) + IF a \in RowsFor(k) THEN delta ELSE 0
  BY <1>1, <1>3, <1>4, <1>5
<1> QED BY <1>1, <1>2, <1>4, <1>6

LEMMA StockNext == ASSUME Inv, [Next]_vars PROVE StockAccountsForReports'
<1>1. TypeInv /\ charged \in SUBSET Movements /\ IsFiniteSet(charged)
  BY DEF Inv, TypeInv, Ledger, RowsFinite, Movements
<1>2. /\ stock \in [Balances -> Int] /\ elsewhere \in [Balances -> Int] /\ Opening \in [Balances -> Int]
      /\ \A b \in Balances : stock[b] >= 0
  BY <1>1, ReportsAssumption, AccountsShape DEF TypeInv, Ledger, Inv
<1>3. ASSUME NEW k \in Pairs
      PROVE  /\ OnHand(stock, k) \in Int /\ OnHand(elsewhere, k) \in Int /\ OnHand(Opening, k) \in Int
             /\ Taken(charged, k) \in Int
             /\ OnHand(stock, k) = OnHand(Opening, k) + OnHand(elsewhere, k) - Taken(charged, k)
  BY <1>1, <1>2, OnHandIsInt, TakenIsInt, AccountsShape DEF Inv
<1>4. SUFFICES /\ \A b \in Balances : stock'[b] >= 0
               /\ \A k \in Pairs :
                     OnHand(stock', k) = OnHand(Opening, k) + OnHand(elsewhere', k) - Taken(charged', k)
  BY DEF StockAccountsForReports, Taken, Takes, Taking, Pairs
<1>5. CASE UNCHANGED <<stock, elsewhere, charged>>
  BY <1>2, <1>3, <1>5
<1>6. ASSUME NEW c \in Calls, Begin(c) PROVE UNCHANGED <<stock, elsewhere, charged>>
  BY <1>6 DEF Begin, records
<1>7. ASSUME NEW c \in Calls, Kinds(c), ~Finalize(c) PROVE UNCHANGED <<stock, elsewhere, charged>>
  <2>1. ~GoesOn(c) /\ ~UpdateDelete(c) /\ ~UpdateWrite(c) /\ ~ReviewDecide(c) =>
            UNCHANGED <<stock, elsewhere, charged>>
    BY <1>7 DEF Kinds, Ends, Advances, StartsCreate, StartsSubmit, Drafts, records
  <2>2. UpdateDelete(c) \/ UpdateWrite(c) \/ ReviewDecide(c) => UNCHANGED <<stock, elsewhere, charged>>
    BY DEF UpdateDelete, UpdateWrite, ReviewDecide, records
  <2>3. GoesOn(c) => UNCHANGED <<stock, elsewhere, charged>> BY <1>1, GoesOnShape DEF TypeInv
  <2> QED BY <2>1, <2>2, <2>3
<1>8. CASE UNCHANGED vars
  BY <1>5, <1>8 DEF vars
<1>9. ASSUME NEW a \in Balances, Elsewhere(a)
      PROVE  /\ \A b \in Balances : stock'[b] >= 0
             /\ \A k \in Pairs :
                   OnHand(stock', k) = OnHand(Opening, k) + OnHand(elsewhere', k) - Taken(charged', k)
  <2>1. PICK delta \in Int :
          /\ stock[a] + delta >= 0 /\ stock' = [stock EXCEPT ![a] = @ + delta]
          /\ \A k \in Pairs :
                /\ OnHand(stock', k) = OnHand(stock, k) + IF a \in RowsFor(k) THEN delta ELSE 0
                /\ OnHand(elsewhere', k) = OnHand(elsewhere, k) + IF a \in RowsFor(k) THEN delta ELSE 0
    BY <1>1, <1>9, ElsewhereMoves
  <2>2. charged' = charged BY <1>9 DEF Elsewhere, records
  <2>3. \A b \in Balances : stock'[b] >= 0 BY <1>2, <2>1
  <2>4. ASSUME NEW k \in Pairs
        PROVE  OnHand(stock', k) = OnHand(Opening, k) + OnHand(elsewhere', k) - Taken(charged', k)
    <3>1. PICK h, o, e, t, d : /\ h = OnHand(stock, k) /\ o = OnHand(Opening, k)
                               /\ e = OnHand(elsewhere, k) /\ t = Taken(charged, k)
                               /\ d = IF a \in RowsFor(k) THEN delta ELSE 0
      OBVIOUS
    <3>2. h \in Int /\ o \in Int /\ e \in Int /\ t \in Int /\ d \in Int /\ h = o + e - t
      BY <1>3, <3>1
    <3>3. OnHand(stock', k) = h + d /\ OnHand(elsewhere', k) = e + d BY <2>1, <3>1
    <3>4. Taken(charged', k) = t BY <2>2, <3>1
    <3>5. h + d = o + (e + d) - t BY ONLY <3>2
    <3> QED BY <3>1, <3>3, <3>4, <3>5
  <2> QED BY <2>3, <2>4
<1>10. ASSUME NEW c \in Calls, Finalize(c)
       PROVE  /\ \A b \in Balances : stock'[b] >= 0
              /\ \A k \in Pairs :
                    OnHand(stock', k) = OnHand(Opening, k) + OnHand(elsewhere', k) - Taken(charged', k)
  <2>1. PICK r, p, rows : Finalizes(c, r, p, rows) BY <1>10, FinalizeShape
  <2>2. /\ r \in Reports /\ p \in Projects /\ rows \in SUBSET Rows /\ IsFiniteSet(rows)
        /\ Mine(r) = {} /\ elsewhere' = elsewhere
        /\ charged' = charged \cup NewCharges(r, p, rows)
    BY <2>1 DEF Finalizes, Uncharged
  <2>3. ASSUME NEW k \in Pairs
        PROVE  OnHand(stock', k) = OnHand(Opening, k) + OnHand(elsewhere', k) - Taken(charged', k)
    <3>1. PICK h, o, e, t, n : /\ h = OnHand(stock, k) /\ o = OnHand(Opening, k)
                               /\ e = OnHand(elsewhere, k) /\ t = Taken(charged, k)
                               /\ n = Takeaway(p, rows, k)
      OBVIOUS
    <3>2. OnHand(stock', k) = h - n /\ n \in Nat BY <2>1, <3>1, FinalizeTakes
    <3>3. h \in Int /\ o \in Int /\ e \in Int /\ t \in Int /\ h = o + e - t BY <1>3, <3>1
    <3>4. Taken(charged', k) = n + t
      <4>1. Taken(charged \cup NewCharges(r, p, rows), k) = n + t
        BY <1>1, <2>2, <3>1, TakenByCharges
      <4>2. charged' = charged \cup NewCharges(r, p, rows) BY <2>2
      <4> QED BY ONLY <4>1, <4>2
    <3>5. h - n = o + e - (n + t) BY ONLY <3>2, <3>3
    <3>6. OnHand(elsewhere', k) = e BY <2>2, <3>1
    <3> QED BY <3>1, <3>2, <3>4, <3>5, <3>6
  <2>4. \A b \in Balances : stock'[b] >= 0 BY <2>1, FinalizeTakes
  <2> QED BY <2>3, <2>4
<1> QED BY <1>5, <1>6, <1>7, <1>8, <1>9, <1>10, NextKinds

----------------------------------------------------------------------------
(* The invariant. *)

LEMMA InitInv == ASSUME Init PROVE Inv
<1>1. TypeInv BY TypeInit
<1>2. \A c \in Calls : call[c].pc = "free" /\ ~call[c].retry BY DEF Init
<1>3. ReportLocks BY <1>2 DEF Init, ReportLocks, Submitting, Finalizing
<1>4. RowLocks BY <1>2 DEF Init, RowLocks, Finalizing
<1>5. Creates BY <1>2 DEF Creates, Creating, Finalizing
<1>6. KeysOnce
  <2>1. \A r \in Reports : report[r].key = Null BY DEF Init, NoReport
  <2> QED BY <1>2, <2>1 DEF KeysOnce
<1>7. Charges
  <2>1. \A r \in Reports : Uncharged(r) BY DEF Init, Uncharged, Mine, Told
  <2>2. \A r \in Reports : report[r].status = IF r \in DOMAIN Existing THEN Existing[r].status ELSE "NONE"
    BY DEF Init, NoReport
  <2>3. \A r \in Reports : ~Finalized(r) BY <2>2 DEF Finalized
  <2>4. \A r \in DOMAIN Existing :
            report[r].status \in {"NONE", "DRAFT"} => Existing[r].status = "DRAFT"
    BY <2>2, ReportsAssumption DEF Statuses
  <2> QED BY <1>2, <2>1, <2>3, <2>4 DEF Charges
<1>8. Alone BY <1>2 DEF Alone, Live
<1>9. ReadOnly
  <2>1. \A r \in Reports : revisions[r] = {} /\ Reviewed(r) = {} BY DEF Init, Reviewed
  <2>2. ASSUME NEW r \in Reports PROVE \A x, y \in children[r] : x.by = y.by
    <3>1. CASE r \in DOMAIN Existing
      <4>1. children[r] = RowsOf(Null, Existing[r].lines) BY <3>1 DEF Init
      <4>2. \A x \in RowsOf(Null, Existing[r].lines) : x.by = Null BY DEF RowsOf
      <4> QED BY <4>1, <4>2
    <3>2. CASE r \notin DOMAIN Existing
      BY <3>2 DEF Init
    <3> QED BY <3>1, <3>2
  <2> QED BY <2>1, <2>2 DEF ReadOnly
<1>10. StockAccountsForReports
  <2>1. stock = Opening /\ elsewhere = [b \in Balances |-> 0] /\ charged = {} BY DEF Init
  <2>2. Opening \in [Balances -> Nat] BY ReportsAssumption
  <2>3. ASSUME NEW k \in Pairs
        PROVE  OnHand(stock, k) = OnHand(Opening, k) + OnHand(elsewhere, k) - Taken(charged, k)
    <3>1. PICK S : S = RowsFor(k) OBVIOUS
    <3>2. IsFiniteSet(S) /\ \A x \in S : elsewhere[x] = 0 BY <2>1, <3>1, RowsForShape
    <3>3. OnHand(elsewhere, k) = 0 BY <3>1, <3>2, SumOfZeros DEF OnHand
    <3>4. Taking(charged, k) = {} BY <2>1 DEF Taking
    <3>5. Taken(charged, k) = 0 BY <3>4, SumEmpty DEF Taken
    <3>6. OnHand(Opening, k) \in Int
      <4>1. Opening \in [Balances -> Int] BY <2>2
      <4> QED BY <4>1, OnHandIsInt
    <3> QED BY <2>1, <3>3, <3>5, <3>6
  <2>4. \A b \in Balances : stock[b] >= 0 BY <2>1, <2>2
  <2> QED BY <2>3, <2>4, AccountsShape
<1> QED BY <1>1, <1>3, <1>4, <1>5, <1>6, <1>7, <1>8, <1>9, <1>10 DEF Inv

LEMMA InvHolds == Spec => []Inv
<1>1. Inv /\ [Next]_vars => Inv'
  BY TypeNext, LocksNext, CreatesNext, KeysNext, ChargesNext, AloneNext, ReadOnlyNext, StockNext DEF Inv
<1> QED BY InitInv, <1>1, PTL DEF Spec

----------------------------------------------------------------------------
(* What the invariant says. *)

LEMMA TypeOKHolds == Inv => TypeOK
BY DEF Inv, TypeInv, Tables, Ledger, Rest, CallsOK, CallStates, TypeOK

LEMMA ChargedHolds == Inv => ChargedExactlyOnce
<1> SUFFICES ASSUME Inv, NEW r \in Reports
             PROVE  /\ Cardinality(Told(r)) = Cardinality(revisions[r])
                    /\ IF Finalized(r)
                       THEN \E v \in revisions[r] :
                          /\ revisions[r] = {v} /\ v.number = report[r].revision
                          /\ Mine(r) = {[report |-> r, revision |-> v.number, project |-> v.project,
                                         material |-> m, qty |-> Total(v.rows, m)] : m \in Consumable(v.rows)}
                       ELSE revisions[r] = {} /\ Mine(r) = {}
  BY DEF ChargedExactlyOnce, Told, Mine
<1>1. CASE Finalized(r)
  <2>1. Charged(r) BY <1>1 DEF Inv, Charges
  <2>2. PICK v \in revisions[r], e \in audit :
          /\ revisions[r] = {v} /\ v.number = report[r].revision /\ Told(r) = {e}
          /\ Mine(r) = {[report |-> r, revision |-> v.number, project |-> v.project,
                         material |-> m, qty |-> Total(v.rows, m)] : m \in Consumable(v.rows)}
    BY <2>1 DEF Charged
  <2>3. Cardinality({e}) = 1 /\ Cardinality({v}) = 1 BY FS_Singleton
  <2> QED BY <1>1, <2>2, <2>3
<1>2. CASE ~Finalized(r)
  BY <1>2 DEF Inv, Charges, Uncharged
<1> QED BY <1>1, <1>2

\* Whom a call waits for: a holder of its key, of its report or of the balance row it has
\* found, and each of them is a transaction that finalizes a report.
LEMMA WaitsForFinalizations ==
    ASSUME Inv, NEW c \in Calls, NEW d \in WaitsFor(c)
    PROVE  /\ d \in Calls /\ Finalizing(call[d])
           /\ Finalizing(call[c]) =>
                 /\ call[c].row \in Balances /\ rowLock[call[c].row] = d /\ d # c
                 /\ call[c].row.material \in call[c].todo
                 /\ call[c].row.material \in Checked(call[d])
<1>1. TypeInv /\ ReportLocks /\ RowLocks BY DEF Inv
<1>2. CASE \/ call[c].pc = "check" /\ call[c].req.kind = "submit"
           \/ call[c].pc \in {"write", "decide"}
  <2>1. d = reportLock[Id(c)] /\ d # Null BY <1>2 DEF WaitsFor
  <2>2. Live(call[c]) BY <1>2 DEF Live
  <2>3. Id(c) \in Reports BY <1>1, <1>2, <2>2, CallShape DEF StateOK, Id
  <2>4. d \in Calls BY <1>1, <2>1, <2>3 DEF TypeInv, Rest
  <2> QED BY <1>1, <1>2, <2>1, <2>3, <2>4 DEF ReportLocks, Submitting, Finalizing
<1>3. CASE call[c].pc \in {"preflight", "consume"} /\ call[c].row # Null
  <2>1. d = rowLock[call[c].row] /\ d # Null /\ d # c BY <1>3 DEF WaitsFor
  <2>2. call[c].row \in Balances BY <1>1, <1>3, CallShape DEF CallStates
  <2>3. d \in Calls BY <1>1, <2>1, <2>2 DEF TypeInv, Rest
  <2>4. call[c].row.material \in call[c].todo
    BY <1>1, <1>3, CallShape DEF StateOK, Finalizing, WalkOK
  <2> QED BY <1>1, <2>1, <2>2, <2>3, <2>4 DEF RowLocks
<1>4. CASE call[c].pc = "insert"
  <2>1. d \in KeyHolders(c) BY <1>4 DEF WaitsFor
  <2> QED BY <1>4, <2>1 DEF KeyHolders, At, Finalizing
<1>5. CASE /\ ~(call[c].pc = "check" /\ call[c].req.kind = "submit")
           /\ call[c].pc \notin {"write", "decide", "insert"}
           /\ ~(call[c].pc \in {"preflight", "consume"} /\ call[c].row # Null)
  <2>1. WaitsFor(c) = {} BY <1>5 DEF WaitsFor
  <2> QED BY <2>1
<1> QED BY <1>2, <1>3, <1>4, <1>5

\* A consumption that waits has found a row other than the one it holds for the line.
LEMMA WaitingConsumer ==
    ASSUME Inv, NEW c \in Calls, NEW d \in WaitsFor(c), call[c].pc = "consume"
    PROVE  FoundAnother(c)
<1>1. StateOK(call[c]) /\ LocksOf(c) /\ Finalizing(call[c])
  BY CallShape DEF Inv, RowLocks, Finalizing
<1>2. /\ call[c].row \in Balances /\ rowLock[call[c].row] = d /\ d # c
      /\ call[c].row.material \in call[c].todo
  BY <1>1, WaitsForFinalizations
<1>3. call[c].row # Null BY <1>2, ReportsAssumption
<1>4. call[c].row.project = call[c].project /\ call[c].row.material \in Checked(call[c])
  BY <1>1, <1>2, <1>3 DEF StateOK, WalkOK, Checked
<1>5. PICK b \in Balances :
          rowLock[b] = c /\ b.project = call[c].project /\ b.material = call[c].row.material
  BY <1>1, <1>4 DEF LocksOf, StateOK
<1>6. b # call[c].row BY <1>2, <1>5
<1> QED BY <1>4, <1>5, <1>6 DEF FoundAnother

LEMMA DeadlocksNeedTwoRowsHolds == Inv => DeadlocksNeedTwoRows
<1> SUFFICES ASSUME Inv PROVE DeadlocksNeedTwoRows OBVIOUS
<1>1. ASSUME NEW S \in (SUBSET Calls) \ {{}},
             \A c \in S : WaitsFor(c) \cap S # {} /\ ~FoundAnother(c)
      PROVE  FALSE
  <2> DEFINE P == {c \in S : Finalizing(call[c])}
             N == {call[c].row.material : c \in P}
  <2>1. ASSUME NEW c \in P
        PROVE  /\ call[c].pc = "preflight" /\ WalkOK(call[c])
               /\ call[c].row \in Balances /\ call[c].row # Null
               /\ call[c].row.material \in call[c].todo
               /\ call[c].row.material \in Materials
    <3>1. PICK d \in WaitsFor(c) : d \in S BY <1>1
    <3>2. call[c].row \in Balances /\ call[c].row.material \in call[c].todo
      BY <3>1, WaitsForFinalizations
    <3>3. call[c].pc # "consume" BY <1>1, <3>1, WaitingConsumer
    <3>4. WalkOK(call[c]) BY CallShape DEF Inv, StateOK
    <3> QED BY <3>2, <3>3, <3>4, ReportsAssumption DEF Finalizing, BalanceRows
  <2>2. P # {}
    <3>1. PICK c \in S : TRUE BY <1>1
    <3>2. PICK d \in WaitsFor(c) : d \in S BY <1>1
    <3>3. Finalizing(call[d]) BY <3>2, WaitsForFinalizations
    <3> QED BY <3>2, <3>3
  <2>3. N \subseteq Nat /\ N # {} /\ IsFiniteSet(N)
    <3>1. N \subseteq Materials BY <2>1
    <3>2. N # {} BY <2>2
    <3> HIDE DEF N
    <3> QED BY <3>1, <3>2, ReportsAssumption, FS_Subset
  <2>4. PICK n \in N : \A k \in N : k <= n BY <2>3, GreatestExists
  <2>5. PICK c \in P : n = call[c].row.material OBVIOUS
  <2>6. PICK d \in WaitsFor(c) : d \in S BY <1>1
  <2>7. d \in P /\ n \in Checked(call[d]) BY <2>5, <2>6, WaitsForFinalizations
  <2>8. call[d].pc = "preflight" /\ WalkOK(call[d]) /\ call[d].row.material \in call[d].todo
    BY <2>1, <2>7
  <2>9. n < call[d].row.material BY <2>7, <2>8 DEF Checked, WalkOK
  <2>10. call[d].row.material <= n BY <2>4, <2>7
  <2>11. n \in Nat /\ call[d].row.material \in Nat BY <2>1, <2>3, <2>7, ReportsAssumption
  <2> QED BY <2>9, <2>10, <2>11
<1>2. \A c \in Calls : \A d \in WaitsFor(c) : call[d].pc # "done"
  BY WaitsForFinalizations DEF Finalizing
<1> QED BY <1>1, <1>2 DEF DeadlocksNeedTwoRows

LEMMA RetryHolds == Inv => RetryCreatesNoDuplicate
BY DEF Inv, KeysOnce, TypeInv, CallsOK, RetryOK, RetryCreatesNoDuplicate

LEMMA AtMostOne == ASSUME NEW S, \A a, b \in S : a = b PROVE Cardinality(S) <= 1
<1>1. CASE S = {}
  BY <1>1, FS_EmptySet
<1>2. CASE S # {}
  <2>1. PICK x : S = {x} BY <1>2
  <2>2. Cardinality({x}) = 1 BY FS_Singleton
  <2> QED BY <2>1, <2>2
<1> QED BY <1>1, <1>2

LEMMA OneAfterHolds == Inv => OneAfterTheOther
<1> SUFFICES ASSUME Inv, NEW r \in Reports \ raced
             PROVE  /\ \A v \in revisions[r] : children[r] = v.rows /\ report[r].project = v.project
                    /\ Cardinality({a \in approvals : a.report = r}) <= 1
                    /\ Cardinality({x.by : x \in children[r]}) <= 1
  BY DEF OneAfterTheOther
<1>1. /\ \A v \in revisions[r] : children[r] = v.rows /\ report[r].project = v.project
      /\ \A a, b \in Reviewed(r) : a = b
      /\ \A x, y \in children[r] : x.by = y.by
  BY DEF Inv, ReadOnly
<1>2. Cardinality({a \in approvals : a.report = r}) <= 1 BY <1>1, AtMostOne DEF Reviewed
<1>3. Cardinality({x.by : x \in children[r]}) <= 1
  <2>1. \A a, b \in {x.by : x \in children[r]} : a = b BY <1>1
  <2> QED BY <2>1, AtMostOne
<1> QED BY <1>1, <1>2, <1>3

----------------------------------------------------------------------------
(* The theorems. *)

\* Whatever calls interleave, fail or are cut off, the rows of the reports, their materials,
\* revisions, approvals and movements, the locks and the calls have their types.
THEOREM ReportsTypeCorrect == Spec => []TypeOK
BY InvHolds, TypeOKHolds, PTL

\* However many calls submit a report, retry it, review it or lose their connection, its stock
\* is consumed once: finalizeWithin runs for a draft only, under the report's lock or on the
\* transaction's own new row, and COMMIT makes the revision, the movements, the status and the
\* audit row appear together.
THEOREM ChargedOnce == Spec => []ChargedExactlyOnce
BY InvHolds, ChargedHolds, PTL

\* consumeStockWithin never takes a balance row below zero and takes what the revision says,
\* although assertConsumableStock has checked the balances in statements before and may have
\* found another of a project's rows: the row that is decremented is locked and checked again.
THEOREM StockAccounts == Spec => []StockAccountsForReports
<1>1. Inv => StockAccountsForReports BY DEF Inv
<1> QED BY InvHolds, <1>1, PTL

\* Finalizations lock balances in the order of the materials, so a set of calls of any number
\* waits in a circle only if the two look-ups of a line have found different rows for one of
\* them, which takes a second row of a project's material; and nobody waits for a call that has
\* ended.
THEOREM DeadlocksNeedSeveralRows == Spec => []DeadlocksNeedTwoRows
BY InvHolds, DeadlocksNeedTwoRowsHolds, PTL

\* The offline queue's retries create no second report: the unique key stops what the look-up
\* before the transaction misses, and a retry finds the report that the first call committed.
THEOREM RetryIsSafe == Spec => []RetryCreatesNoDuplicate
BY InvHolds, RetryHolds, PTL

\* As long as no two calls about a report overlap, update's and review's checks without a lock
\* suffice: the submitted report is read-only, decided once, with the rows of one request.
THEOREM OneAfterAnother == Spec => []OneAfterTheOther
BY InvHolds, OneAfterHolds, PTL

----------------------------------------------------------------------------
(* The refinement.  What the abstract specification sees of the state. *)

Seen   == [r \in Reports |-> report[r].status]
Keyed  == [r \in Reports |-> report[r].key]
Uses(p, rows) == [project |-> p, need |-> [m \in Consumable(rows) |-> Total(rows, m)]]
Using  == [r \in Reports |-> {Uses(v.project, v.rows) : v \in revisions[r]}]

LEMMA AbstractNext ==
    /\ Atomic!vars = <<Seen, Keyed, Using, Together(stock)>>
    /\ Atomic!Init <=> /\ Seen = [r \in Reports |-> IF r \in DOMAIN Existing THEN Existing[r].status ELSE "NONE"]
                       /\ Keyed = [r \in Reports |-> Null]
                       /\ Using = [r \in Reports |-> {}]
                       /\ Together(stock) = Together(Opening)
BY DEF Atomic!vars, Atomic!Init, Seen, Keyed, Using, Uses

\* A step that changes no status, key, revision or balance is none of the abstract one's.
LEMMA Silent ==
    ASSUME \A r \in Reports : report'[r].status = report[r].status /\ report'[r].key = report[r].key,
           UNCHANGED <<revisions, stock>>
    PROVE  UNCHANGED Atomic!vars
<1>1. Seen' = Seen BY DEF Seen
<1>2. Keyed' = Keyed BY DEF Keyed
<1>3. Using' = Using BY DEF Using
<1>4. Together(stock)' = Together(stock) OBVIOUS
<1>5. Atomic!vars' = <<Seen', Keyed', Using', Together(stock)'>>
  BY DEF Atomic!vars, Seen, Keyed, Using, Uses
<1> QED BY <1>1, <1>2, <1>3, <1>4, <1>5, AbstractNext

\* A step that writes one report row changes its status and its key, and no other's.
LEMMA OneRow ==
    ASSUME NEW r \in Reports, \A x \in Reports \ {r} : report'[x] = report[x]
    PROVE  /\ Seen' = [Seen EXCEPT ![r] = report'[r].status]
           /\ Keyed' = [Keyed EXCEPT ![r] = report'[r].key]
           /\ report'[r].key = report[r].key => Keyed' = Keyed
<1>1. Seen' = [x \in Reports |-> report'[x].status] BY DEF Seen
<1>2. Keyed' = [x \in Reports |-> report'[x].key] BY DEF Keyed
<1> QED BY <1>1, <1>2 DEF Seen, Keyed

\* A report is created with a key that no other has.
LEMMA GivesKey ==
    ASSUME NEW r \in Reports, \A x \in Reports \ {r} : report'[x] = report[x],
           report'[r].key # Null => \A x \in Reports : report[x].key # report'[r].key
    PROVE  Atomic!KeyGiven(r)
<1>1. Keyed' = [Keyed EXCEPT ![r] = Keyed'[r]] BY OneRow DEF Keyed
<1>2. Keyed'[r] # Null => \A x \in Reports : Keyed[x] # Keyed'[r] BY DEF Keyed
<1> QED BY <1>1, <1>2 DEF Atomic!KeyGiven, Keyed

LEMMA DraftsSimulates ==
    ASSUME Inv, NEW c \in Calls, Drafts(c)
    PROVE  \E r \in Reports : Atomic!Draft(r)
<1>1. PICK r \in Reports :
          /\ report[r].status = "NONE"
          /\ \A x \in Reports \ {r} : report'[x] = report[x]
          /\ report'[r].status = "DRAFT" /\ report'[r].key = call[c].req.key
  BY DraftShape DEF Inv
<1>2. /\ call[c].req.key # Null => \A x \in Reports : report[x].key # call[c].req.key
      /\ UNCHANGED <<revisions, stock>>
  BY DEF Drafts, Req
<1>3. Atomic!KeyGiven(r) BY <1>1, <1>2, GivesKey
<1>4. Seen[r] = "NONE" /\ Seen' = [Seen EXCEPT ![r] = "DRAFT"] /\ UNCHANGED Using
  BY <1>1, <1>2, OneRow DEF Seen, Using
<1>5. Atomic!Draft(r) BY <1>2, <1>3, <1>4 DEF Atomic!Draft, Seen, Using, Uses
<1> QED BY <1>5

LEMMA DecideSimulates ==
    ASSUME Inv, NEW c \in Calls, ReviewDecide(c)
    PROVE  \E r \in Reports : Atomic!Decide(r)
<1>1. PICK r, action : Reviews(c, r, action) BY ReviewShape DEF Inv
<1>2. /\ r \in Reports /\ action \in {"APPROVED", "REJECTED"}
      /\ r = call[c].report /\ call[c].pc = "decide" /\ report[r].status # "NONE"
      /\ \A x \in Reports \ {r} : report'[x] = report[x]
      /\ report'[r].status = action /\ report'[r].key = report[r].key
      /\ UNCHANGED <<revisions, stock>>
  BY <1>1 DEF Reviews
<1>3. report[r].status \in {"SUBMITTED", "APPROVED", "REJECTED"}
  <2>1. report[r].status # "DRAFT" BY <1>2 DEF Inv, Charges
  <2> QED BY <1>2, <2>1 DEF Inv, TypeInv, Tables, NoReport, Statuses
<1>4. /\ Seen[r] \in {"SUBMITTED", "APPROVED", "REJECTED"}
      /\ Seen' = [Seen EXCEPT ![r] = action] /\ UNCHANGED <<Keyed, Using, stock>>
  BY <1>2, <1>3, OneRow DEF Seen, Using
<1>5. Atomic!Decide(r) BY <1>2, <1>4 DEF Atomic!Decide, Seen, Keyed, Using, Uses
<1> QED BY <1>2, <1>5

LEMMA FinalizeSimulates ==
    ASSUME Inv, NEW c \in Calls, Finalize(c)
    PROVE  \E r \in Reports : Atomic!Submit(r)
<1>1. PICK r, p, rows : Finalizes(c, r, p, rows) BY FinalizeShape
<1>2. /\ r = call[c].report /\ r \in Reports /\ p = call[c].project /\ rows = call[c].rows
      /\ p \in Projects /\ rows \in SUBSET Rows /\ IsFiniteSet(rows)
      /\ call[c].pc = "consume" /\ revisions[r] = {}
      /\ revisions' = [revisions EXCEPT ![r] = {[number |-> 1, project |-> p, rows |-> rows]}]
      /\ \A x \in Reports \ {r} : report'[x] = report[x]
      /\ report'[r].status = "SUBMITTED"
      /\ report'[r].key = IF call[c].req.kind = "create" THEN call[c].req.key ELSE report[r].key
  BY <1>1 DEF Finalizes, Ready, Uncharged
<1>3. \/ Seen[r] = "NONE" /\ Atomic!KeyGiven(r)
      \/ Seen[r] = "DRAFT" /\ UNCHANGED Keyed
  <2>1. call[c].req.kind \in {"create", "submit"} BY <1>2, Fresh
  <2>2. CASE call[c].req.kind = "create"
    <3>1. Creating(call[c]) BY <1>2, <2>2 DEF Creating, Finalizing
    <3>2. /\ report[r].status = "NONE"
          /\ call[c].req.key # Null => \A x \in Reports : report[x].key # call[c].req.key
      BY <1>2, <3>1 DEF Inv, Creates
    <3> QED BY <1>2, <2>2, <3>2, GivesKey DEF Seen
  <2>3. CASE call[c].req.kind = "submit"
    <3>1. Submitting(call[c]) BY <1>2, <2>3 DEF Submitting, Finalizing
    <3>2. report[r].status = "DRAFT" BY <1>2, <3>1 DEF Inv, ReportLocks
    <3> QED BY <1>2, <2>3, <3>2, OneRow DEF Seen
  <2> QED BY <2>1, <2>2, <2>3
<1>4. Seen' = [Seen EXCEPT ![r] = "SUBMITTED"] BY <1>2, OneRow
<1>5. PICK u : u = Uses(p, rows) OBVIOUS
<1>6. Using[r] = {} /\ Using' = [Using EXCEPT ![r] = {u}]
  <2>1. revisions' = [x \in Reports |-> IF x = r THEN {[number |-> 1, project |-> p, rows |-> rows]}
                                               ELSE revisions[x]]
    BY <1>2 DEF Inv, TypeInv, Tables
  <2>2. Using[r] = {} BY <1>2 DEF Using
  <2>3. Using' = [x \in Reports |-> {Uses(v.project, v.rows) : v \in revisions'[x]}]
    BY DEF Using, Uses
  <2>4. {Uses(v.project, v.rows) : v \in revisions'[r]} = {u}
    <3>1. PICK w : w = [number |-> 1, project |-> p, rows |-> rows] OBVIOUS
    <3>2. revisions'[r] = {w} BY <1>2, <2>1, <3>1
    <3>3. w.project = p /\ w.rows = rows BY <3>1
    <3>4. Uses(w.project, w.rows) = u BY <1>5, <3>3
    <3> QED BY <3>2, <3>4
  <2>5. \A x \in Reports \ {r} : revisions'[x] = revisions[x] BY <2>1
  <2> QED BY <2>2, <2>3, <2>4, <2>5 DEF Using
<1>7. ASSUME NEW k \in Pairs
      PROVE  /\ Atomic!Use(u, k) \in Nat /\ Atomic!Use(u, k) <= OnHand(stock, k)
             /\ OnHand(stock', k) = OnHand(stock, k) - Atomic!Use(u, k)
  <2>1. Atomic!Use(u, k) = Takeaway(p, rows, k) BY <1>5 DEF Atomic!Use, Uses, Takeaway
  <2> QED BY <1>1, <2>1, FinalizeTakes
<1>8. Together(stock)' = [k \in Pairs |-> Together(stock)[k] - Atomic!Use(u, k)]
  <2>1. Together(stock)' = [k \in Pairs |-> OnHand(stock', k)] BY DEF Together, Pairs
  <2>2. \A k \in Pairs : Together(stock)[k] = OnHand(stock, k) BY DEF Together, Pairs
  <2> QED BY <1>7, <2>1, <2>2
<1>9. u \in Using'[r] BY <1>6, <1>2 DEF Using
<1>10. Atomic!Submit(r)
  <2>1. \A k \in Pairs : Atomic!Use(u, k) \in Nat /\ Atomic!Use(u, k) <= Together(stock)[k]
    BY <1>7 DEF Together, Pairs
  <2>2. Atomic!Pairs = Pairs BY DEF Atomic!Pairs, Pairs
  <2> QED BY <1>3, <1>4, <1>6, <1>8, <1>9, <2>1, <2>2
          DEF Atomic!Submit, Seen, Keyed, Using, Uses
<1> QED BY <1>2, <1>10

LEMMA ElsewhereSimulates ==
    ASSUME Inv, NEW b \in Balances, Elsewhere(b)
    PROVE  \E k \in Pairs : Atomic!Elsewhere(k)
<1>1. PICK delta \in Int :
          /\ stock[b] + delta >= 0
          /\ stock' = [stock EXCEPT ![b] = @ + delta] /\ stock' \in [Balances -> Int]
          /\ \A k \in Pairs :
                OnHand(stock', k) = OnHand(stock, k) + IF b \in RowsFor(k) THEN delta ELSE 0
  BY ElsewhereMoves DEF Inv
<1>2. /\ stock \in [Balances -> Int] /\ \A a \in Balances : stock[a] >= 0
  BY DEF Inv, TypeInv, Ledger, StockAccountsForReports
<1>3. \A a \in Balances : stock'[a] >= 0 BY <1>1, <1>2
<1>4. PICK k \in Pairs : k = <<b.project, b.material>>
  BY ReportsAssumption DEF BalanceRows, Pairs
<1>5. \A j \in Pairs \ {k} : OnHand(stock', j) = OnHand(stock, j)
  <2> SUFFICES ASSUME NEW j \in Pairs \ {k} PROVE OnHand(stock', j) = OnHand(stock, j) OBVIOUS
  <2>1. b \notin RowsFor(j) BY <1>4 DEF RowsFor, Pairs
  <2>2. OnHand(stock, j) \in Int BY <1>2, OnHandIsInt
  <2>3. OnHand(stock', j) = OnHand(stock, j) + (IF b \in RowsFor(j) THEN delta ELSE 0) BY <1>1
  <2>4. OnHand(stock', j) = OnHand(stock, j) + 0 BY <2>1, <2>3
  <2> QED BY <2>2, <2>4
<1>6. OnHand(stock', k) \in Nat
  <2>1. OnHand(stock', k) \in Int BY <1>1, OnHandIsInt
  <2>2. OnHand(stock', k) >= 0 BY <1>1, <1>3, OnHandCovers
  <2> QED BY <2>1, <2>2
<1>7. /\ Together(stock)' = [Together(stock) EXCEPT ![k] = Together(stock)'[k]]
      /\ Together(stock)'[k] \in Nat
  <2>1. Together(stock)' = [j \in Pairs |-> OnHand(stock', j)] BY DEF Together, Pairs
  <2>2. Together(stock) = [j \in Pairs |-> OnHand(stock, j)] BY DEF Together, Pairs
  <2> QED BY <1>5, <1>6, <2>1, <2>2
<1>8. UNCHANGED <<Seen, Keyed, Using>> BY DEF Elsewhere, records, Seen, Keyed, Using
<1>9. Atomic!Elsewhere(k) BY <1>7, <1>8 DEF Atomic!Elsewhere, Seen, Keyed, Using, Uses
<1> QED BY <1>9

LEMMA StepSimulates == Inv /\ [Next]_vars => [Atomic!Next]_(Atomic!vars)
<1> SUFFICES ASSUME Inv, [Next]_vars PROVE Atomic!Next \/ UNCHANGED Atomic!vars
  OBVIOUS
<1>1. TypeInv BY DEF Inv
<1>2. ASSUME NEW c \in Calls, Begin(c) PROVE UNCHANGED Atomic!vars
  BY <1>2, Silent DEF Begin, records
<1>3. ASSUME NEW c \in Calls, Drafts(c) \/ Finalize(c) \/ ReviewDecide(c) PROVE Atomic!Next
  BY <1>3, DraftsSimulates, FinalizeSimulates, DecideSimulates DEF Atomic!Next
<1>4. ASSUME NEW c \in Calls, UpdateWrite(c) PROVE UNCHANGED Atomic!vars
  BY <1>1, <1>4, UpdateShape, Silent
<1>5. ASSUME NEW c \in Calls,
             \/ Ends(c) \/ Advances(c) \/ UpdateDelete(c) \/ StartsCreate(c) \/ StartsSubmit(c)
             \/ GoesOn(c)
      PROVE  UNCHANGED Atomic!vars
  <2>1. UNCHANGED <<report, revisions, stock>>
    BY <1>1, <1>5, GoesOnShape
       DEF Ends, Advances, UpdateDelete, StartsCreate, StartsSubmit, records, TypeInv
  <2> QED BY <2>1, Silent
<1>6. ASSUME NEW b \in Balances, Elsewhere(b) PROVE Atomic!Next
  <2>1. Atomic!Pairs = Pairs BY DEF Atomic!Pairs, Pairs
  <2>2. \E k \in Pairs : Atomic!Elsewhere(k) BY <1>6, ElsewhereSimulates
  <2> QED BY <2>1, <2>2 DEF Atomic!Next
<1>7. CASE UNCHANGED vars
  BY <1>7, Silent DEF vars
<1> QED BY <1>2, <1>3, <1>4, <1>5, <1>6, <1>7, NextKinds DEF Kinds

LEMMA InitSimulates == Init => Atomic!Init
<1> SUFFICES ASSUME Init PROVE Atomic!Init OBVIOUS
<1>1. Seen = [r \in Reports |-> IF r \in DOMAIN Existing THEN Existing[r].status ELSE "NONE"]
  BY DEF Init, Seen, NoReport
<1>2. Keyed = [r \in Reports |-> Null] BY DEF Init, Keyed, NoReport
<1>3. Using = [r \in Reports |-> {}] /\ Together(stock) = Together(Opening) BY DEF Init, Using
<1> QED BY <1>1, <1>2, <1>3, AbstractNext

\* Whatever the interleaving of their statements, failures and lost connections, the calls carry
\* out reports that are drafted, submitted and decided in one step each: the revision, the
\* status and the consumption of everything the revision lists become true together, once per
\* report and for good, out of stock that covers it.
THEOREM ReportsRefinement == Spec => ImplementsAtomicReports
<1>1. Inv /\ [Next]_vars => [Atomic!Next]_(Atomic!vars) BY StepSimulates
<1> QED BY <1>1, InvHolds, InitSimulates, PTL DEF Spec, ImplementsAtomicReports, Atomic!Spec
=============================================================================
