# HIIEKO System: TLA+ specification and proofs

TLA+ models of the concurrent core of the HIIEKO construction-site management
system, TLC configurations that check them, and TLAPS proofs about them. Every
definition is translated from the source in `src/`; `PROJECT.json` maps each one
to its lines.

## 1. The system

Web clients (Next.js, `src/web`) and mobile clients (Expo, `src/Mobile`, with an
offline queue in SQLite) send HTTP requests to one NestJS API (`src/backend`). Its
services read and write PostgreSQL through Prisma at isolation level READ
COMMITTED. Several instances of the API may run. The services share nothing but the
database, so every interaction between two requests is an interleaving of SQL
statements. `prisma.$transaction(async tx => ...)` is a database transaction
that ends in COMMIT, or in ROLLBACK when the callback throws, the connection is lost
or Prisma's timeout fires. Retries come from people and from the offline queue.

### Components

| Component | State | Operations | What makes it correct | Module |
|---|---|---|---|---|
| Inventory (`inventory.service.ts`) | `stock_balances`, `stock_movements` | receive, consume, transfer; `assertConsumableStock`, `consumeStockWithin` for reports | no overdraft, a ledger that explains the balances, keys that take effect once | `StockDb`, `Inventory`, `Stock` |
| Procurement (`procurement.service.ts`) | `avize`, `aviz_items`, the stock tables | create a delivery note and receive its items | all items or none, one note per number and key | `Procurement`, `Stock` |
| Daily reports (`daily-reports.service.ts`) | `daily_reports` and children, revisions, approvals, the stock tables | create, update, submit, review | stock consumed exactly once, immutable revisions, deadlocks only between balance rows of one material | `DailyReports` |
| Audit (`common/audit`) | `audit_logs` | record, through a transaction or not | a row for what happened and only for that | in the above |
| Sessions and authentication (`modules/auth`) | `sessions`, `refresh_tokens`, `password_reset_tokens`, `users` | login, refresh, logout, reset, revoke | a token rotates once, a revoked session stays dead, an access change ends sessions | `Sessions` |
| JWT guard (`jwt-auth.guard.ts`) | reads `users`, `sessions` | check of every request | no request through a dead session | `Sessions` |
| Web client sessions (`api-client.ts`, `AuthContext.tsx`) | the refresh cookie of a browser, the access token and the refresh in flight of each tab | load, request, refresh and retry, sign in, sign out | it presents no refresh token twice by itself | `WebClient` |
| Users and roles (`users.service.ts`) | `users`, `project_members`, `task_assignments` | role, status, offboarding | an active owner remains, what one leaves behind has an active owner | `Accounts`, `Sessions` (what a status ends) |
| Project members (`project-members.service.ts`) | `project_members` | add, change of role, remove | a project keeps a member | `Accounts` |
| Tasks (`tasks.service.ts`, `task-dependencies.service.ts`) | `tasks`, `task_assignments`, `task_dependencies` | create, update, block, unblock, assign, add a dependency | one code per task, legal transitions by those who may, an order of work | `Tasks` |
| Daily plans (`daily-plans.service.ts`) | `daily_plans`, `daily_plan_tasks` | create, publish, progress, complete, cancel | complete when its tasks are, and final | `DailyPlans` |
| Attendance (`attendance.service.ts`) | `attendance_records`, `attendance_corrections` | check in, check out, correct | one open session per user, hours that follow the times, a true history | `Attendance` |
| Expenses (`expenses.service.ts`) | `expenses`, `expense_approvals` | create, approve or reject | the status is the last decision, which is somebody else's | `Expenses` |
| Mobile sync queue (`syncQueue.ts`, `App.tsx`, `expenseDocuments.ts`) | `sync_queue` and drafts on the phone | enqueue, sync, retry, restart | carried out at least once, and once where keyed; it drains | `SyncQueue` |
| Documents (`documents.service.ts`, `document-folders.service.ts`, `upload`, `attachments`) | `documents`, `document_versions`, `document_folders`, `attachments`, stored files | upload, new version, reassign, archive, restore, file; folder tree; attach | rows and files agree, trees stay trees, projects do not mix | `Folders`, `Documents` |
| Everything else | record tables | single statements, read-only aggregation, I/O | | not modelled, reasons in section 8 |

The behaviours that are hard to test are all of one kind: a request reads, decides and
writes in separate statements, and another request, a retry of the same one or a
failure comes in between. `PROJECT.json` lists them under `hazards`, each at its line.

## 2. Modules

```
StockDb        the shared tables, transactions, locks, unique keys, deadlock detector
  Inventory    receiveStock, consumeStock, transferStock
    Procurement  createAviz
      Stock      Next, Spec, FairSpec and the properties;  implements AtomicStock
        MCStock      small instances
        StockProofs  types, no overdraft, keys, whole requests, replays, refinement of
                     AtomicStock, the ledger that explains the stock
AtomicStock    the promise: requests carried out whole, one at a time
DailyReports   create, update, submit, review, finalization; uses that promise for other operations;
               implements AtomicReports
  MCReports    small instances
  ReportsProofs  all that run reports checks, and types
AtomicReports  the promise: reports drafted, submitted and decided in one step each
Sums           what a sum over a finite set is: lemmas for the proofs of stock and reports
Sessions       login, refresh, use, logout, status, reset and change of passwords
  SessionsProofs   rotation, replay, ends of sessions
  WebClient    the tabs of one browser as the senders of those calls
    MCSessions   small instances
    WebClientProofs  the same for the browser's calls, and no self-inflicted replay
Handlers       requests in flight, what they have read, which of them overlapped
  Accounts     users, members, assignments
    Tasks        tasks, dependencies
      DailyPlans   plans
  Attendance   records, corrections, the clock
  Expenses     expenses, approvals
        Site         DailyPlans, Attendance and Expenses together: Next, Spec
          MCSite       small instances
          SiteProofs   all that run site checks
  Folders      folder trees of projects and of the company
    Documents    documents, versions, files, attachments: Next, Spec
      MCDocuments  a small instance
      DocumentsProofs  all that run documents checks
SyncQueue      the phone: queue, connection, passes, restarts, and the endpoints it calls
  MCSyncQueue  small instances
  SyncQueueProofs  what the phone takes for done was done
```

### StockDb, Inventory, Procurement, Stock

A *call* is one HTTP request in flight: `call[c]` has its request, the statement it
is at (`pc`), the item it is working on, the balance row it has found and its answer.
`present`, `quantity`, `movements`, `avize` and `audited` are the committed tables.
`tx[c]` is what c's open transaction has written and nobody else sees: deltas of
quantities, created rows, movements, the header of a note. `lock[r]` is the
transaction that holds a balance row (SELECT ... FOR UPDATE, UPDATE, or the pending
index entry of an INSERT).

One action is one statement that another call can interleave with, together with
the code up to the next one:

| Step of the call | Code | Actions |
|---|---|---|
| `check` | validation and look-up of the key before the transaction | `ReceiveCheck`, `ConsumeCheck`, `TransferCheck`, `AvizCheck` |
| `recheck` | `consumeStockWithin` looks the key up again | `ConsumeRecheck` |
| `header` | INSERT of a note | `AvizInsert` |
| `find`, `findTarget` | `findFirst` on `stock_balances` | `...Find`, `TransferFindSource`, `TransferFindTarget` |
| `lock`, `lockTarget` | FOR UPDATE, sufficiency check, UPDATE | `ReceiveIncrement`, `ConsumeDecrement`, `TransferDecrement`, `TransferIncrement`, `AvizIncrement` |
| `create`, `createTarget` | INSERT of a balance row under its unique index | `ReceiveCreate`, `TransferCreate`, `AvizCreate` |
| `record` | INSERT of the movements and the audit row | `ReceiveRecord`, `ConsumeRecord`, `TransferRecord`, `AvizRecord` |
| `commit` | COMMIT | `Commit` |
| `refused` | the read-back of the balance, in a transaction that a refused audit row has aborted | `ConsumeReadBack` |

`Begin` is a client sending a request; `Abort` is a lost connection, a crash or a
timeout at any point inside a transaction; `AbortDeadlocked` is PostgreSQL choosing
a victim on a cycle of waiting transactions. FOR UPDATE and the UPDATE that follows are
one action because the lock is held from the first to the end of the transaction.

`AtomicStock` says what callers may rely on, with no statements or locks: balances
change only by whole requests, never go below zero, and no two requests that share a
ledger key are both carried out. `Stock` instantiates it with the requests, the calls
answered `ok` and the committed quantities.

### DailyReports

The same style, for the four operations on reports. `report`, `children` (the material
rows; workers, tasks and production rows are replaced and deleted with them and
have no reader here), `revisions`, `approvals`, `charged` (the CONSUMPTION movements
tagged `daily_report`), `stock` and `audit` are the committed tables; `reportLock`
and `rowLock` are row locks. `Balances` are the rows of `stock_balances`, of which a project may have
several per material (with and without a warehouse); they are there from the start, because creating one is the
business of `Stock`. A report is created as DRAFT or SUBMITTED
(`CreateCheck`, `CreateInsert`), its rows are replaced (`UpdateCheck`,
`UpdateDelete`, `UpdateWrite`, `AuditDraft`), it is submitted (`SubmitLock`), and
creation and submission share the finalization. `Preflight` goes through the lines in order of their materials: find a
row, lock it, note a shortage. `RefuseShortage` refuses, naming all of them; otherwise `StartConsuming` and `Consume` go through
the lines again: find a row, lock it, check it, take from it. Both look-ups are a `findFirst` without an order (`Found`), so they may return
different rows of one project and material. `Finalize` writes the movements, the revision and the status and commits (one action: nobody
sees the rows it writes before). What is taken from a row is a pending write (`taken`) until then.
`ReviewCheck` and `ReviewDecide` are the two halves of a review. `AuditSwallowed` is a transaction whose audit row was refused: a report
created as SUBMITTED and a review read nothing afterwards, and answer `ok` after a COMMIT that was a ROLLBACK; a submission reads its
report back, and a consumption its balance, and fail (`Abort`). The other stock operations appear as `Elsewhere`, one atomic
change of one balance, which is what the refinement of `AtomicStock` justifies.

`AtomicReports` is what is left of a report without statements, locks, rows or users: a status, a key,
what its revision uses, and what is there of each material in each project (`Together`, the sum of the rows). Submission is one step, in which the revision appears and the
balances fall by all it lists; after it only decisions follow, one of which may overwrite another when two
reviews overlap. `DailyReports` instantiates it
with the committed rows.

### Sessions

`status` and `password` are columns of `users`; `owner`, `revoked` and `expired` describe
sessions (and `revoked` tokens too); `family`, `used` and `next` are the session, `used_at`
and `replaced_by_id` of refresh tokens; `spent` is `used_at` of reset tokens. `lock` is on
rows of the three tables. What a transaction has written stays in `call[c]` until its last
action, which commits.

| Step of the call | Code | Actions |
|---|---|---|
| `check`, `create`, `issue` | login: credentials and status, then session, then token, three statements without a transaction | `LoginCheck`, `LoginCreate`, `LoginIssue` |
| `check`, `claim`, `touch` | `consumeForRotation`: read token and session; conditional UPDATE; write the session row and commit the successor | `RefreshRead`, `RefreshClaim`, `RefreshCommit` |
| `user` | refresh looks at the user after the rotation | `RefreshUser` |
| `check`, `session`, `stamp` | the guard: user, session, `last_used_at` | `UseUser`, `UseSession`, `UseTouch` |
| `check`, `write` | checks before a change; UPDATE of the user | `SetStatus`, `ResetCheck`, `ChangeCheck`, `WritePassword` |
| `find`, `kill`, `tokens` | `revokeSession` and `revokeAllSessionsForUser`: SELECT, UPDATE of sessions row by row, UPDATE of their tokens, COMMIT | `RevokeFind`, `RevokeSessions`, `RevokeTokens` |

The UPDATE of tokens sees those that were committed when it began (`found`), although it
may wait for their locks: a token committed during the wait is missed. What makes
rotation safe against that is its write of the session row, which the revocation has
locked by then (the mutant without it breaks `FamilyDiesTogether`). A login has no such write,
so its token can survive in a revoked session; the second half of `AccessChangeEndsSessions`
says that it is of no use.
`Expire` is a session reaching its end, at any time; a token lives as long as its session. The
guard's idle-timeout branch is left out because its limit equals the session's
lifetime, which the guard tests first. Refusals by password policy, the age of a reset token or rules
about roles are nondeterministic. The administrators' revocation endpoints and `updateRole`
follow the same steps as logout and `updateStatus`, and are not repeated.

### WebClient

`WebClient` extends `Sessions`: a behaviour has either the crowd of callers of `Sessions` or one browser, which has the
server to itself (`crowd`). `cookie` is `hiieko_rt`, `page[t]` the memory of a tab: the session of its access token (`sid`),
whether its 15 minutes are not over (`fresh`), `refreshPromise` (`flight`) and whether requests wait for it. A request is received at once (`Fetch`);
its answer is processed later (`Deliver`) or never (`Lose`), in any order, which is all that delays can change. `Load` is a page load with
`restoreSession`, and the answers of the page before it only change the cookie (`Gone`). `AskStale` is a request whose access
token is absent or too old: the guard's 401 does not depend on the database. `RefreshSession` is what follows a 401: wait for the refresh in flight, or start
one; `Retry` sends the request once more and takes a second 401 for an answer. `SignIn` and `SignOut` send the
call; a sign-out ends the session of the cookie, or else of the access token, and clears the tab's token whatever comes back. Several
waiting requests count as one, and `boot` is the request of `refreshUser`, whose failure drops the token. The server's
sessions do not expire while the browser is the only caller.

### Handlers, and requests that overlap

The services below `Handlers` read in one statement and write in another, mostly without a
lock. `call[c]` is one handler: its request, the step that comes next and what it has
read (`seen`). A step is what a handler does between two awaits whose order others can see;
a transaction that takes no lock worth modelling is its reads, each a step, and one step for
its writes and the COMMIT. A handler that has answered is free for the next request of the same
`load`, so behaviours have any length and the state stays finite; a behaviour draws all its
requests from one of the `Workloads`, sets of requests that meet in some rows.

Most of what these services promise is kept for requests that come one after the other and is
not guarded against two at once: the transition of a task, the status of a plan, the review of an
expense or a report are checked on a row read earlier and written by its id. The models keep those races (nothing
is excluded from `Next`), and the history variable `raced` holds what two overlapping requests
were about. A property says for each of its parts whether it holds always or outside `raced`, which
is thereby a list of the code's unguarded races:

| Always, whatever overlaps | Only if requests about it did not overlap |
|---|---|
| one open session per user; `after` of a correction | hours follow times (a correction decides on the row it read); `before` of a correction |
| the status of an expense is its last decision | an approved expense stays so |
| a verified task has a verifier; task codes are unique and retries make progress | transitions, `actual_end`, self-verification |
| | acyclic dependencies; the final states of plans; the last member of a project; a whole hand-over |
| the system keeps an active owner, if those who were counted still are the owners at the write and no other request about the user overlaps | an organization keeps an active owner |
| versions, files, folders, placement of documents | attachments of a document that moves; project and versions of archived documents |
| reports: exactly-once consumption, stock, keys | read-only after submission, one review, rows of one update |

### Accounts, Tasks, DailyPlans

`users`, `members`, `assigned` (`task_assignments`), `task` (by the number in its code: status, whether
`blocked_reason` and `actual_end` are set, `verified_by`), `deps`, `plans` are the tables. Users have an organization
(`OrgOf`), and so has the project (`Organization`). Roles, status, offboarding and the addition of a member ask whether the user is in
the actor's; the project guard lets an administrator of any organization pass, so a member's role and removal do not. The owners are
counted over all organizations (`ActiveOwners`, `users.service.ts:184-190, 471-477`), so the count alone does not keep an organization's
last owner. What does is that an owner is managed only by another active owner of the same organization, as long as two such
requests do not overlap (`ActiveOwnerRemains`). The guards' look at the
actor is part of the first step. Checks and writes pair up as `ChangeRole`/`SetRole`,
`ChangeStatus`/`CountOwners`/`SetStatus`, `Offboard`/`TakeStock`/`HandOver`, `UpdateTask`/`WriteTask`,
`BlockTask`/`WriteBlock`, `UnblockTask`/`WriteUnblock`, `AssignUser`/`InsertAssignment`,
`PublishPlan`/`WritePublished`, `CompletePlan`/`RecheckPlan`/`WriteCompleted`, `CancelPlan`/`WriteCancelled`,
`Progress`/`WriteProgress`. `CreateTask`/`InsertTask` is the loop that tries a code again, and `Search` is one
query of the breadth-first search, which takes one task per query while other requests add dependencies.

### Attendance, Expenses

Attendance has a clock of whole hours (`Tick`); a record is its two times and the hours derived from them. `CheckInInsert` is the
INSERT under the partial unique index, `CheckOutWrite` the UPDATE by id with hours since the start
that was read before, `Correct`/`CorrectWrite` the correction, which derives the hours from the row it read. The audit row of a correction can be refused,
which rolls it back (the `audit_swallowed` finding). In Expenses, the UPDATE of a review takes the
row's lock (`holder`) until the approval is inserted and committed, so the later of two overlapping reviews
writes both last.

### SyncQueue

`status` is the column of `sync_queue`, `pass[p]` one run of `syncAllOperations` over the operations it read at its start. `connected` is the network, `isOffline`
the state of the shell, and `wasOffline` the same state as the subscribed listener saw it when it was
created: an event that arrives before the effect has run again is judged by the old value, and so two passes can be started at once.
`executed` counts how often the backend carried an operation out. `Refuses` and `Replays` are what each endpoint does with it: a
check-out names no project and does not pass the guard (`NoProject`), a second check-in meets the open session, and a receipt that
is repeated is in conflict, because its key is sent in the body and the column is unique. A repeated report (key in the header) or delivery
note (key in the body) is answered with the one there is. The key of other expenses is sent nowhere, so they are carried out again. `SubmitReceipt` is
the screen of receipts, which sends first and queues when that fails; an application that dies before it has queued has kept no draft, which
is the same as the user not having asked.

### Folders, Documents

Folder operations and `Refile` (the end of `moveToFolder`) are SERIALIZABLE transactions that begin with the advisory lock of
the scope and read again what they decided on. They are one action, and may fail instead (`DropDocument`). Everything else is READ COMMITTED: `Upload` checks for duplicates, `Store` writes
the file, `InsertDocument` the rows; `AddVersion`, `Store`, `NumberVersion`, `AppendVersion` likewise, with the unique
index on (document, number) to decide; `CleanUp` removes the file when the rows failed, twice at most. `blobs[b]`
says whether the b-th stored file is there. A storage that throws may have kept the file, wholly or in part; the call is
outside the `try` that removes files, so nobody removes that one. `mishaps` are the files of such a storage, those of which a process died
before their rows, a COMMIT took effect and its answer was lost, or a removal failed twice. `Reassign`, `CountAttachments`, `Own` move a document to another
project, and `Own` writes by id under the trigger that compares the project with that of the folder. An attachment refers to a document by its url or by
one of its files (`ref`), and the count looks for all of them. It is made through a project (`project`) to work of some project (`target`).
Whether the two are compared (`checked`) depends on who attaches and how: `assertTargetInProject` compares them except for ADMIN, OWNER and MANAGER
(`attachments.service.ts:56-65`), an upload for an expense only (`upload.service.ts:113-120`). `TargetAllowed` is what is left of
the rule; the requests draw all three.

## 3. Runs

| Run | Instance | Question |
|---|---|---|
| `stock` | 3 calls, 2 materials, 2 projects, 1 warehouse, 7 balance rows, 17 requests | overdraft, ledger, keys, atomicity, retries, audit, refinement of `AtomicStock` |
| `stock_live` | 2 calls, `FairSpec` | is every request answered? |
| `transfer_retry` | 2 calls | is a retried transfer replayed? (no) |
| `audit_swallowed` | 2 calls of daily reports | is a failed audit write harmless? (no) |
| `reports` | 3 calls, 4 report ids, 2 projects, 2 materials, 3 balance rows, 9 requests | exactly-once consumption and audit, stock accounts, deadlocks, duplicates, one after the other, refinement of `AtomicReports` |
| `sessions` | 3 calls, 1 user, 4 sessions, 4 tokens, 11 requests of anybody; or 3 calls of a browser with 2 tabs | single rotation, replay, revocation against rotation and login, access changes, self-inflicted replays |
| `inactive_session` | 2 calls | does a suspended user have no live session? (no) |
| `site` | 2 handlers, 7 users of 2 organizations, 4 tasks, 2 plans, 2 records, 2 expenses, 12 workloads | accounts, members, tasks, dependencies, plans, attendance, expenses |
| `task_reopen` | the same with one workload | do only ADMIN, OWNER and PM reopen a verified task? (no) |
| `field` | 2 operations of 3 scenarios, 2 passes, 1 fault, 1 restart, `FairSpec` | what was synced was carried out, once where keyed; the queue drains |
| `sync_restored` | a check-in and a check-out, no faults, `FairSpec` | is every queued operation synced? (no) |
| `documents` | 2 handlers, 3 folders, 2 documents, 3 files, 2 attachments, 7 workloads | rows and files, trees, placement, attachments, archive |

Bounds. The races of the code are between two calls; the third lets a pair race for what
another one left behind (a retry after a success and next to a rival, or a create next
to two updates). Two materials make lock orders differ, and a note that lists a
material twice meets its own unique key. Quantities are 0 to 2: enough to
suffice for one request and not for two. The requests include every way a check can
refuse: no site, equal sites, no balance row, zero and negative quantities, no
permission. Balance rows include one that exists with quantity 0 and one
with both project and warehouse, so that `consumeStock`, which ignores the warehouse,
has a choice. In `reports` one material of a site is in two rows, the other in one, and the second site has none, so that the two look-ups of a line can agree,
differ and fail. `MaxElsewhere` bounds how far other operations move one balance.
For sessions, three calls are a login or rotation, what ends the session, and what comes
after; one session with one token exists at the start, each login adds a session and each login
or rotation a token, so four ids never run out. One user is enough because nothing
relates the sessions of two. For the browser, three calls are two refreshes that could meet and a sign-in, sign-out or
request between them; two tabs share the cookie and not the single flight.

In `site` and `documents` two handlers suffice for a race between two requests, and since they serve
one request after the other, for what any number of earlier requests left behind; a race of three is not explored. The workloads are the
requests that meet in some rows: two owners and those who remove them; the owners of two organizations; crossing offboardings with
assignments and member changes; one task through all its transitions, by a lead, an assignee and an inspector; creation of
tasks until the codes run out (4 tasks, 3 attempts: two can be lost); four dependencies that close
cycles of two and three; a plan with two tasks; two records of a worker over three hours of which one is regular;
two expenses, one with a key. Folders go three deep; a document is
uploaded, versioned, reassigned, filed, archived and attached in pairs of operations, to work of its project or of another. `MaxRecords`, `MaxTime`, `MaxApprovals`, `MaxBlobs`, `MaxOps`, `MaxFaults`,
`MaxRestarts` cap what would grow without end. In `field`, two operations are one in front of another: a refused check-out before a
report, two keyed ones, and a check-in before an unkeyed expense; one fault and one
restart are each enough to orphan or repeat an operation, and disconnections between passes are unbounded.

Handlers are symmetric except in the liveness runs and `inactive_session`. TLC reports deadlocks in every run: a finished
stock, report or session behaviour stutters (`Finished`), and the other systems never stop.

Fairness. In `Stock` (`FairSpec`) a statement that can run does run, because the service awaits it
and PostgreSQL executes it; the deadlock detector breaks every cycle. No client has
to send anything and no failure has to happen. In `SyncQueue` the application goes on with a pass it
has started (weak fairness of its steps), React runs an effect whose state changed, NetInfo
reports sooner or later what the connection is, the connection comes back again and again
while the shell shows that it is away, and goes away again (a phone that is always connected never starts a pass at all:
the queue is read only on the way from offline to online). These are assumptions about the field, not about the code.
They are strong fairness because faults and the user's toggle can disable these steps in between.

## 4. Findings

Five runs end in a violation of something a comment or a message in the code says
(quoted in `PROJECT.json`).

* A transfer's idempotency key is looked up raw but stored with a suffix: a retry is
  an error, never a replay. It still cannot take effect twice (`KeyTakesEffectOnce`).
* An audit row that is refused inside a transaction aborts it, and the error is swallowed. Where the transaction reads nothing
  afterwards, COMMIT becomes ROLLBACK and the service answers success: a report created as SUBMITTED, a review, a correction of
  attendance. A consumption and a submission read a row back and fail.
* A login that overlaps a suspension leaves a session the suspension does not revoke.
* A task that left BLOCKED by a change of status keeps its reason. Whoever may unblock it can
  later set it IN_PROGRESS, also when it is verified or cancelled.
* A check-out recorded without a connection names a record by an id only the phone knows and sends no project; it is
  refused whenever it is sent, and the worker stays checked in.

Others need no run of their own, because a passing property says where they begin. An update that read DRAFT can rewrite a
report submitted meanwhile, two concurrent reviews are both recorded, two concurrent updates of a draft leave the rows of both
(`OneAfterTheOther`, `raced`). Two overlapping resets both use one reset token (`AccessChangeEndsSessions` speaks of later ones). The
races of the right-hand column in section 2 end in what that column promises otherwise. Two owners of an organization who deactivate each other at
once leave it without one, because the count is neither locked nor of that organization; so do two changes of role that overlap, which count nobody. "Two concurrent finalizations that touch the same balances lock them in the same order and cannot deadlock"
(`daily-reports.service.ts:855-857`) is true of materials: where a project has two rows of one, the second look-up can find the other row, and two
finalizations can wait for each other (`DeadlocksNeedTwoRows`). A consumption can for the same reason be refused although its pre-flight found enough.
An administrator can attach a document to work of another project, and so can an upload (`AttachmentsStayInProject`); a file that a
storage kept before it threw stays for ever (`VersionsMatchFiles`). An expense other than a receipt is sent again after a lost answer and stored twice, an operation in flight when the application dies is never sent again
(`SyncedMeansCarriedOut`, `Orphaned`). A file can be removed although a version refers to it, if the answer to COMMIT is lost (`mishaps`).

`NoSelfInflictedReplay` excuses what the code does not prevent. The comment on the single flight
(`api-client.ts:382-388`) is about the requests of one tab: two tabs that refresh at once present the same cookie, and the
second loses the session for both; so does a page that is reloaded, or cut off, between the rotation and its answer. A
refresh that a sign-out overtakes is answered as reused and audited as `REFRESH_REUSE_DETECTED`, although nobody used the token
("a replay by definition", `session.service.ts:149-150`; the claim fails because it was revoked); nothing is lost, so the property asks for sessions
that the detection really ended. "Keep the existing token so a transient outage is not a logout"
(`api-client.ts:593`) does not hold for a refresh that follows a 401: `request` clears the token whatever made the
refresh fail (501-506). And a refresh that fails late clears the cookie of a newer login (`auth.controller.ts:118-120`).

`transferStock` fills a missing project or
warehouse from the other side (lines 576-577), so a transfer between a project and a warehouse
records both legs at (project, warehouse). `TransferMovements` keeps this, which is why
`LedgerExplainsStock` adds up a material over all places and not place by place.

"Source and target must be different locations" (line 469) is decided on the values as they were sent: a side that leaves its warehouse out and
one that sends `null` differ, and name the same balance row. Such a transfer takes from the row and gives back to it (`MayDiffer`, `Transferred`).

## 5. Proofs

Every theorem holds for all values of the constants: any number of calls, rows, requests, tasks, tokens,
files, and behaviours of any length. Their list is in `PROJECT.json`; this section says from what they
follow and along which argument.

### What is assumed

Only the named ASSUMEs of the modules, which TLC evaluates in the runs.

* Requests are well formed, as the validation of the controllers makes them: they name users, tasks, rows of the tables
  (`StockAssumption`, the `RequestsAssumption` of each system). A request is also about the rows it is going to
  write (`on`), which is what makes an overlap with another one a race; a correction of attendance cannot name the hours (the
  DTO has no such field).
* Ids and `Null` differ, ids of different tables differ (they are UUIDs), a key is not a material's id
  (`SuffixAssumption`).
* What the tables contain at the start is what the database can contain: opening quantities are natural, a first token belongs to a
  session that is there, first folders have no parent and different names, the project has a member.
* Tables are finite where the argument counts (`Users`, `Tasks`, `Folders`), and there are more ids of sessions and tokens than
  calls can take (`IdsAssumption`).

No theorem has a hypothesis besides `Spec` (or the specification of the browser, for the theorems about it): failures, crashes and refused audit
rows are steps of the models.

### Sums (`Sums`)

Two properties are equations between sums, and a sum is a fold over a set, a recursive function. The library's
induction theorems take a predicate as a parameter, which the provers cannot instantiate. A set can stand for it: `NatSetInduction` says that a
set of numbers with 0 and the successor of each member has all of Nat, `SetInduction` the same of the parts of a finite set, and both follow from
the well-foundedness of `<` and of strict inclusion (every set that is not empty has a minimal member). The set is then
"the cardinalities for which the claim holds", a set expression and no parameter. `SumExists` builds the fold's function one cardinality
after the other; `SumSplit` shows that the order in which the fold takes the elements makes no difference; `SumAdd`, `SumUnion`,
`SumAgree`, `SumPlus` and `SumOfOne` are what the proofs use.

### Stock (`StockProofs`)

`NeverOverdrawn` says that every balance is at
least zero and would be if any one open transaction committed. It is not inductive. Two facts
make it so: `Owned`, whoever has a pending write or create on a row holds its lock, and
`Positive`, a call that is past its checks moves a positive quantity. A decrement is checked
under the row's lock, so the pending writes of all others on that row are zero, and
Commit, which adds the workspace of one call, leaves other workspaces covered because
they touch other rows.

For the ledger, `CallInv(c)` says at every statement which movements, notes and deltas the transaction
of c has written so far (`Entries`), `TablesInv` that the committed tables are what finished calls owe and nothing else, and
`ApartInv` that the rows of two calls are never under one key: INSERTs of a key wait for one another, and a second one finds
the first. `KeyTakesEffectOnce`, `AllOrNothing` and `RetryIsReplayed` follow. On the same
invariant rests the refinement: `Init` maps to the initial state of `AtomicStock`, the COMMIT of a call is the abstract
request, carried out whole, and every other statement is a stutter (`Refinement`). `AtomicStock` was corrected by
this proof: the keys of a delivery note are those of its items, as the service builds them.

`LedgerExplains` has an invariant of its own: the books of every open transaction.
For each statement it says that what a transaction has added to the balances of a material is the signed sum of the movements it has
written, plus what it still owes the ledger for the item it is at (`OwedBy`). A COMMIT adds both sides at once and a ROLLBACK drops both.

### Daily reports (`ReportsProofs`)

`Inv` has one part for each reason why a report is charged once.

* `ReportLocks`, `RowLocks`: a report's lock is held by the one submit that finalizes it, and what that submit has read is still
  what the tables say; a balance row's lock is held by the one finalization that has come to its material. A finalization has locked a row of every
  material its pre-flight has passed, unless a shortage was found, and the rows it has taken from hold what it takes.
* `Creates`, `KeysOnce`: the row a create is going to commit is nobody else's, and its key is in no committed row and no other
  transaction that has inserted one.
* `Charges`: a report that left DRAFT has exactly one revision, one audit row and the movements of that revision; any other has none. So a
  finalization, which starts from a draft or a new row, meets nothing (`Fresh`), and its revision has number 1.
* `Alone`, `ReadOnly`: outside `raced`, the call about a report is the only one, and what it read before its
  transaction still holds when it writes.

Every step of a call is first shown to be of one of ten kinds (`StepKinds`), and each part is then shown for the kinds it depends
on. `StockAccounts` adds the new movements to a sum per project and material (`TakenByCharges`), and what is taken from the rows to the sum of the
rows (`FinalizeTakes`): one row per line, whichever was found; a row stays natural because it has been locked since it was compared.
`DeadlocksNeedSeveralRows` takes, among the calls of a set that wait for a balance, the one whose next material is greatest: its holder has
passed that material and, being in the set, waits for another, which is greater still, unless it is consuming; and one that consumes waits for a row of
a material of which its pre-flight has locked another row (`WaitingConsumer`). TLC checks on two materials what this says for any number, in any number of projects.

The refinement (`ReportsRefinement`) rests on the same invariant: of the ten kinds three are steps of `AtomicReports`, a draft that is
inserted, the finalization, and the record of a review; the others change neither status, key, revision nor balance, not even `UpdateWrite`
when it comes after a submission. `RowLocks` makes the rows, and so their sums, cover what the finalization takes, `Creates` and `ReportLocks`
say that its report has no status or is a draft, and `Charges` that a review that has passed its check is about no draft.

### Sessions and the browser (`SessionsProofs`, `WebClientProofs`)

The argument is one of rely and guarantee. `CallInv(c)` is what a call knows of itself and the
tables after each statement; `Rely(d)` is what a step of any other call leaves to d; a lemma shows
`CallInv(d)` stable under it, and each action is shown to give it to the others and to re-establish its
own. The heart of it is `LineInv` (each token has at most one successor, issued by
the call that used it) and `EndsInv`: whatever a revocation must still reach (`Doomed`) is revoked or on its list. That a family dies together needs
what the rotation's write of the session row provides: the successor commits before the revocation
reads the tokens, or finds the session revoked.

`WebClientProofs` starts from the same invariant with the browser as the caller, so the theorems about sessions are stated for
both. `OneFlight` and `UnusedInv` (the cookie is used only while the refresh that used it is in flight) give
`NoSelfInflictedReplay`.

### The phone (`SyncQueueProofs`)

`SyncedMeansCarriedOut` needs to know that one pass sends an operation at a time (`OnePassInv`, until two passes have
crossed) and that an answer is that of the operation it is taken for (`AnswerInv`). `ExecuteCounts` is the fact about the
endpoints it rests on: what is not refused has been carried out, by this request or, for a replay, by an earlier one.

### Documents (`DocumentsProofs`)

`Inv` relates the steps of every handler to the tables (`CallInv`), versions to files (`FilesInv`) and attachments
to documents and to the work they are attached to (`LinksInv`). A new file is the handler's that goes on with it, or a mishap (`FileStored`). That folders stay trees is a fact about reachability: `Ancestors` is a recursive
function, of which the prover cannot compute; what it can use is that it is the least set that holds the folder and is closed under parents
(`LeastAncestors`), shown by a well-founded induction over sets of numbers. A move that is not into its own subtree
keeps every chain finite.

### The site (`SiteProofs`)

One invariant per component, each about its rows and about what handlers have read of them,
outside `raced`: whoever is about to change an owner is another active owner of the same organization (`OwnerActs`), which with the
count gives the two halves of `ActiveOwnerRemains` (`OrganizationKeepsOwner`, `OwnerRemains`); a task still has the status that was
read, a plan may still be completed, a record and an expense are as they were. `XLeaves` is what every step of a
component leaves of the rows it is not about, `XOthers` that this is all another handler relies on; `XStays` and
`XElsewhere` show that the steps of other components keep it.

Some need more than that. `EveryRetryHasAWinner` needs that the highest code never falls (`HighestRises`). Of the search for cycles
the invariant is that what was visited and what is queued contains all that comes after what was visited; when nothing new is
queued, the visited tasks are a set that no dependency leaves, with the successor and without the predecessor, and a new edge
into such a set closes no cycle. `DependenciesAcyclic` says "no cycle" as: among any tasks is one that none of the others has to wait
for; over a finite set this is the same, and it can be used without paths.

### What the proofs changed

An invariant that cannot be proved says something about the model. `TaskLifecycle` claimed that nobody verifies a task of their own as
long as no request about the task overlapped. The proof failed at an offboarding, which is about people and
not about tasks: one who verifies a task at the moment at which it is handed over to them has verified their own. TLC shows this once
the workload has it (the fifth of `MCWorkloads`), and the property now excludes that race and says so. Requests
that change a password begin for sessions that are there, as the guard in front of them makes sure (`Sessions`). A request
for a daily report that creates one brings its project, its rows and its status, and a review its decision, as the DTOs require
(`RequestsAssumption` of `DailyReports`); rows are finitely many. Recursion
was rewritten where it stood in the way (`Ancestors`), and sums as a fold of a function the lemmas of `Sums` speak of, without a change of meaning.

### What is only model-checked

Liveness (`EveryCallIsAnswered`, `QueueDrains`) needs fairness and ENABLED, which are beyond the prover. Every other property of a
passing run is a theorem, as are the types of the daily reports (`ReportsTypeCorrect`), which no run needs to check. The
violations of section 4 are counterexamples and need no proof. The prover has no functions of two arguments, so definitions it
reads (such as the acyclicity of dependencies) are written without those of the module `Graphs`.

## 6. Mutants

Each property of a passing run has a faulty variant of a definition next to the
original (a dropped check, an unlocked read, an item past the end, an unsorted walk ...)
under which TLC finds that property violated.

## 7. Plan

1. Done: stock, reports, sessions and the web client's; accounts, tasks, plans, attendance, expenses; the phone's queue; folders and
   documents. Proved: all safety and action properties of the runs, and the refinements of `AtomicStock` and `AtomicReports`.
2. Proofs: that the use of `Elsewhere` composes with `Stock`; what liveness rests on that is safety: whoever waits in `Stock` waits for a transaction that can step or is on a cycle that the detector breaks.
3. Models: the folders of project templates, which would compose with `Folders`, once a database can hold a
   typed project (section 8).

## 8. Not modelled

Record keeping by single statements (teams, issues, quality, change orders, costs, suppliers,
materials, warehouses, employees, stages, solar), read-only aggregation (control tower, activity,
notifications), object storage and OCR I/O, demo data and
the one-off ETL, and the screens of the user interfaces, which are most of the repository's lines and keep no state of their
own beyond what is on the screen. `PROJECT.json` gives the reason for each.
Within the modelled services, the read-only listings and formatting of answers are left out,
ids are model values, and quantities are integers although the schema has decimals with three
places: the properties only add and compare them. Organizations are modelled where requests of two of them meet: in
`Accounts`, whose owner counts and whose changes and removals of members are not scoped. Elsewhere the tables are those of one
organization.

Project types, requirements and template folders are left out because no reachable state has any. The trigger functions of
`backend/prisma/migrations/20261104120000_add_document_folders/migration.sql` declare variables with the names of
columns they select (`catalog_version_id` in `guard_published_project_requirement_catalog_child`, line 517 and 534; `definition_id`
in `guard_project_template_folder_creation`, line 1155), which PL/pgSQL refuses as ambiguous unless told
otherwise. So no row of `project_requirement_applicability` can be written, the templates are "intentionally not seeded"
(line 5), and the resolver finds no requirements for any type (`project-folder-template-resolver.service.ts:57-68`). A
model of what follows would start from states the database cannot be in.
