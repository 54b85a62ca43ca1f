------------------------------- MODULE Tasks -------------------------------
(***************************************************************************)
(* TasksService and TaskDependenciesService: tasks of one project, known by *)
(* the number in their code, their lifecycle, who works on them and which   *)
(* must be finished before which.                                           *)
(***************************************************************************)
EXTENDS Accounts

CONSTANTS
    FirstTasks,     \* the tasks there are at the start
    Attempts        \* 5: how often a code is generated before a creation gives up

VARIABLES
    task,           \* rows of tasks: status, blocked_reason set, verified_by, actual_end set
    deps            \* rows of task_dependencies: <<predecessor, successor>>

taskVars == <<task, deps>>

NewTask == [status |-> "PLANNED", reason |-> FALSE, verifier |-> Null, ended |-> FALSE]
Created == {t \in Tasks : task[t] # Null}
About(t) == <<"task", t>>
Highest == CHOOSE n \in Created \cup {0} : \A t \in Created : t <= n

TaskStatuses == {"PLANNED", "READY", "IN_PROGRESS", "COMPLETED", "VERIFIED", "BLOCKED", "CANCELLED"}

TaskRows == [status: TaskStatuses, reason: BOOLEAN, verifier: Users \cup {Null}, ended: BOOLEAN]

ASSUME TasksAssumption ==
    /\ Tasks \subseteq Nat \ {0} /\ FirstTasks \subseteq Tasks
    /\ Attempts \in Nat \ {0}
    /\ IsFiniteSet(Tasks) /\ Null \notin TaskRows

\* A change of status is about the task and about the one who makes it.
TaskRequest(q) ==
    \/ q.kind = "createTask"
    \/ /\ q.kind = "updateTask" /\ q.task \in Tasks /\ q.by \in Users /\ q.status \in TaskStatuses \cup {Null}
       /\ {About(q.task), q.by} \subseteq q.on
    \/ q.kind \in {"blockTask", "unblockTask"} /\ q.task \in Tasks /\ About(q.task) \in q.on
    \/ q.kind = "assign" /\ q.task \in Tasks /\ q.user \in Users /\ {About(q.task), q.user} \subseteq q.on
    \/ q.kind = "addDependency" /\ {q.before, q.after} \subseteq Tasks /\ <<"dependencies">> \in q.on

\* TASK_STATUS_TRANSITIONS
Transitions ==
    ({"PLANNED"} \X {"READY", "IN_PROGRESS", "BLOCKED", "CANCELLED"})
    \cup ({"READY"} \X {"IN_PROGRESS", "BLOCKED", "CANCELLED"})
    \cup ({"IN_PROGRESS"} \X {"COMPLETED", "BLOCKED", "CANCELLED"})
    \cup ({"BLOCKED"} \X {"READY", "IN_PROGRESS", "CANCELLED"})
    \cup {<<"COMPLETED", "VERIFIED">>, <<"VERIFIED", "IN_PROGRESS">>, <<"CANCELLED", "PLANNED">>}

Reopeners(status) == IF status = "VERIFIED" THEN {"ADMIN", "OWNER", "PM"}
                     ELSE IF status = "CANCELLED" THEN Administrators ELSE Roles
Assigners         == Roles \ {"QA_QC", "WORKER"}
MayVerify         == {"PM", "SITE_MANAGER", "QA_QC"}

----------------------------------------------------------------------------
(* create *)

\* The codes of the project, read once more for every attempt.
CreateTask(c) ==
    /\ At(c, "createTask")
    /\ IF Seen(c) = Null
       THEN Goto(c, "insertTask", [code |-> Highest + 1, attempt |-> 1, highest |-> Highest])
       ELSE Goto(c, "insertTask", [Seen(c) EXCEPT !.code = Highest + 1, !.attempt = @ + 1])
    /\ UNCHANGED <<accountVars, taskVars>>

\* Faulty variant: the same code is tried again.
InsertTaskStubborn(c) ==
    /\ At(c, "insertTask")
    /\ \/ /\ Seen(c).code \in Tasks \ Created
          /\ task' = [task EXCEPT ![Seen(c).code] = NewTask]
          /\ Answer(c)
       \/ /\ Seen(c).code \in Created
          /\ IF Seen(c).attempt = Attempts THEN Answer(c)
             ELSE Goto(c, "insertTask", [Seen(c) EXCEPT !.attempt = @ + 1])
          /\ UNCHANGED task
    /\ UNCHANGED <<accountVars, deps>>

\* The unique index on (project, code) refuses a code that is taken by now.
InsertTask(c) ==
    /\ At(c, "insertTask")
    /\ \/ /\ Seen(c).code \in Tasks \ Created
          /\ task' = [task EXCEPT ![Seen(c).code] = NewTask]
          /\ Answer(c)
       \/ /\ Seen(c).code \in Created
          /\ IF Seen(c).attempt = Attempts THEN Answer(c) ELSE Goto(c, "createTask", Seen(c))
          /\ UNCHANGED task
    /\ UNCHANGED <<accountVars, deps>>

----------------------------------------------------------------------------
(* update *)

\* Faulty variant: an assignee may verify.
PermittedToVerifyOwn(c, row) ==
    LET u == Actor(c)  to == Req(c).status
    IN  /\ <<row.status, to>> \in Transitions
        /\ users[u].role \in Reopeners(row.status)
        /\ to = "VERIFIED" => users[u].role \in Administrators \/ members[u] \in MayVerify

\* What the transition needs of the actor, by the task as it was read.
Permitted(c, row) ==
    LET u == Actor(c)  to == Req(c).status
    IN  /\ <<row.status, to>> \in Transitions
        /\ users[u].role \in Reopeners(row.status)
        /\ to = "VERIFIED" => /\ <<Req(c).task, u>> \notin assigned
                              /\ users[u].role \in Administrators \/ members[u] \in MayVerify

UpdateTask(c) ==
    /\ At(c, "updateTask")
    /\ LET t == Req(c).task
           change == Req(c).status \notin {Null, task[t].status}
       IN  IF t \in Created /\ Active(Actor(c)) /\ (change => Permitted(c, task[t]))
           THEN Goto(c, "writeTask", [from |-> task[t].status, change |-> change]) ELSE Answer(c)
    /\ UNCHANGED <<accountVars, taskVars>>

\* The row after a change of status that was decided on its status "from".
Changed(row, from, to, by) ==
    [row EXCEPT
        !.status   = to,
        !.ended    = IF to = "COMPLETED" THEN TRUE
                     ELSE IF from \in {"COMPLETED", "VERIFIED"} /\ to = "IN_PROGRESS" THEN FALSE ELSE @,
        !.verifier = IF to = "VERIFIED" THEN by ELSE IF from = "VERIFIED" THEN Null ELSE @]

\* Faulty variant: an edit of a verified task takes the verification back.
WriteTaskUnverified(c) ==
    /\ At(c, "writeTask")
    /\ task' = [task EXCEPT ![Req(c).task] =
                  IF Seen(c).change THEN Changed(@, Seen(c).from, Req(c).status, Actor(c))
                  ELSE [@ EXCEPT !.verifier = IF Seen(c).from = "VERIFIED" THEN Null ELSE @]]
    /\ Answer(c)
    /\ UNCHANGED <<accountVars, deps>>

\* UPDATE by id, whatever the status is now.
WriteTask(c) ==
    /\ At(c, "writeTask")
    /\ task' = [task EXCEPT ![Req(c).task] =
                  IF Seen(c).change THEN Changed(@, Seen(c).from, Req(c).status, Actor(c)) ELSE @]
    /\ Answer(c)
    /\ UNCHANGED <<accountVars, deps>>

----------------------------------------------------------------------------
(* blockTask, unblockTask, assignUser *)

BlockTask(c) ==
    /\ At(c, "blockTask")
    /\ LET t == Req(c).task
       IN  IF t \in Created /\ Active(Actor(c)) /\ task[t].status \notin {"COMPLETED", "VERIFIED", "CANCELLED"}
           THEN Goto(c, "writeBlock", Null) ELSE Answer(c)
    /\ UNCHANGED <<accountVars, taskVars>>

WriteBlock(c) ==
    /\ At(c, "writeBlock")
    /\ task' = [task EXCEPT ![Req(c).task].status = "BLOCKED", ![Req(c).task].reason = TRUE]
    /\ Answer(c)
    /\ UNCHANGED <<accountVars, deps>>

\* Faulty variant: the reason stays.
WriteUnblockKeepingReason(c) ==
    /\ At(c, "writeUnblock")
    /\ task' = [task EXCEPT ![Req(c).task].status = "IN_PROGRESS"]
    /\ Answer(c)
    /\ UNCHANGED <<accountVars, deps>>

\* A task whose reason is still set counts as blocked, whatever its status.
UnblockTask(c) ==
    /\ At(c, "unblockTask")
    /\ LET t == Req(c).task
       IN  IF t \in Created /\ Active(Actor(c)) /\ (task[t].status = "BLOCKED" \/ task[t].reason)
           THEN Goto(c, "writeUnblock", Null) ELSE Answer(c)
    /\ UNCHANGED <<accountVars, taskVars>>

WriteUnblock(c) ==
    /\ At(c, "writeUnblock")
    /\ task' = [task EXCEPT ![Req(c).task].status = "IN_PROGRESS", ![Req(c).task].reason = FALSE]
    /\ Answer(c)
    /\ UNCHANGED <<accountVars, deps>>

\* The task, the user and the membership are read one after the other.
AssignUser(c) ==
    /\ At(c, "assign")
    /\ IF Req(c).task \in Created /\ Authorized(c, Assigners) /\ Req(c).user \in Members
       THEN Goto(c, "insertAssignment", Null) ELSE Answer(c)
    /\ UNCHANGED <<accountVars, taskVars>>

\* An assignment there is already is refused by the unique index.
InsertAssignment(c) ==
    /\ At(c, "insertAssignment")
    /\ assigned' = assigned \cup {<<Req(c).task, Req(c).user>>}
    /\ Answer(c)
    /\ UNCHANGED <<users, members, taskVars>>

----------------------------------------------------------------------------
(* dependencies *)

\* The breadth-first search starts at the successor.
AddDependency(c) ==
    /\ At(c, "addDependency")
    /\ LET q == Req(c)
       IN  IF q.before # q.after /\ {q.before, q.after} \subseteq Created
           THEN Goto(c, "search", [queue |-> {q.after}, visited |-> {}]) ELSE Answer(c)
    /\ UNCHANGED <<accountVars, taskVars>>

SuccessorsOf(t) == {x \in Tasks : <<t, x>> \in deps}

\* Faulty variant: the search stops at the direct successors.
SearchShallow(c) ==
    /\ At(c, "search")
    /\ \/ Req(c).before \in Seen(c).queue /\ Answer(c)
       \/ /\ Req(c).before \notin Seen(c).queue
          /\ IF \E x \in Seen(c).queue : Req(c).before \in SuccessorsOf(x)
             THEN Answer(c) ELSE Goto(c, "insertDependency", Null)
    /\ UNCHANGED <<accountVars, taskVars>>

\* One query for each task that is reached: a cycle, no cycle, or another one to visit.
Search(c) ==
    /\ At(c, "search")
    /\ LET new == Seen(c).queue \ Seen(c).visited
       IN  \/ Req(c).before \in Seen(c).queue /\ Answer(c)
           \/ Req(c).before \notin Seen(c).queue /\ new = {} /\ Goto(c, "insertDependency", Null)
           \/ /\ Req(c).before \notin Seen(c).queue
              /\ \E t \in new :
                    Goto(c, "search", [queue   |-> (Seen(c).queue \ {t}) \cup SuccessorsOf(t),
                                       visited |-> Seen(c).visited \cup {t}])
    /\ UNCHANGED <<accountVars, taskVars>>

\* A dependency there is already is refused by the unique index.
InsertDependency(c) ==
    /\ At(c, "insertDependency")
    /\ deps' = deps \cup {<<Req(c).before, Req(c).after>>}
    /\ Answer(c)
    /\ UNCHANGED <<accountVars, task>>

----------------------------------------------------------------------------
TasksInit ==
    /\ task = [t \in Tasks |-> IF t \in FirstTasks THEN NewTask ELSE Null]
    /\ deps = {}

TasksStep(c) ==
    \/ CreateTask(c) \/ InsertTask(c)
    \/ UpdateTask(c) \/ WriteTask(c)
    \/ BlockTask(c) \/ WriteBlock(c)
    \/ UnblockTask(c) \/ WriteUnblock(c)
    \/ AssignUser(c) \/ InsertAssignment(c)
    \/ AddDependency(c) \/ Search(c) \/ InsertDependency(c)

TasksTypeOK ==
    /\ task \in [Tasks -> TaskRows \cup {Null}]
    /\ deps \subseteq Tasks \X Tasks

\* "Task.status is the single source of truth; illegal jumps are rejected"
\* (tasks.service.ts:309): the status moves along the table, or a blocker is taken off; a
\* finished task has its end and a verified one its verifier (373-393), and "an
\* assignee can NEVER verify their own task, regardless of role" (339).  Requests about the
\* task that overlap may break each of these, but for the verifier being named; and one
\* who is given the task of somebody who leaves, while verifying it, has verified their own.
TaskLifecycle ==
    [][\A t \in Created :
          LET old == task[t]  new == task'[t]
          IN  /\ new.status = "VERIFIED" => new.verifier # Null
              /\ new # old /\ About(t) \notin raced =>
                    /\ \/ new.status = old.status
                       \/ <<old.status, new.status>> \in Transitions
                       \/ old.reason /\ ~new.reason /\ new.status = "IN_PROGRESS"
                    /\ new.status \in {"COMPLETED", "VERIFIED"} => new.ended
                    /\ new.status = "VERIFIED" /\ old.status # "VERIFIED" /\ new.verifier \notin raced
                       => <<t, new.verifier>> \notin assigned]_task

\* "K-7 reopen, ADMIN/OWNER/PM only" (tasks.service.ts:48): nobody else makes a verified
\* task go on.
OnlyReopenersReopen ==
    [][\A t \in Created, c \in Calls :
          /\ task[t].status = "VERIFIED" /\ task'[t].status = "IN_PROGRESS" /\ About(t) \notin raced
          /\ call'[c] # call[c]
          => users[Actor(c)].role \in Reopeners("VERIFIED")]_task

\* Every attempt but the first to find a free code was lost to a task that another
\* request created meanwhile: a lone request is never answered with "Could not generate
\* a unique task code" (tasks.service.ts:259-292).
EveryRetryHasAWinner ==
    \A c \in Calls : At(c, "insertTask") \/ (At(c, "createTask") /\ Seen(c) # Null)
        => Highest - Seen(c).highest >= Seen(c).attempt - 1

\* "Circular task dependency detected" (task-dependencies.service.ts:38): there is no cycle,
\* unless the searches of two requests overlapped: among any tasks is one that none of the
\* others has to wait for.
DependenciesAcyclic ==
    <<"dependencies">> \notin raced =>
        \A S \in (SUBSET Tasks) \ {{}} : \E t \in S : \A x \in S : <<t, x>> \notin deps
=============================================================================
