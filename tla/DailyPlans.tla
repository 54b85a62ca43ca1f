----------------------------- MODULE DailyPlans -----------------------------
(***************************************************************************)
(* DailyPlansService: a plan of a team for a day is drafted, published,      *)
(* worked through and completed, or cancelled.                              *)
(***************************************************************************)
EXTENDS Tasks

CONSTANTS
    Plans,          \* ids of rows of daily_plans
    Teams, Days,
    TeamOf          \* the team of each user, or Null

VARIABLES plans     \* rows of daily_plans with their daily_plan_tasks

PlanStatuses == {"DRAFT", "PUBLISHED", "COMPLETED", "CANCELLED"}
Planned(p)   == plans[p] # Null
Whole(p)     == DOMAIN plans[p].done # {} /\ \A t \in DOMAIN plans[p].done : plans[p].done[t]

PlanRows == [status: PlanStatuses, team: Teams \cup {Null}, day: Days,
             done: UNION {[tasks -> BOOLEAN] : tasks \in SUBSET Tasks}]

ASSUME DailyPlansAssumption == TeamOf \in [Users -> Teams \cup {Null}] /\ Null \notin PlanRows

PlanRequest(q) ==
    \/ q.kind = "createPlan" /\ q.team \in Teams \cup {Null} /\ q.day \in Days /\ q.tasks \subseteq Tasks
    \/ q.kind \in {"publish", "complete", "cancel"} /\ q.plan \in Plans /\ q.plan \in q.on
    \/ /\ q.kind = "progress" /\ q.plan \in Plans /\ q.plan \in q.on
       /\ q.completed \in BOOLEAN \cup {Null} /\ q.quantity \in BOOLEAN

SetPlanStatus(p, status) == plans' = [plans EXCEPT ![p].status = status]

----------------------------------------------------------------------------
\* One insert.  The unique index on project, day and team does not see plans without a team.
CreatePlan(c) ==
    /\ At(c, "createPlan")
    /\ LET q == Req(c)
           taken == q.team # Null /\ \E p \in Plans : Planned(p) /\ plans[p].team = q.team /\ plans[p].day = q.day
       IN  \/ (q.tasks = {} \/ taken) /\ UNCHANGED plans
           \/ /\ q.tasks # {} /\ ~taken
              /\ \E p \in Plans :
                    /\ ~Planned(p)
                    /\ plans' = [plans EXCEPT ![p] = [status |-> "DRAFT", team |-> q.team, day |-> q.day,
                                                      done |-> [t \in q.tasks |-> FALSE]]]
    /\ Answer(c)
    /\ UNCHANGED <<accountVars, taskVars>>

PublishPlan(c) ==
    /\ At(c, "publish")
    /\ LET p == Req(c).plan
       IN  IF Planned(p) /\ plans[p].status = "DRAFT" THEN Goto(c, "writePublished", Null) ELSE Answer(c)
    /\ UNCHANGED <<accountVars, taskVars, plans>>

\* UPDATE by id, also of a plan that has been cancelled since.
WritePublished(c) ==
    /\ At(c, "writePublished")
    /\ SetPlanStatus(Req(c).plan, "PUBLISHED")
    /\ Answer(c)
    /\ UNCHANGED <<accountVars, taskVars>>

\* Faulty variant: the tasks are looked at when the plan is published only.
MayCompleteAnyway(p) == Planned(p) /\ plans[p].status = "PUBLISHED"

MayComplete(p) == Planned(p) /\ plans[p].status = "PUBLISHED" /\ Whole(p)

CompletePlan(c) ==
    /\ At(c, "complete")
    /\ IF MayComplete(Req(c).plan) THEN Goto(c, "recheck", Null) ELSE Answer(c)
    /\ UNCHANGED <<accountVars, taskVars, plans>>

\* The same checks in the transaction, which locks nothing.
RecheckPlan(c) ==
    /\ At(c, "recheck")
    /\ IF MayComplete(Req(c).plan) THEN Goto(c, "writeCompleted", Null) ELSE Answer(c)
    /\ UNCHANGED <<accountVars, taskVars, plans>>

WriteCompleted(c) ==
    /\ At(c, "writeCompleted")
    /\ SetPlanStatus(Req(c).plan, "COMPLETED")
    /\ Answer(c)
    /\ UNCHANGED <<accountVars, taskVars>>

\* Faulty variant: a completed plan can be cancelled.
CancelAnyPlan(c) ==
    /\ At(c, "cancel")
    /\ IF Planned(Req(c).plan) THEN Goto(c, "writeCancelled", Null) ELSE Answer(c)
    /\ UNCHANGED <<accountVars, taskVars, plans>>

CancelPlan(c) ==
    /\ At(c, "cancel")
    /\ LET p == Req(c).plan
       IN  IF Planned(p) /\ plans[p].status # "COMPLETED" THEN Goto(c, "writeCancelled", Null) ELSE Answer(c)
    /\ UNCHANGED <<accountVars, taskVars, plans>>

WriteCancelled(c) ==
    /\ At(c, "writeCancelled")
    /\ SetPlanStatus(Req(c).plan, "CANCELLED")
    /\ Answer(c)
    /\ UNCHANGED <<accountVars, taskVars>>

\* Somebody who works on the task, or in the team of the plan.
Progress(c) ==
    /\ At(c, "progress")
    /\ LET p == Req(c).plan  t == Req(c).task  u == Actor(c)
           mine == <<t, u>> \in assigned \/ (plans[p].team # Null /\ TeamOf[u] = plans[p].team)
       IN  IF Planned(p) /\ t \in DOMAIN plans[p].done /\ plans[p].status = "PUBLISHED" /\ mine
           THEN Goto(c, "writeProgress", Null) ELSE Answer(c)
    /\ UNCHANGED <<accountVars, taskVars, plans>>

\* "completed" of the request, or else whether it has a quantity.
WriteProgress(c) ==
    /\ At(c, "writeProgress")
    /\ plans' = [plans EXCEPT ![Req(c).plan].done[Req(c).task] =
                   IF Req(c).completed # Null THEN Req(c).completed ELSE Req(c).quantity]
    /\ Answer(c)
    /\ UNCHANGED <<accountVars, taskVars>>

----------------------------------------------------------------------------
PlansInit == plans = [p \in Plans |-> Null]

PlansStep(c) ==
    \/ CreatePlan(c) \/ PublishPlan(c) \/ WritePublished(c)
    \/ CompletePlan(c) \/ RecheckPlan(c) \/ WriteCompleted(c)
    \/ CancelPlan(c) \/ WriteCancelled(c)
    \/ Progress(c) \/ WriteProgress(c)

PlansTypeOK == plans \in [Plans -> PlanRows \cup {Null}]

\* A plan is completed when all of its tasks are ("Cannot complete plan: ... remain
\* incomplete", daily-plans.service.ts:174-179), and what has been completed or cancelled
\* stays as it is ("A COMPLETED plan cannot be cancelled", "A CANCELLED plan cannot be
\* completed", 163, 232), unless requests about the plan overlapped.
ClosedPlanStays ==
    [][\A p \in Plans \ raced : Planned(p) =>
          /\ plans[p].status \in {"COMPLETED", "CANCELLED"} => plans'[p] = plans[p]
          /\ plans[p].status # "COMPLETED" /\ plans'[p].status = "COMPLETED"
             => \A t \in DOMAIN plans'[p].done : plans'[p].done[t]]_plans
=============================================================================
