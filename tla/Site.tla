-------------------------------- MODULE Site --------------------------------
(***************************************************************************)
(* The construction site: accounts, members, tasks, dependencies and daily  *)
(* plans, attendance and expenses, served by concurrent handlers.           *)
(***************************************************************************)
EXTENDS DailyPlans, Attendance, Expenses

ASSUME RequestsAssumption ==
    \A w \in Workloads : \A q \in w :
        AccountRequest(q) \/ TaskRequest(q) \/ PlanRequest(q) \/ AttendanceRequest(q) \/ ExpenseRequest(q)

workVars == <<accountVars, taskVars, plans>>
vars     == <<handlers, workVars, attendanceVars, expenseVars>>

Work(c) ==
    \/ AccountsStep(c) /\ UNCHANGED <<taskVars, plans>>
    \/ TasksStep(c) /\ UNCHANGED plans
    \/ PlansStep(c)

Next ==
    \/ \E c \in Calls :
          \/ Arrive(c) /\ UNCHANGED <<workVars, attendanceVars, expenseVars>>
          \/ Work(c) /\ UNCHANGED <<attendanceVars, expenseVars>>
          \/ AttendanceStep(c) /\ UNCHANGED <<workVars, expenseVars>>
          \/ ExpensesStep(c) /\ UNCHANGED <<workVars, attendanceVars>>
          \/ DropExpense(c) /\ UNCHANGED <<workVars, attendanceVars>>
    \/ Tick /\ UNCHANGED <<workVars, expenseVars>>

Init ==
    /\ HandlersInit /\ AccountsInit /\ TasksInit /\ PlansInit /\ AttendanceInit /\ ExpensesInit

Spec == Init /\ [][Next]_vars

\* Every variable has its type.
TypeOK ==
    /\ HandlersTypeOK /\ AccountsTypeOK /\ TasksTypeOK /\ PlansTypeOK
    /\ AttendanceTypeOK /\ ExpensesTypeOK
=============================================================================
