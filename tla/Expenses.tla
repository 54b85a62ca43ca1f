------------------------------ MODULE Expenses ------------------------------
(***************************************************************************)
(* ExpensesService: an expense is submitted, then approved or rejected by    *)
(* somebody else.                                                           *)
(***************************************************************************)
EXTENDS Handlers, Sequences

CONSTANTS
    Staff,
    Keys,           \* idempotency keys
    Bills,          \* ids of rows of expenses
    MaxApprovals    \* rows of expense_approvals in a behaviour

VARIABLES
    expenses,       \* rows of expenses
    approvals,      \* rows of expense_approvals, in the order of their creation
    holder          \* the handler whose transaction holds an expense's row

expenseVars == <<expenses, approvals, holder>>

ExpenseStatuses == {"SUBMITTED", "APPROVED", "REJECTED", "REIMBURSED"}
ExpenseRows == [by: Staff, key: Keys \cup {Null}, status: ExpenseStatuses]

ASSUME ExpensesAssumption == Null \notin Keys \cup ExpenseRows /\ MaxApprovals \in Nat

ExpenseRequest(q) ==
    \/ q.kind = "submit" /\ q.user \in Staff /\ q.key \in Keys \cup {Null}
    \/ /\ q.kind = "review" /\ q.bill \in Bills /\ q.user \in Staff /\ q.status \in {"APPROVED", "REJECTED"}
       /\ q.bill \in q.on

Submitted(b) == expenses[b] # Null
KeyTaken(k)  == k # Null /\ \E b \in Bills : Submitted(b) /\ expenses[b].key = k
LaterOn(b, i) == {j \in DOMAIN approvals : j > i /\ approvals[j].bill = b}

\* One insert; the unique index on the key refuses a second one.
SubmitExpense(c) ==
    /\ At(c, "submit")
    /\ \/ KeyTaken(Req(c).key) /\ UNCHANGED expenses
       \/ /\ ~KeyTaken(Req(c).key)
          /\ \E b \in Bills :
                /\ ~Submitted(b)
                /\ expenses' = [expenses EXCEPT ![b] = [by |-> Req(c).user, key |-> Req(c).key, status |-> "SUBMITTED"]]
    /\ Answer(c)
    /\ UNCHANGED <<approvals, holder>>

\* Faulty variant: any expense that was decided can be decided again.
ReviewExpenseAgain(c) ==
    /\ At(c, "review")
    /\ LET b == Req(c).bill
       IN  IF Submitted(b) /\ expenses[b].by # Req(c).user THEN Goto(c, "decide", Null) ELSE Answer(c)
    /\ UNCHANGED expenseVars

\* Read before the transaction: nobody decides on an expense of their own, and what was
\* approved stays so.
ReviewExpense(c) ==
    /\ At(c, "review")
    /\ LET b == Req(c).bill
           open == /\ Submitted(b) /\ expenses[b].by # Req(c).user
                   /\ expenses[b].status \notin {"APPROVED", "REIMBURSED"}
       IN  IF open THEN Goto(c, "decide", Null) ELSE Answer(c)
    /\ UNCHANGED expenseVars

\* Faulty variant: the two statements are not one transaction.
DecideUnlocked(c) ==
    /\ At(c, "decide") /\ Len(approvals) < MaxApprovals
    /\ expenses' = [expenses EXCEPT ![Req(c).bill].status = Req(c).status]
    /\ Goto(c, "approve", Null)
    /\ UNCHANGED <<approvals, holder>>

\* UPDATE by id, which holds the row, whatever its status is now.
Decide(c) ==
    /\ At(c, "decide")
    /\ holder[Req(c).bill] = Null
    /\ holder' = [holder EXCEPT ![Req(c).bill] = c]
    /\ Goto(c, "approve", Null)
    /\ UNCHANGED <<expenses, approvals>>

\* The approval; COMMIT.
Approve(c) ==
    /\ At(c, "approve") /\ Len(approvals) < MaxApprovals
    /\ expenses' = [expenses EXCEPT ![Req(c).bill].status = Req(c).status]
    /\ approvals' = Append(approvals, [bill |-> Req(c).bill, by |-> Req(c).user, status |-> Req(c).status])
    /\ holder' = [holder EXCEPT ![Req(c).bill] = Null]
    /\ Answer(c)

\* The handler fails: its transaction is rolled back.
DropExpense(c) ==
    /\ Drop(c)
    /\ holder' = [b \in Bills |-> IF holder[b] = c THEN Null ELSE holder[b]]
    /\ UNCHANGED <<expenses, approvals>>

ExpensesInit ==
    /\ expenses  = [b \in Bills |-> Null]
    /\ approvals = <<>>
    /\ holder    = [b \in Bills |-> Null]

ExpensesStep(c) == SubmitExpense(c) \/ ReviewExpense(c) \/ Decide(c) \/ Approve(c)

ExpensesTypeOK ==
    /\ expenses \in [Bills -> ExpenseRows \cup {Null}]
    /\ approvals \in Seq([bill: Bills, by: Staff, status: ExpenseStatuses])
    /\ holder \in [Bills -> Calls \cup {Null}]

\* The status of an expense is the last decision on it: of two reviews at the same time
\* the one that waited for the row writes both its status and its approval last
\* (expenses.service.ts:158-172).  "Cannot update expense in state APPROVED" (151-153): an
\* approved expense stays so, and nobody decides on their own, unless reviews overlapped.
DecisionsStand ==
    \A i \in DOMAIN approvals : LET a == approvals[i]  b == a.bill IN
        /\ LaterOn(b, i) = {} => expenses[b].status = a.status
        /\ b \notin raced => /\ a.status = "APPROVED" => LaterOn(b, i) = {}
                             /\ a.by # expenses[b].by
=============================================================================
