----------------------------- MODULE SyncQueue -----------------------------
(***************************************************************************)
(* The mobile application in the field: operations recorded without a       *)
(* connection wait in a SQLite queue and are sent when it comes back; the   *)
(* connection, the answers of the backend and the application itself may    *)
(* fail at any moment.                                                      *)
(*                                                                         *)
(* The endpoints are atomic here.  Operations are numbered in the order of  *)
(* their creation, which is the order in which they are sent.               *)
(***************************************************************************)
EXTENDS Integers, FiniteSets

CONSTANTS
    Passes,         \* runs of syncAllOperations that can be under way at a time
    Scenarios,      \* the kinds of the operations 1..n of a behaviour
    MaxOps,         \* operations in a behaviour
    MaxFaults,      \* lost answers, passing errors of the backend, breaks during a pass
    MaxRestarts,    \* how often the application is killed
    Null

VARIABLES
    kind,           \* what each operation is
    status,         \* sync_queue.status, or "absent"
    pass,           \* the operations a pass still has to send, and where it is
    connected,      \* what NetInfo reports
    isOffline,      \* the state of AppShell
    wasOffline,     \* isOffline as the subscribed listener sees it, since the last render
    executed,       \* carried out by the backend: never, once, or more often (2)
    troubles, restarts, \* faults so far
    crossed         \* two passes have been under way at a time

vars == <<kind, status, pass, connected, isOffline, wasOffline, executed, troubles, restarts, crossed>>

Kinds    == {"expense", "receipt", "aviz", "report", "checkIn", "checkOut"}
Statuses == {"absent", "sent", "pending", "syncing", "synced", "failed"}

ASSUME SyncQueueAssumption ==
    /\ \A s \in Scenarios : \E n \in 1..MaxOps : s \in [1..n -> Kinds]
    /\ MaxOps \in Nat /\ MaxFaults \in Nat /\ MaxRestarts \in Nat

Ops == DOMAIN kind

Idle        == [todo |-> {}, op |-> Null, pc |-> "idle"]
Running     == {p \in Passes : pass[p].pc # "idle"}
First(S)    == CHOOSE n \in S : \A m \in S : n <= m
Pending     == {n \in Ops : status[n] \in {"pending", "failed"}}
Created(n)  == status[n] # "absent"
NextOp(n)   == ~Created(n) /\ \A m \in Ops : m < n => Created(m)
phone       == <<connected, isOffline, wasOffline>>
faults      == <<troubles, restarts, crossed>>

----------------------------------------------------------------------------
(* the endpoints *)

\* A worker who is checked in cannot check in again.
CheckedIn == \E n \in Ops : kind[n] = "checkIn" /\ executed[n] > 0

\* A check-out names the record by the id the phone gave it, and no project.
NoProject(n) == kind[n] = "checkOut"

\* Faulty variant: the key of a receipt need not be new.
RefusesNoReceipt(n) == NoProject(n) \/ (kind[n] = "checkIn" /\ CheckedIn)

\* A receipt sends its key in the body, and the column is unique: a repetition is in conflict.
Refuses(n) ==
    \/ NoProject(n)
    \/ kind[n] = "checkIn" /\ CheckedIn
    \/ kind[n] = "receipt" /\ executed[n] > 0

\* The key of a report is in the header and that of a delivery note in the body, where their
\* endpoints look for it: the one there is already is the answer.
Replays(n) == kind[n] \in {"report", "aviz"} /\ executed[n] > 0

\* The key of another expense is nowhere the endpoint looks.
Execute(n) ==
    executed' = IF Refuses(n) \/ Replays(n) THEN executed ELSE [executed EXCEPT ![n] = IF @ = 0 THEN 1 ELSE 2]

----------------------------------------------------------------------------
(* the screens *)

\* enqueueOperation, when the screen shows that there is no connection.
Enqueue(n) ==
    /\ NextOp(n) /\ kind[n] # "receipt" /\ wasOffline
    /\ status' = [status EXCEPT ![n] = "pending"]
    /\ UNCHANGED <<kind, pass, phone, executed, faults>>

\* Sent directly; or an error is shown.
Submit(n) ==
    /\ NextOp(n) /\ kind[n] # "receipt" /\ ~wasOffline
    /\ status' = [status EXCEPT ![n] = "sent"]
    /\ UNCHANGED executed \/ Execute(n)
    /\ UNCHANGED <<kind, pass, phone, faults>>

\* submitReceiptDraft: sent directly, and queued with the same key whenever that fails,
\* also when only the answer is lost.
SubmitReceipt(n) ==
    /\ NextOp(n) /\ kind[n] = "receipt"
    /\ \/ /\ connected
          /\ status' = [status EXCEPT ![n] = "sent"]
          /\ Execute(n)
          /\ UNCHANGED faults
       \/ /\ connected /\ troubles < MaxFaults
          /\ status' = [status EXCEPT ![n] = "pending"]
          /\ Execute(n)
          /\ troubles' = troubles + 1
          /\ UNCHANGED <<restarts, crossed>>
       \/ /\ ~connected
          /\ status' = [status EXCEPT ![n] = "pending"]
          /\ UNCHANGED <<executed, faults>>
    /\ UNCHANGED <<kind, pass, phone>>

----------------------------------------------------------------------------
(* AppShell *)

\* The connection comes back, or goes; while a pass is under way that is a fault.
Connect ==
    /\ connected' = ~connected
    /\ IF connected /\ Running # {} THEN troubles < MaxFaults /\ troubles' = troubles + 1
                                     ELSE UNCHANGED troubles
    /\ UNCHANGED <<kind, status, pass, isOffline, wasOffline, executed, restarts, crossed>>

\* The button in the header.
Toggle ==
    /\ isOffline' = ~isOffline
    /\ UNCHANGED <<kind, status, pass, connected, wasOffline, executed, faults>>

\* The effect runs again and subscribes a listener that sees the new state.
Render ==
    /\ isOffline # wasOffline
    /\ wasOffline' = isOffline
    /\ UNCHANGED <<kind, status, pass, connected, isOffline, executed, faults>>

\* An event of NetInfo that finds the connection back: syncAllOperations, which takes the
\* operations there are, whether or not another pass is under way.
StartPass(p) ==
    /\ wasOffline /\ connected
    /\ pass[p].pc = "idle"
    /\ isOffline' = FALSE
    /\ pass' = [pass EXCEPT ![p] = IF Pending = {} THEN Idle ELSE [todo |-> Pending, op |-> Null, pc |-> "next"]]
    /\ crossed' = (crossed \/ (Running # {} /\ Pending # {}))
    /\ UNCHANGED <<kind, status, connected, wasOffline, executed, troubles, restarts>>

\* Any other event.
Notice ==
    /\ isOffline = connected
    /\ ~(wasOffline /\ connected)
    /\ isOffline' = ~connected
    /\ UNCHANGED <<kind, status, pass, connected, wasOffline, executed, faults>>

----------------------------------------------------------------------------
(* syncAllOperations, syncOperation *)

\* UPDATE by id, whatever another pass has made of the operation.
Take(p) ==
    /\ pass[p].pc = "next" /\ pass[p].todo # {}
    /\ LET n == First(pass[p].todo)
       IN  /\ status' = [status EXCEPT ![n] = "syncing"]
           /\ pass' = [pass EXCEPT ![p] = [todo |-> @.todo \ {n}, op |-> n, pc |-> "send"]]
    /\ UNCHANGED <<kind, phone, executed, faults>>

Answered(p, ok) == pass' = [pass EXCEPT ![p].pc = IF ok THEN "ok" ELSE "error"]

\* The request is carried out or refused, and answered.
Serve(p, n) ==
    /\ pass[p].pc = "send" /\ pass[p].op = n /\ connected
    /\ Execute(n)
    /\ Answered(p, ~Refuses(n))
    /\ UNCHANGED <<kind, status, phone, faults>>

\* It is carried out and the answer lost, or not carried out and answered with an error.
LoseAnswer(p) ==
    /\ pass[p].pc = "send" /\ connected /\ troubles < MaxFaults
    /\ UNCHANGED executed \/ Execute(pass[p].op)
    /\ Answered(p, FALSE)
    /\ troubles' = troubles + 1
    /\ UNCHANGED <<kind, status, phone, restarts, crossed>>

\* There is no connection: the request fails.
Unreachable(p) ==
    /\ pass[p].pc = "send" /\ ~connected
    /\ Answered(p, FALSE)
    /\ UNCHANGED <<kind, status, phone, executed, faults>>

Finish(p, result) ==
    /\ pass[p].pc \in {"ok", "error"}
    /\ status' = [status EXCEPT ![pass[p].op] = result]
    /\ pass' = [pass EXCEPT ![p] = IF @.todo = {} THEN Idle ELSE [@ EXCEPT !.op = Null, !.pc = "next"]]
    /\ UNCHANGED <<kind, phone, executed, faults>>

\* Faulty variants: an operation that failed is left as it is; or is marked as in conflict.
MarkSyncedOnly(p) == Finish(p, IF pass[p].pc = "ok" THEN "synced" ELSE "syncing")
MarkConflict(p)   == Finish(p, IF pass[p].pc = "ok" THEN "synced" ELSE "conflict")

\* The result, and the next operation.
Mark(p) == Finish(p, IF pass[p].pc = "ok" THEN "synced" ELSE "failed")

\* The application is killed and started again: the queue is as it was.
Restart ==
    /\ restarts < MaxRestarts
    /\ restarts' = restarts + 1
    /\ pass' = [p \in Passes |-> Idle]
    /\ isOffline' = FALSE /\ wasOffline' = FALSE
    /\ UNCHANGED <<kind, status, connected, executed, troubles, crossed>>

----------------------------------------------------------------------------
Init ==
    /\ kind \in Scenarios
    /\ status   = [n \in Ops |-> "absent"]
    /\ pass     = [p \in Passes |-> Idle]
    /\ connected = FALSE /\ isOffline = FALSE /\ wasOffline = FALSE
    /\ executed = [n \in Ops |-> 0]
    /\ troubles = 0 /\ restarts = 0 /\ crossed = FALSE

Next ==
    \/ \E n \in Ops : Enqueue(n) \/ Submit(n) \/ SubmitReceipt(n)
    \/ Connect \/ Toggle \/ Render \/ Notice \/ Restart
    \/ \E p \in Passes :
          \/ StartPass(p) \/ Take(p) \/ Mark(p) \/ LoseAnswer(p) \/ Unreachable(p)
          \/ \E n \in Ops : Serve(p, n)

Spec == Init /\ [][Next]_vars

\* The application goes on.  Every event of the connection is noticed sooner or later, and
\* it comes back again and again while the application shows that it is away.
FairSpec ==
    /\ Spec
    /\ SF_vars(Render) /\ SF_vars(Notice)
    /\ SF_vars(Connect /\ connected) /\ SF_vars(Connect /\ ~connected /\ wasOffline)
    /\ \A p \in Passes :
          /\ SF_vars(StartPass(p)) /\ WF_vars(Take(p)) /\ WF_vars(Mark(p))
          /\ WF_vars(\E n \in Ops : Serve(p, n)) /\ WF_vars(Unreachable(p))

----------------------------------------------------------------------------
\* Every variable has its type.
TypeOK ==
    /\ kind \in Scenarios /\ status \in [Ops -> Statuses]
    /\ \A p \in Passes :
          /\ pass[p].todo \subseteq Ops /\ pass[p].op \in Ops \cup {Null}
          /\ pass[p].pc \in {"idle", "next", "send", "ok", "error"}
    /\ {connected, isOffline, wasOffline, crossed} \subseteq BOOLEAN
    /\ executed \in [Ops -> 0..2] /\ troubles \in 0..MaxFaults /\ restarts \in 0..MaxRestarts

\* "Never acknowledge an issue as synced until the backend write exists"
\* (syncQueue.ts:177), of every operation: what is marked as synced has been carried out.
\* It has been more than once only when an answer was lost, the connection broke
\* during a pass, or two passes crossed: not because it waits through any number of
\* disconnections and restarts behind operations that fail.  One with a key the
\* backend looks for ("a retry can never double-submit", expenseDocuments.ts:172) not even
\* then.
SyncedMeansCarriedOut ==
    \A n \in Ops :
        /\ status[n] = "synced" => executed[n] > 0
        /\ executed[n] > 1 => kind[n] = "expense" /\ (troubles > 0 \/ crossed)

Orphaned(n) == status[n] = "syncing" /\ restarts > 0 /\ \A p \in Passes : pass[p].op # n
Settled(n)  == status[n] = "synced" \/ Orphaned(n) \/ (status[n] = "failed" /\ Refuses(n))

\* An operation in the queue is synced in the end, unless the application was killed while
\* it was being sent, which leaves it "syncing" for ever, or the backend refuses it for good:
\* an operation that fails, or is refused again and again, does not keep the ones behind it
\* from being sent (syncQueue.ts:188-205).  A report or a delivery note whose answer was lost
\* is not refused, and is synced.
QueueDrains == \A n \in 1..MaxOps : (n \in Ops /\ status[n] = "pending") ~> (n \in Ops /\ Settled(n))

\* "Syncs data with NestJS backend when connectivity is restored" (syncQueue.ts:5): every
\* operation that was queued is synced in the end.
EveryOperationSynced ==
    \A n \in 1..MaxOps : (n \in Ops /\ status[n] = "pending") ~> (n \in Ops /\ status[n] = "synced")
=============================================================================
