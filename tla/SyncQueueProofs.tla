-------------------------- MODULE SyncQueueProofs --------------------------
(***************************************************************************)
(* Proofs about module SyncQueue, for any operations, any number of passes, *)
(* faults and restarts.                                                     *)
(***************************************************************************)
EXTENDS SyncQueue, WellFoundedInduction, NaturalsInduction, TLAPS

PassStates == [todo: SUBSET Ops, op: Ops \cup {Null}, pc: {"idle", "next", "send", "ok", "error"}]

\* A pass that sends an operation, or has its answer, is at one of the operations; what
\* it still has to send is something else; all of them are in the queue.
PassesInv ==
    /\ pass \in [Passes -> PassStates]
    /\ \A p \in Passes :
          /\ pass[p].pc \in {"send", "ok", "error"} => pass[p].op \in Ops /\ pass[p].op \notin pass[p].todo
          /\ pass[p].pc = "next" => pass[p].todo # {}
          /\ \A n \in pass[p].todo : Created(n)
          /\ pass[p].pc \in {"send", "ok", "error"} => Created(pass[p].op)

\* Unless two passes have crossed there is one; what it has to send waits,
\* and only it has marked what it is sending.
OnePassInv ==
    ~crossed => /\ \A p, q \in Running : p = q
                /\ \A p \in Running : pass[p].todo \subseteq Pending
                /\ \A p \in Passes : pass[p].pc \in {"send", "ok", "error"} => status[pass[p].op] = "syncing"

\* The answer of a request that succeeded is that of an operation carried out.
AnswerInv == \A p \in Passes : pass[p].pc = "ok" => executed[pass[p].op] > 0

\* An operation that is not there yet has not been carried out.
AbsentInv == \A n \in Ops : status[n] = "absent" => executed[n] = 0

\* Without a fault, an expense that was carried out is not sent again: it was sent
\* directly, or its pass has the answer, which is not an error.
ExpenseInv == \A n \in Ops :
    kind[n] = "expense" /\ executed[n] > 0 /\ troubles = 0 /\ ~crossed =>
        /\ status[n] \in {"sent", "synced", "syncing"}
        /\ \A p \in Passes : pass[p].pc \in {"send", "error"} => pass[p].op # n

Inv == TypeOK /\ PassesInv /\ OnePassInv /\ AnswerInv /\ AbsentInv /\ ExpenseInv /\ SyncedMeansCarriedOut

----------------------------------------------------------------------------
(* Lemmas about the operators of the model. *)

\* The operations are numbered from 1.
LEMMA OpsAreNumbers == ASSUME TypeOK PROVE Ops \subseteq Nat /\ kind \in [Ops -> Kinds]
BY SyncQueueAssumption DEF TypeOK, Ops, Kinds

\* There is a first among operations.
LEMMA FirstOfThem ==
    ASSUME NEW S, S \subseteq Nat, S # {}
    PROVE  First(S) \in S
<1> DEFINE R == {ss \in Nat \X Nat : ss[1] < ss[2]}
<1>1. IsWellFoundedOn(R, Nat) BY NatLessThanWellFounded DEF OpToRel
<1>2. PICK x \in S : \A y \in S : ~(<<y, x>> \in R) BY <1>1, WFMin
<1>3. ASSUME NEW y \in S PROVE x <= y
  <2>1. x \in Nat /\ y \in Nat OBVIOUS
  <2>2. y < x => <<y, x>> \in R BY <2>1
  <2> QED BY <1>2, <2>1, <2>2
<1> QED BY <1>3 DEF First

\* Whatever the endpoints are sent, the number of times an operation was carried out
\* stays a count, and never goes down; one that is not refused has been carried out.
LEMMA ExecuteCounts ==
    ASSUME TypeOK, NEW n \in Ops, Execute(n)
    PROVE  /\ executed' \in [Ops -> 0..2]
           /\ \A m \in Ops : executed'[m] >= executed[m]
           /\ \A m \in Ops : m # n => executed'[m] = executed[m]
           /\ ~Refuses(n) => executed'[n] > 0
           /\ executed'[n] # executed[n] /\ executed[n] > 0 => kind[n] = "expense"
<1> executed \in [Ops -> 0..2] BY DEF TypeOK
<1> kind[n] \in Kinds BY OpsAreNumbers
<1>1. CASE Refuses(n) \/ Replays(n)
  BY <1>1 DEF Execute, Replays
<1>2. CASE ~(Refuses(n) \/ Replays(n))
  <2> DEFINE v == IF executed[n] = 0 THEN 1 ELSE 2
  <2>1. executed' = [executed EXCEPT ![n] = v] BY <1>2 DEF Execute
  <2>2. v \in 0..2 /\ v > 0 /\ v >= executed[n] OBVIOUS
  <2>3. executed[n] > 0 => kind[n] = "expense"
    BY <1>2 DEF Refuses, Replays, NoProject, Kinds, CheckedIn
  <2> HIDE DEF v
  <2> QED BY <2>1, <2>2, <2>3
<1> QED BY <1>1, <1>2

----------------------------------------------------------------------------
(* The steps. *)

\* An invariant that speaks only of what a step leaves alone survives it.
LEMMA QueueUntouched ==
    ASSUME Inv, UNCHANGED <<kind, status, pass, executed, crossed>>,
           TypeOK', troubles' >= troubles
    PROVE  Inv'
<1> troubles \in Nat /\ troubles' \in Nat BY DEF Inv, TypeOK
<1> Ops' = Ops BY DEF Ops
<1>1. PassesInv' BY DEF Inv, PassesInv, PassStates, Created
<1>2. OnePassInv' BY DEF Inv, OnePassInv, Running, Pending
<1>3. AnswerInv' BY DEF Inv, AnswerInv
<1>4. AbsentInv' BY DEF Inv, AbsentInv
<1>5. ExpenseInv' BY DEF Inv, ExpenseInv
<1>6. SyncedMeansCarriedOut' BY DEF Inv, SyncedMeansCarriedOut
<1> QED BY <1>1, <1>2, <1>3, <1>4, <1>5, <1>6 DEF Inv

\* The connection and what the screen shows of it.
LEMMA PhoneSteps ==
    ASSUME Inv, Connect \/ Toggle \/ Render \/ Notice
    PROVE  Inv'
<1> USE DEF phone, faults
<1> troubles \in 0..MaxFaults BY DEF Inv, TypeOK
<1> SyncQueueAssumption!2 BY SyncQueueAssumption
<1>1. UNCHANGED <<kind, status, pass, executed, restarts, crossed>>
  BY DEF Connect, Toggle, Render, Notice
<1>2. troubles' \in 0..MaxFaults /\ troubles' >= troubles
  BY DEF Connect, Toggle, Render, Notice
<1>3. {connected, isOffline, wasOffline}' \subseteq BOOLEAN
  BY DEF Inv, TypeOK, Connect, Toggle, Render, Notice
<1>4. TypeOK' BY <1>1, <1>2, <1>3 DEF Inv, TypeOK, Ops
<1> QED BY <1>1, <1>2, <1>4, QueueUntouched

\* An operation is created: it waits, or was sent.
LEMMA CreateKeepsInv ==
    ASSUME Inv, NEW n \in Ops, NEW s \in {"pending", "sent"}, status[n] = "absent",
           status' = [status EXCEPT ![n] = s],
           UNCHANGED <<kind, pass, phone, restarts, crossed>>,
           executed' = executed \/ Execute(n),
           troubles' \in 0..MaxFaults, troubles' >= troubles,
           s = "pending" => kind[n] # "expense" \/ executed' = executed
    PROVE  Inv'
<1> USE DEF phone, faults
<1> SyncQueueAssumption!2 BY SyncQueueAssumption
<1> TypeOK BY DEF Inv
<1> Ops' = Ops BY DEF Ops
<1> troubles \in Nat /\ troubles' \in Nat BY DEF TypeOK
<1> status \in [Ops -> Statuses] /\ executed \in [Ops -> 0..2] BY DEF TypeOK
<1> s \in Statuses BY DEF Statuses
<1>1. /\ executed' \in [Ops -> 0..2]
      /\ \A m \in Ops : executed'[m] >= executed[m] /\ (m # n => executed'[m] = executed[m])
      /\ executed'[n] # executed[n] /\ executed[n] > 0 => kind[n] = "expense"
  BY ExecuteCounts
<1>2. \A m \in Ops : m # n => status'[m] = status[m] OBVIOUS
<1>3. status'[n] = s OBVIOUS
<1>4. TypeOK' BY <1>1 DEF TypeOK
<1>5. PassesInv' BY <1>2, <1>3 DEF Inv, PassesInv, PassStates, Created
<1>6. OnePassInv'
  <2>1. Pending \subseteq Pending' BY <1>2 DEF Pending
  <2>2. \A p \in Passes : pass[p].pc \in {"send", "ok", "error"} => pass[p].op \in Ops /\ pass[p].op # n
    BY DEF Inv, PassesInv, Created
  <2> QED BY <1>2, <2>1, <2>2 DEF Inv, OnePassInv, Running
<1>7. AnswerInv'
  <2> SUFFICES ASSUME NEW p \in Passes, pass[p].pc = "ok" PROVE executed'[pass[p].op] > 0
    BY DEF AnswerInv
  <2>1. pass[p].op \in Ops /\ executed[pass[p].op] > 0 BY DEF Inv, PassesInv, AnswerInv
  <2>2. executed'[pass[p].op] >= executed[pass[p].op] /\ executed'[pass[p].op] \in 0..2 BY <1>1, <2>1
  <2>3. executed[pass[p].op] \in 0..2 BY <2>1
  <2> QED BY <2>1, <2>2, <2>3
<1>8. AbsentInv' BY <1>1, <1>2, <1>3 DEF Inv, AbsentInv
<1>9. executed[n] = 0 BY DEF Inv, AbsentInv
<1>10. ExpenseInv'
  <2> SUFFICES ASSUME NEW m \in Ops, kind[m] = "expense", executed'[m] > 0, troubles' = 0, ~crossed
               PROVE  /\ status'[m] \in {"sent", "synced", "syncing"}
                      /\ \A p \in Passes : pass[p].pc \in {"send", "error"} => pass[p].op # m
    BY DEF ExpenseInv
  <2>1. troubles = 0 OBVIOUS
  <2>2. CASE m # n
    BY <1>1, <1>2, <2>1, <2>2 DEF Inv, ExpenseInv
  <2>3. CASE m = n
    <3>1. \A p \in Passes : pass[p].pc \in {"send", "error"} => pass[p].op # n
      BY DEF Inv, PassesInv, Created
    <3>2. CASE s = "sent" BY <1>3, <2>3, <3>1, <3>2
    <3>3. CASE s = "pending"
      <4>1. executed[n] > 0 BY <2>3, <3>3
      <4> QED BY <4>1, <2>1, <2>3 DEF Inv, ExpenseInv
    <3> QED BY <3>2, <3>3
  <2> QED BY <2>2, <2>3
<1>11. SyncedMeansCarriedOut'
  <2> SUFFICES ASSUME NEW m \in Ops
               PROVE  /\ status'[m] = "synced" => executed'[m] > 0
                      /\ executed'[m] > 1 => kind[m] = "expense" /\ (troubles' > 0 \/ crossed)
    BY DEF SyncedMeansCarriedOut
  <2>1. CASE m # n
    BY <1>1, <1>2, <2>1 DEF Inv, SyncedMeansCarriedOut
  <2>2. CASE m = n
    <3>1. ~(executed'[n] > 1) BY <1>9 DEF Execute
    <3> QED BY <1>3, <2>2, <3>1
  <2> QED BY <2>1, <2>2
<1> QED BY <1>4, <1>5, <1>6, <1>7, <1>8, <1>10, <1>11 DEF Inv

\* Nothing of the queue changes but the number of times n was carried out, by the pass p
\* which sent it and gets the answer.
LEMMA AnswerKeepsInv ==
    ASSUME Inv, NEW p \in Passes, NEW ok \in BOOLEAN, pass[p].pc = "send",
           Answered(p, ok), UNCHANGED <<kind, status, phone, restarts, crossed>>,
           executed' = executed \/ Execute(pass[p].op),
           troubles' \in 0..MaxFaults, troubles' >= troubles,
           ok => executed'[pass[p].op] > 0,
           troubles' = 0 => ok \/ executed' = executed
    PROVE  Inv'
<1> USE DEF phone, faults
<1> DEFINE n == pass[p].op
<1> SyncQueueAssumption!2 BY SyncQueueAssumption
<1> TypeOK BY DEF Inv
<1> Ops' = Ops BY DEF Ops
<1> troubles \in Nat /\ troubles' \in Nat BY DEF TypeOK
<1> status \in [Ops -> Statuses] /\ executed \in [Ops -> 0..2] BY DEF TypeOK
<1> pass \in [Passes -> PassStates] BY DEF Inv, PassesInv
<1>0. n \in Ops BY DEF Inv, PassesInv
<1>1. /\ executed' \in [Ops -> 0..2]
      /\ \A m \in Ops : executed'[m] >= executed[m] /\ (m # n => executed'[m] = executed[m])
      /\ executed'[n] # executed[n] /\ executed[n] > 0 => kind[n] = "expense"
  BY <1>0, ExecuteCounts
<1>2. /\ pass' \in [Passes -> PassStates]
      /\ pass'[p] = [todo |-> pass[p].todo, op |-> n, pc |-> IF ok THEN "ok" ELSE "error"]
      /\ \A q \in Passes : q # p => pass'[q] = pass[q]
  BY DEF Answered, PassStates
<1>3. \A q \in Passes : pass'[q].todo = pass[q].todo /\ pass'[q].op = pass[q].op BY <1>2
<1> HIDE DEF n
<1>4. TypeOK' BY <1>1, <1>2 DEF TypeOK, PassStates
<1>5. PassesInv' BY <1>0, <1>2, <1>3 DEF Inv, PassesInv, Created, PassStates
<1>6. OnePassInv' BY <1>2, <1>3 DEF Inv, OnePassInv, Running, Pending, n
<1>7. AnswerInv'
  <2> SUFFICES ASSUME NEW q \in Passes, pass'[q].pc = "ok" PROVE executed'[pass'[q].op] > 0
    BY DEF AnswerInv
  <2>1. CASE q = p BY <1>2, <2>1 DEF n
  <2>2. CASE q # p
    <3>1. pass[q].op \in Ops /\ executed[pass[q].op] > 0 BY <1>2, <2>2 DEF Inv, PassesInv, AnswerInv
    <3> QED BY <1>1, <1>3, <3>1
  <2> QED BY <2>1, <2>2
<1>8. AbsentInv'
  <2>1. status[n] # "absent" BY <1>0 DEF Inv, PassesInv, Created, n
  <2> QED BY <1>1, <2>1 DEF Inv, AbsentInv
<1>9. ExpenseInv'
  <2> SUFFICES ASSUME NEW m \in Ops, kind[m] = "expense", executed'[m] > 0, troubles' = 0, ~crossed
               PROVE  /\ status[m] \in {"sent", "synced", "syncing"}
                      /\ \A q \in Passes : pass'[q].pc \in {"send", "error"} => pass'[q].op # m
    BY DEF ExpenseInv
  <2>1. troubles = 0 OBVIOUS
  <2>2. CASE executed[m] > 0
    BY <1>2, <2>1, <2>2 DEF Inv, ExpenseInv, n
  <2>3. CASE executed[m] = 0
    <3>1. m = n /\ ok BY <1>1, <2>3
    <3>2. \A q \in Passes : pass'[q].pc \in {"send", "error"} => q = p
      BY <1>2 DEF Inv, OnePassInv, Running
    <3>3. status[n] = "syncing" BY DEF Inv, OnePassInv, n
    <3> QED BY <1>2, <3>1, <3>2, <3>3
  <2> QED BY <2>2, <2>3
<1>10. SyncedMeansCarriedOut'
  <2> SUFFICES ASSUME NEW m \in Ops
               PROVE  /\ status[m] = "synced" => executed'[m] > 0
                      /\ executed'[m] > 1 => kind[m] = "expense" /\ (troubles' > 0 \/ crossed)
    BY DEF SyncedMeansCarriedOut
  <2>1. status[m] = "synced" => executed'[m] > 0 BY <1>1 DEF Inv, SyncedMeansCarriedOut
  <2>2. ASSUME executed'[m] > 1 PROVE kind[m] = "expense" /\ (troubles' > 0 \/ crossed)
    <3>1. CASE executed[m] > 1
      BY <3>1, <2>2 DEF Inv, SyncedMeansCarriedOut
    <3>2. CASE executed[m] <= 1
      <4>1. m = n /\ Execute(n) BY <1>1, <2>2, <3>2 DEF n
      <4>2. executed[n] > 0 BY <4>1, <2>2 DEF Execute
      <4>3. kind[m] = "expense" BY <4>1, <4>2, <1>1, <2>2, <3>2
      <4>4. troubles' > 0 \/ crossed BY <4>1, <4>2, <4>3, <1>0 DEF Inv, ExpenseInv, n
      <4> QED BY <4>3, <4>4
    <3> QED BY <3>1, <3>2
  <2> QED BY <2>1, <2>2
<1> QED BY <1>4, <1>5, <1>6, <1>7, <1>8, <1>9, <1>10 DEF Inv

\* A pass takes the operations that wait.
LEMMA StartKeepsInv ==
    ASSUME Inv, NEW p \in Passes, StartPass(p)
    PROVE  Inv'
<1> USE DEF phone, faults
<1> TypeOK BY DEF Inv
<1> Ops' = Ops BY DEF StartPass, Ops
<1> DEFINE new == IF Pending = {} THEN Idle ELSE [todo |-> Pending, op |-> Null, pc |-> "next"]
<1>1. /\ UNCHANGED <<kind, status, connected, wasOffline, executed, troubles, restarts>>
      /\ isOffline' = FALSE
      /\ pass[p].pc = "idle"
      /\ crossed' = (crossed \/ (Running # {} /\ Pending # {}))
      /\ pass' = [pass EXCEPT ![p] = new]
  BY DEF StartPass
<1>2. new \in PassStates /\ new.pc \in {"idle", "next"} /\ new.todo \subseteq Pending
      /\ (new.pc = "next" => new.todo # {}) /\ new.op = Null /\ new.todo = Pending
  BY DEF PassStates, Idle, Pending
<1> HIDE DEF new
<1>3. /\ pass' \in [Passes -> PassStates] /\ pass'[p] = new
      /\ \A q \in Passes : q # p => pass'[q] = pass[q]
  BY <1>1, <1>2 DEF Inv, PassesInv
<1>4. TypeOK'
  <2>1. \A q \in Passes : /\ pass'[q].todo \subseteq Ops /\ pass'[q].op \in Ops \cup {Null}
                          /\ pass'[q].pc \in {"idle", "next", "send", "ok", "error"}
    BY <1>3 DEF PassStates
  <2>2. crossed' \in BOOLEAN BY <1>1 DEF TypeOK
  <2> QED BY <1>1, <2>1, <2>2 DEF TypeOK
<1>5. PassesInv'
  <2>1. ASSUME NEW m \in new.todo PROVE Created(m)
    BY <1>2 DEF Pending, Created
  <2> QED BY <1>1, <1>2, <1>3, <2>1 DEF Inv, PassesInv, Created, PassStates
<1>6. OnePassInv'
  <2> SUFFICES ASSUME ~crossed' PROVE OnePassInv' BY DEF OnePassInv
  <2>1. ~crossed /\ (Running = {} \/ Pending = {}) BY <1>1 DEF TypeOK
  <2>2. Pending' = Pending BY <1>1 DEF Pending
  <2>3. Running' \subseteq {p} \/ Running' \subseteq Running
    BY <1>1, <1>3, <2>1 DEF Running, Idle, new
  <2>4. \A q \in Running' : pass'[q].todo \subseteq Pending
    BY <1>2, <1>3, <2>1 DEF Inv, OnePassInv, Running
  <2>5. \A q \in Passes : pass'[q].pc \in {"send", "ok", "error"} => status'[pass'[q].op] = "syncing"
    BY <1>1, <1>2, <1>3, <2>1 DEF Inv, OnePassInv
  <2> QED BY <2>1, <2>2, <2>3, <2>4, <2>5 DEF Inv, OnePassInv
<1>7. AnswerInv' BY <1>1, <1>2, <1>3 DEF Inv, AnswerInv
<1>8. AbsentInv' BY <1>1 DEF Inv, AbsentInv
<1>9. ExpenseInv' BY <1>1, <1>2, <1>3 DEF Inv, ExpenseInv, TypeOK
<1>10. SyncedMeansCarriedOut' BY <1>1 DEF Inv, SyncedMeansCarriedOut, TypeOK
<1> QED BY <1>4, <1>5, <1>6, <1>7, <1>8, <1>9, <1>10 DEF Inv

\* A pass takes the next of its operations, which is among them.
LEMMA TakeKeepsInv ==
    ASSUME Inv, NEW p \in Passes, Take(p)
    PROVE  Inv'
<1> USE DEF phone, faults
<1> TypeOK BY DEF Inv
<1> Ops' = Ops BY DEF Take, Ops
<1> DEFINE n == First(pass[p].todo)
<1>0. pass[p] \in PassStates /\ pass[p].todo \subseteq Ops /\ Ops \subseteq Nat /\ pass[p].todo # {}
  BY OpsAreNumbers DEF Inv, PassesInv, PassStates, Take
<1>1. n \in pass[p].todo /\ n \in Ops BY <1>0, FirstOfThem
<1>2. /\ UNCHANGED <<kind, connected, isOffline, wasOffline, executed, troubles, restarts, crossed>>
      /\ pass[p].pc = "next"
      /\ status' = [status EXCEPT ![n] = "syncing"]
      /\ pass' = [pass EXCEPT ![p] = [todo |-> pass[p].todo \ {n}, op |-> n, pc |-> "send"]]
  BY DEF Take, Inv, PassesInv
<1> HIDE DEF n
<1>3. /\ pass' \in [Passes -> PassStates]
      /\ pass'[p] = [todo |-> pass[p].todo \ {n}, op |-> n, pc |-> "send"]
      /\ \A q \in Passes : q # p => pass'[q] = pass[q]
  BY <1>0, <1>1, <1>2 DEF Inv, PassesInv, PassStates
<1>4. /\ status' \in [Ops -> Statuses] /\ status'[n] = "syncing"
      /\ \A m \in Ops : m # n => status'[m] = status[m]
  BY <1>1, <1>2 DEF TypeOK, Statuses
<1>5. TypeOK' BY <1>2, <1>3, <1>4 DEF TypeOK, PassStates
<1>6. PassesInv'
  BY <1>1, <1>3, <1>4 DEF Inv, PassesInv, Created, PassStates
<1>7. OnePassInv'
  <2> SUFFICES ASSUME ~crossed PROVE OnePassInv' BY <1>2 DEF OnePassInv
  <2>1. Running' = Running BY <1>2, <1>3 DEF Running
  <2>2. \A q \in Running : q = p BY <1>2 DEF Inv, OnePassInv, Running
  <2>3. pass[p].todo \ {n} \subseteq Pending'
    BY <1>2, <1>4 DEF Inv, OnePassInv, Running, Pending
  <2>4. pass'[p].todo \subseteq Pending' BY <1>3, <2>3
  <2>5. \A q \in Passes : pass'[q].pc \in {"send", "ok", "error"} => q = p
    BY <1>3, <2>2 DEF Running
  <2> QED BY <1>3, <1>4, <2>1, <2>2, <2>4, <2>5 DEF OnePassInv
<1>8. AnswerInv' BY <1>2, <1>3 DEF Inv, AnswerInv
<1>9. AbsentInv' BY <1>2, <1>4 DEF Inv, AbsentInv
<1>10. ExpenseInv'
  <2> SUFFICES ASSUME NEW m \in Ops, kind[m] = "expense", executed[m] > 0, troubles = 0, ~crossed
               PROVE  /\ status'[m] \in {"sent", "synced", "syncing"}
                      /\ \A q \in Passes : pass'[q].pc \in {"send", "error"} => pass'[q].op # m
    BY <1>2 DEF ExpenseInv
  <2>1. n \in Pending BY <1>1, <1>2 DEF Inv, OnePassInv, Running
  <2>2. m # n BY <2>1 DEF Inv, ExpenseInv, Pending
  <2> QED BY <1>3, <1>4, <2>2 DEF Inv, ExpenseInv
<1>11. SyncedMeansCarriedOut' BY <1>2, <1>4 DEF Inv, SyncedMeansCarriedOut
<1> QED BY <1>5, <1>6, <1>7, <1>8, <1>9, <1>10, <1>11 DEF Inv

\* The result is written, and the pass goes on or ends.
LEMMA MarkKeepsInv ==
    ASSUME Inv, NEW p \in Passes, Mark(p)
    PROVE  Inv'
<1> USE DEF phone, faults
<1> TypeOK BY DEF Inv
<1> Ops' = Ops BY DEF Mark, Finish, Ops
<1> DEFINE n == pass[p].op
           result == IF pass[p].pc = "ok" THEN "synced" ELSE "failed"
           new == IF pass[p].todo = {} THEN Idle ELSE [pass[p] EXCEPT !.op = Null, !.pc = "next"]
<1>0. /\ UNCHANGED <<kind, connected, isOffline, wasOffline, executed, troubles, restarts, crossed>>
      /\ pass[p].pc \in {"ok", "error"}
      /\ status' = [status EXCEPT ![n] = result]
      /\ pass' = [pass EXCEPT ![p] = new]
  BY DEF Mark, Finish, Inv, PassesInv
<1>1. /\ pass[p] \in PassStates /\ n \in Ops /\ n \notin pass[p].todo /\ Created(n)
      /\ \A m \in Ops : m \in pass[p].todo => Created(m)
  BY <1>0 DEF Inv, PassesInv
<1>2. /\ new \in PassStates /\ new.pc \in {"idle", "next"} /\ new.todo = pass[p].todo /\ new.op = Null
      /\ (new.pc = "next" => new.todo # {})
  BY <1>1 DEF PassStates, Idle
<1> HIDE DEF n, new
<1>3. /\ pass' \in [Passes -> PassStates] /\ pass'[p] = new
      /\ \A q \in Passes : q # p => pass'[q] = pass[q]
  BY <1>0, <1>2 DEF Inv, PassesInv
<1>4. /\ status' \in [Ops -> Statuses] /\ status'[n] = result
      /\ \A m \in Ops : m # n => status'[m] = status[m]
  BY <1>0, <1>1 DEF TypeOK, Statuses
<1>5. TypeOK' BY <1>0, <1>3, <1>4 DEF TypeOK, PassStates
<1>6. PassesInv'
  <2>1. \A m \in Ops : Created(m) => Created(m)' BY <1>4 DEF Created
  <2>2. ASSUME NEW q \in Passes, NEW m \in pass'[q].todo PROVE Created(m)' 
    BY <1>1, <1>2, <1>3, <2>1 DEF Inv, PassesInv, PassStates
  <2>3. ASSUME NEW q \in Passes, pass'[q].pc \in {"send", "ok", "error"}
        PROVE  q # p /\ pass[q].op \in Ops /\ pass[q].op \notin pass[q].todo /\ Created(pass[q].op)'
    BY <1>2, <1>3, <2>1, <2>3 DEF Inv, PassesInv
  <2>4. \A q \in Passes : pass'[q].pc = "next" => pass'[q].todo # {} BY <1>2, <1>3 DEF Inv, PassesInv
  <2>5. pass' \in [Passes -> PassStates'] BY <1>3 DEF PassStates
  <2>6. \A q \in Passes : q # p => pass'[q].op = pass[q].op /\ pass'[q].todo = pass[q].todo BY <1>3
  <2> QED BY <2>2, <2>3, <2>4, <2>5, <2>6 DEF PassesInv
<1>7. OnePassInv'
  <2> SUFFICES ASSUME ~crossed PROVE OnePassInv' BY <1>0 DEF OnePassInv
  <2>1. \A q \in Running : q = p BY <1>0 DEF Inv, OnePassInv, Running
  <2>2. Running' \subseteq {p} BY <1>3, <2>1 DEF Running
  <2>3. pass[p].todo \subseteq Pending BY <1>0 DEF Inv, OnePassInv, Running
  <2>4. new.todo \subseteq Pending' BY <1>1, <1>2, <1>4, <2>3 DEF Pending
  <2>5. \A q \in Passes : pass'[q].pc \notin {"send", "ok", "error"}
    BY <1>2, <1>3, <2>2 DEF Running
  <2> QED BY <1>3, <2>2, <2>4, <2>5 DEF OnePassInv
<1>8. AnswerInv' BY <1>0, <1>2, <1>3 DEF Inv, AnswerInv
<1>9. AbsentInv' BY <1>0, <1>1, <1>4 DEF Inv, AbsentInv, Created
<1>10. ExpenseInv'
  <2> SUFFICES ASSUME NEW m \in Ops, kind[m] = "expense", executed[m] > 0, troubles = 0, ~crossed
               PROVE  /\ status'[m] \in {"sent", "synced", "syncing"}
                      /\ \A q \in Passes : pass'[q].pc \in {"send", "error"} => pass'[q].op # m
    BY <1>0 DEF ExpenseInv
  <2>1. m = n => pass[p].pc = "ok" BY <1>0 DEF Inv, ExpenseInv, n
  <2> QED BY <1>2, <1>3, <1>4, <2>1 DEF Inv, ExpenseInv
<1>11. SyncedMeansCarriedOut'
  <2>1. result = "synced" => executed[n] > 0 BY <1>1 DEF Inv, AnswerInv, n
  <2> QED BY <1>0, <1>4, <2>1 DEF Inv, SyncedMeansCarriedOut
<1> QED BY <1>5, <1>6, <1>7, <1>8, <1>9, <1>10, <1>11 DEF Inv

\* The application is killed and started again.
LEMMA RestartKeepsInv ==
    ASSUME Inv, Restart
    PROVE  Inv'
<1> TypeOK BY DEF Inv
<1> SyncQueueAssumption!2 BY SyncQueueAssumption
<1> UNCHANGED <<kind, status, executed, troubles, crossed, Ops>> BY DEF Restart, Ops
<1>1. \A p \in Passes : pass'[p] = Idle /\ pass'[p].pc = "idle" /\ pass'[p].todo = {} /\ pass'[p].op = Null
  BY DEF Restart, Idle
<1>2. restarts' \in 0..MaxRestarts BY DEF Restart, TypeOK
<1>3. TypeOK' BY <1>1, <1>2 DEF TypeOK, Restart
<1>4. PassesInv'
  <2>1. pass' \in [Passes -> PassStates'] BY DEF PassStates, Restart, Idle
  <2> QED BY <1>1, <2>1 DEF PassesInv
<1>5. OnePassInv' BY <1>1 DEF OnePassInv, Running
<1>6. AnswerInv' BY <1>1 DEF AnswerInv
<1>7. AbsentInv' BY DEF Inv, AbsentInv
<1>8. ExpenseInv' BY <1>1 DEF Inv, ExpenseInv
<1>9. SyncedMeansCarriedOut' BY DEF Inv, SyncedMeansCarriedOut
<1> QED BY <1>3, <1>4, <1>5, <1>6, <1>7, <1>8, <1>9 DEF Inv

\* Every step keeps the invariant.
LEMMA StepKeepsInv == ASSUME Inv, [Next]_vars PROVE Inv'
<1> USE DEF phone, faults
<1> SyncQueueAssumption!2 BY SyncQueueAssumption
<1> TypeOK BY DEF Inv
<1> troubles \in 0..MaxFaults /\ restarts \in 0..MaxRestarts BY DEF TypeOK
<1>1. ASSUME NEW n \in Ops, Enqueue(n) PROVE Inv'
  <2>1. status[n] = "absent" /\ status' = [status EXCEPT ![n] = "pending"]
        /\ UNCHANGED <<kind, pass, phone, executed, faults>>
    BY <1>1 DEF Enqueue, NextOp, Created
  <2> DEFINE s == "pending"
  <2>2. /\ s \in {"pending", "sent"} /\ status' = [status EXCEPT ![n] = s]
        /\ (s = "pending" => kind[n] # "expense" \/ executed' = executed)
        /\ UNCHANGED <<kind, pass, phone, restarts, crossed>>
        /\ (executed' = executed \/ Execute(n))
        /\ troubles' \in 0..MaxFaults /\ troubles' >= troubles
    BY <2>1
  <2> HIDE DEF s
  <2> QED BY <2>1, <2>2, CreateKeepsInv
<1>2. ASSUME NEW n \in Ops, Submit(n) PROVE Inv'
  <2>1. status[n] = "absent" /\ status' = [status EXCEPT ![n] = "sent"]
        /\ UNCHANGED <<kind, pass, phone, faults>> /\ (executed' = executed \/ Execute(n))
    BY <1>2 DEF Submit, NextOp, Created
  <2> DEFINE s == "sent"
  <2>2. /\ s \in {"pending", "sent"} /\ status' = [status EXCEPT ![n] = s]
        /\ (s = "pending" => kind[n] # "expense" \/ executed' = executed)
        /\ UNCHANGED <<kind, pass, phone, restarts, crossed>>
        /\ (executed' = executed \/ Execute(n))
        /\ troubles' \in 0..MaxFaults /\ troubles' >= troubles
    BY <2>1
  <2> HIDE DEF s
  <2> QED BY <2>1, <2>2, CreateKeepsInv
<1>3. ASSUME NEW n \in Ops, SubmitReceipt(n) PROVE Inv'
  <2>1. UNCHANGED <<kind, pass, phone, restarts, crossed>> /\ status[n] = "absent" /\ kind[n] = "receipt"
    BY <1>3 DEF SubmitReceipt, NextOp, Created
  <2>2. PICK s \in {"pending", "sent"} : status' = [status EXCEPT ![n] = s]
    BY <1>3 DEF SubmitReceipt
  <2>3. executed' = executed \/ Execute(n) BY <1>3 DEF SubmitReceipt
  <2>4. troubles' \in 0..MaxFaults /\ troubles' >= troubles BY <1>3 DEF SubmitReceipt
  <2> QED BY <2>1, <2>2, <2>3, <2>4, CreateKeepsInv
<1>5. CASE Connect \/ Toggle \/ Render \/ Notice BY <1>5, PhoneSteps
<1>6. CASE Restart BY <1>6, RestartKeepsInv
<1>7. ASSUME NEW p \in Passes, StartPass(p) PROVE Inv' BY <1>7, StartKeepsInv
<1>8. ASSUME NEW p \in Passes, Take(p) PROVE Inv' BY <1>8, TakeKeepsInv
<1>9. ASSUME NEW p \in Passes, Mark(p) PROVE Inv' BY <1>9, MarkKeepsInv
<1>10. ASSUME NEW p \in Passes, LoseAnswer(p) PROVE Inv'
  <2>1. troubles' > 0 /\ troubles' \in 0..MaxFaults /\ troubles' >= troubles BY <1>10 DEF LoseAnswer
  <2>2. /\ pass[p].pc = "send" /\ Answered(p, FALSE)
        /\ executed' = executed \/ Execute(pass[p].op)
        /\ UNCHANGED <<kind, status, phone, restarts, crossed>>
    BY <1>10 DEF LoseAnswer
  <2> DEFINE ok == FALSE
  <2>3. Answered(p, ok) BY <2>2, Zenon
  <2>4. ok \in BOOLEAN /\ (ok => executed'[pass[p].op] > 0) /\ (troubles' = 0 => ok \/ executed' = executed)
    BY <2>1
  <2> HIDE DEF ok
  <2> QED BY <2>1, <2>2, <2>3, <2>4, AnswerKeepsInv
<1>11. ASSUME NEW p \in Passes, Unreachable(p) PROVE Inv'
  <2>1. /\ pass[p].pc = "send" /\ Answered(p, FALSE)
        /\ UNCHANGED <<kind, status, phone, executed, faults>>
    BY <1>11 DEF Unreachable
  <2> DEFINE ok == FALSE
  <2>2. Answered(p, ok) BY <2>1, Zenon
  <2>3. /\ ok \in BOOLEAN /\ (ok => executed'[pass[p].op] > 0)
        /\ (executed' = executed \/ Execute(pass[p].op)) /\ (troubles' = 0 => ok \/ executed' = executed)
        /\ UNCHANGED <<kind, status, phone, restarts, crossed>>
        /\ troubles' \in 0..MaxFaults /\ troubles' >= troubles
    BY <2>1
  <2> HIDE DEF ok
  <2> QED BY <2>1, <2>2, <2>3, AnswerKeepsInv
<1>12. ASSUME NEW p \in Passes, NEW n \in Ops, Serve(p, n) PROVE Inv'
  <2>1. ~Refuses(n) => executed'[n] > 0 BY <1>12, ExecuteCounts DEF Serve
  <2>2. Refuses(n) => executed' = executed BY <1>12 DEF Serve, Execute
  <2>3. /\ pass[p].pc = "send" /\ pass[p].op = n /\ Execute(n) /\ Answered(p, ~Refuses(n))
        /\ UNCHANGED <<kind, status, phone, faults>>
    BY <1>12 DEF Serve
  <2> DEFINE ok == ~Refuses(n)
  <2>4. ok \in BOOLEAN /\ (ok => executed'[n] > 0) /\ (ok \/ executed' = executed) /\ Answered(p, ok)
    BY <2>1, <2>2, <2>3
  <2> HIDE DEF ok
  <2> QED BY <2>3, <2>4, AnswerKeepsInv
<1>13. CASE UNCHANGED vars BY <1>13, QueueUntouched DEF vars, TypeOK, Ops
<1> QED BY <1>1, <1>2, <1>3, <1>5, <1>6, <1>7, <1>8, <1>9, <1>10, <1>11, <1>12, <1>13 DEF Next

\* Nothing is in the queue at the start.
LEMMA InitHasInv == ASSUME Init PROVE Inv
<1> USE DEF Init
<1> SyncQueueAssumption!2 BY SyncQueueAssumption
<1>1. TypeOK
  <2>1. kind \in Scenarios /\ status \in [Ops -> Statuses] BY DEF Statuses
  <2>2. \A p \in Passes : pass[p].todo = {} /\ pass[p].op = Null /\ pass[p].pc = "idle" BY DEF Idle
  <2>3. executed \in [Ops -> 0..2] /\ troubles \in 0..MaxFaults /\ restarts \in 0..MaxRestarts
    OBVIOUS
  <2> QED BY <2>1, <2>2, <2>3 DEF TypeOK
<1>2. PassesInv BY DEF PassesInv, PassStates, Idle
<1>3. OnePassInv /\ AnswerInv /\ AbsentInv /\ ExpenseInv /\ SyncedMeansCarriedOut
  BY DEF OnePassInv, Running, AnswerInv, AbsentInv, ExpenseInv, SyncedMeansCarriedOut, Idle
<1> QED BY <1>1, <1>2, <1>3 DEF Inv

\* The invariant holds of every behaviour.
LEMMA InvHolds == Spec => []Inv
<1>1. Init => Inv BY InitHasInv
<1>2. Inv /\ [Next]_vars => Inv' BY StepKeepsInv
<1> QED BY <1>1, <1>2, PTL DEF Spec

\* Every variable of the queue has its type, for any number of operations and passes.
THEOREM QueueTypeCorrect == Spec => []TypeOK
<1>1. Inv => TypeOK BY DEF Inv
<1> QED BY <1>1, InvHolds, PTL

\* What is marked as synced has been carried out; it has been more than once only when an
\* answer was lost, the connection broke during a pass or two passes crossed, and then only
\* an expense without a key, whatever the application went through.
THEOREM SyncedMeansCarriedOutHolds == Spec => []SyncedMeansCarriedOut
<1>1. Inv => SyncedMeansCarriedOut BY DEF Inv
<1> QED BY <1>1, InvHolds, PTL
=============================================================================
