------------------------------ MODULE StockDb ------------------------------
(***************************************************************************)
(* The part of the PostgreSQL database the stock services share, as they   *)
(* see it through Prisma: the tables stock_balances, stock_movements, avize *)
(* and audit_logs, and the transactions of the calls in flight.            *)
(*                                                                         *)
(* Isolation is READ COMMITTED.  A transaction keeps what it has written in *)
(* tx[c] until it commits; others see only committed rows.  SELECT ... FOR  *)
(* UPDATE and every UPDATE take the row's lock and keep it to the end of   *)
(* the transaction.  An INSERT into a unique index waits for an open        *)
(* transaction that has inserted the same key and fails if the key is       *)
(* committed; for a balance row the same entry of "lock" stands for the     *)
(* pending index entry.  A failed statement rolls the transaction back.     *)
(***************************************************************************)
EXTENDS Integers, FiniteSets, Sequences

CONSTANTS
    Materials, Projects, Warehouses,
    Null,           \* no project, no warehouse, no key, nobody
    Keys,           \* idempotency keys the clients send
    Numbers,        \* delivery-note numbers
    Rows,           \* the balance keys (material, project, warehouse) in use
    Opening,        \* the balance rows there are at the start, with their quantity
    Calls,          \* the HTTP calls of a behaviour
    Ops             \* the requests a call may carry

VARIABLES
    present,        \* committed balance rows
    quantity,       \* committed current_quantity (0 for an absent row)
    movements,      \* committed rows of stock_movements
    avize,          \* committed rows of avize
    audited,        \* the calls that have a committed audit row
    lock,           \* the call whose transaction holds a balance row
    tx,             \* what each open transaction has written so far
    call            \* the control state of each call

tables == <<present, quantity, movements, avize>>
vars   == <<present, quantity, movements, avize, audited, lock, tx, call>>

Sites       == [project: Projects \cup {Null}, warehouse: Warehouses \cup {Null}]
BalanceKeys == [material: Materials, project: Projects \cup {Null},
                warehouse: Warehouses \cup {Null}]
Items       == [material: Materials, qty: Int]
Operations  == [kind: {"receive", "consume", "transfer", "aviz"},
                from: Sites, to: Sites, items: Seq(Items) \ {<<>>},
                key: Keys \cup {Null}, number: Numbers \cup {Null}]

\* The row of stock_balances for a material at a site.
RowAt(material, site) ==
    [material |-> material, project |-> site.project, warehouse |-> site.warehouse]

ASSUME StockAssumption ==
    /\ Rows \subseteq BalanceKeys /\ IsFiniteSet(Rows)
    /\ DOMAIN Opening \subseteq Rows
    /\ \A r \in DOMAIN Opening : Opening[r] \in Nat
    /\ Ops \subseteq Operations
    /\ Null \notin Calls /\ Null \notin Ops /\ Null # "ok"
    /\ \A op \in Ops : op.kind # "aviz" => Len(op.items) = 1
    /\ \A op \in Ops : \A i \in DOMAIN op.items :
          /\ op.kind = "transfer" => RowAt(op.items[i].material, op.from) \in Rows
          /\ op.kind # "consume" => RowAt(op.items[i].material, op.to) \in Rows

\* Material ids are UUIDs: none of them is one of the suffixes below.
ASSUME SuffixAssumption == {"", "_out", "_in"} \cap Materials = {}

\* A movement's key is the client's key with the suffix the service adds.
RawKey(op)            == <<op.key, "">>
OutKey(op)            == <<op.key, "_out">>
InKey(op)             == <<op.key, "_in">>
ItemKey(op, material) == <<op.key, material>>

Movements ==
    [call: Calls, line: Nat, type: {"RECEIPT", "CONSUMPTION", "TRANSFER_OUT", "TRANSFER_IN"},
     material: Materials, project: Projects \cup {Null}, warehouse: Warehouses \cup {Null},
     qty: Int, key: (Keys \cup {Null}) \X ({"", "_out", "_in"} \cup Materials)]
Avize == [project: Projects \cup {Null}, number: Numbers \cup {Null},
          key: Keys \cup {Null}, call: Calls]

----------------------------------------------------------------------------
(* Calls and their transactions. *)

Steps   == {"free", "check", "recheck", "find", "lock", "create", "findTarget",
            "lockTarget", "createTarget", "header", "record", "refused", "commit",
            "done"}
Answers == {Null, "ok", "replayed", "rejected", "conflict", "aborted"}

CallStates == [op: Ops \cup {Null}, pc: Steps, line: Nat, row: Rows \cup {Null},
               answer: Answers, retry: BOOLEAN]

NoTx == [writes |-> [r \in Rows |-> 0], creates |-> {}, inserts |-> {}, header |-> {}]

\* The steps at which the call has an open interactive transaction.
InTransaction(c) == call[c].pc \notin {"free", "check", "done"}

At(c, kind, step) == call[c].pc = step /\ call[c].op.kind = kind
Goto(c, step)     == call' = [call EXCEPT ![c].pc = step]
Reply(c, answer)  == call' = [call EXCEPT ![c].pc = "done", ![c].answer = answer]

Op(c)   == call[c].op
Item(c) == Op(c).items[call[c].line]

\* The client sends a request.  "retry" remembers whether the very same keyed
\* request had already been carried out when this call arrived.
Begin(c) ==
    /\ call[c].pc = "free"
    /\ \E op \in Ops :
          call' = [call EXCEPT ![c] =
                     [op |-> op, pc |-> "check", line |-> 1, row |-> Null, answer |-> Null,
                      retry |-> /\ op.key # Null
                                /\ \E d \in Calls : call[d].answer = "ok" /\ call[d].op = op]]
    /\ UNCHANGED <<tables, audited, lock, tx>>

----------------------------------------------------------------------------
(* Statements. *)

\* findFirst on stock_balances: committed rows and the transaction's own.
Visible(c, row)  == row \in present \cup tx[c].creates
Current(c, row)  == quantity[row] + tx[c].writes[row]
LockFree(c, row) == lock[row] \in {Null, c}

\* UPDATE stock_balances SET current_quantity = current_quantity + delta
WriteRow(c, row, delta) ==
    /\ lock' = [lock EXCEPT ![row] = c]
    /\ tx'   = [tx EXCEPT ![c].writes[row] = @ + delta]

\* INSERT INTO stock_balances
InsertRow(c, row, qty) ==
    /\ lock' = [lock EXCEPT ![row] = c]
    /\ tx'   = [tx EXCEPT ![c].writes[row] = @ + qty, ![c].creates = @ \cup {row}]

KeyUsed(k) == k[1] # Null /\ \E m \in movements : m.key = k
\* Faulty variant: no unique index on stock_movements.idempotency_key.
KeyTakenUnindexed(c, k) == k[1] # Null /\ \E m \in tx[c].inserts : m.key = k
\* A key of this statement is in the index twice over: committed, or by this transaction.
KeyTaken(c, k)   == KeyUsed(k) \/ (k[1] # Null /\ \E m \in tx[c].inserts : m.key = k)
KeyHolders(c, k) == {d \in Calls \ {c} : k[1] # Null /\ \E m \in tx[d].inserts : m.key = k}

InsertMovements(c, new) == tx' = [tx EXCEPT ![c].inserts = @ \cup new]

\* The transaction ends: its locks are released and its workspace is dropped.
EndTx(c) ==
    /\ lock' = [r \in Rows |-> IF lock[r] = c THEN Null ELSE lock[r]]
    /\ tx'   = [tx EXCEPT ![c] = NoTx]

\* A statement failed or the service threw: ROLLBACK, and the call gets an error.
Fail(c, answer) ==
    /\ EndTx(c)
    /\ Reply(c, answer)

Commit(c) ==
    /\ call[c].pc = "commit"
    /\ present'   = present \cup tx[c].creates
    /\ quantity'  = [r \in Rows |-> quantity[r] + tx[c].writes[r]]
    /\ movements' = movements \cup tx[c].inserts
    /\ avize'     = avize \cup tx[c].header
    /\ audited'   = IF Op(c).kind = "consume" THEN audited \cup {c} ELSE audited
    /\ EndTx(c)
    /\ Reply(c, "ok")

\* The connection is lost, the process dies, or Prisma's transaction timeout fires.
Abort(c) ==
    /\ InTransaction(c)
    /\ Fail(c, "aborted")
    /\ UNCHANGED <<tables, audited>>

\* AuditService.record through the global client: committed at once, on its own
\* connection, and best effort.
RecordAudit(c) == audited' \in {audited, audited \cup {c}}

----------------------------------------------------------------------------
(* Waiting. *)

RowWaits == {"lock", "create", "lockTarget", "createTarget"}

\* The keys the call's next INSERT puts into a unique index.
NextKeys(c) ==
    CASE Op(c).kind = "transfer" -> {OutKey(Op(c)), InKey(Op(c))}
      [] Op(c).kind = "aviz"     -> {ItemKey(Op(c), Item(c).material)}
      [] OTHER                   -> {RawKey(Op(c))}

\* avize (project_id, aviz_number) and avize.idempotency_key are unique.
SameAviz(op, a) == \/ a.project = op.to.project /\ a.number = op.number
                   \/ op.key # Null /\ a.key = op.key

\* The calls whose transactions the next statement of c has to wait for.
WaitsFor(c) ==
    CASE call[c].pc \in RowWaits -> {lock[call[c].row]} \ {Null, c}
      [] call[c].pc = "record"   -> UNION {KeyHolders(c, k) : k \in NextKeys(c)}
      [] call[c].pc = "header"   -> {d \in Calls \ {c} : \E a \in tx[d].header : SameAviz(Op(c), a)}
      [] OTHER                   -> {}

\* c is on a cycle of waiting transactions.
Deadlocked(c) ==
    \E S \in SUBSET Calls :
        /\ c \in S
        /\ \A d \in S : S \cap WaitsFor(d) # {} /\ \E e \in S : d \in WaitsFor(e)

\* PostgreSQL's deadlock detector picks a victim on the cycle.
AbortDeadlocked(c) ==
    /\ Deadlocked(c)
    /\ Fail(c, "aborted")
    /\ UNCHANGED <<tables, audited>>

StockDbInit ==
    /\ present   = DOMAIN Opening
    /\ quantity  = [r \in Rows |-> IF r \in DOMAIN Opening THEN Opening[r] ELSE 0]
    /\ movements = {}
    /\ avize     = {}
    /\ audited   = {}
    /\ lock      = [r \in Rows |-> Null]
    /\ tx        = [c \in Calls |-> NoTx]
    /\ call      = [c \in Calls |-> [op |-> Null, pc |-> "free", line |-> 1, row |-> Null,
                                     answer |-> Null, retry |-> FALSE]]
=============================================================================
