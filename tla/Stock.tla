------------------------------- MODULE Stock -------------------------------
(***************************************************************************)
(* The stock operations of InventoryService and ProcurementService over the *)
(* one database they share, and what must hold of them together.            *)
(***************************************************************************)
EXTENDS Procurement, Functions

\* One statement of the call, which its service is waiting for.
Step(c) == \/ ReceiveStep(c) \/ ConsumeStep(c) \/ TransferStep(c) \/ AvizStep(c)
           \/ Commit(c)

Finished == (\A c \in Calls : call[c].pc = "done") /\ UNCHANGED vars

Next == (\E c \in Calls : Begin(c) \/ Step(c) \/ Abort(c) \/ AbortDeadlocked(c)) \/ Finished

Init == StockDbInit
Spec == Init /\ [][Next]_vars

(* Every statement that can run is run: the service awaits it and PostgreSQL    *)
(* schedules it.  A cycle of waiters is broken by the deadlock detector.  No    *)
(* client is obliged to send anything, and no connection to fail.               *)
FairSpec == Spec /\ \A c \in Calls : WF_vars(Step(c)) /\ WF_vars(AbortDeadlocked(c))

----------------------------------------------------------------------------
\* Every variable has its type, and a call is at one of its own items.
TypeOK ==
    /\ present \subseteq Rows
    /\ quantity \in [Rows -> Int]
    /\ movements \subseteq Movements
    /\ avize \subseteq Avize
    /\ audited \subseteq Calls
    /\ lock \in [Rows -> Calls \cup {Null}]
    /\ tx \in [Calls -> [writes: [Rows -> Int], creates: SUBSET Rows,
                         inserts: SUBSET Movements, header: SUBSET Avize]]
    /\ call \in [Calls -> CallStates]
    /\ \A c \in Calls :
          call[c].pc # "free" => call[c].op \in Ops /\ call[c].line \in DOMAIN call[c].op.items

\* No interleaving overdraws a balance: at every moment each open transaction could
\* commit and leave every row at zero or more, so chk_stock_balance_positive, the
\* last layer of the defence of inventory.service.ts:106-110, is never what stops a
\* request.
NeverOverdrawn ==
    \A r \in Rows : quantity[r] >= 0 /\ \A c \in Calls : quantity[r] + tx[c].writes[r] >= 0

\* What the balance rows hold at the start.
AtStart   == [r \in Rows |-> IF r \in DOMAIN Opening THEN Opening[r] ELSE 0]
Signed(m) == IF m.type \in {"RECEIPT", "TRANSFER_IN"} THEN m.qty ELSE -m.qty

\* The ledger explains the stock: for every material, what is held is what was there
\* at the start plus the signed quantities of all committed movements, whatever
\* committed, failed, was replayed or deadlocked on the way.
LedgerExplainsStock ==
    \A m \in Materials :
        LET rows   == {r \in Rows : r.material = m}
            signed == [x \in movements |-> Signed(x)]
        IN  SumFunctionOnSet(quantity, rows) =
              SumFunctionOnSet(AtStart, rows)
              + SumFunctionOnSet(signed, {x \in movements : x.material = m})

\* Requests that carry the same idempotency key for the same operation take effect
\* once, however their statements interleave (the checks at inventory.service.ts:122
\* and 287 and the unique index behind them).
KeyTakesEffectOnce ==
    \A c, d \in Calls :
        /\ c # d /\ call[c].answer = "ok" /\ call[d].answer = "ok"
        /\ call[c].op.key # Null /\ call[c].op.key = call[d].op.key
        => call[c].op.kind # call[d].op.kind

\* A request that is answered with an error, or from the ledger, has left nothing
\* behind, and one that succeeded has left every row it owes: a movement per item,
\* two for a transfer, and the delivery note.  The audit row of a consumption stands or
\* falls with it (audit.service.ts:29-34).
AllOrNothing ==
    \A c \in Calls :
        LET mine == {m \in movements : m.call = c}
            owed == IF call[c].op.kind = "transfer" THEN 2 ELSE Len(call[c].op.items)
        IN  /\ call[c].answer = "ok" => Cardinality(mine) = owed
            /\ call[c].answer # "ok" => mine = {} /\ \A a \in avize : a.call # c
            /\ call[c].pc # "free" /\ call[c].op.kind = "consume"
               => (c \in audited <=> call[c].answer = "ok")

\* A repeated request is answered from the ledger and does not fail: a receipt,
\* consumption or delivery note that is sent again with its key after it was carried
\* out is answered "replayed" (inventory.service.ts:121-136, 225-240,
\* procurement.service.ts:127-141).
RetryIsReplayed ==
    \A c \in Calls :
        call[c].retry /\ call[c].pc = "done" /\ call[c].op.kind # "transfer"
        => call[c].answer = "replayed"

\* The same promise for transfers, which transferStock makes at
\* inventory.service.ts:472-495.
RetryOfTransferIsReplayed ==
    \A c \in Calls :
        call[c].retry /\ call[c].pc = "done" /\ call[c].op.kind = "transfer"
        => call[c].answer = "replayed"

\* Every request is answered: no lock, unique key or deadlock keeps a call waiting forever.
EveryCallIsAnswered == \A c \in Calls : call[c].pc # "free" ~> call[c].pc = "done"

\* The statements and locks of the services implement requests that are carried out
\* whole, one at a time.
Atomic == INSTANCE AtomicStock WITH
    Call    <- Calls,
    Row     <- Rows,
    Nothing <- Null,
    Initial <- AtStart,
    request <- [c \in Calls |-> call[c].op],
    done    <- {c \in Calls : call[c].answer = "ok"},
    balance <- quantity

ImplementsAtomicStock == Atomic!Spec
=============================================================================
