----------------------------- MODULE Inventory -----------------------------
(***************************************************************************)
(* InventoryService: receiveStock, consumeStock and transferStock, one      *)
(* action per database statement that other calls can interleave with.  The *)
(* checks of the four-layer defence appear where the code makes them: the   *)
(* service's own, the row lock, the conditional write.                      *)
(***************************************************************************)
EXTENDS StockDb

Coalesce(a, b) == IF a = Null THEN b ELSE a

NewMovement(c, type, site, key) ==
    [call |-> c, line |-> call[c].line, type |-> type, material |-> Item(c).material,
     project |-> site.project, warehouse |-> site.warehouse, qty |-> Item(c).qty, key |-> key]

Nowhere(site) == site.project = Null /\ site.warehouse = Null

\* The first check of all three operations, outside any transaction: a request that is
\* not valid is refused, a key the ledger already holds is answered from it.
CheckRequest(c, valid, next) ==
    /\ \/ ~valid /\ Reply(c, "rejected")
       \/ valid /\ KeyUsed(RawKey(Op(c))) /\ Reply(c, "replayed")
       \/ valid /\ ~KeyUsed(RawKey(Op(c))) /\ Goto(c, next)
    /\ UNCHANGED <<tables, audited, lock, tx>>

----------------------------------------------------------------------------
(* receiveStock *)

ReceiveCheck(c) ==
    /\ At(c, "receive", "check")
    /\ CheckRequest(c, Item(c).qty > 0 /\ ~Nowhere(Op(c).to), "find")

ReceiveFind(c) ==
    /\ At(c, "receive", "find")
    /\ LET row == RowAt(Item(c).material, Op(c).to)
       IN  call' = [call EXCEPT ![c].row = row,
                                ![c].pc = IF Visible(c, row) THEN "lock" ELSE "create"]
    /\ UNCHANGED <<tables, audited, lock, tx>>

ReceiveIncrement(c) ==
    /\ At(c, "receive", "lock")
    /\ LockFree(c, call[c].row)
    /\ WriteRow(c, call[c].row, Item(c).qty)
    /\ Goto(c, "record")
    /\ UNCHANGED <<tables, audited>>

\* Faulty variant: the unique violation of a lost create race is caught and ignored.
ReceiveCreateSwallowed(c) ==
    /\ At(c, "receive", "create")
    /\ LockFree(c, call[c].row)
    /\ \/ call[c].row \in present /\ UNCHANGED <<lock, tx>>
       \/ call[c].row \notin present /\ InsertRow(c, call[c].row, Item(c).qty)
    /\ Goto(c, "record")
    /\ UNCHANGED <<tables, audited>>

ReceiveCreate(c) ==
    /\ At(c, "receive", "create")
    /\ LockFree(c, call[c].row)
    /\ \/ call[c].row \in present /\ Fail(c, "conflict")
       \/ call[c].row \notin present /\ InsertRow(c, call[c].row, Item(c).qty) /\ Goto(c, "record")
    /\ UNCHANGED <<tables, audited>>

ReceiveRecord(c) ==
    /\ At(c, "receive", "record")
    /\ WaitsFor(c) = {}
    /\ \/ KeyTaken(c, RawKey(Op(c))) /\ Fail(c, "conflict") /\ UNCHANGED audited
       \/ /\ ~KeyTaken(c, RawKey(Op(c)))
          /\ InsertMovements(c, {NewMovement(c, "RECEIPT", Op(c).to, RawKey(Op(c)))})
          /\ RecordAudit(c)
          /\ Goto(c, "commit")
          /\ UNCHANGED lock
    /\ UNCHANGED tables

----------------------------------------------------------------------------
(* consumeStock and consumeStockWithin *)

ConsumeCheck(c) ==
    /\ At(c, "consume", "check")
    /\ CheckRequest(c, Item(c).qty > 0 /\ Op(c).from.project # Null, "recheck")

\* The same look-up again inside the transaction.
ConsumeRecheck(c) ==
    /\ At(c, "consume", "recheck")
    /\ \/ KeyUsed(RawKey(Op(c))) /\ Fail(c, "replayed")
       \/ ~KeyUsed(RawKey(Op(c))) /\ Goto(c, "find") /\ UNCHANGED <<lock, tx>>
    /\ UNCHANGED <<tables, audited>>

\* Faulty variant: the look-up forgets the project.
ConsumeCandidatesAnywhere(c) == {r \in present : r.material = Item(c).material}

\* findFirst by material and project only: any of the project's rows may be found.
ConsumeCandidates(c) ==
    {r \in present : r.material = Item(c).material /\ r.project = Op(c).from.project}

ConsumeFind(c) ==
    /\ At(c, "consume", "find")
    /\ \/ ConsumeCandidates(c) = {} /\ Fail(c, "rejected")
       \/ /\ \E row \in ConsumeCandidates(c) :
                call' = [call EXCEPT ![c].row = row, ![c].pc = "lock"]
          /\ UNCHANGED <<lock, tx>>
    /\ UNCHANGED <<tables, audited>>

\* Faulty variants: no sufficiency check; a refusal that leaves the transaction open.
ConsumeDecrementUnchecked(c) ==
    /\ At(c, "consume", "lock")
    /\ LockFree(c, call[c].row)
    /\ WriteRow(c, call[c].row, -Item(c).qty)
    /\ Goto(c, "record")
    /\ UNCHANGED <<tables, audited>>

ConsumeDecrementLeaky(c) ==
    /\ At(c, "consume", "lock")
    /\ LockFree(c, call[c].row)
    /\ \/ /\ Current(c, call[c].row) < Item(c).qty
          /\ Reply(c, "rejected")
          /\ WriteRow(c, call[c].row, 0)
       \/ /\ Current(c, call[c].row) >= Item(c).qty
          /\ WriteRow(c, call[c].row, -Item(c).qty)
          /\ Goto(c, "record")
    /\ UNCHANGED <<tables, audited>>

\* SELECT ... FOR UPDATE, the sufficiency check, the conditional decrement.
ConsumeDecrement(c) ==
    /\ At(c, "consume", "lock")
    /\ LockFree(c, call[c].row)
    /\ \/ Current(c, call[c].row) < Item(c).qty /\ Fail(c, "rejected")
       \/ /\ Current(c, call[c].row) >= Item(c).qty
          /\ WriteRow(c, call[c].row, -Item(c).qty)
          /\ Goto(c, "record")
    /\ UNCHANGED <<tables, audited>>

\* Faulty variant: the audit row goes through the global client.
ConsumeRecordAuditedOutside(c) ==
    /\ At(c, "consume", "record")
    /\ WaitsFor(c) = {}
    /\ \/ KeyTaken(c, RawKey(Op(c))) /\ Fail(c, "conflict") /\ UNCHANGED audited
       \/ /\ ~KeyTaken(c, RawKey(Op(c)))
          /\ InsertMovements(c, {NewMovement(c, "CONSUMPTION",
                [project |-> Op(c).from.project, warehouse |-> Null], RawKey(Op(c)))})
          /\ RecordAudit(c)
          /\ Goto(c, "commit")
          /\ UNCHANGED lock
    /\ UNCHANGED tables

\* The movement names the project and no warehouse.  Its audit row is written through the
\* transaction, so Commit adds it; the database may refuse it at any time, and
\* AuditService.record swallows the error.
ConsumeRecord(c) ==
    /\ At(c, "consume", "record")
    /\ WaitsFor(c) = {}
    /\ \/ KeyTaken(c, RawKey(Op(c))) /\ Fail(c, "conflict")
       \/ /\ ~KeyTaken(c, RawKey(Op(c)))
          /\ InsertMovements(c, {NewMovement(c, "CONSUMPTION",
                [project |-> Op(c).from.project, warehouse |-> Null], RawKey(Op(c)))})
          /\ \E step \in {"commit", "refused"} : Goto(c, step)
          /\ UNCHANGED lock
    /\ UNCHANGED <<tables, audited>>

\* Faulty variant: the balance is not read back, and the COMMIT of the aborted
\* transaction, which PostgreSQL carries out as a ROLLBACK, reports no error.
ConsumeReadBackSkipped(c) ==
    /\ At(c, "consume", "refused")
    /\ Fail(c, "ok")
    /\ UNCHANGED <<tables, audited>>

\* A refused audit row has aborted the transaction: the balance row the service reads
\* back for its answer is an error, so nothing is kept and the caller is told.
ConsumeReadBack(c) ==
    /\ At(c, "consume", "refused")
    /\ Fail(c, "aborted")
    /\ UNCHANGED <<tables, audited>>

----------------------------------------------------------------------------
(* transferStock *)

\* Whether the two places differ as the client wrote them: what one side leaves out, the
\* other may have sent as null, which is the same row in the table and not the same value.
MayDiffer(from, to) == {from # to, from # to \/ Null \in {from.project, from.warehouse}}

\* The look-up uses the client's key, the movements are stored under two others.
TransferCheck(c) ==
    /\ At(c, "transfer", "check")
    /\ \E differ \in MayDiffer(Op(c).from, Op(c).to) :
          CheckRequest(c, /\ Item(c).qty > 0
                          /\ ~Nowhere(Op(c).from) /\ ~Nowhere(Op(c).to)
                          /\ differ, "find")

TransferFindSource(c) ==
    /\ At(c, "transfer", "find")
    /\ LET row == RowAt(Item(c).material, Op(c).from)
       IN  \/ ~Visible(c, row) /\ Fail(c, "rejected")
           \/ /\ Visible(c, row)
              /\ call' = [call EXCEPT ![c].row = row, ![c].pc = "lock"]
              /\ UNCHANGED <<lock, tx>>
    /\ UNCHANGED <<tables, audited>>

TransferDecrement(c) ==
    /\ At(c, "transfer", "lock")
    /\ LockFree(c, call[c].row)
    /\ \/ Current(c, call[c].row) < Item(c).qty /\ Fail(c, "rejected")
       \/ /\ Current(c, call[c].row) >= Item(c).qty
          /\ WriteRow(c, call[c].row, -Item(c).qty)
          /\ Goto(c, "findTarget")
    /\ UNCHANGED <<tables, audited>>

TransferFindTarget(c) ==
    /\ At(c, "transfer", "findTarget")
    /\ LET row == RowAt(Item(c).material, Op(c).to)
       IN  call' = [call EXCEPT ![c].row = row,
                                ![c].pc = IF Visible(c, row) THEN "lockTarget" ELSE "createTarget"]
    /\ UNCHANGED <<tables, audited, lock, tx>>

TransferIncrement(c) ==
    /\ At(c, "transfer", "lockTarget")
    /\ LockFree(c, call[c].row)
    /\ WriteRow(c, call[c].row, Item(c).qty)
    /\ Goto(c, "record")
    /\ UNCHANGED <<tables, audited>>

TransferCreate(c) ==
    /\ At(c, "transfer", "createTarget")
    /\ LockFree(c, call[c].row)
    /\ \/ call[c].row \in present /\ Fail(c, "conflict")
       \/ call[c].row \notin present /\ InsertRow(c, call[c].row, Item(c).qty) /\ Goto(c, "record")
    /\ UNCHANGED <<tables, audited>>

\* Faulty variant: only the outgoing leg is recorded.
TransferMovementsOutOnly(c) ==
    {NewMovement(c, "TRANSFER_OUT", Op(c).from, OutKey(Op(c)))}

\* Both movement rows; each names, per column, its own side or else the other one.
TransferMovements(c) ==
    LET from == Op(c).from
        to   == Op(c).to
        out  == [project   |-> Coalesce(from.project, to.project),
                 warehouse |-> Coalesce(from.warehouse, to.warehouse)]
        in   == [project   |-> Coalesce(to.project, from.project),
                 warehouse |-> Coalesce(to.warehouse, from.warehouse)]
    IN  {NewMovement(c, "TRANSFER_OUT", out, OutKey(Op(c))),
         NewMovement(c, "TRANSFER_IN", in, InKey(Op(c)))}

TransferRecord(c) ==
    /\ At(c, "transfer", "record")
    /\ WaitsFor(c) = {}
    /\ \/ KeyTaken(c, OutKey(Op(c))) /\ Fail(c, "conflict") /\ UNCHANGED audited
       \/ /\ ~KeyTaken(c, OutKey(Op(c)))
          /\ InsertMovements(c, TransferMovements(c))
          /\ RecordAudit(c)
          /\ Goto(c, "commit")
          /\ UNCHANGED lock
    /\ UNCHANGED tables

ReceiveStep(c) ==
    \/ ReceiveCheck(c) \/ ReceiveFind(c) \/ ReceiveIncrement(c) \/ ReceiveCreate(c)
    \/ ReceiveRecord(c)

ConsumeStep(c) ==
    \/ ConsumeCheck(c) \/ ConsumeRecheck(c) \/ ConsumeFind(c) \/ ConsumeDecrement(c)
    \/ ConsumeRecord(c) \/ ConsumeReadBack(c)

TransferStep(c) ==
    \/ TransferCheck(c) \/ TransferFindSource(c) \/ TransferDecrement(c)
    \/ TransferFindTarget(c) \/ TransferIncrement(c) \/ TransferCreate(c) \/ TransferRecord(c)
=============================================================================
