---------------------------- MODULE Procurement ----------------------------
(***************************************************************************)
(* ProcurementService.createAviz: one transaction that creates a delivery   *)
(* note and posts each of its items to the project's stock, in the order    *)
(* the client lists them.                                                   *)
(***************************************************************************)
EXTENDS Inventory

\* Faulty variant: a note with the same number is always a conflict.
AvizCheckNumberOnly(c) ==
    /\ At(c, "aviz", "check")
    /\ \/ /\ \E a \in avize : a.project = Op(c).to.project /\ a.number = Op(c).number
          /\ Reply(c, "conflict")
       \/ /\ \A a \in avize : a.project # Op(c).to.project \/ a.number # Op(c).number
          /\ Goto(c, "header")
    /\ UNCHANGED <<tables, audited, lock, tx>>

\* The note's number is looked up before the transaction: the same number is the
\* same note if the idempotency key is also the same, and a conflict otherwise.
AvizCheck(c) ==
    /\ At(c, "aviz", "check")
    /\ LET same == {a \in avize : a.project = Op(c).to.project /\ a.number = Op(c).number}
       IN  \/ same = {} /\ Goto(c, "header")
           \/ /\ \E a \in same : Op(c).key # Null /\ a.key = Op(c).key
              /\ Reply(c, "replayed")
           \/ /\ same # {} /\ \A a \in same : Op(c).key = Null \/ a.key # Op(c).key
              /\ Reply(c, "conflict")
    /\ UNCHANGED <<tables, audited, lock, tx>>

AvizRow(c) == [project |-> Op(c).to.project, number |-> Op(c).number, key |-> Op(c).key, call |-> c]

\* INSERT INTO avize with its items: the unique indexes and chk_aviz_item_quantity_positive.
AvizInsert(c) ==
    /\ At(c, "aviz", "header")
    /\ WaitsFor(c) = {}
    /\ \/ (\E a \in avize : SameAviz(Op(c), a)) /\ Fail(c, "conflict")
       \/ (\E i \in DOMAIN Op(c).items : Op(c).items[i].qty <= 0) /\ Fail(c, "rejected")
       \/ /\ \A a \in avize : ~SameAviz(Op(c), a)
          /\ \A i \in DOMAIN Op(c).items : Op(c).items[i].qty > 0
          /\ tx' = [tx EXCEPT ![c].header = {AvizRow(c)}]
          /\ Goto(c, "find")
          /\ UNCHANGED lock
    /\ UNCHANGED <<tables, audited>>

AvizFind(c) ==
    /\ At(c, "aviz", "find")
    /\ LET row == RowAt(Item(c).material, Op(c).to)
       IN  call' = [call EXCEPT ![c].row = row,
                                ![c].pc = IF Visible(c, row) THEN "lock" ELSE "create"]
    /\ UNCHANGED <<tables, audited, lock, tx>>

AvizIncrement(c) ==
    /\ At(c, "aviz", "lock")
    /\ LockFree(c, call[c].row)
    /\ WriteRow(c, call[c].row, Item(c).qty)
    /\ Goto(c, "record")
    /\ UNCHANGED <<tables, audited>>

AvizCreate(c) ==
    /\ At(c, "aviz", "create")
    /\ LockFree(c, call[c].row)
    /\ \/ call[c].row \in present /\ Fail(c, "conflict")
       \/ call[c].row \notin present /\ InsertRow(c, call[c].row, Item(c).qty) /\ Goto(c, "record")
    /\ UNCHANGED <<tables, audited>>

\* Faulty variant: the loop over the items runs one too far.
AvizRecordPastEnd(c) ==
    /\ At(c, "aviz", "record")
    /\ WaitsFor(c) = {}
    /\ InsertMovements(c, {NewMovement(c, "RECEIPT",
          [project |-> Op(c).to.project, warehouse |-> Null], ItemKey(Op(c), Item(c).material))})
    /\ call' = [call EXCEPT ![c].line = @ + 1, ![c].pc = "find"]
    /\ UNCHANGED <<tables, audited, lock>>

\* The RECEIPT movement of the item; then the next item, or the audit row.
AvizRecord(c) ==
    /\ At(c, "aviz", "record")
    /\ WaitsFor(c) = {}
    /\ LET key == ItemKey(Op(c), Item(c).material)
       IN  \/ KeyTaken(c, key) /\ Fail(c, "conflict") /\ UNCHANGED audited
           \/ /\ ~KeyTaken(c, key)
              /\ InsertMovements(c, {NewMovement(c, "RECEIPT",
                    [project |-> Op(c).to.project, warehouse |-> Null], key)})
              /\ \/ /\ call[c].line < Len(Op(c).items)
                    /\ call' = [call EXCEPT ![c].line = @ + 1, ![c].pc = "find"]
                    /\ UNCHANGED audited
                 \/ /\ call[c].line = Len(Op(c).items)
                    /\ RecordAudit(c)
                    /\ Goto(c, "commit")
              /\ UNCHANGED lock
    /\ UNCHANGED tables

AvizStep(c) ==
    \/ AvizCheck(c) \/ AvizInsert(c) \/ AvizFind(c) \/ AvizIncrement(c) \/ AvizCreate(c)
    \/ AvizRecord(c)
=============================================================================
