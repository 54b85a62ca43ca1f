---------------------------- MODULE StockProofs ----------------------------
(***************************************************************************)
(* Proofs about module Stock, for all materials, sites, balances, keys,     *)
(* requests and numbers of concurrent calls, in four parts: the types, the  *)
(* balances, the calls in the ledger with the refinement of AtomicStock,     *)
(* and the sums of the ledger.                                              *)
(***************************************************************************)
EXTENDS Stock, Sums

(* TypeOK, variable by variable. *)
TablesOK ==
    /\ present \subseteq Rows
    /\ quantity \in [Rows -> Int]
    /\ movements \subseteq Movements
    /\ avize \subseteq Avize
    /\ audited \subseteq Calls

Workspaces == [writes: [Rows -> Int], creates: SUBSET Rows,
               inserts: SUBSET Movements, header: SUBSET Avize]

TxOK ==
    /\ lock \in [Rows -> Calls \cup {Null}]
    /\ tx \in [Calls -> Workspaces]

CallOK ==
    /\ call \in [Calls -> CallStates]
    /\ \A c \in Calls :
          /\ call[c].pc # "free" => call[c].op \in Ops /\ call[c].line \in DOMAIN call[c].op.items
          /\ call[c].pc \in RowWaits => call[c].row \in Rows

\* TypeOK, and a call that waits for a balance row has chosen one.
TypeInv == TablesOK /\ TxOK /\ CallOK

LEMMA TypeInvImpliesTypeOK == TypeInv => TypeOK
BY DEF TypeInv, TypeOK, TablesOK, TxOK, CallOK, Workspaces

----------------------------------------------------------------------------
(* The building blocks of the actions. *)

LEMMA CallUpdateOK ==
    ASSUME CallOK, NEW c \in Calls, NEW s \in CallStates, call' = [call EXCEPT ![c] = s],
           s.op \in Ops, s.line \in DOMAIN s.op.items, s.pc \in RowWaits => s.row \in Rows
    PROVE  CallOK'
<1>1. call' \in [Calls -> CallStates]
  BY DEF CallOK
<1>2. ASSUME NEW d \in Calls
      PROVE  /\ call'[d].pc # "free" =>
                   call'[d].op \in Ops /\ call'[d].line \in DOMAIN call'[d].op.items
             /\ call'[d].pc \in RowWaits => call'[d].row \in Rows
  BY <1>2 DEF CallOK
<1>. QED  BY <1>1, <1>2 DEF CallOK

LEMMA GotoOK ==
    ASSUME CallOK, NEW c \in Calls, NEW step \in Steps \ RowWaits, call[c].pc # "free",
           Goto(c, step)
    PROVE  CallOK'
<1>. DEFINE s == [call[c] EXCEPT !.pc = step]
<1>1. s \in CallStates /\ call' = [call EXCEPT ![c] = s]
  BY DEF CallOK, CallStates, Goto
<1>2. s.op \in Ops /\ s.line \in DOMAIN s.op.items /\ s.pc \notin RowWaits
  BY DEF CallOK, CallStates
<1>. QED  BY <1>1, <1>2, CallUpdateOK

LEMMA ReplyOK ==
    ASSUME CallOK, NEW c \in Calls, NEW answer \in Answers, call[c].pc # "free", Reply(c, answer)
    PROVE  CallOK'
<1>. DEFINE s == [call[c] EXCEPT !.pc = "done", !.answer = answer]
<1>1. s \in CallStates /\ call' = [call EXCEPT ![c] = s]
  BY DEF CallOK, CallStates, Reply, Steps
<1>2. s.op \in Ops /\ s.line \in DOMAIN s.op.items /\ s.pc \notin RowWaits
  BY DEF CallOK, CallStates, RowWaits
<1>. QED  BY <1>1, <1>2, CallUpdateOK

LEMMA NoTxOK == NoTx \in Workspaces
BY DEF NoTx, Workspaces

LEMMA EndTxOK ==
    ASSUME TxOK, NEW c \in Calls, EndTx(c)
    PROVE  TxOK'
BY NoTxOK DEF TxOK, EndTx

LEMMA FailOK ==
    ASSUME TxOK, CallOK, NEW c \in Calls, NEW answer \in Answers, call[c].pc # "free",
           Fail(c, answer)
    PROVE  TxOK' /\ CallOK'
BY EndTxOK, ReplyOK DEF Fail

LEMMA WriteRowOK ==
    ASSUME TxOK, NEW c \in Calls, NEW row \in Rows, NEW delta \in Int, WriteRow(c, row, delta)
    PROVE  TxOK'
<1>1. tx[c] \in Workspaces
  BY DEF TxOK
<1>2. [tx[c] EXCEPT !.writes[row] = tx[c].writes[row] + delta] \in Workspaces
  BY <1>1 DEF Workspaces
<1>3. tx' = [tx EXCEPT ![c] = [tx[c] EXCEPT !.writes[row] = tx[c].writes[row] + delta]]
  BY <1>1 DEF WriteRow, TxOK, Workspaces
<1>. QED  BY <1>2, <1>3 DEF TxOK, WriteRow

LEMMA InsertRowOK ==
    ASSUME TxOK, NEW c \in Calls, NEW row \in Rows, NEW qty \in Int, InsertRow(c, row, qty)
    PROVE  TxOK'
<1>1. tx[c] \in Workspaces
  BY DEF TxOK
<1>2. [tx[c] EXCEPT !.writes[row] = tx[c].writes[row] + qty,
                 !.creates = tx[c].creates \cup {row}] \in Workspaces
  <2>1. [tx[c].writes EXCEPT ![row] = tx[c].writes[row] + qty] \in [Rows -> Int]
    BY <1>1 DEF Workspaces
  <2>2. tx[c].creates \cup {row} \in SUBSET Rows
    BY <1>1 DEF Workspaces
  <2>. QED  BY <1>1, <2>1, <2>2, Zenon DEF Workspaces
<1>3. tx' = [tx EXCEPT ![c] = [tx[c] EXCEPT !.writes[row] = tx[c].writes[row] + qty,
                                            !.creates = tx[c].creates \cup {row}]]
  BY <1>1 DEF InsertRow, TxOK, Workspaces
<1>. QED  BY <1>2, <1>3 DEF TxOK, InsertRow

LEMMA InsertMovementsOK ==
    ASSUME TxOK, NEW c \in Calls, NEW new \in SUBSET Movements, InsertMovements(c, new),
           UNCHANGED lock
    PROVE  TxOK'
<1>1. tx[c] \in Workspaces
  BY DEF TxOK
<1>2. [tx[c] EXCEPT !.inserts = tx[c].inserts \cup new] \in Workspaces
  BY <1>1 DEF Workspaces
<1>3. tx' = [tx EXCEPT ![c] = [tx[c] EXCEPT !.inserts = tx[c].inserts \cup new]]
  BY <1>1 DEF InsertMovements, TxOK, Workspaces
<1>. QED  BY <1>2, <1>3 DEF TxOK

LEMMA ItemOK ==
    ASSUME CallOK, NEW c \in Calls, call[c].pc # "free"
    PROVE  /\ Op(c) \in Operations
           /\ Item(c).material \in Materials
           /\ Item(c).qty \in Int
           /\ call[c].line \in Nat
<1>1. Op(c) \in Operations /\ call[c].line \in DOMAIN Op(c).items
  BY StockAssumption DEF CallOK, Op
<1>2. Op(c).items \in Seq(Items)
  BY <1>1 DEF Operations
<1>3. Item(c) \in Items
  BY <1>1, <1>2 DEF Item
<1>4. call[c].line \in Nat
  BY DEF CallOK, CallStates
<1>. QED  BY <1>1, <1>3, <1>4 DEF Items

\* The rows a request names are balance keys, except that a consumption has no target.
LEMMA RowsNamed ==
    ASSUME CallOK, NEW c \in Calls, call[c].pc # "free"
    PROVE  /\ Op(c).kind = "transfer" => RowAt(Item(c).material, Op(c).from) \in Rows
           /\ Op(c).kind # "consume" => RowAt(Item(c).material, Op(c).to) \in Rows
BY StockAssumption DEF CallOK, Op, Item

LEMMA ChooseRowOK ==
    ASSUME CallOK, NEW c \in Calls, NEW row \in Rows, NEW step \in RowWaits, call[c].pc # "free",
           call' = [call EXCEPT ![c].row = row, ![c].pc = step]
    PROVE  CallOK'
<1>. DEFINE s == [call[c] EXCEPT !.row = row, !.pc = step]
<1>1. s \in CallStates /\ call' = [call EXCEPT ![c] = s]
  BY DEF CallOK, CallStates, Steps, RowWaits
<1>2. s.op \in Ops /\ s.line \in DOMAIN s.op.items /\ s.row \in Rows
  BY DEF CallOK, CallStates
<1>. QED  BY <1>1, <1>2, CallUpdateOK

LedgerKeySpace == (Keys \cup {Null}) \X ({"", "_out", "_in"} \cup Materials)

LEMMA NewMovementOK ==
    ASSUME CallOK, NEW c \in Calls, call[c].pc # "free",
           NEW type \in {"RECEIPT", "CONSUMPTION", "TRANSFER_OUT", "TRANSFER_IN"},
           NEW site \in Sites, NEW key \in LedgerKeySpace
    PROVE  NewMovement(c, type, site, key) \in Movements
BY ItemOK DEF NewMovement, Movements, Sites, LedgerKeySpace

LEMMA KeysOK ==
    ASSUME CallOK, NEW c \in Calls, call[c].pc # "free"
    PROVE  /\ RawKey(Op(c)) \in LedgerKeySpace
           /\ OutKey(Op(c)) \in LedgerKeySpace
           /\ InKey(Op(c)) \in LedgerKeySpace
           /\ ItemKey(Op(c), Item(c).material) \in LedgerKeySpace
<1>1. Op(c).key \in Keys \cup {Null} /\ Item(c).material \in Materials
  BY ItemOK DEF Operations
<1>2. ASSUME NEW k \in Keys \cup {Null}, NEW x \in {"", "_out", "_in"} \cup Materials
      PROVE  <<k, x>> \in LedgerKeySpace
  BY <1>2 DEF LedgerKeySpace
<1>3. {"", "_out", "_in", Item(c).material} \subseteq {"", "_out", "_in"} \cup Materials
  BY <1>1
<1>. QED  BY <1>1, <1>2, <1>3, Zenon DEF RawKey, OutKey, InKey, ItemKey

----------------------------------------------------------------------------
(* Type correctness, action by action. *)

LEMMA CheckType ==
    ASSUME TypeInv, NEW c \in Calls, NEW valid, NEW next \in Steps \ RowWaits,
           call[c].pc = "check", CheckRequest(c, valid, next)
    PROVE  TypeInv'
<1>1. CallOK'
  BY GotoOK, ReplyOK DEF CheckRequest, TypeInv, Answers
<1>. QED  BY <1>1 DEF CheckRequest, TypeInv, TablesOK, TxOK, tables

LEMMA ReceiveType ==
    ASSUME TypeInv, NEW c \in Calls, ReceiveStep(c)
    PROVE  TypeInv'
<1>. USE DEF TypeInv
<1>1. CASE ReceiveCheck(c)
  BY <1>1, CheckType DEF ReceiveCheck, At, Steps, RowWaits
<1>2. CASE ReceiveFind(c)
  <2>1. CallOK'
    BY <1>2, ChooseRowOK, RowsNamed DEF ReceiveFind, At, Op, RowWaits
  <2>. QED  BY <1>2, <2>1 DEF ReceiveFind, TablesOK, TxOK, tables
<1>3. CASE ReceiveIncrement(c)
  <2>1. CallOK'
    BY <1>3, GotoOK DEF ReceiveIncrement, At, Steps, RowWaits
  <2>2. TxOK'
    BY <1>3, WriteRowOK, ItemOK DEF ReceiveIncrement, At, CallOK, RowWaits
  <2>. QED  BY <1>3, <2>1, <2>2 DEF ReceiveIncrement, TablesOK, tables
<1>4. CASE ReceiveCreate(c)
  <2>1. TxOK' /\ CallOK'
    BY <1>4, GotoOK, FailOK, InsertRowOK, ItemOK
       DEF ReceiveCreate, At, CallOK, Steps, RowWaits, Answers
  <2>. QED  BY <1>4, <2>1 DEF ReceiveCreate, TablesOK, tables
<1>5. CASE ReceiveRecord(c)
  <2>1. NewMovement(c, "RECEIPT", Op(c).to, RawKey(Op(c))) \in Movements
    BY <1>5, NewMovementOK, KeysOK, ItemOK DEF ReceiveRecord, At, Operations
  <2>2. TxOK' /\ CallOK'
    BY <1>5, <2>1, GotoOK, FailOK, InsertMovementsOK DEF ReceiveRecord, At, Steps, RowWaits, Answers
  <2>. QED  BY <1>5, <2>2 DEF ReceiveRecord, RecordAudit, TablesOK, tables
<1>. QED  BY <1>1, <1>2, <1>3, <1>4, <1>5 DEF ReceiveStep

LEMMA ConsumeType ==
    ASSUME TypeInv, NEW c \in Calls, ConsumeStep(c)
    PROVE  TypeInv'
<1>. USE DEF TypeInv
<1>1. CASE ConsumeCheck(c)
  BY <1>1, CheckType DEF ConsumeCheck, At, Steps, RowWaits
<1>2. CASE ConsumeRecheck(c)
  <2>1. TxOK' /\ CallOK'
    BY <1>2, GotoOK, FailOK DEF ConsumeRecheck, At, TxOK, Steps, RowWaits, Answers
  <2>. QED  BY <1>2, <2>1 DEF ConsumeRecheck, TablesOK, tables
<1>3. CASE ConsumeFind(c)
  <2>1. ConsumeCandidates(c) \subseteq Rows
    BY DEF ConsumeCandidates, TablesOK
  <2>2. TxOK' /\ CallOK'
    BY <1>3, <2>1, ChooseRowOK, FailOK DEF ConsumeFind, At, TxOK, RowWaits, Answers
  <2>. QED  BY <1>3, <2>2 DEF ConsumeFind, TablesOK, tables
<1>4. CASE ConsumeDecrement(c)
  <2>1. call[c].row \in Rows /\ -Item(c).qty \in Int
    BY <1>4, ItemOK DEF ConsumeDecrement, At, CallOK, RowWaits
  <2>2. TxOK' /\ CallOK'
    BY <1>4, <2>1, GotoOK, FailOK, WriteRowOK DEF ConsumeDecrement, At, Steps, RowWaits, Answers
  <2>. QED  BY <1>4, <2>2 DEF ConsumeDecrement, TablesOK, tables
<1>5. CASE ConsumeRecord(c)
  <2>1. [project |-> Op(c).from.project, warehouse |-> Null] \in Sites
    BY <1>5, ItemOK DEF ConsumeRecord, At, Operations, Sites
  <2>2. TxOK' /\ CallOK'
    BY <1>5, <2>1, NewMovementOK, KeysOK, GotoOK, FailOK, InsertMovementsOK
       DEF ConsumeRecord, At, Steps, RowWaits, Answers
  <2>. QED  BY <1>5, <2>2 DEF ConsumeRecord, TablesOK, tables
<1>6. CASE ConsumeReadBack(c)
  <2>1. TxOK' /\ CallOK'
    BY <1>6, FailOK DEF ConsumeReadBack, At, Answers
  <2>. QED  BY <1>6, <2>1 DEF ConsumeReadBack, TablesOK, tables
<1>. QED  BY <1>1, <1>2, <1>3, <1>4, <1>5, <1>6 DEF ConsumeStep

LEMMA TransferMovementsOK ==
    ASSUME CallOK, NEW c \in Calls, call[c].pc # "free"
    PROVE  TransferMovements(c) \in SUBSET Movements
<1>. DEFINE out == [project   |-> Coalesce(Op(c).from.project, Op(c).to.project),
                    warehouse |-> Coalesce(Op(c).from.warehouse, Op(c).to.warehouse)]
            in  == [project   |-> Coalesce(Op(c).to.project, Op(c).from.project),
                    warehouse |-> Coalesce(Op(c).to.warehouse, Op(c).from.warehouse)]
<1>1. out \in Sites /\ in \in Sites
  BY ItemOK DEF Operations, Sites, Coalesce
<1>. HIDE DEF out, in
<1>2. /\ NewMovement(c, "TRANSFER_OUT", out, OutKey(Op(c))) \in Movements
      /\ NewMovement(c, "TRANSFER_IN", in, InKey(Op(c))) \in Movements
  BY <1>1, NewMovementOK, KeysOK
<1>. QED  BY <1>2 DEF TransferMovements, out, in

LEMMA TransferType ==
    ASSUME TypeInv, NEW c \in Calls, TransferStep(c)
    PROVE  TypeInv'
<1>. USE DEF TypeInv
<1>1. CASE TransferCheck(c)
  BY <1>1, CheckType DEF TransferCheck, At, Steps, RowWaits
<1>2. CASE TransferFindSource(c)
  <2>1. TxOK' /\ CallOK'
    BY <1>2, ChooseRowOK, RowsNamed, FailOK DEF TransferFindSource, At, Op, TxOK, RowWaits, Answers
  <2>. QED  BY <1>2, <2>1 DEF TransferFindSource, TablesOK, tables
<1>3. CASE TransferDecrement(c)
  <2>1. call[c].row \in Rows /\ -Item(c).qty \in Int
    BY <1>3, ItemOK DEF TransferDecrement, At, CallOK, RowWaits
  <2>2. TxOK' /\ CallOK'
    BY <1>3, <2>1, GotoOK, FailOK, WriteRowOK DEF TransferDecrement, At, Steps, RowWaits, Answers
  <2>. QED  BY <1>3, <2>2 DEF TransferDecrement, TablesOK, tables
<1>4. CASE TransferFindTarget(c)
  <2>1. CallOK'
    BY <1>4, ChooseRowOK, RowsNamed DEF TransferFindTarget, At, Op, RowWaits
  <2>. QED  BY <1>4, <2>1 DEF TransferFindTarget, TablesOK, TxOK, tables
<1>5. CASE TransferIncrement(c)
  <2>1. call[c].row \in Rows /\ Item(c).qty \in Int
    BY <1>5, ItemOK DEF TransferIncrement, At, CallOK, RowWaits
  <2>2. TxOK' /\ CallOK'
    BY <1>5, <2>1, GotoOK, WriteRowOK DEF TransferIncrement, At, Steps, RowWaits
  <2>. QED  BY <1>5, <2>2 DEF TransferIncrement, TablesOK, tables
<1>6. CASE TransferCreate(c)
  <2>1. call[c].row \in Rows /\ Item(c).qty \in Int
    BY <1>6, ItemOK DEF TransferCreate, At, CallOK, RowWaits
  <2>2. TxOK' /\ CallOK'
    BY <1>6, <2>1, GotoOK, FailOK, InsertRowOK DEF TransferCreate, At, Steps, RowWaits, Answers
  <2>. QED  BY <1>6, <2>2 DEF TransferCreate, TablesOK, tables
<1>7. CASE TransferRecord(c)
  <2>1. TxOK' /\ CallOK'
    BY <1>7, TransferMovementsOK, GotoOK, FailOK, InsertMovementsOK
       DEF TransferRecord, At, Steps, RowWaits, Answers
  <2>. QED  BY <1>7, <2>1 DEF TransferRecord, RecordAudit, TablesOK, tables
<1>. QED  BY <1>1, <1>2, <1>3, <1>4, <1>5, <1>6, <1>7 DEF TransferStep

LEMMA NextItemOK ==
    ASSUME CallOK, NEW c \in Calls, call[c].pc # "free", call[c].line < Len(Op(c).items),
           call' = [call EXCEPT ![c].line = @ + 1, ![c].pc = "find"]
    PROVE  CallOK'
<1>. DEFINE s == [call[c] EXCEPT !.line = call[c].line + 1, !.pc = "find"]
<1>1. Op(c).items \in Seq(Items) /\ call[c].line \in Nat /\ call[c].line >= 1
  <2>1. Op(c).items \in Seq(Items) /\ call[c].line \in DOMAIN Op(c).items
    BY ItemOK DEF Operations, CallOK, Op
  <2>. QED  BY <2>1
<1>2. s \in CallStates /\ call' = [call EXCEPT ![c] = s]
  <2>1. call[c].line + 1 \in Nat /\ "find" \in Steps
    BY <1>1 DEF Steps
  <2>2. s \in CallStates
    BY <2>1 DEF CallOK, CallStates
  <2>3. call' = [call EXCEPT ![c] = s]
    BY DEF CallOK, CallStates
  <2>. QED  BY <2>2, <2>3
<1>3. s.line \in DOMAIN s.op.items
  BY <1>1 DEF CallOK, CallStates, Op
<1>4. s.op \in Ops /\ s.pc \notin RowWaits
  BY DEF CallOK, CallStates, RowWaits
<1>. QED  BY <1>2, <1>3, <1>4, CallUpdateOK

LEMMA HeaderOK ==
    ASSUME TxOK, CallOK, NEW c \in Calls, call[c].pc # "free", UNCHANGED lock,
           tx' = [tx EXCEPT ![c].header = {AvizRow(c)}]
    PROVE  TxOK'
<1>1. AvizRow(c) \in Avize
  BY ItemOK DEF AvizRow, Avize, Operations, Sites
<1>2. tx[c] \in Workspaces
  BY DEF TxOK
<1>3. [tx[c] EXCEPT !.header = {AvizRow(c)}] \in Workspaces
  BY <1>1, <1>2 DEF Workspaces
<1>. QED  BY <1>3 DEF TxOK

LEMMA AvizType ==
    ASSUME TypeInv, NEW c \in Calls, AvizStep(c)
    PROVE  TypeInv'
<1>. USE DEF TypeInv
<1>1. CASE AvizCheck(c)
  <2>1. CallOK'
    BY <1>1, GotoOK, ReplyOK DEF AvizCheck, At, Steps, RowWaits, Answers
  <2>. QED  BY <1>1, <2>1 DEF AvizCheck, TablesOK, TxOK, tables
<1>2. CASE AvizInsert(c)
  <2>1. TxOK' /\ CallOK'
    BY <1>2, GotoOK, FailOK, HeaderOK DEF AvizInsert, At, Steps, RowWaits, Answers
  <2>. QED  BY <1>2, <2>1 DEF AvizInsert, TablesOK, tables
<1>3. CASE AvizFind(c)
  <2>1. CallOK'
    BY <1>3, ChooseRowOK, RowsNamed DEF AvizFind, At, Op, RowWaits
  <2>. QED  BY <1>3, <2>1 DEF AvizFind, TablesOK, TxOK, tables
<1>4. CASE AvizIncrement(c)
  <2>1. call[c].row \in Rows /\ Item(c).qty \in Int
    BY <1>4, ItemOK DEF AvizIncrement, At, CallOK, RowWaits
  <2>2. TxOK' /\ CallOK'
    BY <1>4, <2>1, GotoOK, WriteRowOK DEF AvizIncrement, At, Steps, RowWaits
  <2>. QED  BY <1>4, <2>2 DEF AvizIncrement, TablesOK, tables
<1>5. CASE AvizCreate(c)
  <2>1. call[c].row \in Rows /\ Item(c).qty \in Int
    BY <1>5, ItemOK DEF AvizCreate, At, CallOK, RowWaits
  <2>2. TxOK' /\ CallOK'
    BY <1>5, <2>1, GotoOK, FailOK, InsertRowOK DEF AvizCreate, At, Steps, RowWaits, Answers
  <2>. QED  BY <1>5, <2>2 DEF AvizCreate, TablesOK, tables
<1>6. CASE AvizRecord(c)
  <2>1. [project |-> Op(c).to.project, warehouse |-> Null] \in Sites
    BY <1>6, ItemOK DEF AvizRecord, At, Operations, Sites
  <2>2. NewMovement(c, "RECEIPT", [project |-> Op(c).to.project, warehouse |-> Null],
                    ItemKey(Op(c), Item(c).material)) \in Movements
    BY <1>6, <2>1, NewMovementOK, KeysOK DEF AvizRecord, At
  <2>3. TxOK' /\ CallOK'
    BY <1>6, <2>2, GotoOK, FailOK, InsertMovementsOK, NextItemOK
       DEF AvizRecord, At, Steps, RowWaits, Answers
  <2>. QED  BY <1>6, <2>3 DEF AvizRecord, RecordAudit, TablesOK, tables
<1>. QED  BY <1>1, <1>2, <1>3, <1>4, <1>5, <1>6 DEF AvizStep

LEMMA CommitType ==
    ASSUME TypeInv, NEW c \in Calls, Commit(c)
    PROVE  TypeInv'
<1>. USE DEF TypeInv
<1>1. tx[c] \in Workspaces
  BY DEF TxOK
<1>2. TablesOK'
  BY <1>1 DEF Commit, TablesOK, Workspaces, tables
<1>3. TxOK' /\ CallOK'
  BY EndTxOK, ReplyOK DEF Commit, Answers
<1>. QED  BY <1>2, <1>3

LEMMA BeginType ==
    ASSUME TypeInv, NEW c \in Calls, Begin(c)
    PROVE  TypeInv'
<1>. USE DEF TypeInv
<1>1. PICK op \in Ops, b \in BOOLEAN :
        call' = [call EXCEPT ![c] = [op |-> op, pc |-> "check", line |-> 1, row |-> Null,
                                     answer |-> Null, retry |-> b]]
  BY DEF Begin
<1>2. 1 \in DOMAIN op.items
  <2>1. op.items \in Seq(Items) /\ op.items # <<>>
    BY StockAssumption DEF Operations
  <2>. QED  BY <2>1
<1>. DEFINE s == [op |-> op, pc |-> "check", line |-> 1, row |-> Null, answer |-> Null, retry |-> b]
<1>3. s \in CallStates
  BY DEF CallStates, Steps, Answers
<1>4. CallOK'
  <2>1. s.op \in Ops /\ s.line \in DOMAIN s.op.items /\ s.pc \notin RowWaits
    BY <1>2 DEF RowWaits
  <2>. QED  BY <1>1, <1>3, <2>1, CallUpdateOK
<1>. QED  BY <1>4 DEF Begin, TablesOK, TxOK, tables

LEMMA AbortType ==
    ASSUME TypeInv, NEW c \in Calls, Abort(c) \/ AbortDeadlocked(c), call[c].pc # "free"
    PROVE  TypeInv'
BY FailOK DEF Abort, AbortDeadlocked, TypeInv, TablesOK, tables, Answers

\* A call on a cycle of waiters has begun.
LEMMA WaitersHaveBegun ==
    ASSUME TypeInv, NEW c \in Calls, Deadlocked(c)
    PROVE  call[c].pc # "free"
<1>1. PICK S \in SUBSET Calls : c \in S /\ \A d \in S : S \cap WaitsFor(d) # {}
  BY DEF Deadlocked
<1>2. WaitsFor(c) # {}
  BY <1>1
<1>. QED  BY <1>2 DEF WaitsFor, RowWaits

LEMMA InitType == Init => TypeInv
<1>. SUFFICES ASSUME Init PROVE TypeInv
  OBVIOUS
<1>. USE DEF Init, StockDbInit
<1>1. TablesOK
  BY StockAssumption DEF TablesOK
<1>2. TxOK
  BY NoTxOK DEF TxOK
<1>3. CallOK
  BY DEF CallOK, CallStates, Steps, Answers, RowWaits
<1>. QED  BY <1>1, <1>2, <1>3 DEF TypeInv

LEMMA NextType == TypeInv /\ [Next]_vars => TypeInv'
<1>. SUFFICES ASSUME TypeInv, [Next]_vars PROVE TypeInv'
  OBVIOUS
<1>1. CASE UNCHANGED vars
  BY <1>1 DEF TypeInv, TablesOK, TxOK, CallOK, vars, tables
<1>2. ASSUME NEW c \in Calls, Begin(c) PROVE TypeInv'
  BY <1>2, BeginType
<1>3. ASSUME NEW c \in Calls, Step(c) PROVE TypeInv'
  BY <1>3, ReceiveType, ConsumeType, TransferType, AvizType, CommitType DEF Step
<1>4. ASSUME NEW c \in Calls, Abort(c) PROVE TypeInv'
  BY <1>4, AbortType DEF Abort, InTransaction
<1>5. ASSUME NEW c \in Calls, AbortDeadlocked(c) PROVE TypeInv'
  BY <1>5, AbortType, WaitersHaveBegun DEF AbortDeadlocked
<1>. QED  BY <1>1, <1>2, <1>3, <1>4, <1>5 DEF Next, Finished

\* Every reachable state is well typed: a call is always at an item of its own request,
\* and waits only for balance rows that exist.
THEOREM TypeCorrect == Spec => []TypeOK
<1>1. TypeInv /\ [Next]_vars => TypeInv'
  BY NextType
<1>. QED  BY InitType, <1>1, TypeInvImpliesTypeOK, PTL DEF Spec

----------------------------------------------------------------------------
(* No interleaving overdraws a balance.  NeverOverdrawn is not inductive: it  *)
(* needs that whoever has written a row holds its lock, so that a decrement    *)
(* checked under the lock cannot meet another transaction's, and that a call   *)
(* past its first check moves a positive quantity.                             *)

Owned == \A c \in Calls, r \in Rows :
            tx[c].writes[r] # 0 \/ r \in tx[c].creates => lock[r] = c

Working == Steps \ {"free", "check", "header", "done"}

PositiveItems(c) ==
    /\ Item(c).qty > 0
    /\ Op(c).kind = "aviz" => \A i \in DOMAIN Op(c).items : Op(c).items[i].qty > 0

Positive == \A c \in Calls : call[c].pc \in Working => PositiveItems(c)

Balanced == TypeInv /\ Owned /\ NeverOverdrawn

LEMMA WritesAreInts ==
    ASSUME TypeInv, NEW c \in Calls, NEW r \in Rows
    PROVE  tx[c].writes[r] \in Int /\ quantity[r] \in Int
BY DEF TypeInv, TxOK, TablesOK, Workspaces

\* One row of one transaction changes, under that row's lock, to something it can cover.
LEMMA WriteKeepsBalanced ==
    ASSUME Balanced, NEW c \in Calls, NEW row \in Rows, NEW delta \in Int,
           LockFree(c, row), Current(c, row) + delta >= 0,
           lock' = [lock EXCEPT ![row] = c],
           \A d \in Calls : \A r \in Rows :
              tx'[d].writes[r] = IF d = c /\ r = row THEN tx[d].writes[r] + delta
                                                    ELSE tx[d].writes[r],
           \A d \in Calls : \A r \in tx'[d].creates : r \in tx[d].creates \/ (d = c /\ r = row),
           quantity' = quantity
    PROVE  Owned' /\ NeverOverdrawn'
<1>. USE DEF Balanced
<1>1. lock \in [Rows -> Calls \cup {Null}]
  BY DEF TypeInv, TxOK
<1>2. ASSUME NEW d \in Calls, NEW r \in Rows, tx'[d].writes[r] # 0 \/ r \in tx'[d].creates
      PROVE  lock'[r] = d
  <2>1. CASE r = row
    <3>1. d = c
      BY <1>2, <2>1, StockAssumption DEF Owned, LockFree
    <3>. QED  BY <3>1, <2>1, <1>1
  <2>2. CASE r # row
    BY <1>1, <1>2, <2>2 DEF Owned
  <2>. QED  BY <2>1, <2>2
<1>3. ASSUME NEW d \in Calls, NEW r \in Rows
      PROVE  quantity'[r] >= 0 /\ quantity'[r] + tx'[d].writes[r] >= 0
  <2>1. CASE d = c /\ r = row
    BY <2>1, WritesAreInts DEF NeverOverdrawn, Current
  <2>2. CASE ~(d = c /\ r = row)
    BY <2>2, WritesAreInts DEF NeverOverdrawn
  <2>. QED  BY <2>1, <2>2
<1>. QED  BY <1>2, <1>3 DEF Owned, NeverOverdrawn

LEMMA WriteRowBalanced ==
    ASSUME Balanced, NEW c \in Calls, NEW row \in Rows, NEW delta \in Int,
           LockFree(c, row), Current(c, row) + delta >= 0, WriteRow(c, row, delta),
           quantity' = quantity
    PROVE  Owned' /\ NeverOverdrawn'
<1>1. \A d \in Calls : tx[d] \in Workspaces
  BY DEF Balanced, TypeInv, TxOK
<1>2. tx' = [tx EXCEPT ![c] = [tx[c] EXCEPT !.writes[row] = tx[c].writes[row] + delta]]
  BY <1>1 DEF WriteRow, Workspaces
<1>3. /\ \A d \in Calls : \A r \in Rows :
            tx'[d].writes[r] = IF d = c /\ r = row THEN tx[d].writes[r] + delta
                                                   ELSE tx[d].writes[r]
      /\ \A d \in Calls : tx'[d].creates = tx[d].creates
  BY <1>1, <1>2 DEF Balanced, TypeInv, TxOK, Workspaces
<1>4. lock' = [lock EXCEPT ![row] = c]
  BY DEF WriteRow
<1>. QED  BY <1>3, <1>4, WriteKeepsBalanced

LEMMA InsertRowBalanced ==
    ASSUME Balanced, NEW c \in Calls, NEW row \in Rows, NEW qty \in Int, qty >= 0,
           LockFree(c, row), InsertRow(c, row, qty), quantity' = quantity
    PROVE  Owned' /\ NeverOverdrawn'
<1>1. \A d \in Calls : tx[d] \in Workspaces
  BY DEF Balanced, TypeInv, TxOK
<1>2. tx' = [tx EXCEPT ![c] = [tx[c] EXCEPT !.writes[row] = tx[c].writes[row] + qty,
                                            !.creates = tx[c].creates \cup {row}]]
  BY <1>1 DEF InsertRow, Workspaces
<1>3. /\ \A d \in Calls : \A r \in Rows :
            tx'[d].writes[r] = IF d = c /\ r = row THEN tx[d].writes[r] + qty
                                                   ELSE tx[d].writes[r]
      /\ \A d \in Calls : \A r \in tx'[d].creates : r \in tx[d].creates \/ (d = c /\ r = row)
  BY <1>1, <1>2 DEF Balanced, TypeInv, TxOK, Workspaces
<1>4. Current(c, row) + qty >= 0
  BY WritesAreInts DEF Balanced, NeverOverdrawn, Current
<1>5. lock' = [lock EXCEPT ![row] = c]
  BY DEF InsertRow
<1>. QED  BY <1>3, <1>4, <1>5, WriteKeepsBalanced

\* Statements that write other tables, and statements that write nothing.
LEMMA SameWritesBalanced ==
    ASSUME Balanced, quantity' = quantity, lock' = lock,
           \A d \in Calls : tx'[d].writes = tx[d].writes /\ tx'[d].creates = tx[d].creates
    PROVE  Owned' /\ NeverOverdrawn'
BY DEF Balanced, Owned, NeverOverdrawn

LEMMA InsertMovementsBalanced ==
    ASSUME Balanced, NEW c \in Calls, NEW new, InsertMovements(c, new),
           quantity' = quantity, lock' = lock
    PROVE  Owned' /\ NeverOverdrawn'
<1>1. \A d \in Calls : tx'[d].writes = tx[d].writes /\ tx'[d].creates = tx[d].creates
  BY DEF Balanced, TypeInv, TxOK, Workspaces, InsertMovements
<1>. QED  BY <1>1, SameWritesBalanced

LEMMA FailBalanced ==
    ASSUME Balanced, NEW c \in Calls, EndTx(c), quantity' = quantity
    PROVE  Owned' /\ NeverOverdrawn'
<1>1. \A d \in Calls : tx'[d] = IF d = c THEN NoTx ELSE tx[d]
  BY DEF EndTx, Balanced, TypeInv, TxOK
<1>2. Owned'
  BY <1>1 DEF Balanced, Owned, EndTx, NoTx
<1>3. NeverOverdrawn'
  BY <1>1, WritesAreInts DEF Balanced, NeverOverdrawn, NoTx
<1>. QED  BY <1>2, <1>3

\* The writes of a transaction become the balances; nobody else has written those rows.
LEMMA CommitBalanced ==
    ASSUME Balanced, NEW c \in Calls, Commit(c)
    PROVE  Owned' /\ NeverOverdrawn'
<1>1. \A d \in Calls : tx'[d] = IF d = c THEN NoTx ELSE tx[d]
  BY DEF Commit, EndTx, Balanced, TypeInv, TxOK
<1>2. Owned'
  BY <1>1 DEF Balanced, Owned, Commit, EndTx, NoTx
<1>3. ASSUME NEW r \in Rows, NEW d \in Calls
      PROVE  quantity'[r] >= 0 /\ quantity'[r] + tx'[d].writes[r] >= 0
  <2>1. quantity'[r] = quantity[r] + tx[c].writes[r]
    BY DEF Commit
  <2>2. CASE tx[c].writes[r] = 0 \/ d = c
    BY <1>1, <2>1, <2>2, WritesAreInts DEF Balanced, NeverOverdrawn, NoTx
  <2>3. CASE tx[c].writes[r] # 0 /\ d # c
    <3>1. tx[d].writes[r] = 0
      BY <2>3 DEF Balanced, Owned
    <3>. QED  BY <1>1, <2>1, <2>3, <3>1, WritesAreInts DEF Balanced, NeverOverdrawn
  <2>. QED  BY <2>2, <2>3
<1>4. NeverOverdrawn'
  BY <1>3 DEF NeverOverdrawn
<1>. QED  BY <1>2, <1>4

LEMMA GotoPositive ==
    ASSUME CallOK, Positive, NEW c \in Calls, NEW step, Goto(c, step),
           call[c].pc \in Working \/ step \notin Working \/ PositiveItems(c)
    PROVE  Positive'
<1>1. \A d \in Calls : /\ call'[d].op = call[d].op /\ call'[d].line = call[d].line
                       /\ call'[d].pc = IF d = c THEN step ELSE call[d].pc
  BY DEF Goto, CallOK, CallStates
<1>. QED  BY <1>1 DEF Positive, PositiveItems, Item, Op

LEMMA ReplyPositive ==
    ASSUME CallOK, Positive, NEW c \in Calls, NEW answer, Reply(c, answer)
    PROVE  Positive'
<1>1. \A d \in Calls : /\ call'[d].op = call[d].op /\ call'[d].line = call[d].line
                       /\ call'[d].pc = IF d = c THEN "done" ELSE call[d].pc
  BY DEF Reply, CallOK, CallStates
<1>. QED  BY <1>1 DEF Positive, PositiveItems, Item, Op, Working

LEMMA ChooseRowPositive ==
    ASSUME CallOK, Positive, NEW c \in Calls, NEW row, NEW step, call[c].pc \in Working,
           call' = [call EXCEPT ![c].row = row, ![c].pc = step]
    PROVE  Positive'
<1>1. \A d \in Calls : /\ call'[d].op = call[d].op /\ call'[d].line = call[d].line
                       /\ d # c => call'[d].pc = call[d].pc
  BY DEF CallOK, CallStates
<1>. QED  BY <1>1 DEF Positive, PositiveItems, Item, Op

LEMMA NextItemPositive ==
    ASSUME CallOK, Positive, NEW c \in Calls, call[c].pc \in Working, Op(c).kind = "aviz",
           call' = [call EXCEPT ![c].line = @ + 1, ![c].pc = "find"], CallOK'
    PROVE  Positive'
<1>1. /\ \A d \in Calls : /\ call'[d].op = call[d].op
                          /\ d # c => call'[d].pc = call[d].pc /\ call'[d].line = call[d].line
      /\ call'[c].pc = "find"
  BY DEF CallOK, CallStates
<1>2. call'[c].line \in DOMAIN Op(c).items
  BY <1>1 DEF CallOK, Op
<1>3. PositiveItems(c)'
  BY <1>1, <1>2 DEF Positive, PositiveItems, Item, Op
<1>. QED  BY <1>1, <1>3 DEF Positive, PositiveItems, Item, Op

StockInv == Balanced /\ Positive

LEMMA CheckInv ==
    ASSUME StockInv, NEW c \in Calls, NEW valid, NEW next, call[c].pc = "check",
           Op(c).kind # "aviz", valid => Item(c).qty > 0, CheckRequest(c, valid, next)
    PROVE  Owned' /\ NeverOverdrawn' /\ Positive'
<1>1. Positive'
  BY GotoPositive, ReplyPositive, ItemOK
     DEF CheckRequest, StockInv, Balanced, TypeInv, PositiveItems
<1>2. Owned' /\ NeverOverdrawn'
  BY SameWritesBalanced DEF CheckRequest, tables, StockInv
<1>. QED  BY <1>1, <1>2

LEMMA ReceiveInv ==
    ASSUME StockInv, NEW c \in Calls, ReceiveStep(c)
    PROVE  Owned' /\ NeverOverdrawn' /\ Positive'
<1>. USE DEF StockInv
<1>0. CallOK
  BY DEF Balanced, TypeInv
<1>1. CASE ReceiveCheck(c)
  BY <1>1, CheckInv DEF ReceiveCheck, At, Op
<1>2. CASE ReceiveFind(c)
  <2>1. Positive'
    BY <1>0, <1>2, ChooseRowPositive DEF ReceiveFind, At, Working, Steps
  <2>2. Owned' /\ NeverOverdrawn'
    BY <1>2, SameWritesBalanced DEF ReceiveFind, tables
  <2>. QED  BY <2>1, <2>2
<1>3. CASE ReceiveIncrement(c)
  <2>1. call[c].pc \in Working /\ call[c].row \in Rows /\ Item(c).qty \in Int /\ Item(c).qty > 0
    BY <1>0, <1>3, ItemOK
       DEF ReceiveIncrement, At, Working, Steps, CallOK, RowWaits, Positive, PositiveItems
  <2>2. Current(c, call[c].row) + Item(c).qty >= 0
    BY <2>1, WritesAreInts DEF Balanced, NeverOverdrawn, Current
  <2>3. Owned' /\ NeverOverdrawn'
    BY <1>3, <2>1, <2>2, WriteRowBalanced DEF ReceiveIncrement, tables
  <2>. QED  BY <1>0, <1>3, <2>1, <2>3, GotoPositive DEF ReceiveIncrement
<1>4. CASE ReceiveCreate(c)
  <2>1. call[c].pc \in Working /\ call[c].row \in Rows /\ Item(c).qty \in Int /\ Item(c).qty > 0
    BY <1>0, <1>4, ItemOK
       DEF ReceiveCreate, At, Working, Steps, CallOK, RowWaits, Positive, PositiveItems
  <2>2. Owned' /\ NeverOverdrawn'
    BY <1>4, <2>1, InsertRowBalanced, FailBalanced DEF ReceiveCreate, Fail, tables
  <2>. QED  BY <1>0, <1>4, <2>1, <2>2, GotoPositive, ReplyPositive DEF ReceiveCreate, Fail
<1>5. CASE ReceiveRecord(c)
  <2>1. Owned' /\ NeverOverdrawn'
    BY <1>5, InsertMovementsBalanced, FailBalanced DEF ReceiveRecord, Fail, tables
  <2>. QED  BY <1>0, <1>5, <2>1, GotoPositive, ReplyPositive
            DEF ReceiveRecord, Fail, At, Working, Steps
<1>. QED  BY <1>1, <1>2, <1>3, <1>4, <1>5 DEF ReceiveStep

LEMMA ConsumeInv ==
    ASSUME StockInv, NEW c \in Calls, ConsumeStep(c)
    PROVE  Owned' /\ NeverOverdrawn' /\ Positive'
<1>. USE DEF StockInv
<1>0. CallOK
  BY DEF Balanced, TypeInv
<1>1. CASE ConsumeCheck(c)
  BY <1>1, CheckInv DEF ConsumeCheck, At, Op
<1>2. CASE ConsumeRecheck(c)
  <2>1. Owned' /\ NeverOverdrawn'
    BY <1>2, FailBalanced, SameWritesBalanced DEF ConsumeRecheck, Fail, tables
  <2>. QED  BY <1>0, <1>2, <2>1, GotoPositive, ReplyPositive
            DEF ConsumeRecheck, Fail, At, Working, Steps
<1>3. CASE ConsumeFind(c)
  <2>1. Owned' /\ NeverOverdrawn'
    BY <1>3, FailBalanced, SameWritesBalanced DEF ConsumeFind, Fail, tables
  <2>. QED  BY <1>0, <1>3, <2>1, ChooseRowPositive, ReplyPositive
            DEF ConsumeFind, Fail, At, Working, Steps
<1>4. CASE ConsumeDecrement(c)
  <2>1. call[c].pc \in Working /\ call[c].row \in Rows /\ Item(c).qty \in Int
    BY <1>0, <1>4, ItemOK DEF ConsumeDecrement, At, Working, Steps, CallOK, RowWaits
  <2>2. CASE Fail(c, "rejected")
    BY <1>0, <1>4, <2>2, FailBalanced, ReplyPositive DEF ConsumeDecrement, Fail, tables
  <2>3. CASE Current(c, call[c].row) >= Item(c).qty /\ WriteRow(c, call[c].row, -Item(c).qty)
    <3>1. -Item(c).qty \in Int /\ Current(c, call[c].row) + (-Item(c).qty) >= 0
      BY <2>1, <2>3, WritesAreInts DEF Balanced, Current
    <3>2. Owned' /\ NeverOverdrawn'
      BY <1>4, <2>1, <2>3, <3>1, WriteRowBalanced DEF ConsumeDecrement, tables
    <3>3. Goto(c, "record") \/ Fail(c, "rejected")
      BY <1>4 DEF ConsumeDecrement
    <3>. QED  BY <1>0, <2>1, <3>2, <3>3, GotoPositive, ReplyPositive DEF Fail
  <2>. QED  BY <1>4, <2>2, <2>3 DEF ConsumeDecrement
<1>5. CASE ConsumeRecord(c)
  <2>1. Owned' /\ NeverOverdrawn'
    BY <1>5, InsertMovementsBalanced, FailBalanced DEF ConsumeRecord, Fail, tables
  <2>. QED  BY <1>0, <1>5, <2>1, GotoPositive, ReplyPositive
            DEF ConsumeRecord, Fail, At, Working, Steps
<1>6. CASE ConsumeReadBack(c)
  <2>1. Owned' /\ NeverOverdrawn'
    BY <1>6, FailBalanced DEF ConsumeReadBack, Fail, tables
  <2>. QED  BY <1>0, <1>6, <2>1, ReplyPositive DEF ConsumeReadBack, Fail
<1>. QED  BY <1>1, <1>2, <1>3, <1>4, <1>5, <1>6 DEF ConsumeStep

LEMMA TransferInv ==
    ASSUME StockInv, NEW c \in Calls, TransferStep(c)
    PROVE  Owned' /\ NeverOverdrawn' /\ Positive'
<1>. USE DEF StockInv
<1>0. CallOK
  BY DEF Balanced, TypeInv
<1>1. CASE TransferCheck(c)
  BY <1>1, CheckInv DEF TransferCheck, At, Op
<1>2. CASE TransferFindSource(c)
  <2>1. Owned' /\ NeverOverdrawn'
    BY <1>2, FailBalanced, SameWritesBalanced DEF TransferFindSource, Fail, tables
  <2>. QED  BY <1>0, <1>2, <2>1, ChooseRowPositive, ReplyPositive
            DEF TransferFindSource, Fail, At, Working, Steps
<1>3. CASE TransferDecrement(c)
  <2>1. call[c].pc \in Working /\ call[c].row \in Rows /\ Item(c).qty \in Int
    BY <1>0, <1>3, ItemOK DEF TransferDecrement, At, Working, Steps, CallOK, RowWaits
  <2>2. CASE Fail(c, "rejected")
    BY <1>0, <1>3, <2>2, FailBalanced, ReplyPositive DEF TransferDecrement, Fail, tables
  <2>3. CASE Current(c, call[c].row) >= Item(c).qty /\ WriteRow(c, call[c].row, -Item(c).qty)
    <3>1. -Item(c).qty \in Int /\ Current(c, call[c].row) + (-Item(c).qty) >= 0
      BY <2>1, <2>3, WritesAreInts DEF Balanced, Current
    <3>2. Owned' /\ NeverOverdrawn'
      BY <1>3, <2>1, <2>3, <3>1, WriteRowBalanced DEF TransferDecrement, tables
    <3>3. Goto(c, "findTarget") \/ Fail(c, "rejected")
      BY <1>3 DEF TransferDecrement
    <3>. QED  BY <1>0, <2>1, <3>2, <3>3, GotoPositive, ReplyPositive DEF Fail
  <2>. QED  BY <1>3, <2>2, <2>3 DEF TransferDecrement
<1>4. CASE TransferFindTarget(c)
  <2>1. Owned' /\ NeverOverdrawn'
    BY <1>4, SameWritesBalanced DEF TransferFindTarget, tables
  <2>. QED  BY <1>0, <1>4, <2>1, ChooseRowPositive DEF TransferFindTarget, At, Working, Steps
<1>5. CASE TransferIncrement(c)
  <2>1. call[c].pc \in Working /\ call[c].row \in Rows /\ Item(c).qty \in Int /\ Item(c).qty > 0
    BY <1>0, <1>5, ItemOK
       DEF TransferIncrement, At, Working, Steps, CallOK, RowWaits, Positive, PositiveItems
  <2>2. Current(c, call[c].row) + Item(c).qty >= 0
    BY <2>1, WritesAreInts DEF Balanced, NeverOverdrawn, Current
  <2>3. Owned' /\ NeverOverdrawn'
    BY <1>5, <2>1, <2>2, WriteRowBalanced DEF TransferIncrement, tables
  <2>. QED  BY <1>0, <1>5, <2>1, <2>3, GotoPositive DEF TransferIncrement
<1>6. CASE TransferCreate(c)
  <2>1. call[c].pc \in Working /\ call[c].row \in Rows /\ Item(c).qty \in Int /\ Item(c).qty > 0
    BY <1>0, <1>6, ItemOK
       DEF TransferCreate, At, Working, Steps, CallOK, RowWaits, Positive, PositiveItems
  <2>2. Owned' /\ NeverOverdrawn'
    BY <1>6, <2>1, InsertRowBalanced, FailBalanced DEF TransferCreate, Fail, tables
  <2>. QED  BY <1>0, <1>6, <2>1, <2>2, GotoPositive, ReplyPositive DEF TransferCreate, Fail
<1>7. CASE TransferRecord(c)
  <2>1. Owned' /\ NeverOverdrawn'
    BY <1>7, InsertMovementsBalanced, FailBalanced DEF TransferRecord, Fail, tables
  <2>. QED  BY <1>0, <1>7, <2>1, GotoPositive, ReplyPositive
            DEF TransferRecord, Fail, At, Working, Steps
<1>. QED  BY <1>1, <1>2, <1>3, <1>4, <1>5, <1>6, <1>7 DEF TransferStep

LEMMA AvizInv ==
    ASSUME StockInv, TypeInv', NEW c \in Calls, AvizStep(c)
    PROVE  Owned' /\ NeverOverdrawn' /\ Positive'
<1>. USE DEF StockInv
<1>0. CallOK
  BY DEF Balanced, TypeInv
<1>1. CASE AvizCheck(c)
  <2>1. Owned' /\ NeverOverdrawn'
    BY <1>1, SameWritesBalanced DEF AvizCheck, tables
  <2>. QED  BY <1>0, <1>1, <2>1, GotoPositive, ReplyPositive DEF AvizCheck, Working
<1>2. CASE AvizInsert(c)
  <2>1. CASE Fail(c, "conflict") \/ Fail(c, "rejected")
    BY <1>0, <1>2, <2>1, FailBalanced, ReplyPositive DEF AvizInsert, Fail, tables
  <2>2. CASE /\ \A i \in DOMAIN Op(c).items : Op(c).items[i].qty > 0
             /\ tx' = [tx EXCEPT ![c].header = {AvizRow(c)}]
             /\ Goto(c, "find") /\ UNCHANGED lock
    <3>1. PositiveItems(c)
      BY <1>0, <1>2, <2>2 DEF PositiveItems, Item, AvizInsert, At, CallOK, Op
    <3>2. \A d \in Calls : tx'[d].writes = tx[d].writes /\ tx'[d].creates = tx[d].creates
      BY <2>2 DEF Balanced, TypeInv, TxOK, Workspaces
    <3>3. Owned' /\ NeverOverdrawn'
      BY <1>2, <2>2, <3>2, SameWritesBalanced DEF AvizInsert, tables
    <3>. QED  BY <1>0, <2>2, <3>1, <3>3, GotoPositive
  <2>. QED  BY <1>2, <2>1, <2>2 DEF AvizInsert
<1>3. CASE AvizFind(c)
  <2>1. Owned' /\ NeverOverdrawn'
    BY <1>3, SameWritesBalanced DEF AvizFind, tables
  <2>. QED  BY <1>0, <1>3, <2>1, ChooseRowPositive DEF AvizFind, At, Working, Steps
<1>4. CASE AvizIncrement(c)
  <2>1. call[c].pc \in Working /\ call[c].row \in Rows /\ Item(c).qty \in Int /\ Item(c).qty > 0
    BY <1>0, <1>4, ItemOK
       DEF AvizIncrement, At, Working, Steps, CallOK, RowWaits, Positive, PositiveItems
  <2>2. Current(c, call[c].row) + Item(c).qty >= 0
    BY <2>1, WritesAreInts DEF Balanced, NeverOverdrawn, Current
  <2>3. Owned' /\ NeverOverdrawn'
    BY <1>4, <2>1, <2>2, WriteRowBalanced DEF AvizIncrement, tables
  <2>. QED  BY <1>0, <1>4, <2>1, <2>3, GotoPositive DEF AvizIncrement
<1>5. CASE AvizCreate(c)
  <2>1. call[c].pc \in Working /\ call[c].row \in Rows /\ Item(c).qty \in Int /\ Item(c).qty > 0
    BY <1>0, <1>5, ItemOK
       DEF AvizCreate, At, Working, Steps, CallOK, RowWaits, Positive, PositiveItems
  <2>2. Owned' /\ NeverOverdrawn'
    BY <1>5, <2>1, InsertRowBalanced, FailBalanced DEF AvizCreate, Fail, tables
  <2>. QED  BY <1>0, <1>5, <2>1, <2>2, GotoPositive, ReplyPositive DEF AvizCreate, Fail
<1>6. CASE AvizRecord(c)
  <2>1. Owned' /\ NeverOverdrawn'
    BY <1>6, InsertMovementsBalanced, FailBalanced DEF AvizRecord, Fail, tables
  <2>2. call[c].pc \in Working /\ Op(c).kind = "aviz"
    BY <1>6 DEF AvizRecord, At, Working, Steps, Op
  <2>. QED  BY <1>0, <1>6, <2>1, <2>2, GotoPositive, ReplyPositive, NextItemPositive
            DEF AvizRecord, Fail, TypeInv
<1>. QED  BY <1>1, <1>2, <1>3, <1>4, <1>5, <1>6 DEF AvizStep

LEMMA InitInv == Init => StockInv
<1>. SUFFICES ASSUME Init PROVE StockInv
  OBVIOUS
<1>1. \A c \in Calls : tx[c] = NoTx /\ call[c].pc = "free"
  BY DEF Init, StockDbInit
<1>2. Owned /\ Positive
  BY <1>1 DEF Owned, NoTx, Positive, Working
<1>3. \A r \in Rows : quantity[r] \in Nat
  BY StockAssumption DEF Init, StockDbInit
<1>4. NeverOverdrawn
  BY <1>1, <1>3 DEF NeverOverdrawn, NoTx
<1>. QED  BY <1>2, <1>4, InitType DEF StockInv, Balanced

LEMMA NextInv == StockInv /\ [Next]_vars => StockInv'
<1>. SUFFICES ASSUME StockInv, [Next]_vars PROVE StockInv'
  OBVIOUS
<1>0. TypeInv /\ TypeInv' /\ CallOK
  BY NextType DEF StockInv, Balanced, TypeInv
<1>1. CASE UNCHANGED vars
  BY <1>0, <1>1 DEF StockInv, Balanced, Owned, NeverOverdrawn, Positive, PositiveItems,
                    Item, Op, vars, tables
<1>2. ASSUME NEW c \in Calls, Begin(c) PROVE Owned' /\ NeverOverdrawn' /\ Positive'
  <2>1. Owned' /\ NeverOverdrawn'
    BY <1>2, SameWritesBalanced DEF Begin, StockInv, tables
  <2>2. \A d \in Calls : d # c => call'[d] = call[d]
    BY <1>0, <1>2 DEF Begin, CallOK
  <2>3. call'[c].pc = "check"
    BY <1>0, <1>2 DEF Begin, CallOK
  <2>4. Positive'
    BY <2>2, <2>3 DEF StockInv, Positive, PositiveItems, Item, Op, Working
  <2>. QED  BY <2>1, <2>4
<1>3. ASSUME NEW c \in Calls, Commit(c) PROVE Owned' /\ NeverOverdrawn' /\ Positive'
  <2>1. Owned' /\ NeverOverdrawn'
    BY <1>3, CommitBalanced DEF StockInv
  <2>. QED  BY <1>0, <1>3, <2>1, ReplyPositive DEF Commit, StockInv
<1>4. ASSUME NEW c \in Calls, Abort(c) \/ AbortDeadlocked(c)
      PROVE  Owned' /\ NeverOverdrawn' /\ Positive'
  <2>1. (\E answer : Fail(c, answer)) /\ quantity' = quantity
    BY <1>4 DEF Abort, AbortDeadlocked, tables
  <2>. QED  BY <1>0, <2>1, FailBalanced, ReplyPositive DEF Fail, StockInv
<1>5. ASSUME NEW c \in Calls, Step(c) PROVE Owned' /\ NeverOverdrawn' /\ Positive'
  BY <1>0, <1>3, <1>4, <1>5, ReceiveInv, ConsumeInv, TransferInv, AvizInv DEF Step
<1>. QED  BY <1>0, <1>1, <1>2, <1>4, <1>5 DEF Next, Finished, StockInv, Balanced

\* No balance is ever below zero, nor would be if any open transaction committed, for
\* any number of concurrent receipts, consumptions, transfers and delivery notes: the
\* row lock and the check under it suffice, and the CHECK constraint is never needed.
THEOREM NoOverdraft == Spec => []NeverOverdrawn
<1>1. StockInv => NeverOverdrawn
  BY DEF StockInv, Balanced
<1>. QED  BY InitInv, NextInv, <1>1, PTL DEF Spec
----------------------------------------------------------------------------
(* What the ledger says of the calls that wrote it: every call leaves exactly *)
(* the rows it owes or none, no idempotency key is used twice, and the         *)
(* statements of the services implement whole requests (module AtomicStock).   *)

(* What a call leaves in the ledger. *)

ProjectOf(site) == [project |-> site.project, warehouse |-> Null]

\* A transfer's movements name, per column, their own side or else the other one.
Outgoing(op) == [project   |-> Coalesce(op.from.project, op.to.project),
                 warehouse |-> Coalesce(op.from.warehouse, op.to.warehouse)]
Incoming(op) == [project   |-> Coalesce(op.to.project, op.from.project),
                 warehouse |-> Coalesce(op.to.warehouse, op.from.warehouse)]

Leg(c, op, i, type, site, key) ==
    [call |-> c, line |-> i, type |-> type, material |-> op.items[i].material,
     project |-> site.project, warehouse |-> site.warehouse, qty |-> op.items[i].qty, key |-> key]

\* The movements of the i-th item of call c, which carries request op.
Legs(c, op, i) ==
    CASE op.kind = "receive"  -> {Leg(c, op, i, "RECEIPT", op.to, RawKey(op))}
      [] op.kind = "consume"  -> {Leg(c, op, i, "CONSUMPTION", ProjectOf(op.from), RawKey(op))}
      [] op.kind = "transfer" -> {Leg(c, op, i, "TRANSFER_OUT", Outgoing(op), OutKey(op)),
                                  Leg(c, op, i, "TRANSFER_IN", Incoming(op), InKey(op))}
      [] op.kind = "aviz"     -> {Leg(c, op, i, "RECEIPT", ProjectOf(op.to),
                                      ItemKey(op, op.items[i].material))}

\* The movements of the first n items; of all of them.
Entries(c, op, n) == UNION {Legs(c, op, i) : i \in 1..n}
AllEntries(c)     == Entries(c, Op(c), Len(Op(c).items))

Done == {c \in Calls : call[c].answer = "ok"}

\* The items the call has posted so far.
Posted(c) == IF call[c].pc \in {"commit", "refused"} THEN Len(Op(c).items) ELSE call[c].line - 1

\* What a call holds under the unique indexes, committed or not.
Held(c)  == IF c \in Done THEN AllEntries(c) ELSE tx[c].inserts
Notes(c) == IF c \in Done THEN {a \in {AvizRow(c)} : Op(c).kind = "aviz"} ELSE tx[c].header

SameNote(a, b) == \/ a.project = b.project /\ a.number = b.number
                  \/ a.key # Null /\ a.key = b.key

\* A request that has passed the service's own checks.
Valid(op) ==
    /\ op.kind # "aviz" => op.items[1].qty > 0
    /\ op.kind = "receive" => ~Nowhere(op.to)
    /\ op.kind = "consume" => op.from.project # Null

Target(c) == RowAt(Item(c).material, Op(c).to)
Source(c) == RowAt(Item(c).material, Op(c).from)

\* What the call's transaction has written to the balances, step by step.
ReceiveWrites(c) ==
    /\ call[c].pc \in {"find", "lock", "create"} => \A r \in Rows : tx[c].writes[r] = 0
    /\ call[c].pc \in {"lock", "create"} => call[c].row = Target(c)
    /\ call[c].pc \in {"record", "commit"} =>
          \A r \in Rows : tx[c].writes[r] = IF r = Target(c) THEN Item(c).qty ELSE 0

ConsumeWrites(c) ==
    /\ call[c].pc \in {"recheck", "find", "lock"} => \A r \in Rows : tx[c].writes[r] = 0
    /\ call[c].pc \in {"lock", "record", "commit"} =>
          /\ call[c].row \in Rows
          /\ call[c].row.material = Item(c).material /\ call[c].row.project = Op(c).from.project
    /\ call[c].pc \in {"record", "commit"} =>
          \A r \in Rows : tx[c].writes[r] = IF r = call[c].row THEN -Item(c).qty ELSE 0

TransferWrites(c) ==
    /\ call[c].pc \in {"find", "lock"} => \A r \in Rows : tx[c].writes[r] = 0
    /\ call[c].pc = "lock" => call[c].row = Source(c)
    /\ call[c].pc \in {"lockTarget", "createTarget"} => call[c].row = Target(c)
    /\ call[c].pc \in {"findTarget", "lockTarget", "createTarget"} =>
          \A r \in Rows : tx[c].writes[r] = IF r = Source(c) THEN -Item(c).qty ELSE 0
    /\ call[c].pc \in {"record", "commit"} =>
          \A r \in Rows : tx[c].writes[r] = (IF r = Target(c) THEN Item(c).qty ELSE 0)
                                            - (IF r = Source(c) THEN Item(c).qty ELSE 0)

AvizWrites(c) ==
    /\ call[c].pc = "header" => call[c].line = 1
    /\ call[c].pc \in {"lock", "create"} => call[c].row = Target(c)
    /\ \A r \in Rows :
          /\ tx[c].writes[r] >= 0
          /\ tx[c].writes[r] > 0 =>
                \E i \in DOMAIN Op(c).items : r = RowAt(Op(c).items[i].material, Op(c).to)

WritesInv(c) ==
    /\ Op(c).kind = "receive"  => ReceiveWrites(c)
    /\ Op(c).kind = "consume"  => ConsumeWrites(c)
    /\ Op(c).kind = "transfer" => TransferWrites(c)
    /\ Op(c).kind = "aviz"     => AvizWrites(c)

\* What an open transaction has written so far.
TxInv(c) ==
    /\ Valid(Op(c))
    /\ tx[c].inserts = Entries(c, Op(c), Posted(c))
    /\ tx[c].header = IF Op(c).kind = "aviz" /\ call[c].pc # "header" THEN {AvizRow(c)} ELSE {}
    /\ WritesInv(c)

\* The repeated request of a call that was carried out is answered from the ledger.
RetryInv(c) ==
    call[c].retry /\ Op(c).kind # "transfer" =>
        \/ /\ call[c].pc = "check" /\ Op(c).key # Null
           /\ \E d \in Done : Op(d) = Op(c)
        \/ call[c].pc = "done" /\ call[c].answer = "replayed"

CallInv(c) ==
    /\ call[c].pc = "free" => call[c].op = Null /\ ~call[c].retry /\ c \notin audited
    /\ call[c].pc = "check" => call[c].line = 1
    /\ call[c].pc # "done" => call[c].answer = Null
    /\ InTransaction(c) => TxInv(c)
    /\ ~InTransaction(c) => tx[c] = NoTx
    /\ c \in Done => Valid(Op(c))
    /\ call[c].pc # "free" /\ Op(c).kind = "consume" => (c \in audited <=> c \in Done)
    /\ RetryInv(c)

\* The committed tables hold what the calls carried out have left, and nothing else.
TablesInv ==
    /\ movements = UNION {AllEntries(c) : c \in Done}
    /\ avize = UNION {Notes(c) : c \in Done}

\* No two calls hold the same key, or the same note.
Apart(c, d) ==
    /\ \A m \in Held(c), n \in Held(d) : m.key = n.key => m.key[1] = Null
    /\ \A a \in Notes(c), b \in Notes(d) : ~SameNote(a, b)

ApartInv == \A c, d \in Calls : c # d => Apart(c, d)

LedgerInv == TablesInv /\ ApartInv /\ \A c \in Calls : CallInv(c)

Inv == StockInv /\ LedgerInv

----------------------------------------------------------------------------
(* The frame: what the step of one call leaves as it was. *)

Others(c) == \A d \in Calls \ {c} : call'[d] = call[d] /\ tx'[d] = tx[d]

SameRequest(c) == /\ call'[c].op = call[c].op
                  /\ call'[c].retry = call[c].retry

LEMMA FrameLedger ==
    ASSUME LedgerInv, NEW c \in Calls, Others(c), c \notin Done, Op(c)' = Op(c) \/ c \notin Done',
           audited' \ {c} = audited \ {c}, NEW d \in Calls \ {c}
    PROVE  /\ CallInv(d)' /\ Op(d)' = Op(d) /\ (d \in Done' <=> d \in Done)
           /\ AllEntries(d)' = AllEntries(d) /\ Held(d)' = Held(d) /\ Notes(d)' = Notes(d)
<1>1. call'[d] = call[d] /\ tx'[d] = tx[d] /\ (d \in audited' <=> d \in audited)
  BY DEF Others
<1>2. Op(d)' = Op(d) /\ (d \in Done' <=> d \in Done) /\ AvizRow(d)' = AvizRow(d)
  BY <1>1 DEF Op, Done, AvizRow
<1>3. AllEntries(d)' = AllEntries(d)
  BY <1>2 DEF AllEntries
<1>4. Held(d)' = Held(d) /\ Notes(d)' = Notes(d)
  BY <1>1, <1>2, <1>3 DEF Held, Notes
<1>5. CallInv(d)
  BY DEF LedgerInv
<1>6. \A e \in Done : e \in Done' /\ Op(e)' = Op(e)
  BY DEF Done, Op, Others
<1>7. RetryInv(d)'
  BY <1>1, <1>2, <1>5, <1>6, Zenon DEF CallInv, RetryInv
<1>8. InTransaction(d)' = InTransaction(d) /\ (InTransaction(d) => TxInv(d)')
  BY <1>1, <1>2, <1>5 DEF InTransaction, CallInv, TxInv, Posted, WritesInv, ReceiveWrites, ConsumeWrites,
     TransferWrites, AvizWrites, Target, Source, Item, Op
<1>9. CallInv(d)'
  BY <1>1, <1>2, <1>5, <1>7, <1>8 DEF CallInv
<1>. QED  BY <1>2, <1>3, <1>4, <1>9

\* A step of c that commits nothing keeps the invariant if c keeps its own.
LEMMA LocalLedger ==
    ASSUME LedgerInv, NEW c \in Calls, Others(c), c \notin Done, c \notin Done',
           UNCHANGED <<movements, avize>>, audited' \ {c} = audited \ {c}, CallInv(c)',
           \A d \in Calls \ {c} : Apart(c, d)'
    PROVE  LedgerInv'
<1>1. \A d \in Calls \ {c} : /\ CallInv(d)' /\ (d \in Done' <=> d \in Done)
                             /\ AllEntries(d)' = AllEntries(d)
                             /\ Held(d)' = Held(d) /\ Notes(d)' = Notes(d)
  BY FrameLedger
<1>2. Done' = Done
  BY <1>1 DEF Done
<1>3. TablesInv'
  <2>1. \A d \in Done : AllEntries(d)' = AllEntries(d) /\ Notes(d)' = Notes(d)
    BY <1>1 DEF Done
  <2>2. (UNION {AllEntries(d) : d \in Done})' = UNION {AllEntries(d) : d \in Done}
    BY <1>2, <2>1
  <2>3. (UNION {Notes(d) : d \in Done})' = UNION {Notes(d) : d \in Done}
    BY <1>2, <2>1
  <2>. QED  BY <2>2, <2>3 DEF LedgerInv, TablesInv
<1>4. ASSUME NEW d \in Calls, NEW e \in Calls, d # e PROVE Apart(d, e)'
  <2>1. CASE d = c
    BY <1>4, <2>1
  <2>2. CASE e = c
    <3>1. Apart(e, d)'
      BY <1>4, <2>2
    <3>. QED  BY <3>1 DEF Apart, SameNote
  <2>3. CASE d # c /\ e # c
    BY <1>1, <1>4, <2>3 DEF LedgerInv, ApartInv, Apart
  <2>. QED  BY <2>1, <2>2, <2>3
<1>. QED  BY <1>1, <1>3, <1>4 DEF LedgerInv, ApartInv

\* A step that takes no key and no note.
LEMMA QuietLedger ==
    ASSUME LedgerInv, NEW c \in Calls, Others(c), c \notin Done, c \notin Done',
           UNCHANGED <<movements, avize>>, audited' \ {c} = audited \ {c}, CallInv(c)',
           tx'[c].inserts \subseteq tx[c].inserts, tx'[c].header \subseteq tx[c].header
    PROVE  LedgerInv'
<1>1. ASSUME NEW d \in Calls \ {c} PROVE Apart(c, d)'
  <2>1. Held(d)' = Held(d) /\ Notes(d)' = Notes(d)
    BY FrameLedger
  <2>2. Held(c)' \subseteq Held(c) /\ Notes(c)' \subseteq Notes(c)
    BY DEF Held, Notes
  <2>. QED  BY <2>1, <2>2 DEF LedgerInv, ApartInv, Apart
<1>. QED  BY <1>1, LocalLedger

\* The call goes on to another step of its transaction.
Continues(c, step) ==
    /\ Others(c) /\ SameRequest(c)
    /\ call'[c].pc = step /\ call'[c].answer = call[c].answer

Inside == {"recheck", "find", "lock", "create", "findTarget", "lockTarget", "createTarget", "record"}

LEMMA AnswerOpen ==
    ASSUME LedgerInv, NEW c \in Calls, call[c].pc # "done"
    PROVE  c \notin Done /\ call[c].answer = Null
BY StockAssumption DEF LedgerInv, CallInv, Done

\* A step inside the transaction that writes no ledger row.
LEMMA ContinueLedger ==
    ASSUME LedgerInv, NEW c \in Calls, NEW step \in Inside, Continues(c, step),
           call'[c].line = call[c].line, call[c].pc \in Inside,
           UNCHANGED <<movements, avize, audited>>,
           tx'[c].inserts = tx[c].inserts, tx'[c].header = tx[c].header, WritesInv(c)'
    PROVE  LedgerInv'
<1>1. c \notin Done /\ call[c].answer = Null /\ Others(c)
  BY AnswerOpen DEF Inside, Continues
<1>2. c \notin Done' /\ Op(c)' = Op(c) /\ AvizRow(c)' = AvizRow(c)
  BY <1>1, StockAssumption DEF Done, Continues, SameRequest, Op, AvizRow
<1>3. InTransaction(c) /\ InTransaction(c)' /\ TxInv(c) /\ CallInv(c)
  BY DEF LedgerInv, CallInv, InTransaction, Continues, Inside
<1>4. Posted(c)' = Posted(c)
  BY <1>2 DEF Posted, Continues, Inside
<1>5. TxInv(c)'
  BY <1>2, <1>3, <1>4 DEF TxInv, Continues, Inside
<1>6. RetryInv(c)'
  BY <1>2, <1>3 DEF CallInv, RetryInv, Continues, SameRequest, Inside
<1>7. CallInv(c)'
  BY <1>1, <1>2, <1>3, <1>5, <1>6 DEF CallInv, Continues, SameRequest, Inside
<1>. QED  BY <1>1, <1>2, <1>7, QuietLedger

\* The call has passed the service's own checks; its transaction opens.
LEMMA EnterLedger ==
    ASSUME LedgerInv, NEW c \in Calls, NEW step \in {"recheck", "find", "header"}, Continues(c, step),
           call'[c].line = call[c].line, call[c].pc = "check", Valid(Op(c)),
           UNCHANGED <<movements, avize, audited, tx>>,
           call[c].retry => Op(c).kind = "transfer",
           Op(c).kind = "aviz" <=> step = "header", Op(c).kind = "consume" <=> step = "recheck"
    PROVE  LedgerInv'
<1>1. c \notin Done /\ call[c].answer = Null /\ Others(c)
  BY AnswerOpen DEF Continues
<1>2. c \notin Done' /\ Op(c)' = Op(c)
  BY <1>1, StockAssumption DEF Done, Continues, SameRequest, Op
<1>3. tx[c] = NoTx /\ call[c].line = 1 /\ CallInv(c)
  BY DEF LedgerInv, CallInv, InTransaction
<1>4. Entries(c, Op(c), 0) = {}
  BY DEF Entries
<1>5. Posted(c)' = 0
  BY <1>3 DEF Posted, Continues
<1>6. WritesInv(c)'
  BY <1>2, <1>3 DEF WritesInv, ReceiveWrites, ConsumeWrites, TransferWrites, AvizWrites, NoTx, Continues
<1>7. TxInv(c)'
  BY <1>2, <1>3, <1>4, <1>5, <1>6 DEF TxInv, NoTx, Continues
<1>8. RetryInv(c)'
  BY <1>2 DEF RetryInv, Continues, SameRequest
<1>9. CallInv(c)'
  BY <1>1, <1>2, <1>3, <1>7, <1>8 DEF CallInv, Continues, SameRequest, InTransaction
<1>. QED  BY <1>1, <1>2, <1>9, QuietLedger

\* The call is answered without having been carried out.
Refused(c) ==
    /\ Others(c) /\ SameRequest(c)
    /\ call'[c].pc = "done" /\ call'[c].answer # "ok"

LEMMA RefuseLedger ==
    ASSUME LedgerInv, NEW c \in Calls, Refused(c), call[c].pc \notin {"free", "done"}, tx'[c] = NoTx,
           call[c].pc = "check" /\ call[c].retry /\ Op(c).kind # "transfer"
              => call'[c].answer = "replayed",
           UNCHANGED <<movements, avize, audited>>
    PROVE  LedgerInv'
<1>1. c \notin Done /\ Others(c)
  BY AnswerOpen DEF Refused
<1>2. c \notin Done' /\ Op(c)' = Op(c) /\ CallInv(c)
  BY DEF Done, Refused, SameRequest, Op, LedgerInv
<1>3. RetryInv(c)'
  BY <1>2 DEF CallInv, RetryInv, Refused, SameRequest
<1>4. CallInv(c)'
  BY <1>1, <1>2, <1>3 DEF CallInv, Refused, SameRequest, InTransaction
<1>. QED  BY <1>1, <1>2, <1>4, QuietLedger DEF NoTx

----------------------------------------------------------------------------
(* The ledger rows of a call and their keys. *)

\* One item's rows are added to those before it.
LEMMA EntriesGrow ==
    ASSUME NEW c, NEW op, NEW n \in Nat
    PROVE  Entries(c, op, n + 1) = Entries(c, op, n) \cup Legs(c, op, n + 1)
<1>1. 1..(n + 1) = 1..n \cup {n + 1}
  OBVIOUS
<1>. QED  BY <1>1 DEF Entries

\* A request other than a delivery note names one material.
LEMMA OneItem ==
    ASSUME CallOK, NEW c \in Calls, call[c].pc # "free", Op(c).kind # "aviz"
    PROVE  call[c].line = 1 /\ Len(Op(c).items) = 1
<1>1. Op(c).items \in Seq(Items)
  BY ItemOK DEF Operations
<1>. QED  BY <1>1, StockAssumption DEF CallOK, Op

LEMMA LineInItems ==
    ASSUME CallOK, NEW c \in Calls, call[c].pc # "free"
    PROVE  /\ call[c].line \in 1..Len(Op(c).items) /\ Len(Op(c).items) \in Nat
           /\ DOMAIN Op(c).items = 1..Len(Op(c).items)
<1>1. Op(c).items \in Seq(Items)
  BY ItemOK DEF Operations
<1>. QED  BY <1>1 DEF CallOK, Op

LEMMA KindsAre ==
    ASSUME CallOK, NEW c \in Calls, call[c].pc # "free"
    PROVE  Op(c).kind \in {"receive", "consume", "transfer", "aviz"}
BY ItemOK DEF Operations

\* What each record statement inserts is the legs of the item the call is at.
LEMMA InsertedLegs ==
    ASSUME CallOK, NEW c \in Calls, call[c].pc # "free"
    PROVE  LET i == call[c].line IN
           /\ Op(c).kind = "receive" =>
                 Legs(c, Op(c), i) = {NewMovement(c, "RECEIPT", Op(c).to, RawKey(Op(c)))}
           /\ Op(c).kind = "consume" =>
                 Legs(c, Op(c), i) = {NewMovement(c, "CONSUMPTION",
                    [project |-> Op(c).from.project, warehouse |-> Null], RawKey(Op(c)))}
           /\ Op(c).kind = "transfer" => Legs(c, Op(c), i) = TransferMovements(c)
           /\ Op(c).kind = "aviz" =>
                 Legs(c, Op(c), i) = {NewMovement(c, "RECEIPT",
                    [project |-> Op(c).to.project, warehouse |-> Null],
                    ItemKey(Op(c), Item(c).material))}
BY DEF Legs, Leg, NewMovement, TransferMovements, ProjectOf, Outgoing, Incoming, Item

\* A leg belongs to its call and item; its key names the client's key.
LEMMA LegFields ==
    ASSUME NEW c, NEW op, op.kind \in {"receive", "consume", "transfer", "aviz"}, NEW i,
           NEW m \in Legs(c, op, i)
    PROVE  /\ m.call = c /\ m.line = i
           /\ op.kind \in {"receive", "consume"} => m.key = RawKey(op)
           /\ op.kind = "transfer" => m.key \in {OutKey(op), InKey(op)}
           /\ op.kind = "aviz" => m.key = ItemKey(op, op.items[i].material)
<1>1. CASE op.kind = "receive"
  BY <1>1 DEF Legs, Leg
<1>2. CASE op.kind = "consume"
  BY <1>2 DEF Legs, Leg
<1>3. CASE op.kind = "transfer"
  BY <1>3 DEF Legs, Leg
<1>4. CASE op.kind = "aviz"
  BY <1>4 DEF Legs, Leg
<1>. QED  BY <1>1, <1>2, <1>3, <1>4

\* Every key a request is recorded under is the key of one of its legs.
LEMMA LegsCoverKeys ==
    ASSUME NEW c, NEW op, NEW i
    PROVE  /\ op.kind \in {"receive", "consume"} => \E m \in Legs(c, op, i) : m.key = RawKey(op)
           /\ op.kind = "transfer" => /\ \E m \in Legs(c, op, i) : m.key = OutKey(op)
                                      /\ \E m \in Legs(c, op, i) : m.key = InKey(op)
           /\ op.kind = "aviz" =>
                 \E m \in Legs(c, op, i) : m.key = ItemKey(op, op.items[i].material)
<1>1. CASE op.kind = "receive"
  BY <1>1 DEF Legs, Leg
<1>2. CASE op.kind = "consume"
  BY <1>2 DEF Legs, Leg
<1>3. CASE op.kind = "transfer"
  BY <1>3 DEF Legs, Leg
<1>4. CASE op.kind = "aviz"
  BY <1>4 DEF Legs, Leg
<1>. QED  BY <1>1, <1>2, <1>3, <1>4

LEMMA CommittedRows ==
    ASSUME LedgerInv, NEW m \in movements
    PROVE  \E d \in Done : m \in AllEntries(d)
BY DEF LedgerInv, TablesInv

\* A key that is neither committed nor held by an open transaction is nobody's.
LEMMA FreshKey ==
    ASSUME LedgerInv, NEW c \in Calls, call[c].pc = "record", WaitsFor(c) = {},
           NEW k \in NextKeys(c), ~KeyUsed(k), NEW d \in Calls \ {c}, NEW n \in Held(d), n.key = k
    PROVE  k[1] = Null
<1>1. CASE d \in Done
  <2>1. n \in movements
    BY <1>1 DEF Held, LedgerInv, TablesInv
  <2>. QED  BY <2>1 DEF KeyUsed
<1>2. CASE d \notin Done
  <2>1. KeyHolders(c, k) = {}
    BY DEF WaitsFor, RowWaits
  <2>. QED  BY <1>2, <2>1 DEF Held, KeyHolders
<1>. QED  BY <1>1, <1>2

\* Both keys of a transfer are in the ledger, or neither.
LEMMA TransferKeysTogether ==
    ASSUME TypeInv, LedgerInv, NEW c \in Calls, ~KeyUsed(OutKey(Op(c)))
    PROVE  ~KeyUsed(InKey(Op(c)))
<1>. SUFFICES ASSUME KeyUsed(InKey(Op(c))) PROVE KeyUsed(OutKey(Op(c)))
  OBVIOUS
<1>1. PICK m \in movements : m.key = InKey(Op(c))
  BY DEF KeyUsed
<1>2. PICK d \in Done : m \in AllEntries(d)
  BY CommittedRows
<1>3. PICK i \in 1..Len(Op(d).items) : m \in Legs(d, Op(d), i)
  BY <1>2 DEF AllEntries, Entries
<1>4. CallOK /\ call[d].pc # "free" /\ d \in Calls
  BY AnswerOpen DEF TypeInv, Done
<1>5. Op(d).items[i].material \in Materials
  <2>1. Op(d).items \in Seq(Items) /\ i \in DOMAIN Op(d).items
    BY <1>4, LineInItems, ItemOK DEF Operations
  <2>2. Op(d).items[i] \in Items
    BY <2>1
  <2>. QED  BY <2>2 DEF Items
<1>6. Op(d).kind \in {"receive", "consume", "transfer", "aviz"}
  BY <1>4, KindsAre
<1>7. Op(d).kind = "transfer" /\ OutKey(Op(d)) = OutKey(Op(c))
  <2>0. m.key[2] = "_in"
    BY <1>1 DEF InKey
  <2>1. Op(d).kind \notin {"receive", "consume"}
    <3>1. RawKey(Op(d))[2] # "_in"
      BY DEF RawKey
    <3>2. Op(d).kind \in {"receive", "consume"} => m.key = RawKey(Op(d))
      BY <1>3, <1>6, LegFields
    <3>. QED  BY <2>0, <3>1, <3>2
  <2>2. Op(d).kind # "aviz"
    <3>1. ItemKey(Op(d), Op(d).items[i].material)[2] # "_in"
      BY <1>5, SuffixAssumption DEF ItemKey
    <3>. QED  BY <1>3, <1>6, <2>0, <3>1, LegFields
  <2>3. m.key \in {OutKey(Op(d)), InKey(Op(d))}
    BY <1>3, <1>6, <2>1, <2>2, LegFields
  <2>4. m.key # OutKey(Op(d))
    BY <1>1 DEF OutKey, InKey
  <2>. QED  BY <1>1, <1>6, <2>1, <2>2, <2>3, <2>4 DEF OutKey, InKey
<1>8. PICK n \in Legs(d, Op(d), i) : n.key = OutKey(Op(d))
  BY <1>7, LegsCoverKeys
<1>9. n \in movements
  BY <1>2, <1>3, <1>8 DEF AllEntries, Entries, LedgerInv, TablesInv
<1>10. InKey(Op(c))[1] # Null
  BY DEF KeyUsed
<1>. QED  BY <1>7, <1>8, <1>9, <1>10 DEF KeyUsed, OutKey, InKey

\* The record statement of the item the call is at.
Records(c) ==
    /\ Others(c) /\ SameRequest(c)
    /\ call'[c].answer = call[c].answer /\ call'[c].row = call[c].row
    /\ tx'[c].inserts = tx[c].inserts \cup Legs(c, Op(c), call[c].line)
    /\ tx'[c].header = tx[c].header /\ tx'[c].writes = tx[c].writes
    /\ UNCHANGED <<movements, avize>> /\ audited' \ {c} = audited \ {c}
    /\ Op(c).kind = "consume" => audited' = audited
    /\ \/ /\ call'[c].pc \in {"commit", "refused"} /\ call'[c].line = call[c].line
          /\ call[c].line = Len(Op(c).items)
       \/ /\ call'[c].pc = "find" /\ call'[c].line = call[c].line + 1
          /\ Op(c).kind = "aviz"

LEMMA RecordLedger ==
    ASSUME TypeInv, LedgerInv, NEW c \in Calls, call[c].pc = "record", Records(c),
           \A k \in NextKeys(c) : ~KeyUsed(k), WaitsFor(c) = {}
    PROVE  LedgerInv'
<1>1. c \notin Done /\ call[c].answer = Null /\ Others(c) /\ CallOK
  BY AnswerOpen DEF Records, TypeInv
<1>2. c \notin Done' /\ Op(c)' = Op(c) /\ AvizRow(c)' = AvizRow(c)
  BY <1>1, StockAssumption DEF Done, Records, SameRequest, Op, AvizRow
<1>3. TxInv(c) /\ CallInv(c) /\ InTransaction(c) /\ InTransaction(c)'
  BY DEF LedgerInv, CallInv, InTransaction, Records
<1>4. call[c].line \in Nat /\ call[c].line >= 1 /\ call[c].line \in DOMAIN Op(c).items
  BY <1>1, LineInItems
<1>5. Posted(c) = call[c].line - 1 /\ Posted(c)' = call[c].line
  BY <1>2, <1>4 DEF Posted, Records
<1>6. Entries(c, Op(c), call[c].line) = tx'[c].inserts
  <2>1. Entries(c, Op(c), (call[c].line - 1) + 1) =
           Entries(c, Op(c), call[c].line - 1) \cup Legs(c, Op(c), (call[c].line - 1) + 1)
    BY <1>4, EntriesGrow
  <2>2. (call[c].line - 1) + 1 = call[c].line
    BY <1>4
  <2>. QED  BY <1>3, <1>5, <2>1, <2>2 DEF TxInv, Records
<1>7. Op(c).kind # "aviz" => Item(c)' = Item(c) /\ call'[c].pc \in {"commit", "refused"}
  BY <1>2 DEF Item, Records
<1>8. WritesInv(c)'
  <2>1. WritesInv(c)
    BY <1>3 DEF TxInv
  <2>2. CASE Op(c).kind = "aviz"
    BY <1>2, <2>1, <2>2 DEF WritesInv, AvizWrites, Records
  <2>3. CASE Op(c).kind # "aviz"
    BY <1>2, <1>7, <2>1, <2>3
       DEF WritesInv, ReceiveWrites, ConsumeWrites, TransferWrites, Records, Target, Source
  <2>. QED  BY <2>2, <2>3
<1>9. TxInv(c)'
  <2>1. tx'[c].inserts = Entries(c, Op(c)', Posted(c)')
    BY <1>2, <1>5, <1>6
  <2>. QED  BY <1>2, <1>3, <1>8, <2>1 DEF TxInv, Records
<1>10. RetryInv(c)'
  BY <1>2, <1>3 DEF CallInv, RetryInv, Records, SameRequest
<1>11. CallInv(c)'
  BY <1>1, <1>2, <1>3, <1>9, <1>10 DEF CallInv, Records, SameRequest
<1>12. ASSUME NEW d \in Calls \ {c} PROVE Apart(c, d)'
  <2>1. Held(d)' = Held(d) /\ Notes(d)' = Notes(d)
    BY <1>1, <1>2, FrameLedger DEF Records
  <2>2. Notes(c)' = Notes(c) /\ Held(c)' = Held(c) \cup Legs(c, Op(c), call[c].line)
    BY <1>1, <1>2 DEF Notes, Held, Records
  <2>3. ASSUME NEW m \in Legs(c, Op(c), call[c].line), NEW n \in Held(d), m.key = n.key
        PROVE  m.key[1] = Null
    <3>1. m.key \in NextKeys(c)
      <4>1. Op(c).kind \in {"receive", "consume", "transfer", "aviz"}
        BY <1>1, KindsAre
      <4>. QED  BY <4>1, LegFields DEF NextKeys, Item
    <3>. QED  BY <2>3, <3>1, FreshKey
  <2>. QED  BY <2>1, <2>2, <2>3 DEF LedgerInv, ApartInv, Apart
<1>. QED  BY <1>1, <1>2, <1>11, <1>12, LocalLedger DEF Records

\* The delivery note is inserted: no committed and no pending note is the same.
LEMMA HeaderLedger ==
    ASSUME TypeInv, LedgerInv, NEW c \in Calls, Continues(c, "find"), call'[c].line = call[c].line,
           call[c].pc = "header", Op(c).kind = "aviz", WaitsFor(c) = {},
           \A a \in avize : ~SameAviz(Op(c), a), UNCHANGED <<movements, avize, audited>>,
           tx'[c].header = {AvizRow(c)}, tx'[c].inserts = tx[c].inserts,
           tx'[c].writes = tx[c].writes
    PROVE  LedgerInv'
<1>1. c \notin Done /\ call[c].answer = Null /\ Others(c)
  BY AnswerOpen DEF Continues
<1>2. c \notin Done' /\ Op(c)' = Op(c) /\ AvizRow(c)' = AvizRow(c)
  BY <1>1, StockAssumption DEF Done, Continues, SameRequest, Op, AvizRow
<1>3. TxInv(c) /\ CallInv(c) /\ InTransaction(c) /\ InTransaction(c)'
  BY DEF LedgerInv, CallInv, InTransaction, Continues
<1>4. Posted(c)' = Posted(c)
  BY <1>2 DEF Posted, Continues
<1>5. TxInv(c)'
  BY <1>2, <1>3, <1>4 DEF TxInv, WritesInv, AvizWrites, Continues
<1>6. RetryInv(c)'
  BY <1>2, <1>3 DEF CallInv, RetryInv, Continues, SameRequest
<1>7. CallInv(c)'
  BY <1>1, <1>2, <1>3, <1>5, <1>6 DEF CallInv, Continues, SameRequest
<1>8. ASSUME NEW d \in Calls \ {c} PROVE Apart(c, d)'
  <2>1. Held(d)' = Held(d) /\ Notes(d)' = Notes(d)
    BY <1>1, <1>2, FrameLedger
  <2>2. Held(c)' = Held(c) /\ Notes(c)' = {AvizRow(c)}
    BY <1>1, <1>2 DEF Held, Notes
  <2>3. ASSUME NEW b \in Notes(d) PROVE ~SameNote(AvizRow(c), b)
    <3>1. ~SameAviz(Op(c), b)
      <4>1. CASE d \in Done
        <5>1. b \in avize
          BY <4>1 DEF LedgerInv, TablesInv
        <5>. QED  BY <5>1
      <4>2. CASE d \notin Done
        BY <4>2 DEF Notes, WaitsFor, RowWaits
      <4>. QED  BY <4>1, <4>2
    <3>. QED  BY <3>1 DEF SameAviz, SameNote, AvizRow
  <2>. QED  BY <2>1, <2>2, <2>3 DEF LedgerInv, ApartInv, Apart
<1>. QED  BY <1>1, <1>2, <1>7, <1>8, LocalLedger

\* The client's request arrives.
LEMMA BeginLedger ==
    ASSUME TypeInv, LedgerInv, NEW c \in Calls, Begin(c)
    PROVE  LedgerInv'
<1>1. PICK op \in Ops :
        call' = [call EXCEPT ![c] = [op |-> op, pc |-> "check", line |-> 1, row |-> Null,
                    answer |-> Null,
                    retry |-> /\ op.key # Null
                              /\ \E d \in Calls : call[d].answer = "ok" /\ call[d].op = op]]
  BY DEF Begin
<1>2. call[c].pc = "free" /\ UNCHANGED <<tables, audited, tx>>
  BY DEF Begin
<1>3. /\ call'[c].op = op /\ call'[c].pc = "check" /\ call'[c].line = 1
      /\ call'[c].answer = Null
      /\ call'[c].retry => op.key # Null /\ \E d \in Calls : call[d].answer = "ok" /\ call[d].op = op
      /\ \A d \in Calls \ {c} : call'[d] = call[d]
  BY <1>1 DEF TypeInv, CallOK
<1>4. Others(c) /\ c \notin Done /\ c \notin Done' /\ CallInv(c) /\ tx[c] = NoTx /\ c \notin audited
  BY <1>2, <1>3, AnswerOpen, StockAssumption
     DEF Others, Done, LedgerInv, CallInv, InTransaction
<1>5. RetryInv(c)'
  <2>1. \A d \in Done : d \in Done' /\ Op(d)' = Op(d)
    BY <1>3, <1>4 DEF Done, Op
  <2>2. call'[c].retry => \E d \in Done : Op(d) = op
    BY <1>3 DEF Done, Op
  <2>3. Op(c)' = op
    BY <1>3 DEF Op
  <2>. QED  BY <1>3, <2>1, <2>2, <2>3, Zenon DEF RetryInv
<1>6. CallInv(c)'
  BY <1>2, <1>3, <1>4, <1>5 DEF CallInv, InTransaction, tables
<1>. QED  BY <1>2, <1>4, <1>6, QuietLedger DEF tables

\* COMMIT: what the transaction held becomes what the call holds.
LEMMA CommitLedger ==
    ASSUME TypeInv, LedgerInv, NEW c \in Calls, Commit(c)
    PROVE  LedgerInv'
<1>1. /\ call[c].pc = "commit" /\ SameRequest(c) /\ Others(c)
      /\ call'[c].pc = "done" /\ call'[c].answer = "ok" /\ tx'[c] = NoTx
  BY DEF Commit, Reply, EndTx, Others, SameRequest, TypeInv, TxOK, CallOK, CallStates
<1>2. c \notin Done /\ c \in Done' /\ Op(c)' = Op(c) /\ AvizRow(c)' = AvizRow(c)
  BY <1>1, AnswerOpen DEF Done, SameRequest, Op, AvizRow
<1>3. TxInv(c) /\ CallInv(c)
  BY <1>1 DEF LedgerInv, CallInv, InTransaction
<1>4. tx[c].inserts = AllEntries(c) /\ AllEntries(c)' = AllEntries(c)
  BY <1>1, <1>2, <1>3 DEF TxInv, Posted, AllEntries
<1>5. tx[c].header = {a \in {AvizRow(c)} : Op(c).kind = "aviz"}
  BY <1>1, <1>3 DEF TxInv
<1>6. Held(c)' = Held(c) /\ Notes(c)' = Notes(c) /\ Held(c)' = AllEntries(c)
  BY <1>2, <1>4, <1>5 DEF Held, Notes
<1>7. audited' = IF Op(c).kind = "consume" THEN audited \cup {c} ELSE audited
  BY DEF Commit
<1>8. \A d \in Calls \ {c} : /\ CallInv(d)' /\ (d \in Done' <=> d \in Done)
                             /\ AllEntries(d)' = AllEntries(d)
                             /\ Held(d)' = Held(d) /\ Notes(d)' = Notes(d)
  BY <1>1, <1>2, <1>7, FrameLedger
<1>9. Done' = Done \cup {c}
  BY <1>2, <1>8 DEF Done
<1>10. CallInv(c)'
  BY <1>1, <1>2, <1>3, <1>7 DEF CallInv, TxInv, RetryInv, SameRequest, InTransaction
<1>11. TablesInv'
  <2>1. \A d \in Done : AllEntries(d)' = AllEntries(d) /\ Notes(d)' = Notes(d)
    BY <1>2, <1>8 DEF Done
  <2>2. ASSUME NEW m
        PROVE  m \in (UNION {AllEntries(d) : d \in Done})' <=> m \in movements \cup AllEntries(c)
    <3>1. m \in movements <=> \E d \in Done : m \in AllEntries(d)
      BY DEF LedgerInv, TablesInv
    <3>2. m \in (UNION {AllEntries(d) : d \in Done})' <=> \E d \in Done' : m \in AllEntries(d)'
      OBVIOUS
    <3>. QED  BY <1>4, <1>9, <2>1, <3>1, <3>2
  <2>3. ASSUME NEW a
        PROVE  a \in (UNION {Notes(d) : d \in Done})' <=> a \in avize \cup Notes(c)'
    <3>1. a \in avize <=> \E d \in Done : a \in Notes(d)
      BY DEF LedgerInv, TablesInv
    <3>2. a \in (UNION {Notes(d) : d \in Done})' <=> \E d \in Done' : a \in Notes(d)'
      OBVIOUS
    <3>. QED  BY <1>9, <2>1, <3>1, <3>2
  <2>4. movements' = movements \cup AllEntries(c) /\ avize' = avize \cup tx[c].header
    BY <1>4 DEF Commit
  <2>5. tx[c].header = Notes(c)'
    BY <1>2, <1>6 DEF Notes
  <2>6. movements' = (UNION {AllEntries(d) : d \in Done})'
    BY <2>2, <2>4
  <2>7. avize' = (UNION {Notes(d) : d \in Done})'
    BY <2>3, <2>4, <2>5
  <2>. QED  BY <2>6, <2>7 DEF TablesInv
<1>12. ApartInv'
  <2>1. \A d \in Calls : Held(d)' = Held(d) /\ Notes(d)' = Notes(d)
    BY <1>6, <1>8
  <2>. QED  BY <2>1 DEF LedgerInv, ApartInv, Apart
<1>. QED  BY <1>8, <1>10, <1>11, <1>12 DEF LedgerInv

----------------------------------------------------------------------------
(* The shape of a step. *)

LEMMA GotoShape ==
    ASSUME TypeInv, NEW c \in Calls, NEW step, Goto(c, step)
    PROVE  /\ \A d \in Calls \ {c} : call'[d] = call[d]
           /\ SameRequest(c) /\ call'[c].pc = step /\ call'[c].answer = call[c].answer
           /\ call'[c].line = call[c].line /\ call'[c].row = call[c].row
           /\ Op(c)' = Op(c) /\ Item(c)' = Item(c)
BY DEF Goto, SameRequest, TypeInv, CallOK, CallStates, Op, Item

LEMMA ReplyShape ==
    ASSUME TypeInv, NEW c \in Calls, NEW answer, Reply(c, answer)
    PROVE  /\ \A d \in Calls \ {c} : call'[d] = call[d]
           /\ SameRequest(c) /\ call'[c].pc = "done" /\ call'[c].answer = answer
BY DEF Reply, SameRequest, TypeInv, CallOK, CallStates

\* The call has looked for a balance row and goes on to its next statement with it.
Finds(c, row, step) == call' = [call EXCEPT ![c].row = row, ![c].pc = step]

LEMMA RowShape ==
    ASSUME TypeInv, NEW c \in Calls, NEW step, NEW row, Finds(c, row, step)
    PROVE  /\ \A d \in Calls \ {c} : call'[d] = call[d]
           /\ SameRequest(c) /\ call'[c].pc = step /\ call'[c].answer = call[c].answer
           /\ call'[c].line = call[c].line /\ call'[c].row = row
           /\ Op(c)' = Op(c) /\ Item(c)' = Item(c)
BY DEF Finds, SameRequest, TypeInv, CallOK, CallStates, Op, Item

LEMMA WriteShape ==
    ASSUME TypeInv, NEW c \in Calls, NEW row \in Rows, NEW delta \in Int,
           WriteRow(c, row, delta) \/ InsertRow(c, row, delta)
    PROVE  /\ \A d \in Calls \ {c} : tx'[d] = tx[d]
           /\ tx'[c].inserts = tx[c].inserts /\ tx'[c].header = tx[c].header
           /\ \A r \in Rows : tx'[c].writes[r] = IF r = row THEN tx[c].writes[r] + delta
                                                 ELSE tx[c].writes[r]
<1>1. \A d \in Calls : tx[d] \in Workspaces
  BY DEF TypeInv, TxOK
<1>2. CASE WriteRow(c, row, delta)
  <2>1. tx' = [tx EXCEPT ![c] = [tx[c] EXCEPT !.writes[row] = tx[c].writes[row] + delta]]
    BY <1>1, <1>2 DEF WriteRow, Workspaces
  <2>. QED  BY <1>1, <2>1 DEF TypeInv, TxOK, Workspaces
<1>3. CASE InsertRow(c, row, delta)
  <2>1. tx' = [tx EXCEPT ![c] = [tx[c] EXCEPT !.writes[row] = tx[c].writes[row] + delta,
                                              !.creates = tx[c].creates \cup {row}]]
    BY <1>1, <1>3 DEF InsertRow, Workspaces
  <2>. QED  BY <1>1, <2>1 DEF TypeInv, TxOK, Workspaces
<1>. QED  BY <1>2, <1>3

LEMMA InsertShape ==
    ASSUME TypeInv, NEW c \in Calls, NEW new, InsertMovements(c, new)
    PROVE  /\ \A d \in Calls \ {c} : tx'[d] = tx[d]
           /\ tx'[c].inserts = tx[c].inserts \cup new
           /\ tx'[c].header = tx[c].header /\ tx'[c].writes = tx[c].writes
BY DEF InsertMovements, TypeInv, TxOK, Workspaces

LEMMA FailLedger ==
    ASSUME TypeInv, LedgerInv, NEW c \in Calls, NEW answer, answer # "ok", InTransaction(c),
           Fail(c, answer), UNCHANGED <<tables, audited>>
    PROVE  LedgerInv'
<1>1. tx'[c] = NoTx /\ \A d \in Calls \ {c} : tx'[d] = tx[d]
  BY DEF Fail, EndTx, TypeInv, TxOK
<1>2. Refused(c)
  BY <1>1, ReplyShape DEF Fail, Refused, Others
<1>. QED  BY <1>1, <1>2, RefuseLedger DEF InTransaction, tables

\* A call inside its transaction goes on without writing.
LEMMA GoOnLedger ==
    ASSUME TypeInv, LedgerInv, NEW c \in Calls, NEW step \in Inside, call[c].pc \in Inside,
           Goto(c, step), UNCHANGED <<tables, audited, tx>>, WritesInv(c)'
    PROVE  LedgerInv'
<1>1. Continues(c, step) /\ call'[c].line = call[c].line
  BY GotoShape DEF Continues, Others
<1>. QED  BY <1>1, ContinueLedger DEF tables

LEMMA FindLedger ==
    ASSUME TypeInv, LedgerInv, NEW c \in Calls, NEW step \in Inside, call[c].pc \in Inside, NEW row,
           Finds(c, row, step),
           UNCHANGED <<tables, audited, tx>>, WritesInv(c)'
    PROVE  LedgerInv'
<1>1. Continues(c, step) /\ call'[c].line = call[c].line
  BY RowShape DEF Continues, Others
<1>. QED  BY <1>1, ContinueLedger DEF tables

LEMMA WriteLedger ==
    ASSUME TypeInv, LedgerInv, NEW c \in Calls, NEW step \in Inside, call[c].pc \in Inside,
           NEW row \in Rows, NEW delta \in Int, WriteRow(c, row, delta) \/ InsertRow(c, row, delta),
           Goto(c, step), UNCHANGED <<tables, audited>>, WritesInv(c)'
    PROVE  LedgerInv'
<1>1. Continues(c, step) /\ call'[c].line = call[c].line
  BY GotoShape, WriteShape DEF Continues, Others
<1>2. tx'[c].inserts = tx[c].inserts /\ tx'[c].header = tx[c].header
  BY WriteShape
<1>. QED  BY <1>1, <1>2, ContinueLedger DEF tables

\* The only answer from outside a transaction to a repeated request is "replayed".
LEMMA ReplyLedger ==
    ASSUME TypeInv, LedgerInv, NEW c \in Calls, NEW answer, answer # "ok", call[c].pc = "check",
           Reply(c, answer), UNCHANGED <<tables, audited, lock, tx>>,
           call[c].retry /\ Op(c).kind # "transfer" => answer = "replayed"
    PROVE  LedgerInv'
<1>1. tx'[c] = NoTx
  BY DEF LedgerInv, CallInv, InTransaction
<1>2. Refused(c) /\ call'[c].answer = answer
  BY ReplyShape DEF Refused, Others
<1>. QED  BY <1>1, <1>2, RefuseLedger DEF tables

\* A repeated receipt or consumption finds its key; it was valid the first time.
LEMMA RepeatedKeyUsed ==
    ASSUME TypeInv, LedgerInv, NEW c \in Calls, call[c].pc = "check", call[c].retry,
           Op(c).kind \in {"receive", "consume"}
    PROVE  KeyUsed(RawKey(Op(c))) /\ Valid(Op(c))
<1>1. PICK d \in Done : Op(d) = Op(c) /\ Op(c).key # Null
  BY DEF LedgerInv, CallInv, RetryInv
<1>2. d \in Calls /\ CallOK /\ call[d].pc # "free"
  BY AnswerOpen DEF Done, TypeInv
<1>3. Valid(Op(c))
  BY <1>1, <1>2 DEF LedgerInv, CallInv
<1>4. 1 \in 1..Len(Op(d).items)
  BY <1>1, <1>2, OneItem, LineInItems
<1>5. PICK m \in Legs(d, Op(d), 1) : m.key = RawKey(Op(d))
  BY <1>1, LegsCoverKeys
<1>6. m \in movements
  BY <1>4, <1>5 DEF LedgerInv, TablesInv, AllEntries, Entries
<1>. QED  BY <1>1, <1>3, <1>5, <1>6 DEF KeyUsed, RawKey

LEMMA CheckLedger ==
    ASSUME TypeInv, LedgerInv, NEW c \in Calls, NEW valid, NEW next \in {"recheck", "find"},
           call[c].pc = "check", Op(c).kind # "aviz", valid <=> Valid(Op(c)),
           Op(c).kind = "consume" <=> next = "recheck", CheckRequest(c, valid, next)
    PROVE  LedgerInv'
<1>0. CallOK /\ Op(c).kind \in {"receive", "consume", "transfer"}
  BY KindsAre DEF TypeInv
<1>1. CASE Reply(c, "rejected") /\ ~valid
  BY <1>0, <1>1, ReplyLedger, RepeatedKeyUsed DEF CheckRequest
<1>2. CASE Reply(c, "replayed")
  BY <1>2, ReplyLedger DEF CheckRequest
<1>3. CASE valid /\ ~KeyUsed(RawKey(Op(c))) /\ Goto(c, next)
  <2>1. Continues(c, next) /\ call'[c].line = call[c].line
    BY <1>3, GotoShape DEF Continues, Others, CheckRequest
  <2>2. call[c].retry => Op(c).kind = "transfer"
    BY <1>0, <1>3, RepeatedKeyUsed
  <2>. QED  BY <1>3, <2>1, <2>2, EnterLedger DEF CheckRequest, tables
<1>. QED  BY <1>1, <1>2, <1>3 DEF CheckRequest

\* The record statement of receive, consume and transfer, up to the audit row.
LEMMA PostLedger ==
    ASSUME TypeInv, LedgerInv, NEW c \in Calls, call[c].pc = "record", Op(c).kind # "aviz",
           NEW step \in {"commit", "refused"}, Goto(c, step),
           InsertMovements(c, Legs(c, Op(c), call[c].line)),
           UNCHANGED tables, audited' \ {c} = audited \ {c},
           Op(c).kind = "consume" => audited' = audited,
           \A k \in NextKeys(c) : ~KeyUsed(k), WaitsFor(c) = {}
    PROVE  LedgerInv'
<1>1. call[c].line = Len(Op(c).items)
  BY OneItem DEF TypeInv
<1>2. Records(c)
  BY <1>1, GotoShape, InsertShape DEF Records, Others, tables
<1>. QED  BY <1>2, RecordLedger

----------------------------------------------------------------------------
(* The invariant, action by action. *)

LEMMA TxIsOpen ==
    ASSUME TypeInv, LedgerInv, NEW c \in Calls, InTransaction(c)
    PROVE  TxInv(c) /\ CallOK /\ call[c].pc # "free"
BY DEF LedgerInv, CallInv, TypeInv, InTransaction

LEMMA ReceiveLedger ==
    ASSUME Inv, NEW c \in Calls, ReceiveStep(c)
    PROVE  LedgerInv'
<1>0. TypeInv /\ LedgerInv /\ CallOK
  BY DEF Inv, StockInv, Balanced, TypeInv
<1>. USE DEF Inside
<1>1. CASE ReceiveCheck(c)
  <2>1. Op(c).kind = "receive" /\ call[c].pc = "check"
    BY <1>1 DEF ReceiveCheck, At, Op
  <2>2. Item(c).qty > 0 /\ ~Nowhere(Op(c).to) <=> Valid(Op(c))
    BY <1>0, <2>1, OneItem DEF Valid, Item
  <2>. QED  BY <1>0, <1>1, <2>1, <2>2, CheckLedger DEF ReceiveCheck
<1>2. CASE ReceiveFind(c)
  <2>1. Op(c).kind = "receive" /\ call[c].pc = "find"
    BY <1>2 DEF ReceiveFind, At, Op
  <2>2. PICK step \in {"lock", "create"} : Finds(c, Target(c), step)
    BY <1>2 DEF ReceiveFind, Target, Finds
  <2>3. WritesInv(c)
    BY <1>0, <2>1, TxIsOpen DEF InTransaction, TxInv
  <2>4. /\ Op(c)' = Op(c) /\ Item(c)' = Item(c) /\ tx' = tx
        /\ call'[c].pc = step /\ call'[c].row = Target(c)
    BY <1>0, <1>2, <2>2, RowShape DEF ReceiveFind
  <2>5. WritesInv(c)'
    BY <2>1, <2>3, <2>4 DEF WritesInv, ReceiveWrites, Target
  <2>. QED  BY <1>0, <1>2, <2>1, <2>2, <2>5, FindLedger DEF ReceiveFind
<1>3. CASE ReceiveIncrement(c) \/ ReceiveCreate(c)
  <2>1. Op(c).kind = "receive" /\ call[c].pc \in {"lock", "create"} /\ call[c].row \in Rows
    BY <1>0, <1>3 DEF ReceiveIncrement, ReceiveCreate, At, Op, CallOK, RowWaits
  <2>2. CASE Fail(c, "conflict")
    BY <1>0, <1>3, <2>1, <2>2, FailLedger DEF ReceiveIncrement, ReceiveCreate, InTransaction, tables
  <2>3. CASE /\ WriteRow(c, call[c].row, Item(c).qty) \/ InsertRow(c, call[c].row, Item(c).qty)
             /\ Goto(c, "record")
    <3>1. WritesInv(c) /\ Item(c).qty \in Int
      BY <1>0, <2>1, TxIsOpen, ItemOK DEF InTransaction, TxInv
    <3>2. WritesInv(c)'
      BY <1>0, <2>1, <2>3, <3>1, WriteShape, GotoShape DEF WritesInv, ReceiveWrites, Target
    <3>. QED  BY <1>0, <1>3, <2>1, <2>3, <3>1, <3>2, WriteLedger
              DEF ReceiveIncrement, ReceiveCreate
  <2>. QED  BY <1>3, <2>2, <2>3 DEF ReceiveIncrement, ReceiveCreate
<1>4. CASE ReceiveRecord(c)
  <2>1. Op(c).kind = "receive" /\ call[c].pc = "record"
    BY <1>4 DEF ReceiveRecord, At, Op
  <2>2. CASE Fail(c, "conflict") /\ UNCHANGED audited
    BY <1>0, <1>4, <2>1, <2>2, FailLedger DEF ReceiveRecord, InTransaction
  <2>3. CASE ~KeyTaken(c, RawKey(Op(c))) /\ Goto(c, "commit")
    <3>1. InsertMovements(c, Legs(c, Op(c), call[c].line)) /\ audited' \ {c} = audited \ {c}
      BY <1>0, <1>4, <2>1, <2>3, InsertedLegs DEF ReceiveRecord, RecordAudit, Fail, Reply, Goto
    <3>2. \A k \in NextKeys(c) : ~KeyUsed(k)
      BY <2>1, <2>3 DEF NextKeys, KeyTaken
    <3>. QED  BY <1>0, <1>4, <2>1, <2>3, <3>1, <3>2, PostLedger DEF ReceiveRecord
  <2>. QED  BY <1>4, <2>2, <2>3 DEF ReceiveRecord
<1>. QED  BY <1>1, <1>2, <1>3, <1>4 DEF ReceiveStep

LEMMA ConsumeLedger ==
    ASSUME Inv, NEW c \in Calls, ConsumeStep(c)
    PROVE  LedgerInv'
<1>0. TypeInv /\ LedgerInv /\ CallOK
  BY DEF Inv, StockInv, Balanced, TypeInv
<1>. USE DEF Inside
<1>1. CASE ConsumeCheck(c)
  <2>1. Op(c).kind = "consume" /\ call[c].pc = "check"
    BY <1>1 DEF ConsumeCheck, At, Op
  <2>2. Item(c).qty > 0 /\ Op(c).from.project # Null <=> Valid(Op(c))
    BY <1>0, <2>1, OneItem DEF Valid, Item
  <2>. QED  BY <1>0, <1>1, <2>1, <2>2, CheckLedger DEF ConsumeCheck
<1>2. CASE ConsumeRecheck(c)
  <2>1. Op(c).kind = "consume" /\ call[c].pc = "recheck"
    BY <1>2 DEF ConsumeRecheck, At, Op
  <2>2. CASE Fail(c, "replayed")
    BY <1>0, <1>2, <2>1, <2>2, FailLedger DEF ConsumeRecheck, InTransaction
  <2>3. CASE Goto(c, "find") /\ UNCHANGED <<lock, tx>>
    <3>1. WritesInv(c)
      BY <1>0, <2>1, TxIsOpen DEF InTransaction, TxInv
    <3>2. WritesInv(c)'
      BY <1>0, <2>1, <2>3, <3>1, GotoShape DEF WritesInv, ConsumeWrites
    <3>. QED  BY <1>0, <1>2, <2>1, <2>3, <3>2, GoOnLedger DEF ConsumeRecheck
  <2>. QED  BY <1>2, <2>2, <2>3 DEF ConsumeRecheck
<1>3. CASE ConsumeFind(c)
  <2>1. Op(c).kind = "consume" /\ call[c].pc = "find"
    BY <1>3 DEF ConsumeFind, At, Op
  <2>2. CASE Fail(c, "rejected")
    BY <1>0, <1>3, <2>1, <2>2, FailLedger DEF ConsumeFind, InTransaction
  <2>3. ASSUME NEW row \in ConsumeCandidates(c), UNCHANGED <<lock, tx>>,
               Finds(c, row, "lock")
        PROVE  LedgerInv'
    <3>1. WritesInv(c)
      BY <1>0, <2>1, TxIsOpen DEF InTransaction, TxInv
    <3>2. row \in Rows /\ row.material = Item(c).material /\ row.project = Op(c).from.project
      BY <1>0 DEF ConsumeCandidates, TypeInv, TablesOK
    <3>3. /\ Op(c)' = Op(c) /\ Item(c)' = Item(c) /\ tx' = tx
          /\ call'[c].pc = "lock" /\ call'[c].row = row
      BY <1>0, <2>3, RowShape
    <3>4. WritesInv(c)'
      BY <2>1, <3>1, <3>2, <3>3 DEF WritesInv, ConsumeWrites
    <3>. QED  BY <1>0, <1>3, <2>1, <2>3, <3>4, FindLedger DEF ConsumeFind
  <2>. QED  BY <1>3, <2>2, <2>3 DEF ConsumeFind, Finds
<1>4. CASE ConsumeDecrement(c)
  <2>1. Op(c).kind = "consume" /\ call[c].pc = "lock" /\ call[c].row \in Rows
    BY <1>0, <1>4 DEF ConsumeDecrement, At, Op, CallOK, RowWaits
  <2>2. CASE Fail(c, "rejected")
    BY <1>0, <1>4, <2>1, <2>2, FailLedger DEF ConsumeDecrement, InTransaction
  <2>3. CASE WriteRow(c, call[c].row, -Item(c).qty) /\ Goto(c, "record")
    <3>0. Item(c).qty \in Int /\ WritesInv(c)
      BY <1>0, <2>1, TxIsOpen, ItemOK DEF InTransaction, TxInv
    <3>1. WritesInv(c) /\ -Item(c).qty \in Int
      BY <3>0
    <3>2. WritesInv(c)'
      BY <1>0, <2>1, <2>3, <3>1, WriteShape, GotoShape DEF WritesInv, ConsumeWrites
    <3>. QED  BY <1>0, <1>4, <2>1, <2>3, <3>1, <3>2, WriteLedger DEF ConsumeDecrement
  <2>. QED  BY <1>4, <2>2, <2>3 DEF ConsumeDecrement
<1>5. CASE ConsumeRecord(c)
  <2>1. Op(c).kind = "consume" /\ call[c].pc = "record"
    BY <1>5 DEF ConsumeRecord, At, Op
  <2>2. CASE Fail(c, "conflict")
    BY <1>0, <1>5, <2>1, <2>2, FailLedger DEF ConsumeRecord, InTransaction
  <2>3. ASSUME NEW step \in {"commit", "refused"}, ~KeyTaken(c, RawKey(Op(c))), Goto(c, step)
        PROVE  LedgerInv'
    <3>1. InsertMovements(c, Legs(c, Op(c), call[c].line)) /\ audited' = audited
      BY <1>0, <1>5, <2>1, <2>3, InsertedLegs DEF ConsumeRecord, Fail, Reply, Goto
    <3>2. \A k \in NextKeys(c) : ~KeyUsed(k)
      BY <2>1, <2>3 DEF NextKeys, KeyTaken
    <3>. QED  BY <1>0, <1>5, <2>1, <2>3, <3>1, <3>2, PostLedger DEF ConsumeRecord
  <2>. QED  BY <1>5, <2>2, <2>3 DEF ConsumeRecord
<1>6. CASE ConsumeReadBack(c)
  BY <1>0, <1>6, FailLedger DEF ConsumeReadBack, At, InTransaction
<1>. QED  BY <1>1, <1>2, <1>3, <1>4, <1>5, <1>6 DEF ConsumeStep

LEMMA TransferLedger ==
    ASSUME Inv, NEW c \in Calls, TransferStep(c)
    PROVE  LedgerInv'
<1>0. TypeInv /\ LedgerInv /\ CallOK
  BY DEF Inv, StockInv, Balanced, TypeInv
<1>. USE DEF Inside
<1>1. CASE TransferCheck(c)
  <2>1. Op(c).kind = "transfer" /\ call[c].pc = "check"
    BY <1>1 DEF TransferCheck, At, Op
  <2>2. CASE Reply(c, "rejected") \/ Reply(c, "replayed")
    BY <1>0, <1>1, <2>1, <2>2, ReplyLedger DEF TransferCheck, CheckRequest
  <2>3. CASE Item(c).qty > 0 /\ Goto(c, "find")
    <3>1. Valid(Op(c))
      BY <1>0, <2>1, <2>3, OneItem DEF Valid, Item
    <3>2. Continues(c, "find") /\ call'[c].line = call[c].line
      BY <1>0, <1>1, <2>3, GotoShape DEF Continues, Others, TransferCheck, CheckRequest
    <3>. QED  BY <1>0, <1>1, <2>1, <3>1, <3>2, EnterLedger DEF TransferCheck, CheckRequest, tables
  <2>. QED  BY <1>1, <2>2, <2>3 DEF TransferCheck, CheckRequest
<1>2. CASE TransferFindSource(c)
  <2>1. Op(c).kind = "transfer" /\ call[c].pc = "find"
    BY <1>2 DEF TransferFindSource, At, Op
  <2>2. CASE Fail(c, "rejected")
    BY <1>0, <1>2, <2>1, <2>2, FailLedger DEF TransferFindSource, InTransaction
  <2>3. CASE Finds(c, Source(c), "lock") /\ UNCHANGED <<lock, tx>>
    <3>1. WritesInv(c)
      BY <1>0, <2>1, TxIsOpen DEF InTransaction, TxInv
    <3>2. /\ Op(c)' = Op(c) /\ Item(c)' = Item(c) /\ tx' = tx
          /\ call'[c].pc = "lock" /\ call'[c].row = Source(c)
      BY <1>0, <2>3, RowShape
    <3>3. WritesInv(c)'
      BY <2>1, <3>1, <3>2 DEF WritesInv, TransferWrites, Source
    <3>. QED  BY <1>0, <1>2, <2>1, <2>3, <3>3, FindLedger DEF TransferFindSource
  <2>. QED  BY <1>2, <2>2, <2>3 DEF TransferFindSource, Source, Finds
<1>3. CASE TransferDecrement(c)
  <2>1. Op(c).kind = "transfer" /\ call[c].pc = "lock" /\ call[c].row \in Rows
    BY <1>0, <1>3 DEF TransferDecrement, At, Op, CallOK, RowWaits
  <2>2. CASE Fail(c, "rejected")
    BY <1>0, <1>3, <2>1, <2>2, FailLedger DEF TransferDecrement, InTransaction
  <2>3. CASE WriteRow(c, call[c].row, -Item(c).qty) /\ Goto(c, "findTarget")
    <3>0. Item(c).qty \in Int /\ WritesInv(c)
      BY <1>0, <2>1, TxIsOpen, ItemOK DEF InTransaction, TxInv
    <3>1. WritesInv(c) /\ -Item(c).qty \in Int
      BY <3>0
    <3>2. WritesInv(c)'
      BY <1>0, <2>1, <2>3, <3>1, WriteShape, GotoShape DEF WritesInv, TransferWrites, Source
    <3>. QED  BY <1>0, <1>3, <2>1, <2>3, <3>1, <3>2, WriteLedger DEF TransferDecrement
  <2>. QED  BY <1>3, <2>2, <2>3 DEF TransferDecrement
<1>4. CASE TransferFindTarget(c)
  <2>1. Op(c).kind = "transfer" /\ call[c].pc = "findTarget"
    BY <1>4 DEF TransferFindTarget, At, Op
  <2>2. PICK step \in {"lockTarget", "createTarget"} : Finds(c, Target(c), step)
    BY <1>4 DEF TransferFindTarget, Target, Finds
  <2>3. WritesInv(c)
    BY <1>0, <2>1, TxIsOpen DEF InTransaction, TxInv
  <2>4. /\ Op(c)' = Op(c) /\ Item(c)' = Item(c) /\ tx' = tx
        /\ call'[c].pc = step /\ call'[c].row = Target(c)
    BY <1>0, <1>4, <2>2, RowShape DEF TransferFindTarget
  <2>5. WritesInv(c)'
    BY <2>1, <2>3, <2>4 DEF WritesInv, TransferWrites, Target, Source
  <2>. QED  BY <1>0, <1>4, <2>1, <2>2, <2>5, FindLedger DEF TransferFindTarget
<1>5. CASE TransferIncrement(c) \/ TransferCreate(c)
  <2>1. /\ Op(c).kind = "transfer" /\ call[c].pc \in {"lockTarget", "createTarget"}
        /\ call[c].row \in Rows
    BY <1>0, <1>5 DEF TransferIncrement, TransferCreate, At, Op, CallOK, RowWaits
  <2>2. CASE Fail(c, "conflict")
    BY <1>0, <1>5, <2>1, <2>2, FailLedger DEF TransferIncrement, TransferCreate, InTransaction, tables
  <2>3. CASE /\ WriteRow(c, call[c].row, Item(c).qty) \/ InsertRow(c, call[c].row, Item(c).qty)
             /\ Goto(c, "record")
    <3>1. WritesInv(c) /\ Item(c).qty \in Int /\ Valid(Op(c)) /\ Op(c) \in Operations
      BY <1>0, <2>1, TxIsOpen, ItemOK DEF InTransaction, TxInv
    <3>2. \A r \in Rows : tx[c].writes[r] = IF r = Source(c) THEN -Item(c).qty ELSE 0
      BY <2>1, <3>1 DEF WritesInv, TransferWrites
    <3>3. WritesInv(c)'
      BY <1>0, <2>1, <2>3, <3>1, <3>2, WriteShape, GotoShape
         DEF WritesInv, TransferWrites, Target, Source
    <3>. QED  BY <1>0, <1>5, <2>1, <2>3, <3>1, <3>3, WriteLedger
              DEF TransferIncrement, TransferCreate
  <2>. QED  BY <1>5, <2>2, <2>3 DEF TransferIncrement, TransferCreate
<1>6. CASE TransferRecord(c)
  <2>1. Op(c).kind = "transfer" /\ call[c].pc = "record"
    BY <1>6 DEF TransferRecord, At, Op
  <2>2. CASE Fail(c, "conflict") /\ UNCHANGED audited
    BY <1>0, <1>6, <2>1, <2>2, FailLedger DEF TransferRecord, InTransaction
  <2>3. CASE /\ ~KeyTaken(c, OutKey(Op(c))) /\ InsertMovements(c, TransferMovements(c))
             /\ RecordAudit(c) /\ Goto(c, "commit")
    <3>1. InsertMovements(c, Legs(c, Op(c), call[c].line)) /\ audited' \ {c} = audited \ {c}
      BY <1>0, <2>1, <2>3, InsertedLegs DEF RecordAudit
    <3>2. \A k \in NextKeys(c) : ~KeyUsed(k)
      BY <1>0, <2>1, <2>3, TransferKeysTogether DEF NextKeys, KeyTaken
    <3>. QED  BY <1>0, <1>6, <2>1, <2>3, <3>1, <3>2, PostLedger DEF TransferRecord
  <2>. QED  BY <1>6, <2>2, <2>3 DEF TransferRecord
<1>. QED  BY <1>1, <1>2, <1>3, <1>4, <1>5, <1>6 DEF TransferStep

\* A repeated delivery note finds the one that was posted first.
LEMMA RepeatedNoteFound ==
    ASSUME TypeInv, LedgerInv, NEW c \in Calls, call[c].pc = "check", call[c].retry,
           Op(c).kind = "aviz"
    PROVE  \E a \in avize : /\ a.project = Op(c).to.project /\ a.number = Op(c).number
                            /\ Op(c).key # Null /\ a.key = Op(c).key
<1>1. PICK d \in Done : Op(d) = Op(c) /\ Op(c).key # Null
  BY DEF LedgerInv, CallInv, RetryInv
<1>2. AvizRow(d) \in avize
  BY <1>1 DEF LedgerInv, TablesInv, Notes
<1>. QED  BY <1>1, <1>2 DEF AvizRow

LEMMA AvizLedger ==
    ASSUME Inv, NEW c \in Calls, AvizStep(c)
    PROVE  LedgerInv'
<1>0. TypeInv /\ LedgerInv /\ CallOK
  BY DEF Inv, StockInv, Balanced, TypeInv
<1>. USE DEF Inside
<1>1. CASE AvizCheck(c)
  <2>1. Op(c).kind = "aviz" /\ call[c].pc = "check" /\ UNCHANGED <<tables, audited, lock, tx>>
    BY <1>1 DEF AvizCheck, At, Op
  <2>. DEFINE same == {a \in avize : a.project = Op(c).to.project /\ a.number = Op(c).number}
  <2>2. CASE same = {} /\ Goto(c, "header")
    <3>1. ~call[c].retry
      BY <1>0, <2>1, <2>2, RepeatedNoteFound
    <3>2. Continues(c, "header") /\ call'[c].line = call[c].line
      BY <1>0, <2>1, <2>2, GotoShape DEF Continues, Others
    <3>. QED  BY <1>0, <2>1, <3>1, <3>2, EnterLedger DEF Valid, tables
  <2>3. CASE Reply(c, "replayed")
    BY <1>0, <2>1, <2>3, ReplyLedger
  <2>4. CASE (\A a \in same : Op(c).key = Null \/ a.key # Op(c).key) /\ Reply(c, "conflict")
    <3>1. ~call[c].retry
      BY <1>0, <2>1, <2>4, RepeatedNoteFound
    <3>. QED  BY <1>0, <2>1, <2>4, <3>1, ReplyLedger
  <2>. QED  BY <1>1, <2>2, <2>3, <2>4 DEF AvizCheck
<1>2. CASE AvizInsert(c)
  <2>1. Op(c).kind = "aviz" /\ call[c].pc = "header"
    BY <1>2 DEF AvizInsert, At, Op
  <2>2. CASE Fail(c, "conflict") \/ Fail(c, "rejected")
    BY <1>0, <1>2, <2>1, <2>2, FailLedger DEF AvizInsert, InTransaction
  <2>3. CASE /\ \A a \in avize : ~SameAviz(Op(c), a)
             /\ tx' = [tx EXCEPT ![c].header = {AvizRow(c)}] /\ Goto(c, "find")
    <3>1. /\ \A d \in Calls \ {c} : tx'[d] = tx[d]
          /\ tx'[c].header = {AvizRow(c)} /\ tx'[c].inserts = tx[c].inserts
          /\ tx'[c].writes = tx[c].writes
      BY <1>0, <2>3 DEF TypeInv, TxOK, Workspaces
    <3>2. Continues(c, "find") /\ call'[c].line = call[c].line
      BY <1>0, <2>3, <3>1, GotoShape DEF Continues, Others
    <3>. QED  BY <1>0, <1>2, <2>1, <2>3, <3>1, <3>2, HeaderLedger DEF AvizInsert, tables
  <2>. QED  BY <1>2, <2>2, <2>3 DEF AvizInsert
<1>3. CASE AvizFind(c)
  <2>1. Op(c).kind = "aviz" /\ call[c].pc = "find"
    BY <1>3 DEF AvizFind, At, Op
  <2>2. PICK step \in {"lock", "create"} : Finds(c, Target(c), step)
    BY <1>3 DEF AvizFind, Target, Finds
  <2>3. WritesInv(c)
    BY <1>0, <2>1, TxIsOpen DEF InTransaction, TxInv
  <2>4. /\ Op(c)' = Op(c) /\ Item(c)' = Item(c) /\ tx' = tx
        /\ call'[c].pc = step /\ call'[c].row = Target(c)
    BY <1>0, <1>3, <2>2, RowShape DEF AvizFind
  <2>5. WritesInv(c)'
    BY <2>1, <2>3, <2>4 DEF WritesInv, AvizWrites, Target
  <2>. QED  BY <1>0, <1>3, <2>1, <2>2, <2>5, FindLedger DEF AvizFind
<1>4. CASE AvizIncrement(c) \/ AvizCreate(c)
  <2>1. Op(c).kind = "aviz" /\ call[c].pc \in {"lock", "create"} /\ call[c].row \in Rows
    BY <1>0, <1>4 DEF AvizIncrement, AvizCreate, At, Op, CallOK, RowWaits
  <2>2. CASE Fail(c, "conflict")
    BY <1>0, <1>4, <2>1, <2>2, FailLedger DEF AvizIncrement, AvizCreate, InTransaction, tables
  <2>3. CASE /\ WriteRow(c, call[c].row, Item(c).qty) \/ InsertRow(c, call[c].row, Item(c).qty)
             /\ Goto(c, "record")
    <3>1. WritesInv(c) /\ Item(c).qty \in Int /\ Item(c).qty > 0
      <4>1. call[c].pc \in Working
        BY <2>1 DEF Working, Steps
      <4>. QED  BY <1>0, <2>1, <4>1, TxIsOpen, ItemOK
                DEF InTransaction, TxInv, Inv, StockInv, Positive, PositiveItems
    <3>2. \E i \in DOMAIN Op(c).items :
             call[c].row = RowAt(Op(c).items[i].material, Op(c).to)
      <4>1. call[c].row = Target(c) /\ call[c].line \in DOMAIN Op(c).items
        BY <1>0, <2>1, <3>1, LineInItems DEF WritesInv, AvizWrites
      <4>. QED  BY <4>1 DEF Target, Item
    <3>3. \A r \in Rows : tx[c].writes[r] \in Int
      BY <1>0, WritesAreInts
    <3>4. \A r \in Rows : tx'[c].writes[r] = IF r = call[c].row THEN tx[c].writes[r] + Item(c).qty
                                             ELSE tx[c].writes[r]
      BY <1>0, <2>1, <2>3, <3>1, WriteShape
    <3>5. Op(c)' = Op(c) /\ call'[c].pc = "record"
      BY <1>0, <2>3, GotoShape
    <3>6. WritesInv(c)'
      BY <2>1, <3>1, <3>2, <3>3, <3>4, <3>5 DEF WritesInv, AvizWrites
    <3>. QED  BY <1>0, <1>4, <2>1, <2>3, <3>1, <3>6, WriteLedger
              DEF AvizIncrement, AvizCreate
  <2>. QED  BY <1>4, <2>2, <2>3 DEF AvizIncrement, AvizCreate
<1>5. CASE AvizRecord(c)
  <2>. DEFINE key == ItemKey(Op(c), Item(c).material)
  <2>1. Op(c).kind = "aviz" /\ call[c].pc = "record" /\ WaitsFor(c) = {} /\ UNCHANGED tables
    BY <1>5 DEF AvizRecord, At, Op
  <2>2. CASE Fail(c, "conflict") /\ UNCHANGED audited
    BY <1>0, <2>1, <2>2, FailLedger DEF InTransaction
  <2>3. CASE /\ ~KeyTaken(c, key)
             /\ InsertMovements(c, {NewMovement(c, "RECEIPT",
                   [project |-> Op(c).to.project, warehouse |-> Null], key)})
             /\ \/ /\ call[c].line < Len(Op(c).items)
                   /\ call' = [call EXCEPT ![c].line = @ + 1, ![c].pc = "find"]
                   /\ UNCHANGED audited
                \/ /\ call[c].line = Len(Op(c).items)
                   /\ RecordAudit(c)
                   /\ Goto(c, "commit")
    <3>1. InsertMovements(c, Legs(c, Op(c), call[c].line)) /\ audited' \ {c} = audited \ {c}
      BY <1>0, <2>1, <2>3, InsertedLegs DEF RecordAudit
    <3>2. \A k \in NextKeys(c) : ~KeyUsed(k)
      BY <2>1, <2>3 DEF NextKeys, KeyTaken
    <3>3. /\ \A d \in Calls \ {c} : call'[d] = call[d]
          /\ SameRequest(c) /\ call'[c].answer = call[c].answer /\ call'[c].row = call[c].row
          /\ \/ /\ call'[c].pc = "commit" /\ call'[c].line = call[c].line
                /\ call[c].line = Len(Op(c).items)
             \/ /\ call'[c].pc = "find" /\ call'[c].line = call[c].line + 1
      <4>1. CASE call' = [call EXCEPT ![c].line = @ + 1, ![c].pc = "find"]
        BY <1>0, <4>1 DEF SameRequest, CallOK, CallStates
      <4>2. CASE call[c].line = Len(Op(c).items) /\ Goto(c, "commit")
        BY <1>0, <4>2, GotoShape
      <4>. QED  BY <2>3, <4>1, <4>2
    <3>4. Records(c)
      BY <1>0, <2>1, <3>1, <3>3, InsertShape DEF Records, Others, tables
    <3>. QED  BY <1>0, <2>1, <3>2, <3>4, RecordLedger
  <2>. QED  BY <1>5, <2>2, <2>3 DEF AvizRecord
<1>. QED  BY <1>1, <1>2, <1>3, <1>4, <1>5 DEF AvizStep

LEMMA InitLedger == Init => LedgerInv
<1>. SUFFICES ASSUME Init PROVE LedgerInv
  OBVIOUS
<1>1. \A c \in Calls : /\ call[c].pc = "free" /\ call[c].op = Null /\ ~call[c].retry
                       /\ call[c].answer = Null /\ tx[c] = NoTx
  BY DEF Init, StockDbInit
<1>2. movements = {} /\ avize = {} /\ audited = {} /\ Done = {}
  BY <1>1, StockAssumption DEF Init, StockDbInit, Done
<1>3. \A c \in Calls : CallInv(c)
  BY <1>1, <1>2 DEF CallInv, RetryInv, InTransaction
<1>4. TablesInv
  BY <1>2 DEF TablesInv
<1>5. \A c \in Calls : Held(c) = {} /\ Notes(c) = {}
  BY <1>1, <1>2 DEF Held, Notes, NoTx
<1>6. ApartInv
  BY <1>5 DEF ApartInv, Apart
<1>. QED  BY <1>3, <1>4, <1>6 DEF LedgerInv

LEMMA StutterLedger ==
    ASSUME LedgerInv, UNCHANGED vars
    PROVE  LedgerInv'
<1>1. call' = call /\ tx' = tx /\ movements' = movements /\ avize' = avize /\ audited' = audited
  BY DEF vars
<1>2. Done' = Done /\ \A c \in Calls : /\ Op(c)' = Op(c) /\ Item(c)' = Item(c)
                                       /\ AvizRow(c)' = AvizRow(c)
  BY <1>1 DEF Done, Op, Item, AvizRow
<1>3. \A c \in Calls : /\ AllEntries(c)' = AllEntries(c)
                       /\ Held(c)' = Held(c) /\ Notes(c)' = Notes(c)
  BY <1>1, <1>2 DEF AllEntries, Held, Notes
<1>4. TablesInv'
  BY <1>1, <1>2, <1>3 DEF LedgerInv, TablesInv, Done
<1>5. ApartInv'
  BY <1>3 DEF LedgerInv, ApartInv, Apart
<1>6. ASSUME NEW c \in Calls PROVE CallInv(c)'
  <2>1. CallInv(c)
    BY DEF LedgerInv
  <2>0. WritesInv(c)' = WritesInv(c) /\ Posted(c)' = Posted(c)
    BY <1>1, <1>2 DEF Posted, WritesInv, ReceiveWrites, ConsumeWrites, TransferWrites, AvizWrites,
       Target, Source
  <2>2. InTransaction(c)' = InTransaction(c) /\ TxInv(c)' = TxInv(c)
    BY <1>1, <1>2, <2>0 DEF InTransaction, TxInv
  <2>3. RetryInv(c)'
    BY <1>1, <1>2, <2>1, Zenon DEF CallInv, RetryInv, Done
  <2>. QED  BY <1>1, <1>2, <2>1, <2>2, <2>3 DEF CallInv
<1>. QED  BY <1>4, <1>5, <1>6 DEF LedgerInv

LEMMA WaitersAreInside ==
    ASSUME NEW c \in Calls, Deadlocked(c)
    PROVE  InTransaction(c)
<1>1. PICK S \in SUBSET Calls : c \in S /\ \A d \in S : S \cap WaitsFor(d) # {}
  BY DEF Deadlocked
<1>2. WaitsFor(c) # {}
  BY <1>1
<1>. QED  BY <1>2 DEF WaitsFor, RowWaits, InTransaction

LEMMA NextLedger ==
    ASSUME Inv, [Next]_vars
    PROVE  LedgerInv'
<1>0. TypeInv /\ LedgerInv
  BY DEF Inv, StockInv, Balanced
<1>1. CASE UNCHANGED vars
  BY <1>0, <1>1, StutterLedger
<1>2. ASSUME NEW c \in Calls, Begin(c) PROVE LedgerInv'
  BY <1>0, <1>2, BeginLedger
<1>3. ASSUME NEW c \in Calls, Step(c) PROVE LedgerInv'
  BY <1>0, <1>3, ReceiveLedger, ConsumeLedger, TransferLedger, AvizLedger, CommitLedger DEF Step
<1>4. ASSUME NEW c \in Calls, Abort(c) PROVE LedgerInv'
  BY <1>0, <1>4, FailLedger DEF Abort
<1>5. ASSUME NEW c \in Calls, AbortDeadlocked(c) PROVE LedgerInv'
  <2>1. InTransaction(c)
    BY <1>5, WaitersAreInside DEF AbortDeadlocked
  <2>. QED  BY <1>0, <1>5, <2>1, FailLedger DEF AbortDeadlocked
<1>. QED  BY <1>1, <1>2, <1>3, <1>4, <1>5 DEF Next, Finished

LEMMA InvHolds == Spec => []Inv
<1>1. Init => Inv
  BY InitInv, InitLedger DEF Inv
<1>2. Inv /\ [Next]_vars => Inv'
  BY NextInv, NextLedger DEF Inv
<1>. QED  BY <1>1, <1>2, PTL DEF Spec

----------------------------------------------------------------------------
(* What follows from the invariant. *)

LEMMA DoneIsDone ==
    ASSUME Inv, NEW c \in Done
    PROVE  c \in Calls /\ call[c].pc = "done" /\ CallOK /\ Op(c) \in Operations
<1>1. c \in Calls /\ call[c].pc = "done"
  BY AnswerOpen DEF Inv, Done
<1>2. CallOK
  BY DEF Inv, StockInv, Balanced, TypeInv
<1>. QED  BY <1>1, <1>2, ItemOK

\* The keys a request is to be recorded under are on rows the call holds once it has
\* posted every item.
LEMMA KeysHeld ==
    ASSUME TypeInv, NEW c \in Calls, call[c].pc # "free", NEW i \in 1..Len(Op(c).items)
    PROVE  /\ Op(c).kind \in {"receive", "consume"} => \E m \in AllEntries(c) : m.key = RawKey(Op(c))
           /\ Op(c).kind = "transfer" => /\ \E m \in AllEntries(c) : m.key = OutKey(Op(c))
                                         /\ \E m \in AllEntries(c) : m.key = InKey(Op(c))
           /\ Op(c).kind = "aviz" =>
                 \E m \in AllEntries(c) : m.key = ItemKey(Op(c), Op(c).items[i].material)
<1>1. Legs(c, Op(c), i) \subseteq AllEntries(c)
  BY DEF AllEntries, Entries
<1>. QED  BY <1>1, LegsCoverKeys

LEMMA KeyOnce == Inv => KeyTakesEffectOnce
<1>. SUFFICES ASSUME Inv, NEW c \in Calls, NEW d \in Calls, c # d,
                     call[c].answer = "ok", call[d].answer = "ok",
                     Op(c).key # Null, Op(c).key = Op(d).key, Op(c).kind = Op(d).kind
              PROVE  FALSE
  BY DEF KeyTakesEffectOnce, Op
<1>1. c \in Done /\ d \in Done /\ TypeInv
  BY DEF Done, Inv, StockInv, Balanced
<1>2. call[c].pc # "free" /\ call[d].pc # "free" /\ CallOK
  BY <1>1, DoneIsDone
<1>3. Held(c) = AllEntries(c) /\ Held(d) = AllEntries(d) /\ Apart(c, d)
  BY <1>1 DEF Held, Inv, LedgerInv, ApartInv
<1>4. 1 \in 1..Len(Op(c).items) /\ 1 \in 1..Len(Op(d).items)
  BY <1>2, LineInItems
<1>5. CASE Op(c).kind = "aviz"
  <2>1. AvizRow(c) \in Notes(c) /\ AvizRow(d) \in Notes(d)
    BY <1>1, <1>5 DEF Notes
  <2>. QED  BY <1>3, <2>1 DEF Apart, SameNote, AvizRow
<1>6. CASE Op(c).kind = "transfer"
  <2>1. PICK m \in AllEntries(c) : m.key = OutKey(Op(c))
    BY <1>1, <1>2, <1>4, <1>6, KeysHeld
  <2>2. PICK n \in AllEntries(d) : n.key = OutKey(Op(d))
    BY <1>1, <1>2, <1>4, <1>6, KeysHeld
  <2>. QED  BY <1>3, <2>1, <2>2 DEF Apart, OutKey
<1>7. CASE Op(c).kind \in {"receive", "consume"}
  <2>1. PICK m \in AllEntries(c) : m.key = RawKey(Op(c))
    BY <1>1, <1>2, <1>4, <1>7, KeysHeld
  <2>2. PICK n \in AllEntries(d) : n.key = RawKey(Op(d))
    BY <1>1, <1>2, <1>4, <1>7, KeysHeld
  <2>3. m.key = n.key /\ m.key[1] # Null
    <3>1. RawKey(Op(c)) = RawKey(Op(d))
      BY Zenon DEF RawKey
    <3>2. RawKey(Op(c))[1] = Op(c).key
      BY DEF RawKey
    <3>. QED  BY <2>1, <2>2, <3>1, <3>2
  <2>. QED  BY <1>3, <2>3 DEF Apart
<1>. QED  BY <1>2, <1>5, <1>6, <1>7, KindsAre

\* Two different things make a set of two.
LEMMA PairCount ==
    ASSUME NEW a, NEW b, a # b
    PROVE  Cardinality({a, b}) = 2
<1>1. IsFiniteSet({a}) /\ Cardinality({a}) = 1
  BY ONLY FS_Singleton
<1>2. Cardinality({a} \cup {b}) = Cardinality({a}) + 1
  <2>1. b \notin {a}
    OBVIOUS
  <2>. QED  BY ONLY <1>1, <2>1, FS_AddElement
<1>3. {a, b} = {a} \cup {b}
  OBVIOUS
<1>. QED  BY ONLY <1>1, <1>2, <1>3

\* The legs of a call, counted: one per item, two for a transfer.
LEMMA CountEntries ==
    ASSUME CallOK, NEW c \in Calls, call[c].pc # "free"
    PROVE  Cardinality(AllEntries(c)) =
              IF Op(c).kind = "transfer" THEN 2 ELSE Len(Op(c).items)
<1>. DEFINE n == Len(Op(c).items)
<1>1. n \in Nat
  BY LineInItems
<1>2. CASE Op(c).kind = "transfer"
  <2>. DEFINE out == Leg(c, Op(c), 1, "TRANSFER_OUT", Outgoing(Op(c)), OutKey(Op(c)))
              in  == Leg(c, Op(c), 1, "TRANSFER_IN", Incoming(Op(c)), InKey(Op(c)))
  <2>1. n = 1
    BY <1>2, OneItem
  <2>2. AllEntries(c) = Legs(c, Op(c), 1)
    BY <2>1 DEF AllEntries, Entries
  <2>3. Legs(c, Op(c), 1) = {out, in}
    BY <1>2 DEF Legs
  <2>4. out # in
    <3>1. out.type = "TRANSFER_OUT" /\ in.type = "TRANSFER_IN"
      BY DEF Leg
    <3>. QED  BY <3>1
  <2>. HIDE DEF out, in
  <2>5. Cardinality({out, in}) = 2
    BY ONLY <2>4, PairCount
  <2>. QED  BY <1>2, <2>2, <2>3, <2>5
<1>3. CASE Op(c).kind # "transfer"
  <2>1. \A i \in 1..n : \E m : Legs(c, Op(c), i) = {m}
    BY <1>3, KindsAre DEF Legs
  <2>. DEFINE f == [i \in 1..n |-> CHOOSE m : Legs(c, Op(c), i) = {m}]
  <2>2. \A i \in 1..n : Legs(c, Op(c), i) = {f[i]}
    BY <2>1
  <2>3. \A i \in 1..n : f[i] \in AllEntries(c) /\ f[i].line = i
    <3>. SUFFICES ASSUME NEW i \in 1..n PROVE f[i] \in AllEntries(c) /\ f[i].line = i
      OBVIOUS
    <3>1. f[i] \in Legs(c, Op(c), i)
      BY <2>2
    <3>. HIDE DEF f
    <3>. QED  BY <3>1, LegFields, KindsAre DEF AllEntries, Entries
  <2>4. \A m \in AllEntries(c) : \E i \in 1..n : m = f[i]
    BY <2>2 DEF AllEntries, Entries
  <2>5. f \in [1..n -> AllEntries(c)]
    BY <2>3
  <2>. HIDE DEF f
  <2>6. f \in Bijection(1..n, AllEntries(c))
    <3>1. IsInjective(f)
      BY <2>3, <2>5 DEF IsInjective
    <3>. QED  BY <2>4, <2>5, <3>1 DEF Bijection, Injection, Surjection
  <2>. QED  BY <1>1, <1>3, <2>6, FS_CountingElements DEF ExistsBijection
<1>. QED  BY <1>2, <1>3

LEMMA EntryOwner ==
    ASSUME CallOK, NEW c \in Calls, call[c].pc # "free", NEW m \in AllEntries(c)
    PROVE  m.call = c
BY LegFields, KindsAre DEF AllEntries, Entries

LEMMA WholeOrNothing == Inv => AllOrNothing
<1>. SUFFICES ASSUME Inv, NEW c \in Calls
              PROVE  LET mine == {m \in movements : m.call = c}
                         owed == IF call[c].op.kind = "transfer" THEN 2 ELSE Len(call[c].op.items)
                     IN  /\ call[c].answer = "ok" => Cardinality(mine) = owed
                         /\ call[c].answer # "ok" => mine = {} /\ \A a \in avize : a.call # c
                         /\ call[c].pc # "free" /\ call[c].op.kind = "consume"
                            => (c \in audited <=> call[c].answer = "ok")
  BY DEF AllOrNothing
<1>. DEFINE mine == {m \in movements : m.call = c}
<1>1. \A d \in Done : d \in Calls /\ call[d].pc # "free" /\ CallOK
  BY DoneIsDone
<1>2. ASSUME NEW m \in movements
      PROVE  \E d \in Done : m \in AllEntries(d) /\ m.call = d
  BY <1>1, CommittedRows, EntryOwner DEF Inv
<1>3. CASE call[c].answer = "ok"
  <2>1. c \in Done
    BY <1>3 DEF Done
  <2>2. AllEntries(c) \subseteq mine
    BY <1>1, <2>1, EntryOwner DEF Inv, LedgerInv, TablesInv
  <2>3. mine \subseteq AllEntries(c)
    BY <1>2
  <2>. QED  BY <1>1, <1>3, <2>1, <2>2, <2>3, CountEntries DEF Inv, LedgerInv, CallInv, Op
<1>4. CASE call[c].answer # "ok"
  <2>1. c \notin Done
    BY <1>4 DEF Done
  <2>2. mine = {}
    BY <1>2, <2>1
  <2>3. \A a \in avize : a.call # c
    BY <2>1 DEF Inv, LedgerInv, TablesInv, Notes, AvizRow
  <2>. QED  BY <1>4, <2>1, <2>2, <2>3 DEF Inv, LedgerInv, CallInv, Op
<1>. QED  BY <1>3, <1>4

LEMMA Replayed == Inv => RetryIsReplayed
BY DEF Inv, LedgerInv, CallInv, RetryInv, RetryIsReplayed, Op

\* Requests that carry the same key for the same operation take effect once, whatever
\* the number of calls and keys (inventory.service.ts:122, 287 and the unique indexes).
THEOREM KeyTakesEffectOnceHolds == Spec => []KeyTakesEffectOnce
BY InvHolds, KeyOnce, PTL

\* A call that succeeded has left one movement per item, two for a transfer, and its
\* audit row; any other has left nothing.
THEOREM AllOrNothingHolds == Spec => []AllOrNothing
BY InvHolds, WholeOrNothing, PTL

\* A receipt, consumption or delivery note sent again with its key is answered from the
\* ledger.
THEOREM RetryIsReplayedHolds == Spec => []RetryIsReplayed
BY InvHolds, Replayed, PTL

----------------------------------------------------------------------------
(* The refinement of AtomicStock: a COMMIT is the request carried out whole,   *)
(* Begin is the request sent, and every other statement is a stutter.          *)

LEMMA KeysApart ==
    ASSUME Inv, NEW c \in Calls, call[c].pc = "commit", NEW d \in Done
    PROVE  Atomic!LedgerKeys(Op(c)) \cap Atomic!LedgerKeys(Op(d)) = {}
<1>1. TypeInv /\ CallOK /\ c \in Calls /\ d \in Calls /\ call[d].pc # "free" /\ c \notin Done
  BY DoneIsDone, AnswerOpen DEF Inv, StockInv, Balanced
<1>2. ASSUME NEW e \in {c, d}, NEW k \in Atomic!LedgerKeys(Op(e))
      PROVE  \E m \in AllEntries(e) : m.key = k /\ k[1] # Null
  <2>1. Op(e).key # Null
    BY <1>2 DEF Atomic!LedgerKeys
  <2>2. Op(e).kind \in {"receive", "consume", "transfer", "aviz"}
    BY <1>1, KindsAre
  <2>3. 1 \in 1..Len(Op(e).items) /\ DOMAIN Op(e).items = 1..Len(Op(e).items)
    BY <1>1, LineInItems
  <2>4. CASE Op(e).kind = "aviz"
    <3>1. PICK i \in DOMAIN Op(e).items : k = ItemKey(Op(e), Op(e).items[i].material)
      BY <1>2, <2>1, <2>4 DEF Atomic!LedgerKeys, ItemKey
    <3>. QED  BY <1>1, <2>1, <2>3, <2>4, <3>1, KeysHeld DEF ItemKey
  <2>5. CASE Op(e).kind = "transfer"
    <3>1. k \in {OutKey(Op(e)), InKey(Op(e))} /\ k[1] # Null
      BY <1>2, <2>1, <2>5 DEF Atomic!LedgerKeys, OutKey, InKey
    <3>. QED  BY <1>1, <2>3, <2>5, <3>1, KeysHeld
  <2>6. CASE Op(e).kind \in {"receive", "consume"}
    <3>1. k = RawKey(Op(e))
      BY <1>2, <2>1, <2>6 DEF Atomic!LedgerKeys, RawKey
    <3>2. RawKey(Op(e))[1] # Null
      BY <2>1 DEF RawKey
    <3>. QED  BY <1>1, <2>3, <2>6, <3>1, <3>2, KeysHeld
  <2>. QED  BY <2>2, <2>4, <2>5, <2>6
<1>3. TxInv(c)
  BY TxIsOpen DEF Inv, StockInv, Balanced, InTransaction
<1>4. Held(c) = AllEntries(c) /\ Held(d) = AllEntries(d)
  BY <1>1, <1>3 DEF Held, TxInv, Posted, AllEntries
<1>5. Apart(c, d)
  BY <1>1 DEF Inv, LedgerInv, ApartInv
<1>. QED  BY <1>2, <1>4, <1>5 DEF Apart

\* What a transaction has written is the effect of its request.
LEMMA CommitEffect ==
    ASSUME Inv, NEW c \in Calls, Commit(c)
    PROVE  Atomic!Effect(Op(c))
<1>1. TypeInv /\ CallOK /\ call[c].pc = "commit"
  BY DEF Inv, StockInv, Balanced, TypeInv, Commit
<1>2. WritesInv(c) /\ Valid(Op(c)) /\ Op(c).kind \in {"receive", "consume", "transfer", "aviz"}
  BY <1>1, TxIsOpen, KindsAre DEF Inv, InTransaction, TxInv
<1>3. \A r \in Rows : /\ quantity[r] \in Int /\ tx[c].writes[r] \in Int
                      /\ quantity'[r] = quantity[r] + tx[c].writes[r]
  BY <1>1, WritesAreInts DEF Commit
<1>4. \A r \in Rows : Atomic!Change(r) = tx[c].writes[r]
  BY <1>3 DEF Atomic!Change
<1>5. Op(c).kind # "aviz" => Item(c) = Op(c).items[1]
  BY <1>1, OneItem DEF Item
<1>6. CASE Op(c).kind = "receive"
  BY <1>1, <1>2, <1>4, <1>5, <1>6
     DEF WritesInv, ReceiveWrites, Target, RowAt, Atomic!Effect, Atomic!Received, Atomic!RowOf
<1>7. CASE Op(c).kind = "consume"
  BY <1>1, <1>2, <1>4, <1>5, <1>7
     DEF WritesInv, ConsumeWrites, Atomic!Effect, Atomic!Consumed
<1>8. CASE Op(c).kind = "transfer"
  BY <1>1, <1>2, <1>4, <1>5, <1>8
     DEF WritesInv, TransferWrites, Source, Target, RowAt, Valid,
         Atomic!Effect, Atomic!Transferred, Atomic!RowOf
<1>9. CASE Op(c).kind = "aviz"
  BY <1>1, <1>2, <1>4, <1>9
     DEF WritesInv, AvizWrites, RowAt, Atomic!Effect, Atomic!Delivered, Atomic!RowOf
<1>. QED  BY <1>2, <1>6, <1>7, <1>8, <1>9

LEMMA CommitCarriesOut ==
    ASSUME Inv, Inv', NEW c \in Calls, Commit(c)
    PROVE  Atomic!CarryOut(c)
<1>1. TypeInv /\ TypeInv' /\ CallOK /\ call[c].pc = "commit" /\ c \notin Done
  BY AnswerOpen DEF Inv, StockInv, Balanced, TypeInv, Commit
<1>2. /\ \A d \in Calls \ {c} : call'[d] = call[d]
      /\ SameRequest(c) /\ call'[c].answer = "ok"
  BY <1>1, ReplyShape DEF Commit
<1>3. Done' = Done \cup {c}
  BY <1>2 DEF Done
<1>4. [d \in Calls |-> call'[d].op] = [d \in Calls |-> call[d].op]
  BY <1>2 DEF SameRequest
<1>5. call[c].op # Null
  BY <1>1, StockAssumption DEF CallOK
<1>6. quantity' \in [Rows -> Nat]
  BY DEF Inv, StockInv, Balanced, NeverOverdrawn, TypeInv, TablesOK
<1>7. \A d \in Done : Atomic!LedgerKeys(call[c].op) \cap Atomic!LedgerKeys(call[d].op) = {}
  BY <1>1, KeysApart DEF Op
<1>8. Atomic!Effect(call[c].op)
  BY CommitEffect DEF Op
<1>. QED  BY <1>1, <1>3, <1>4, <1>5, <1>6, <1>7, <1>8 DEF Atomic!CarryOut, Done

LEMMA BeginSends ==
    ASSUME Inv, Inv', NEW c \in Calls, Begin(c)
    PROVE  Atomic!Send(c)
<1>1. TypeInv /\ CallOK /\ CallOK' /\ call[c].pc = "free" /\ call[c].op = Null /\ UNCHANGED quantity
  BY DEF Inv, StockInv, Balanced, TypeInv, LedgerInv, CallInv, Begin, tables
<1>2. \A d \in Calls \ {c} : call'[d] = call[d]
  BY <1>1 DEF Begin, CallOK
<1>3. call'[c].pc = "check" /\ call'[c].answer = Null
  BY <1>1 DEF Begin, CallOK
<1>4. call'[c].op # Null
  BY <1>1, <1>3, StockAssumption DEF CallOK
<1>5. c \notin Done /\ c \notin Done'
  BY <1>1, <1>3, StockAssumption, AnswerOpen DEF Inv, Done
<1>6. Done' = Done
  BY <1>2, <1>5 DEF Done
<1>. QED  BY <1>1, <1>2, <1>4, <1>6 DEF Atomic!Send, Done

\* No other step answers "ok", changes a balance or the request of a call.
Stutters(c) ==
    /\ \A d \in Calls \ {c} : call'[d] = call[d]
    /\ call'[c].op = call[c].op /\ call'[c].answer # "ok" /\ quantity' = quantity

LEMMA Silent ==
    ASSUME Inv, NEW c \in Calls, call[c].pc # "done", quantity' = quantity,
           \/ \E step : Goto(c, step)
           \/ \E answer \in Answers \ {"ok"} : Reply(c, answer)
           \/ \E row, step : Finds(c, row, step)
           \/ call' = [call EXCEPT ![c].line = @ + 1, ![c].pc = "find"]
    PROVE  Stutters(c)
<1>1. TypeInv /\ CallOK /\ call[c].answer # "ok"
  BY AnswerOpen, StockAssumption DEF Inv, StockInv, Balanced, TypeInv
<1>2. ASSUME NEW step, Goto(c, step) PROVE Stutters(c)
  BY <1>1, <1>2, GotoShape DEF Stutters, SameRequest
<1>3. ASSUME NEW answer \in Answers \ {"ok"}, Reply(c, answer) PROVE Stutters(c)
  BY <1>1, <1>3, ReplyShape DEF Stutters, SameRequest
<1>4. ASSUME NEW row, NEW step, Finds(c, row, step) PROVE Stutters(c)
  BY <1>1, <1>4, RowShape DEF Stutters, SameRequest
<1>5. CASE call' = [call EXCEPT ![c].line = @ + 1, ![c].pc = "find"]
  BY <1>1, <1>5 DEF Stutters, CallOK, CallStates
<1>. QED  BY <1>2, <1>3, <1>4, <1>5

LEMMA OthersAreSilent ==
    ASSUME Inv, NEW c \in Calls, (Step(c) /\ ~Commit(c)) \/ Abort(c) \/ AbortDeadlocked(c)
    PROVE  Stutters(c)
<1>. USE DEF tables, Answers
<1>1. CASE ReceiveStep(c)
  <2>1. call[c].pc # "done" /\ quantity' = quantity
    BY <1>1 DEF ReceiveStep, ReceiveCheck, ReceiveFind, ReceiveIncrement, ReceiveCreate,
       ReceiveRecord, CheckRequest, At
  <2>2. \/ \E step : Goto(c, step)
        \/ \E answer \in Answers \ {"ok"} : Reply(c, answer)
        \/ \E row, step : Finds(c, row, step)
    BY <1>1 DEF ReceiveStep, ReceiveCheck, ReceiveFind, ReceiveIncrement, ReceiveCreate,
       ReceiveRecord, CheckRequest, Finds, Fail
  <2>. QED  BY <2>1, <2>2, Silent
<1>2. CASE ConsumeStep(c)
  <2>1. call[c].pc # "done" /\ quantity' = quantity
    BY <1>2 DEF ConsumeStep, ConsumeCheck, ConsumeRecheck, ConsumeFind, ConsumeDecrement,
       ConsumeRecord, ConsumeReadBack, CheckRequest, At, tables
  <2>2. \/ \E step : Goto(c, step)
        \/ \E answer \in Answers \ {"ok"} : Reply(c, answer)
        \/ \E row, step : Finds(c, row, step)
    BY <1>2 DEF ConsumeStep, ConsumeCheck, ConsumeRecheck, ConsumeFind, ConsumeDecrement,
       ConsumeRecord, ConsumeReadBack, CheckRequest, Finds, Fail
  <2>. QED  BY <2>1, <2>2, Silent
<1>3. CASE TransferStep(c)
  <2>1. call[c].pc # "done" /\ quantity' = quantity
    BY <1>3 DEF TransferStep, TransferCheck, TransferFindSource, TransferDecrement,
       TransferFindTarget, TransferIncrement, TransferCreate, TransferRecord, CheckRequest, At
  <2>2. \/ \E step : Goto(c, step)
        \/ \E answer \in Answers \ {"ok"} : Reply(c, answer)
        \/ \E row, step : Finds(c, row, step)
    BY <1>3 DEF TransferStep, TransferCheck, TransferFindSource, TransferDecrement,
       TransferFindTarget, TransferIncrement, TransferCreate, TransferRecord, CheckRequest,
       Finds, Fail
  <2>. QED  BY <2>1, <2>2, Silent
<1>4. CASE AvizStep(c)
  <2>1. call[c].pc # "done" /\ quantity' = quantity
    BY <1>4 DEF AvizStep, AvizCheck, AvizInsert, AvizFind, AvizIncrement, AvizCreate, AvizRecord, At
  <2>2. \/ \E step : Goto(c, step)
        \/ \E answer \in Answers \ {"ok"} : Reply(c, answer)
        \/ \E row, step : Finds(c, row, step)
        \/ call' = [call EXCEPT ![c].line = @ + 1, ![c].pc = "find"]
    BY <1>4 DEF AvizStep, AvizCheck, AvizInsert, AvizFind, AvizIncrement, AvizCreate, AvizRecord,
       Finds, Fail
  <2>. QED  BY <2>1, <2>2, Silent
<1>5. CASE Abort(c) \/ AbortDeadlocked(c)
  <2>1. Reply(c, "aborted") /\ quantity' = quantity
    BY <1>5 DEF Abort, AbortDeadlocked, Fail
  <2>2. call[c].pc # "done"
    BY <1>5, WaitersAreInside DEF Abort, AbortDeadlocked, InTransaction
  <2>. QED  BY <2>1, <2>2, Silent
<1>. QED  BY <1>1, <1>2, <1>3, <1>4, <1>5 DEF Step

\* Every step of the services is a step of the abstract specification or a stutter.
LEMMA StepSimulates ==
    ASSUME Inv, Inv', [Next]_vars
    PROVE  [Atomic!Next]_<<[c \in Calls |-> call[c].op],
                           {c \in Calls : call[c].answer = "ok"}, quantity>>
<1>1. CASE UNCHANGED vars
  BY <1>1 DEF vars
<1>2. ASSUME NEW c \in Calls, Begin(c) PROVE Atomic!Next
  BY <1>2, BeginSends DEF Atomic!Next
<1>3. ASSUME NEW c \in Calls, Commit(c) PROVE Atomic!Next
  BY <1>3, CommitCarriesOut DEF Atomic!Next
<1>4. ASSUME NEW c \in Calls, (Step(c) /\ ~Commit(c)) \/ Abort(c) \/ AbortDeadlocked(c)
      PROVE  UNCHANGED <<[d \in Calls |-> call[d].op], {d \in Calls : call[d].answer = "ok"},
                         quantity>>
  <2>1. Stutters(c)
    BY <1>4, OthersAreSilent
  <2>2. call[c].answer # "ok"
    <3>1. call[c].pc # "done"
      BY <1>4, WaitersAreInside DEF Step, ReceiveStep, ConsumeStep, TransferStep, AvizStep,
         ReceiveCheck, ReceiveFind, ReceiveIncrement, ReceiveCreate, ReceiveRecord,
         ConsumeCheck, ConsumeRecheck, ConsumeFind, ConsumeDecrement, ConsumeRecord,
         ConsumeReadBack, TransferCheck, TransferFindSource, TransferDecrement, TransferFindTarget,
         TransferIncrement, TransferCreate, TransferRecord,
         AvizCheck, AvizInsert, AvizFind, AvizIncrement, AvizCreate, AvizRecord, At,
         Abort, AbortDeadlocked, InTransaction
    <3>. QED  BY <3>1, AnswerOpen, StockAssumption DEF Inv
  <2>. QED  BY <2>1, <2>2 DEF Stutters
<1>. QED  BY <1>1, <1>2, <1>3, <1>4 DEF Next, Finished

LEMMA InitSimulates == Init => Atomic!Init
BY StockAssumption DEF Init, StockDbInit, AtStart, Atomic!Init

\* Whatever the interleaving of their statements, the receipts, consumptions, transfers
\* and delivery notes are carried out whole, one at a time, with no balance below zero
\* and no key used twice.
THEOREM Refinement == Spec => ImplementsAtomicStock
<1>1. Inv /\ Inv' /\ [Next]_vars
         => [Atomic!Next]_<<[c \in Calls |-> call[c].op],
                            {c \in Calls : call[c].answer = "ok"}, quantity>>
  BY StepSimulates
<1>. QED  BY <1>1, InvHolds, InitSimulates, PTL DEF Spec, ImplementsAtomicStock, Atomic!Spec

----------------------------------------------------------------------------
(* The ledger explains the stock.  The invariant keeps the books of every     *)
(* open transaction as well: what it has written to the balance rows of a      *)
(* material is what its movements say, and what it still owes the ledger.      *)

Signs         == [x \in Movements |-> Signed(x)]
RowsOf(m)     == {r \in Rows : r.material = m}
HeldOf(q, m)  == SumFunctionOnSet(q, RowsOf(m))
Moved(S, m)   == SumFunctionOnSet(Signs, {x \in S : x.material = m})

Open(s)   == s.pc \notin {"free", "check", "done"}
ItemOf(s) == s.op.items[s.line]

\* The quantity a call has written to a balance row and not yet entered in the ledger.
OwedBy(s, m) ==
    IF ItemOf(s).material # m THEN 0
    ELSE IF s.pc = "record" /\ s.op.kind \in {"receive", "aviz"} THEN ItemOf(s).qty
    ELSE IF \/ s.pc \in {"findTarget", "lockTarget", "createTarget"}
            \/ s.pc = "record" /\ s.op.kind = "consume" THEN -ItemOf(s).qty
    ELSE 0

\* The books of call c, in state s with workspace t.
Book(c, s, t) ==
    /\ ~Open(s) => t = NoTx
    /\ IsFiniteSet(t.inserts)
    /\ \A x \in t.inserts : x.call = c /\ (s.pc \in {"commit", "refused"} \/ x.line < s.line)
    /\ Open(s) => \A m \in Materials : HeldOf(t.writes, m) = Moved(t.inserts, m) + OwedBy(s, m)
    /\ s.pc \in RowWaits => s.row.material = ItemOf(s).material

Books ==
    /\ \A c \in Calls : Book(c, call[c], tx[c])
    /\ IsFiniteSet(movements)
    /\ \A x \in movements : call[x.call].pc = "done"
    /\ \A m \in Materials : HeldOf(quantity, m) = HeldOf(AtStart, m) + Moved(movements, m)

BooksInv == TypeInv /\ Books

LEMMA RowsFinite == \A m : IsFiniteSet(RowsOf(m)) /\ RowsOf(m) \subseteq Rows
BY StockAssumption, FS_Subset DEF RowsOf

LEMMA SignsAreInts == \A x \in Movements : Signs[x] \in Int /\ Signs[x] = Signed(x)
<1>. SUFFICES ASSUME NEW x \in Movements PROVE Signs[x] \in Int /\ Signs[x] = Signed(x)
  OBVIOUS
<1>1. Signs[x] = Signed(x)
  BY DEF Signs
<1>2. x.qty \in Int
  BY DEF Movements
<1>. QED  BY <1>1, <1>2 DEF Signed

LEMMA HeldIsInt ==
    ASSUME NEW w \in [Rows -> Int], NEW m
    PROVE  HeldOf(w, m) \in Int
BY RowsFinite, SumIsInt DEF HeldOf

LEMMA MovedIsInt ==
    ASSUME NEW S \in SUBSET Movements, IsFiniteSet(S), NEW m
    PROVE  Moved(S, m) \in Int
<1>. DEFINE T == {x \in S : x.material = m}
<1>1. IsFiniteSet(T) /\ T \subseteq Movements
  BY FS_Subset
<1>2. \A x \in T : Signs[x] \in Int
  BY <1>1, SignsAreInts
<1>. QED  BY <1>1, <1>2, SumIsInt DEF Moved

\* Nothing is held where nothing was written, and nothing moved without movements.
LEMMA NothingHeld ==
    ASSUME NEW w, \A r \in Rows : w[r] = 0, NEW m
    PROVE  HeldOf(w, m) = 0
BY RowsFinite, SumOfZeros DEF HeldOf

LEMMA NothingMoved == \A m : Moved({}, m) = 0
<1>1. \A m : {x \in {} : x.material = m} = {}
  OBVIOUS
<1>. QED  BY <1>1, SumEmpty DEF Moved

\* One row written.
LEMMA HeldAfterWrite ==
    ASSUME NEW w \in [Rows -> Int], NEW row \in Rows, NEW delta \in Int, NEW v,
           \A r \in Rows : v[r] = IF r = row THEN w[r] + delta ELSE w[r], NEW m
    PROVE  HeldOf(v, m) = HeldOf(w, m) + (IF row.material = m THEN delta ELSE 0)
<1>. DEFINE S == RowsOf(m)
            e == [r \in Rows |-> IF r = row THEN delta ELSE 0]
<1>1. IsFiniteSet(S) /\ S \subseteq Rows
  BY RowsFinite
<1>2. SumFunctionOnSet(v, S) = SumFunctionOnSet(w, S) + SumFunctionOnSet(e, S)
  <2>1. \A r \in S : w[r] \in Int /\ e[r] \in Int /\ v[r] = w[r] + e[r]
    BY <1>1
  <2>. HIDE DEF e
  <2>. QED  BY <1>1, <2>1, SumPlus
<1>3. CASE row.material = m
  <2>1. row \in S /\ e[row] = delta /\ \A r \in S \ {row} : e[r] = 0
    BY <1>1, <1>3 DEF RowsOf
  <2>2. SumFunctionOnSet(e, S) = delta
    <3>. HIDE DEF e
    <3>. QED  BY <1>1, <2>1, SumOfOne
  <2>. QED  BY <1>2, <1>3, <2>2 DEF HeldOf
<1>4. CASE row.material # m
  <2>1. \A r \in S : e[r] = 0
    BY <1>1, <1>4 DEF RowsOf
  <2>2. SumFunctionOnSet(e, S) = 0
    <3>. HIDE DEF e
    <3>. QED  BY <1>1, <2>1, SumOfZeros
  <2>. QED  BY <1>2, <1>4, <2>2 DEF HeldOf
<1>. QED  BY <1>3, <1>4

\* A transaction's writes reach the committed rows.
LEMMA HeldTogether ==
    ASSUME NEW q \in [Rows -> Int], NEW w \in [Rows -> Int], NEW v,
           \A r \in Rows : v[r] = q[r] + w[r], NEW m
    PROVE  HeldOf(v, m) = HeldOf(q, m) + HeldOf(w, m)
<1>1. IsFiniteSet(RowsOf(m)) /\ RowsOf(m) \subseteq Rows
  BY RowsFinite
<1>2. \A r \in RowsOf(m) : q[r] \in Int /\ w[r] \in Int /\ v[r] = q[r] + w[r]
  BY <1>1
<1>. QED  BY <1>1, <1>2, SumPlus DEF HeldOf

\* One movement more.
LEMMA MovedOneMore ==
    ASSUME NEW S \in SUBSET Movements, IsFiniteSet(S), NEW x \in Movements \ S, NEW m
    PROVE  Moved(S \cup {x}, m) = Moved(S, m) + (IF x.material = m THEN Signed(x) ELSE 0)
<1>. DEFINE T == {y \in S : y.material = m}
<1>1. IsFiniteSet(T) /\ x \notin T /\ Moved(S, m) = SumFunctionOnSet(Signs, T)
  BY FS_Subset DEF Moved
<1>2. Moved(S, m) \in Int /\ Signs[x] = Signed(x) /\ Signed(x) \in Int
  BY MovedIsInt, SignsAreInts
<1>3. CASE x.material = m
  <2>1. {y \in S \cup {x} : y.material = m} = T \cup {x}
    BY <1>3
  <2>2. \A y \in T \cup {x} : Signs[y] \in Int
    BY SignsAreInts
  <2>3. SumFunctionOnSet(Signs, T \cup {x}) = Signs[x] + SumFunctionOnSet(Signs, T)
    BY ONLY <1>1, <2>2, SumAdd
  <2>4. Moved(S \cup {x}, m) = Signed(x) + Moved(S, m)
    BY <1>1, <1>2, <2>1, <2>3 DEF Moved
  <2>. QED  BY <1>2, <1>3, <2>4
<1>4. CASE x.material # m
  <2>1. {y \in S \cup {x} : y.material = m} = T
    BY <1>4
  <2>2. Moved(S \cup {x}, m) = Moved(S, m)
    BY <1>1, <2>1 DEF Moved
  <2>. QED  BY <1>2, <1>4, <2>2
<1>. QED  BY <1>3, <1>4

\* The movements of two sets that have none in common.
LEMMA MovedTogether ==
    ASSUME NEW S \in SUBSET Movements, IsFiniteSet(S), NEW T \in SUBSET Movements, IsFiniteSet(T),
           S \cap T = {}, NEW m
    PROVE  Moved(S \cup T, m) = Moved(S, m) + Moved(T, m)
<1>. DEFINE A == {y \in S : y.material = m}
            B == {y \in T : y.material = m}
<1>1. IsFiniteSet(A) /\ IsFiniteSet(B) /\ A \cap B = {} /\ \A y \in A \cup B : Signs[y] \in Int
  BY FS_Subset, SignsAreInts
<1>2. {y \in S \cup T : y.material = m} = A \cup B
  OBVIOUS
<1>3. SumFunctionOnSet(Signs, A \cup B) = SumFunctionOnSet(Signs, A) + SumFunctionOnSet(Signs, B)
  <2>. HIDE DEF A, B
  <2>. QED  BY <1>1, SumUnion
<1>. QED  BY <1>2, <1>3 DEF Moved

----------------------------------------------------------------------------
(* How the books of one call change: state s and workspace t before its step, *)
(* s2 and t2 after it.                                                         *)

LEMMA ClosedBook ==
    ASSUME NEW c, NEW s2, ~Open(s2)
    PROVE  Book(c, s2, NoTx)
<1>1. NoTx.inserts = {} /\ IsFiniteSet(NoTx.inserts)
  BY FS_EmptySet DEF NoTx
<1>. QED  BY <1>1 DEF Book, Open, RowWaits

\* A transaction opens.
LEMMA OpenBook ==
    ASSUME NEW c, NEW s, NEW t, Book(c, s, t), ~Open(s),
           NEW s2, s2.pc \in {"recheck", "find", "header"}
    PROVE  Book(c, s2, t)
<1>1. t = NoTx /\ t.inserts = {} /\ \A r \in Rows : t.writes[r] = 0
  BY DEF Book, NoTx
<1>2. \A m \in Materials : HeldOf(t.writes, m) = 0 /\ Moved(t.inserts, m) = 0 /\ OwedBy(s2, m) = 0
  BY <1>1, NothingHeld, NothingMoved DEF OwedBy
<1>3. IsFiniteSet(t.inserts)
  BY <1>1, FS_EmptySet
<1>. QED  BY <1>1, <1>2, <1>3 DEF Book, Open, RowWaits

\* The call goes on at the same item, without writing.
LEMMA QuietBook ==
    ASSUME NEW c, NEW s, NEW t, Book(c, s, t), Open(s), s.pc \notin {"commit", "refused"},
           NEW s2, s2.op = s.op, s2.line = s.line, Open(s2),
           \A m \in Materials : OwedBy(s2, m) = OwedBy(s, m),
           s2.pc \in RowWaits => s2.row.material = ItemOf(s).material,
           NEW t2, t2.writes = t.writes, t2.inserts = t.inserts
    PROVE  Book(c, s2, t2)
BY DEF Book, ItemOf

\* It writes to a balance row of its item's material.
LEMMA WriteBook ==
    ASSUME NEW c, NEW s, NEW t \in Workspaces, Book(c, s, t), Open(s),
           s.pc \notin {"commit", "refused"},
           NEW s2, s2.op = s.op, s2.line = s.line, Open(s2), s2.pc \notin RowWaits,
           NEW row \in Rows, row.material = ItemOf(s).material, NEW delta \in Int,
           \A m \in Materials : /\ OwedBy(s, m) \in Int
                                /\ OwedBy(s2, m) = OwedBy(s, m) + (IF row.material = m THEN delta ELSE 0),
           NEW t2, t2.inserts = t.inserts,
           \A r \in Rows : t2.writes[r] = IF r = row THEN t.writes[r] + delta ELSE t.writes[r]
    PROVE  Book(c, s2, t2)
<1>1. t.writes \in [Rows -> Int] /\ t.inserts \in SUBSET Movements /\ IsFiniteSet(t.inserts)
  BY DEF Workspaces, Book
<1>2. \A m \in Materials : HeldOf(t2.writes, m) = Moved(t2.inserts, m) + OwedBy(s2, m)
  <2>. SUFFICES ASSUME NEW m \in Materials
                PROVE  HeldOf(t2.writes, m) = Moved(t2.inserts, m) + OwedBy(s2, m)
    OBVIOUS
  <2>1. HeldOf(t2.writes, m) = HeldOf(t.writes, m) + (IF row.material = m THEN delta ELSE 0)
    <3>1. PICK w, v : w = t.writes /\ v = t2.writes
      OBVIOUS
    <3>2. w \in [Rows -> Int] /\ \A r \in Rows : v[r] = IF r = row THEN w[r] + delta ELSE w[r]
      BY <1>1, <3>1
    <3>3. HeldOf(v, m) = HeldOf(w, m) + (IF row.material = m THEN delta ELSE 0)
      BY ONLY <3>2, row \in Rows, delta \in Int, HeldAfterWrite
    <3>. QED  BY <3>1, <3>3
  <2>2. HeldOf(t.writes, m) = Moved(t.inserts, m) + OwedBy(s, m)
    BY DEF Book
  <2>3. Moved(t.inserts, m) \in Int
    BY <1>1, MovedIsInt
  <2>. QED  BY <2>1, <2>2, <2>3
<1>. QED  BY <1>2 DEF Book

\* A movement of the item the call is at.
Entry(c, s, x) == x \in Movements /\ x.call = c /\ x.line = s.line /\ x.material = ItemOf(s).material

\* The call is at a later item, or has none left.
Advances(s, s2) ==
    /\ s2.op = s.op /\ Open(s2) /\ s2.pc \notin RowWaits \cup {"record"}
    /\ s2.pc \notin {"findTarget"}
    /\ s2.pc \in {"commit", "refused"} \/ s2.line = s.line + 1

\* It enters what it owes in the ledger: one movement, or two that cancel out.
LEMMA EntryBook ==
    ASSUME NEW c, NEW s, NEW t \in Workspaces, Book(c, s, t), Open(s), s.line \in Nat,
           s.pc \notin {"commit", "refused"}, NEW s2, Advances(s, s2),
           NEW x, Entry(c, s, x), NEW t2, t2.writes = t.writes, t2.inserts = t.inserts \cup {x},
           \A m \in Materials : OwedBy(s, m) = IF x.material = m THEN Signed(x) ELSE 0
    PROVE  Book(c, s2, t2)
<1>1. t.writes \in [Rows -> Int] /\ t.inserts \in SUBSET Movements /\ IsFiniteSet(t.inserts)
  BY DEF Workspaces, Book
<1>2. \A y \in t.inserts : y.call = c /\ y.line < s.line
  BY DEF Book
<1>3. \A y \in Movements : y.line \in Nat
  BY DEF Movements
<1>4. x \in Movements \ t.inserts
  BY <1>1, <1>2, <1>3 DEF Entry
<1>5. \A m \in Materials : HeldOf(t2.writes, m) = Moved(t2.inserts, m) + OwedBy(s2, m)
  <2>. SUFFICES ASSUME NEW m \in Materials
                PROVE  HeldOf(t2.writes, m) = Moved(t2.inserts, m) + OwedBy(s2, m)
    OBVIOUS
  <2>1. Moved(t2.inserts, m) = Moved(t.inserts, m) + OwedBy(s, m)
    <3>1. PICK S : S = t.inserts
      OBVIOUS
    <3>2. S \in SUBSET Movements /\ IsFiniteSet(S) /\ x \in Movements \ S
      BY <1>1, <1>4, <3>1
    <3>3. Moved(S \cup {x}, m) = Moved(S, m) + (IF x.material = m THEN Signed(x) ELSE 0)
      BY ONLY <3>2, MovedOneMore
    <3>. QED  BY <3>1, <3>3
  <2>2. OwedBy(s2, m) = 0
    BY DEF Advances, OwedBy, RowWaits
  <2>3. HeldOf(t.writes, m) = Moved(t.inserts, m) + OwedBy(s, m)
    BY DEF Book
  <2>4. HeldOf(t.writes, m) \in Int
    BY <1>1, HeldIsInt
  <2>. QED  BY <2>1, <2>2, <2>3, <2>4
<1>6. IsFiniteSet(t2.inserts)
  BY <1>1, FS_AddElement
<1>7. \A y \in t2.inserts : y.call = c /\ (s2.pc \in {"commit", "refused"} \/ y.line < s2.line)
  BY <1>1, <1>2, <1>3 DEF Entry, Advances
<1>. QED  BY <1>5, <1>6, <1>7 DEF Book, Advances

LEMMA TwoEntriesBook ==
    ASSUME NEW c, NEW s, NEW t \in Workspaces, Book(c, s, t), Open(s), s.line \in Nat,
           s.pc \notin {"commit", "refused"}, NEW s2, Advances(s, s2),
           NEW x, Entry(c, s, x), NEW y, Entry(c, s, y), x # y,
           Signed(x) \in Int, Signed(y) = -Signed(x),
           NEW t2, t2.writes = t.writes, t2.inserts = t.inserts \cup {x, y},
           \A m \in Materials : OwedBy(s, m) = 0
    PROVE  Book(c, s2, t2)
<1>1. t.writes \in [Rows -> Int] /\ t.inserts \in SUBSET Movements /\ IsFiniteSet(t.inserts)
  BY DEF Workspaces, Book
<1>2. \A z \in t.inserts : z.call = c /\ z.line < s.line
  BY DEF Book
<1>3. \A z \in Movements : z.line \in Nat
  BY DEF Movements
<1>4. x \in Movements \ t.inserts /\ y \in Movements \ (t.inserts \cup {x})
  BY <1>1, <1>2, <1>3 DEF Entry
<1>5. IsFiniteSet(t.inserts \cup {x}) /\ t.inserts \cup {x} \in SUBSET Movements
  BY <1>1, <1>4, FS_AddElement
<1>6. t2.inserts = (t.inserts \cup {x}) \cup {y}
  OBVIOUS
<1>7. \A m \in Materials : HeldOf(t2.writes, m) = Moved(t2.inserts, m) + OwedBy(s2, m)
  <2>. SUFFICES ASSUME NEW m \in Materials
                PROVE  HeldOf(t2.writes, m) = Moved(t2.inserts, m) + OwedBy(s2, m)
    OBVIOUS
  <2>1. Moved(t.inserts \cup {x}, m) = Moved(t.inserts, m) + (IF x.material = m THEN Signed(x) ELSE 0)
    BY <1>1, <1>4, MovedOneMore
  <2>2. Moved(t2.inserts, m) = Moved(t.inserts \cup {x}, m) + (IF y.material = m THEN Signed(y) ELSE 0)
    <3>1. PICK S : S = t.inserts \cup {x}
      OBVIOUS
    <3>2. S \in SUBSET Movements /\ IsFiniteSet(S) /\ y \in Movements \ S
      BY <1>4, <1>5, <3>1
    <3>3. Moved(S \cup {y}, m) = Moved(S, m) + (IF y.material = m THEN Signed(y) ELSE 0)
      BY ONLY <3>2, MovedOneMore
    <3>. QED  BY <1>6, <3>1, <3>3
  <2>3. OwedBy(s2, m) = 0
    BY DEF Advances, OwedBy, RowWaits
  <2>4. HeldOf(t.writes, m) = Moved(t.inserts, m) + 0 /\ Moved(t.inserts, m) \in Int
    BY <1>1, MovedIsInt DEF Book
  <2>5. x.material = y.material
    BY DEF Entry
  <2>. QED  BY <2>1, <2>2, <2>3, <2>4, <2>5
<1>8. IsFiniteSet(t2.inserts)
  BY <1>5, <1>6, FS_AddElement
<1>9. \A z \in t2.inserts : z.call = c /\ (s2.pc \in {"commit", "refused"} \/ z.line < s2.line)
  BY <1>1, <1>2, <1>3 DEF Entry, Advances
<1>. QED  BY <1>7, <1>8, <1>9 DEF Book, Advances

----------------------------------------------------------------------------
(* The invariant. *)

\* A step of c that commits nothing.
LEMMA LocalBooks ==
    ASSUME TypeInv, Books, NEW c \in Calls, Others(c), call[c].pc # "done",
           UNCHANGED <<movements, quantity>>, Book(c, call'[c], tx'[c])
    PROVE  Books'
<1>1. \A d \in Calls : Book(d, call'[d], tx'[d])
  BY DEF Books, Others
<1>2. \A x \in movements : x.call \in Calls /\ x.call # c
  BY DEF Books, TypeInv, TablesOK, Movements
<1>3. \A x \in movements : call'[x.call].pc = "done"
  BY <1>2 DEF Books, Others
<1>4. \A m \in Materials : HeldOf(quantity', m) = HeldOf(AtStart, m) + Moved(movements', m)
  BY DEF Books
<1>5. IsFiniteSet(movements')
  BY DEF Books
<1>. QED  BY <1>1, <1>3, <1>4, <1>5 DEF Books

LEMMA CallTypes ==
    ASSUME TypeInv, NEW c \in Calls, call[c].pc # "free"
    PROVE  /\ tx[c] \in Workspaces /\ ItemOf(call[c]) = Item(c)
           /\ Item(c).material \in Materials /\ Item(c).qty \in Int /\ -Item(c).qty \in Int
           /\ call[c].line \in Nat
           /\ \A m : OwedBy(call[c], m) \in Int
<1>1. /\ Item(c).material \in Materials /\ Item(c).qty \in Int /\ -Item(c).qty \in Int
      /\ call[c].line \in Nat /\ ItemOf(call[c]) = Item(c)
  BY ItemOK DEF TypeInv, ItemOf, Item, Op
<1>. QED  BY <1>1 DEF TypeInv, TxOK, OwedBy

LEMMA FailBooks ==
    ASSUME BooksInv, NEW c \in Calls, NEW answer, call[c].pc # "done",
           Fail(c, answer), UNCHANGED <<movements, quantity>>
    PROVE  Books'
<1>1. tx'[c] = NoTx /\ Others(c)
  BY ReplyShape DEF BooksInv, Fail, EndTx, TypeInv, TxOK, Others
<1>2. ~Open(call'[c])
  BY ReplyShape DEF BooksInv, Fail, Open
<1>. QED  BY <1>1, <1>2, ClosedBook, LocalBooks DEF BooksInv

LEMMA ReplyBooks ==
    ASSUME BooksInv, NEW c \in Calls, NEW answer, call[c].pc = "check",
           Reply(c, answer), UNCHANGED <<movements, quantity, tx>>
    PROVE  Books'
<1>1. tx'[c] = NoTx /\ Others(c)
  BY ReplyShape DEF BooksInv, Books, Book, Open, Others
<1>2. ~Open(call'[c])
  BY ReplyShape DEF BooksInv, Open
<1>. QED  BY <1>1, <1>2, ClosedBook, LocalBooks DEF BooksInv

LEMMA OpenBooks ==
    ASSUME BooksInv, NEW c \in Calls, NEW step \in {"recheck", "find", "header"}, call[c].pc = "check",
           Goto(c, step), UNCHANGED <<movements, quantity, tx>>
    PROVE  Books'
<1>1. call'[c].pc = step /\ Others(c)
  BY GotoShape DEF BooksInv, Others
<1>2. Book(c, call[c], tx[c]) /\ ~Open(call[c])
  BY DEF BooksInv, Books, Open
<1>3. Book(c, call'[c], tx'[c])
  BY <1>1, <1>2, OpenBook
<1>. QED  BY <1>1, <1>3, LocalBooks DEF BooksInv

LEMMA CheckBooks ==
    ASSUME BooksInv, NEW c \in Calls, NEW valid, NEW next \in {"recheck", "find"}, call[c].pc = "check",
           CheckRequest(c, valid, next)
    PROVE  Books'
BY ReplyBooks, OpenBooks DEF CheckRequest, tables

\* The call goes on at the same item without owing more or less.
LEMMA QuietBooks ==
    ASSUME BooksInv, NEW c \in Calls, InTransaction(c), call[c].pc \notin {"commit", "refused"},
           Others(c), call'[c].op = call[c].op, call'[c].line = call[c].line, Open(call'[c]),
           \A m \in Materials : OwedBy(call'[c], m) = OwedBy(call[c], m),
           call'[c].pc \in RowWaits => call'[c].row.material = Item(c).material,
           tx'[c].writes = tx[c].writes, tx'[c].inserts = tx[c].inserts,
           UNCHANGED <<movements, quantity>>
    PROVE  Books'
<1>1. Book(c, call[c], tx[c]) /\ Open(call[c]) /\ call[c].pc # "done" /\ ItemOf(call[c]) = Item(c)
  BY DEF BooksInv, Books, Open, InTransaction, ItemOf, Item, Op
<1>2. Book(c, call'[c], tx'[c])
  <2>1. PICK s, s2, t, t2 : s = call[c] /\ s2 = call'[c] /\ t = tx[c] /\ t2 = tx'[c]
    OBVIOUS
  <2>2. Book(c, s2, t2)
    BY <1>1, <2>1, QuietBook
  <2>. QED  BY <2>1, <2>2
<1>. QED  BY <1>1, <1>2, LocalBooks DEF BooksInv

\* A find statement chooses a balance row of the item's material.
LEMMA FindBooks ==
    ASSUME BooksInv, NEW c \in Calls, NEW row, NEW step, Finds(c, row, step), row.material = Item(c).material,
           \/ call[c].pc = "find" /\ step \in {"lock", "create"}
           \/ call[c].pc = "findTarget" /\ step \in {"lockTarget", "createTarget"},
           UNCHANGED <<movements, quantity, tx>>
    PROVE  Books'
<1>1. /\ Others(c) /\ call'[c].op = call[c].op /\ call'[c].line = call[c].line
      /\ call'[c].pc = step /\ call'[c].row = row
  BY RowShape DEF BooksInv, Others, SameRequest
<1>2. InTransaction(c) /\ call[c].pc \notin {"commit", "refused"} /\ Open(call'[c])
  BY <1>1 DEF InTransaction, Open
<1>3. \A m \in Materials : OwedBy(call'[c], m) = OwedBy(call[c], m)
  BY <1>1 DEF OwedBy, ItemOf
<1>. QED  BY <1>1, <1>2, <1>3, QuietBooks

\* An update or insert of the balance row the call has found.
LEMMA WriteBooks ==
    ASSUME BooksInv, NEW c \in Calls, call[c].pc \in RowWaits, NEW delta \in Int, NEW step,
           step \in {"record", "findTarget"},
           WriteRow(c, call[c].row, delta) \/ InsertRow(c, call[c].row, delta), Goto(c, step),
           \A m \in Materials : OwedBy(call'[c], m) =
                 OwedBy(call[c], m) + (IF Item(c).material = m THEN delta ELSE 0),
           UNCHANGED <<movements, quantity>>
    PROVE  Books'
<1>0. call[c].pc # "free" /\ call[c].pc # "done" /\ call[c].row \in Rows
  BY DEF RowWaits, BooksInv, TypeInv, CallOK
<1>1. /\ Others(c) /\ call'[c].op = call[c].op /\ call'[c].line = call[c].line /\ call'[c].pc = step
      /\ tx'[c].inserts = tx[c].inserts
      /\ \A r \in Rows : tx'[c].writes[r] = IF r = call[c].row THEN tx[c].writes[r] + delta
                                            ELSE tx[c].writes[r]
  BY <1>0, GotoShape, WriteShape DEF BooksInv, Others, SameRequest
<1>2. /\ Book(c, call[c], tx[c]) /\ Open(call[c]) /\ Open(call'[c]) /\ tx[c] \in Workspaces
      /\ call[c].pc \notin {"commit", "refused"} /\ call'[c].pc \notin RowWaits
      /\ call[c].row.material = ItemOf(call[c]).material /\ ItemOf(call[c]) = Item(c)
      /\ \A m : OwedBy(call[c], m) \in Int
  BY <1>0, <1>1, CallTypes DEF BooksInv, Books, Book, Open, RowWaits
<1>3. Book(c, call'[c], tx'[c])
  <2>1. PICK s, s2, t, t2, row : /\ s = call[c] /\ s2 = call'[c] /\ t = tx[c] /\ t2 = tx'[c]
                                 /\ row = call[c].row
    OBVIOUS
  <2>2. \A m \in Materials : /\ OwedBy(s, m) \in Int
                             /\ OwedBy(s2, m) = OwedBy(s, m) + (IF row.material = m THEN delta ELSE 0)
    BY <1>2, <2>1
  <2>3. Book(c, s2, t2)
    BY <1>0, <1>1, <1>2, <2>1, <2>2, WriteBook
  <2>. QED  BY <2>1, <2>3
<1>. QED  BY <1>0, <1>1, <1>3, LocalBooks DEF BooksInv

\* The statement that enters the item in the ledger, and ends it.
Enters(c, new) ==
    /\ InsertMovements(c, new) /\ Others(c) /\ Advances(call[c], call'[c])
    /\ UNCHANGED <<movements, quantity>>

LEMMA EntryBooks ==
    ASSUME BooksInv, NEW c \in Calls, call[c].pc = "record", NEW x, Entry(c, call[c], x), Enters(c, {x}),
           \A m \in Materials : OwedBy(call[c], m) = IF x.material = m THEN Signed(x) ELSE 0
    PROVE  Books'
<1>1. /\ tx'[c].writes = tx[c].writes /\ tx'[c].inserts = tx[c].inserts \cup {x}
  BY InsertShape DEF BooksInv, Enters
<1>2. /\ Book(c, call[c], tx[c]) /\ Open(call[c]) /\ tx[c] \in Workspaces /\ call[c].line \in Nat
  BY CallTypes DEF BooksInv, Books, Open
<1>3. Book(c, call'[c], tx'[c])
  <2>1. PICK s, s2, t, t2 : s = call[c] /\ s2 = call'[c] /\ t = tx[c] /\ t2 = tx'[c]
    OBVIOUS
  <2>2. Book(c, s2, t2)
    BY <1>1, <1>2, <2>1, EntryBook DEF Enters
  <2>. QED  BY <2>1, <2>2
<1>. QED  BY <1>3, LocalBooks DEF BooksInv, Enters

LEMMA TwoEntriesBooks ==
    ASSUME BooksInv, NEW c \in Calls, call[c].pc = "record",
           NEW x, Entry(c, call[c], x), NEW y, Entry(c, call[c], y), x # y, Enters(c, {x, y}),
           Signed(x) \in Int, Signed(y) = -Signed(x),
           \A m \in Materials : OwedBy(call[c], m) = 0
    PROVE  Books'
<1>1. /\ tx'[c].writes = tx[c].writes /\ tx'[c].inserts = tx[c].inserts \cup {x, y}
  BY InsertShape DEF BooksInv, Enters
<1>2. /\ Book(c, call[c], tx[c]) /\ Open(call[c]) /\ tx[c] \in Workspaces /\ call[c].line \in Nat
  BY CallTypes DEF BooksInv, Books, Open
<1>3. Book(c, call'[c], tx'[c])
  <2>1. PICK s, s2, t, t2 : s = call[c] /\ s2 = call'[c] /\ t = tx[c] /\ t2 = tx'[c]
    OBVIOUS
  <2>2. Book(c, s2, t2)
    BY <1>1, <1>2, <2>1, TwoEntriesBook DEF Enters
  <2>. QED  BY <2>1, <2>2
<1>. QED  BY <1>3, LocalBooks DEF BooksInv, Enters

\* A movement that the services record, as an entry of its call.
LEMMA NewEntry ==
    ASSUME TypeInv, NEW c \in Calls, call[c].pc # "free",
           NEW type \in {"RECEIPT", "CONSUMPTION", "TRANSFER_OUT", "TRANSFER_IN"},
           NEW site \in Sites, NEW key \in LedgerKeySpace, NEW x, x = NewMovement(c, type, site, key)
    PROVE  /\ Entry(c, call[c], x) /\ x.type = type /\ x.material = Item(c).material
           /\ Signed(x) = IF type \in {"RECEIPT", "TRANSFER_IN"} THEN Item(c).qty ELSE -Item(c).qty
<1>1. x \in Movements
  BY NewMovementOK DEF TypeInv
<1>2. x.call = c /\ x.line = call[c].line /\ x.type = type /\ x.material = Item(c).material /\ x.qty = Item(c).qty
  BY DEF NewMovement
<1>. QED  BY <1>1, <1>2 DEF Entry, ItemOf, Item, Op, Signed

LEMMA CommitBooks ==
    ASSUME BooksInv, NEW c \in Calls, Commit(c)
    PROVE  Books'
<1>1. /\ tx'[c] = NoTx /\ Others(c) /\ ~Open(call'[c]) /\ call'[c].pc = "done"
  BY ReplyShape DEF BooksInv, Commit, EndTx, TypeInv, TxOK, Others, Open
<1>2. /\ Book(c, call[c], tx[c]) /\ Open(call[c]) /\ call[c].pc = "commit"
  BY DEF BooksInv, Books, Commit, Open
<1>3. /\ quantity \in [Rows -> Int] /\ tx[c].writes \in [Rows -> Int]
      /\ movements \in SUBSET Movements /\ tx[c].inserts \in SUBSET Movements
      /\ IsFiniteSet(movements) /\ IsFiniteSet(tx[c].inserts)
  BY <1>2 DEF BooksInv, Books, Book, TypeInv, TablesOK, TxOK, Workspaces
<1>4. movements \cap tx[c].inserts = {}
  <2>1. \A x \in tx[c].inserts : x.call = c
    BY <1>2 DEF Book
  <2>2. \A x \in movements : x.call # c
    BY <1>2 DEF BooksInv, Books
  <2>. QED  BY <2>1, <2>2
<1>5. /\ movements' = movements \cup tx[c].inserts
      /\ \A r \in Rows : quantity'[r] = quantity[r] + tx[c].writes[r]
  BY DEF Commit
<1>6. ASSUME NEW m \in Materials
      PROVE  HeldOf(quantity', m) = HeldOf(AtStart, m) + Moved(movements', m)
  <2>1. PICK q, w, v : q = quantity /\ w = tx[c].writes /\ v = quantity'
    OBVIOUS
  <2>2. HeldOf(v, m) = HeldOf(q, m) + HeldOf(w, m)
    BY <1>3, <1>5, <2>1, HeldTogether
  <2>3. PICK S, T : S = movements /\ T = tx[c].inserts
    OBVIOUS
  <2>4. Moved(S \cup T, m) = Moved(S, m) + Moved(T, m)
    BY <1>3, <1>4, <2>3, MovedTogether
  <2>5. OwedBy(call[c], m) = 0
    BY <1>2 DEF OwedBy
  <2>6. HeldOf(w, m) = Moved(T, m) + 0
    BY <1>2, <1>6, <2>1, <2>3, <2>5 DEF Book
  <2>7. HeldOf(q, m) = HeldOf(AtStart, m) + Moved(S, m)
    BY <1>6, <2>1, <2>3 DEF BooksInv, Books
  <2>8. AtStart \in [Rows -> Int]
    BY StockAssumption DEF AtStart
  <2>9. HeldOf(AtStart, m) \in Int /\ Moved(S, m) \in Int /\ Moved(T, m) \in Int
    BY <1>3, <2>3, <2>8, HeldIsInt, MovedIsInt
  <2>. QED  BY <1>5, <2>1, <2>2, <2>3, <2>4, <2>6, <2>7, <2>9
<1>7. \A d \in Calls : Book(d, call'[d], tx'[d])
  BY <1>1, ClosedBook DEF BooksInv, Books, Others
<1>8. \A x \in movements' : call'[x.call].pc = "done"
  <2>1. \A x \in movements : x.call \in Calls /\ call[x.call].pc = "done" /\ x.call # c
    BY <1>2, <1>3 DEF BooksInv, Books, Movements
  <2>2. \A x \in tx[c].inserts : x.call = c
    BY <1>2 DEF Book
  <2>. QED  BY <1>1, <1>5, <2>1, <2>2 DEF Others
<1>9. IsFiniteSet(movements')
  BY <1>3, <1>5, FS_Union
<1>. QED  BY <1>6, <1>7, <1>8, <1>9 DEF Books

LEMMA ReceiveBooks ==
    ASSUME BooksInv, NEW c \in Calls, ReceiveStep(c)
    PROVE  Books'
<1>0. TypeInv /\ CallOK
  BY DEF BooksInv, TypeInv
<1>1. CASE ReceiveCheck(c)
  BY <1>1, CheckBooks DEF ReceiveCheck, At
<1>2. CASE ReceiveFind(c)
  <2>1. PICK step \in {"lock", "create"} : Finds(c, RowAt(Item(c).material, Op(c).to), step)
    BY <1>2 DEF ReceiveFind, Finds
  <2>2. RowAt(Item(c).material, Op(c).to).material = Item(c).material
    BY DEF RowAt
  <2>. QED  BY <1>2, <2>1, <2>2, FindBooks DEF ReceiveFind, At, tables
<1>3. ASSUME \/ ReceiveIncrement(c)
             \/ ReceiveCreate(c) /\ InsertRow(c, call[c].row, Item(c).qty) /\ Goto(c, "record")
      PROVE  Books'
  <2>1. /\ call[c].op.kind = "receive" /\ call[c].pc \in {"lock", "create"} /\ call[c].pc \in RowWaits
        /\ Item(c).qty \in Int /\ ItemOf(call[c]) = Item(c) /\ Goto(c, "record")
        /\ WriteRow(c, call[c].row, Item(c).qty) \/ InsertRow(c, call[c].row, Item(c).qty)
        /\ UNCHANGED <<movements, quantity>>
    BY <1>0, <1>3, CallTypes DEF ReceiveIncrement, ReceiveCreate, At, RowWaits, tables
  <2>2. call'[c].op = call[c].op /\ call'[c].pc = "record" /\ ItemOf(call'[c]) = Item(c)
    BY <1>0, <2>1, GotoShape DEF SameRequest, ItemOf, Item, Op
  <2>3. \A m \in Materials : OwedBy(call'[c], m) =
             OwedBy(call[c], m) + (IF Item(c).material = m THEN Item(c).qty ELSE 0)
    BY <2>1, <2>2 DEF OwedBy
  <2>. QED  BY <2>1, <2>3, WriteBooks
<1>4. CASE ReceiveCreate(c)
  BY <1>3, <1>4, FailBooks DEF ReceiveCreate, At, tables
<1>5. CASE ReceiveRecord(c)
  <2>1. call[c].pc = "record" /\ call[c].op.kind = "receive"
    BY <1>5 DEF ReceiveRecord, At
  <2>2. PICK x : x = NewMovement(c, "RECEIPT", Op(c).to, RawKey(Op(c)))
    OBVIOUS
  <2>3. Op(c).to \in Sites /\ RawKey(Op(c)) \in LedgerKeySpace
    BY <1>0, <2>1, KeysOK, ItemOK DEF Operations
  <2>4. Entry(c, call[c], x) /\ x.material = Item(c).material /\ Signed(x) = Item(c).qty
    BY <1>0, <2>1, <2>2, <2>3, NewEntry
  <2>5. \A m \in Materials : OwedBy(call[c], m) = IF x.material = m THEN Signed(x) ELSE 0
    BY <1>0, <2>1, <2>4, CallTypes DEF OwedBy
  <2>6. CASE InsertMovements(c, {x}) /\ Goto(c, "commit")
    <3>1. Enters(c, {x})
      BY <1>0, <1>5, <2>6, GotoShape, InsertShape
         DEF Enters, Others, Advances, SameRequest, Open, RowWaits, ReceiveRecord, tables
    <3>. QED  BY <2>1, <2>4, <2>5, <3>1, EntryBooks
  <2>7. CASE Fail(c, "conflict")
    BY <1>5, <2>1, <2>7, FailBooks DEF ReceiveRecord, tables
  <2>. QED  BY <1>5, <2>2, <2>6, <2>7 DEF ReceiveRecord
<1>. QED  BY <1>1, <1>2, <1>3, <1>4, <1>5 DEF ReceiveStep

LEMMA ConsumeBooks ==
    ASSUME BooksInv, NEW c \in Calls, ConsumeStep(c)
    PROVE  Books'
<1>0. TypeInv /\ CallOK
  BY DEF BooksInv, TypeInv
<1>1. CASE ConsumeCheck(c)
  BY <1>1, CheckBooks DEF ConsumeCheck, At
<1>2. CASE ConsumeRecheck(c)
  <2>1. call[c].pc = "recheck"
    BY <1>2 DEF ConsumeRecheck, At
  <2>2. CASE Goto(c, "find") /\ UNCHANGED <<lock, tx>>
    <3>1. /\ Others(c) /\ call'[c].op = call[c].op /\ call'[c].line = call[c].line /\ call'[c].pc = "find"
      BY <1>0, <2>2, GotoShape DEF Others, SameRequest
    <3>2. \A m \in Materials : OwedBy(call'[c], m) = OwedBy(call[c], m)
      BY <2>1, <3>1 DEF OwedBy, ItemOf
    <3>. QED  BY <1>2, <2>1, <2>2, <3>1, <3>2, QuietBooks
              DEF ConsumeRecheck, InTransaction, Open, RowWaits, tables
  <2>. QED  BY <1>2, <2>1, <2>2, FailBooks DEF ConsumeRecheck, tables
<1>3. CASE ConsumeFind(c)
  <2>1. call[c].pc = "find"
    BY <1>3 DEF ConsumeFind, At
  <2>2. ASSUME NEW row \in ConsumeCandidates(c), Finds(c, row, "lock"), UNCHANGED <<lock, tx>>
        PROVE  Books'
    BY <1>3, <2>1, <2>2, FindBooks DEF ConsumeFind, ConsumeCandidates, tables
  <2>. QED  BY <1>3, <2>1, <2>2, FailBooks DEF ConsumeFind, Finds, tables
<1>4. CASE ConsumeDecrement(c)
  <2>1. /\ call[c].op.kind = "consume" /\ call[c].pc = "lock" /\ call[c].pc \in RowWaits
        /\ -Item(c).qty \in Int /\ ItemOf(call[c]) = Item(c)
    BY <1>0, <1>4, CallTypes DEF ConsumeDecrement, At, RowWaits
  <2>2. CASE WriteRow(c, call[c].row, -Item(c).qty) /\ Goto(c, "record")
    <3>1. call'[c].op = call[c].op /\ call'[c].pc = "record" /\ ItemOf(call'[c]) = Item(c)
      BY <1>0, <2>1, <2>2, GotoShape DEF SameRequest, ItemOf, Item, Op
    <3>2. \A m \in Materials : OwedBy(call'[c], m) =
               OwedBy(call[c], m) + (IF Item(c).material = m THEN -Item(c).qty ELSE 0)
      BY <2>1, <3>1 DEF OwedBy
    <3>. QED  BY <1>4, <2>1, <2>2, <3>2, WriteBooks DEF ConsumeDecrement, tables
  <2>. QED  BY <1>4, <2>1, <2>2, FailBooks DEF ConsumeDecrement, tables
<1>5. CASE ConsumeRecord(c)
  <2>1. call[c].pc = "record" /\ call[c].op.kind = "consume"
    BY <1>5 DEF ConsumeRecord, At
  <2>2. PICK site : site = [project |-> Op(c).from.project, warehouse |-> Null]
    OBVIOUS
  <2>3. PICK x : x = NewMovement(c, "CONSUMPTION", site, RawKey(Op(c)))
    OBVIOUS
  <2>4. site \in Sites /\ RawKey(Op(c)) \in LedgerKeySpace
    BY <1>0, <2>1, <2>2, KeysOK, ItemOK DEF Operations, Sites
  <2>5. Entry(c, call[c], x) /\ x.material = Item(c).material /\ Signed(x) = -Item(c).qty
    BY <1>0, <2>1, <2>3, <2>4, NewEntry
  <2>6. \A m \in Materials : OwedBy(call[c], m) = IF x.material = m THEN Signed(x) ELSE 0
    BY <1>0, <2>1, <2>5, CallTypes DEF OwedBy
  <2>7. ASSUME NEW step \in {"commit", "refused"}, InsertMovements(c, {x}), Goto(c, step)
        PROVE  Books'
    <3>1. Enters(c, {x})
      BY <1>0, <1>5, <2>7, GotoShape, InsertShape
         DEF Enters, Others, Advances, SameRequest, Open, RowWaits, ConsumeRecord, tables
    <3>. QED  BY <2>1, <2>5, <2>6, <3>1, EntryBooks
  <2>8. CASE Fail(c, "conflict")
    BY <1>5, <2>1, <2>8, FailBooks DEF ConsumeRecord, tables
  <2>. QED  BY <1>5, <2>2, <2>3, <2>7, <2>8 DEF ConsumeRecord
<1>6. CASE ConsumeReadBack(c)
  <2>1. call[c].pc # "done"
    BY <1>6 DEF ConsumeReadBack, At
  <2>. QED  BY <1>0, <1>6, <2>1, FailBooks DEF ConsumeReadBack, tables
<1>. QED  BY <1>1, <1>2, <1>3, <1>4, <1>5, <1>6 DEF ConsumeStep

LEMMA TransferBooks ==
    ASSUME BooksInv, NEW c \in Calls, TransferStep(c)
    PROVE  Books'
<1>0. TypeInv /\ CallOK
  BY DEF BooksInv, TypeInv
<1>1. CASE TransferCheck(c)
  BY <1>1, CheckBooks DEF TransferCheck, At
<1>2. CASE TransferFindSource(c)
  <2>1. call[c].pc = "find"
    BY <1>2 DEF TransferFindSource, At
  <2>2. PICK row : row = RowAt(Item(c).material, Op(c).from)
    OBVIOUS
  <2>3. row.material = Item(c).material
    BY <2>2 DEF RowAt
  <2>4. CASE Finds(c, row, "lock") /\ UNCHANGED <<lock, tx>>
    BY <1>2, <2>1, <2>3, <2>4, FindBooks DEF TransferFindSource, tables
  <2>. QED  BY <1>2, <2>1, <2>2, <2>4, FailBooks DEF TransferFindSource, Finds, tables
<1>3. CASE TransferDecrement(c)
  <2>1. /\ call[c].op.kind = "transfer" /\ call[c].pc = "lock" /\ call[c].pc \in RowWaits
        /\ -Item(c).qty \in Int /\ ItemOf(call[c]) = Item(c)
    BY <1>0, <1>3, CallTypes DEF TransferDecrement, At, RowWaits
  <2>2. CASE WriteRow(c, call[c].row, -Item(c).qty) /\ Goto(c, "findTarget")
    <3>1. call'[c].op = call[c].op /\ call'[c].pc = "findTarget" /\ ItemOf(call'[c]) = Item(c)
      BY <1>0, <2>1, <2>2, GotoShape DEF SameRequest, ItemOf, Item, Op
    <3>2. \A m \in Materials : OwedBy(call'[c], m) =
               OwedBy(call[c], m) + (IF Item(c).material = m THEN -Item(c).qty ELSE 0)
      BY <2>1, <3>1 DEF OwedBy
    <3>. QED  BY <1>3, <2>1, <2>2, <3>2, WriteBooks DEF TransferDecrement, tables
  <2>. QED  BY <1>3, <2>1, <2>2, FailBooks DEF TransferDecrement, tables
<1>4. CASE TransferFindTarget(c)
  <2>1. PICK step \in {"lockTarget", "createTarget"} :
           Finds(c, RowAt(Item(c).material, Op(c).to), step)
    BY <1>4 DEF TransferFindTarget, Finds
  <2>2. RowAt(Item(c).material, Op(c).to).material = Item(c).material
    BY DEF RowAt
  <2>. QED  BY <1>4, <2>1, <2>2, FindBooks DEF TransferFindTarget, At, tables
<1>5. ASSUME \/ TransferIncrement(c)
             \/ TransferCreate(c) /\ InsertRow(c, call[c].row, Item(c).qty) /\ Goto(c, "record")
      PROVE  Books'
  <2>1. /\ call[c].op.kind = "transfer" /\ call[c].pc \in {"lockTarget", "createTarget"}
        /\ call[c].pc \in RowWaits
        /\ Item(c).qty \in Int /\ ItemOf(call[c]) = Item(c) /\ Goto(c, "record")
        /\ WriteRow(c, call[c].row, Item(c).qty) \/ InsertRow(c, call[c].row, Item(c).qty)
        /\ UNCHANGED <<movements, quantity>>
    BY <1>0, <1>5, CallTypes DEF TransferIncrement, TransferCreate, At, RowWaits, tables
  <2>2. call'[c].op = call[c].op /\ call'[c].pc = "record" /\ ItemOf(call'[c]) = Item(c)
    BY <1>0, <2>1, GotoShape DEF SameRequest, ItemOf, Item, Op
  <2>3. \A m \in Materials : OwedBy(call'[c], m) =
             OwedBy(call[c], m) + (IF Item(c).material = m THEN Item(c).qty ELSE 0)
    BY <2>1, <2>2 DEF OwedBy
  <2>. QED  BY <2>1, <2>3, WriteBooks
<1>6. CASE TransferCreate(c)
  BY <1>5, <1>6, FailBooks DEF TransferCreate, At, tables
<1>7. CASE TransferRecord(c)
  <2>1. call[c].pc = "record" /\ call[c].op.kind = "transfer"
    BY <1>7 DEF TransferRecord, At
  <2>2. PICK out, in : /\ out = [project   |-> Coalesce(Op(c).from.project, Op(c).to.project),
                                 warehouse |-> Coalesce(Op(c).from.warehouse, Op(c).to.warehouse)]
                       /\ in  = [project   |-> Coalesce(Op(c).to.project, Op(c).from.project),
                                 warehouse |-> Coalesce(Op(c).to.warehouse, Op(c).from.warehouse)]
    OBVIOUS
  <2>3. PICK x, y : /\ x = NewMovement(c, "TRANSFER_OUT", out, OutKey(Op(c)))
                    /\ y = NewMovement(c, "TRANSFER_IN", in, InKey(Op(c)))
    OBVIOUS
  <2>4. out \in Sites /\ in \in Sites /\ OutKey(Op(c)) \in LedgerKeySpace /\ InKey(Op(c)) \in LedgerKeySpace
    BY <1>0, <2>1, <2>2, KeysOK, ItemOK DEF Operations, Sites, Coalesce
  <2>5. /\ Entry(c, call[c], x) /\ x.type = "TRANSFER_OUT" /\ Signed(x) = -Item(c).qty
        /\ Entry(c, call[c], y) /\ y.type = "TRANSFER_IN" /\ Signed(y) = Item(c).qty
    BY <1>0, <2>1, <2>3, <2>4, NewEntry
  <2>6. x # y /\ Signed(x) \in Int /\ Signed(y) = -Signed(x)
    BY <1>0, <2>1, <2>5, CallTypes
  <2>7. \A m \in Materials : OwedBy(call[c], m) = 0
    BY <2>1 DEF OwedBy
  <2>8. TransferMovements(c) = {x, y}
    BY <2>2, <2>3 DEF TransferMovements
  <2>9. CASE InsertMovements(c, {x, y}) /\ Goto(c, "commit")
    <3>1. Enters(c, {x, y})
      BY <1>0, <1>7, <2>9, GotoShape, InsertShape
         DEF Enters, Others, Advances, SameRequest, Open, RowWaits, TransferRecord, tables
    <3>. QED  BY <2>1, <2>5, <2>6, <2>7, <3>1, TwoEntriesBooks
  <2>10. CASE Fail(c, "conflict")
    BY <1>7, <2>1, <2>10, FailBooks DEF TransferRecord, tables
  <2>. QED  BY <1>7, <2>8, <2>9, <2>10 DEF TransferRecord
<1>. QED  BY <1>1, <1>2, <1>3, <1>4, <1>5, <1>6, <1>7 DEF TransferStep

LEMMA AvizBooks ==
    ASSUME BooksInv, NEW c \in Calls, AvizStep(c)
    PROVE  Books'
<1>0. TypeInv /\ CallOK
  BY DEF BooksInv, TypeInv
<1>1. CASE AvizCheck(c)
  BY <1>1, ReplyBooks, OpenBooks DEF AvizCheck, At, tables
<1>2. CASE AvizInsert(c)
  <2>1. call[c].pc = "header"
    BY <1>2 DEF AvizInsert, At
  <2>2. CASE tx' = [tx EXCEPT ![c].header = {AvizRow(c)}] /\ Goto(c, "find")
    <3>1. /\ \A d \in Calls \ {c} : tx'[d] = tx[d]
          /\ tx'[c].writes = tx[c].writes /\ tx'[c].inserts = tx[c].inserts
      BY <1>0, <2>2 DEF TypeInv, TxOK, Workspaces
    <3>2. /\ Others(c) /\ call'[c].op = call[c].op /\ call'[c].line = call[c].line /\ call'[c].pc = "find"
      BY <1>0, <2>2, <3>1, GotoShape DEF Others, SameRequest
    <3>3. \A m \in Materials : OwedBy(call'[c], m) = OwedBy(call[c], m)
      BY <2>1, <3>2 DEF OwedBy, ItemOf
    <3>. QED  BY <1>2, <2>1, <3>1, <3>2, <3>3, QuietBooks
              DEF AvizInsert, InTransaction, Open, RowWaits, tables
  <2>. QED  BY <1>2, <2>1, <2>2, FailBooks DEF AvizInsert, tables
<1>3. CASE AvizFind(c)
  <2>1. PICK step \in {"lock", "create"} : Finds(c, RowAt(Item(c).material, Op(c).to), step)
    BY <1>3 DEF AvizFind, Finds
  <2>2. RowAt(Item(c).material, Op(c).to).material = Item(c).material
    BY DEF RowAt
  <2>. QED  BY <1>3, <2>1, <2>2, FindBooks DEF AvizFind, At, tables
<1>4. ASSUME \/ AvizIncrement(c)
             \/ AvizCreate(c) /\ InsertRow(c, call[c].row, Item(c).qty) /\ Goto(c, "record")
      PROVE  Books'
  <2>1. /\ call[c].op.kind = "aviz" /\ call[c].pc \in {"lock", "create"} /\ call[c].pc \in RowWaits
        /\ Item(c).qty \in Int /\ ItemOf(call[c]) = Item(c) /\ Goto(c, "record")
        /\ WriteRow(c, call[c].row, Item(c).qty) \/ InsertRow(c, call[c].row, Item(c).qty)
        /\ UNCHANGED <<movements, quantity>>
    BY <1>0, <1>4, CallTypes DEF AvizIncrement, AvizCreate, At, RowWaits, tables
  <2>2. call'[c].op = call[c].op /\ call'[c].pc = "record" /\ ItemOf(call'[c]) = Item(c)
    BY <1>0, <2>1, GotoShape DEF SameRequest, ItemOf, Item, Op
  <2>3. \A m \in Materials : OwedBy(call'[c], m) =
             OwedBy(call[c], m) + (IF Item(c).material = m THEN Item(c).qty ELSE 0)
    BY <2>1, <2>2 DEF OwedBy
  <2>. QED  BY <2>1, <2>3, WriteBooks
<1>5. CASE AvizCreate(c)
  BY <1>4, <1>5, FailBooks DEF AvizCreate, At, tables
<1>6. CASE AvizRecord(c)
  <2>1. call[c].pc = "record" /\ call[c].op.kind = "aviz"
    BY <1>6 DEF AvizRecord, At
  <2>2. PICK site : site = [project |-> Op(c).to.project, warehouse |-> Null]
    OBVIOUS
  <2>3. PICK x : x = NewMovement(c, "RECEIPT", site, ItemKey(Op(c), Item(c).material))
    OBVIOUS
  <2>4. site \in Sites /\ ItemKey(Op(c), Item(c).material) \in LedgerKeySpace
    BY <1>0, <2>1, <2>2, KeysOK, ItemOK DEF Operations, Sites
  <2>5. Entry(c, call[c], x) /\ x.material = Item(c).material /\ Signed(x) = Item(c).qty
    BY <1>0, <2>1, <2>3, <2>4, NewEntry
  <2>6. \A m \in Materials : OwedBy(call[c], m) = IF x.material = m THEN Signed(x) ELSE 0
    BY <1>0, <2>1, <2>5, CallTypes DEF OwedBy
  <2>7. CASE /\ InsertMovements(c, {x})
             /\ Goto(c, "commit") \/ call' = [call EXCEPT ![c].line = @ + 1, ![c].pc = "find"]
    <3>1. /\ \A d \in Calls \ {c} : call'[d] = call[d]
          /\ call'[c].op = call[c].op
          /\ \/ call'[c].pc = "commit"
             \/ call'[c].pc = "find" /\ call'[c].line = call[c].line + 1
      BY <1>0, <2>7, GotoShape DEF SameRequest, CallOK, CallStates
    <3>2. Enters(c, {x})
      BY <1>0, <1>6, <2>7, <3>1, InsertShape
         DEF Enters, Others, Advances, Open, RowWaits, AvizRecord, tables
    <3>. QED  BY <2>1, <2>5, <2>6, <3>2, EntryBooks
  <2>8. CASE Fail(c, "conflict")
    BY <1>6, <2>1, <2>8, FailBooks DEF AvizRecord, tables
  <2>. QED  BY <1>6, <2>2, <2>3, <2>7, <2>8 DEF AvizRecord
<1>. QED  BY <1>1, <1>2, <1>3, <1>4, <1>5, <1>6 DEF AvizStep

LEMMA BeginBooks ==
    ASSUME BooksInv, NEW c \in Calls, Begin(c)
    PROVE  Books'
<1>1. /\ call[c].pc = "free" /\ call'[c].pc = "check" /\ Others(c) /\ tx' = tx
      /\ UNCHANGED <<movements, quantity>>
  BY DEF Begin, BooksInv, TypeInv, CallOK, Others, tables
<1>2. tx'[c] = NoTx /\ ~Open(call'[c])
  BY <1>1 DEF BooksInv, Books, Book, Open
<1>. QED  BY <1>1, <1>2, ClosedBook, LocalBooks DEF BooksInv

LEMMA InitBooks == Init => Books
<1>. SUFFICES ASSUME Init PROVE Books
  OBVIOUS
<1>1. \A c \in Calls : tx[c] = NoTx /\ ~Open(call[c])
  BY DEF Init, StockDbInit, Open
<1>2. movements = {} /\ IsFiniteSet(movements)
  BY FS_EmptySet DEF Init, StockDbInit
<1>3. quantity = AtStart /\ AtStart \in [Rows -> Int]
  BY StockAssumption DEF Init, StockDbInit, AtStart
<1>4. \A m \in Materials : HeldOf(quantity, m) = HeldOf(AtStart, m) + Moved(movements, m)
  BY <1>2, <1>3, HeldIsInt, NothingMoved
<1>. QED  BY <1>1, <1>2, <1>4, ClosedBook DEF Books

LEMMA NextBooks == BooksInv /\ [Next]_vars => BooksInv'
<1>. SUFFICES ASSUME BooksInv, [Next]_vars PROVE BooksInv'
  OBVIOUS
<1>0. TypeInv /\ TypeInv'
  BY NextType DEF BooksInv
<1>1. CASE UNCHANGED vars
  <2>1. call' = call /\ tx' = tx /\ movements' = movements /\ quantity' = quantity
    BY <1>1 DEF vars, tables
  <2>. QED  BY <1>0, <2>1 DEF BooksInv, Books
<1>2. ASSUME NEW c \in Calls, Abort(c) \/ AbortDeadlocked(c) PROVE Books'
  <2>1. call[c].pc # "done"
    <3>1. CASE AbortDeadlocked(c)
      <4>1. PICK S \in SUBSET Calls : c \in S /\ \A d \in S : S \cap WaitsFor(d) # {}
        BY <3>1 DEF AbortDeadlocked, Deadlocked
      <4>2. WaitsFor(c) # {}
        BY <4>1
      <4>. QED  BY <4>2 DEF WaitsFor, RowWaits
    <3>. QED  BY <1>2, <3>1 DEF Abort, InTransaction
  <2>. QED  BY <1>0, <1>2, <2>1, FailBooks DEF BooksInv, Abort, AbortDeadlocked, tables
<1>3. ASSUME NEW c \in Calls, Begin(c) \/ Step(c) PROVE Books'
  BY <1>0, <1>2, <1>3, BeginBooks, ReceiveBooks, ConsumeBooks, TransferBooks, AvizBooks, CommitBooks
     DEF BooksInv, Step
<1>. QED  BY <1>0, <1>1, <1>2, <1>3 DEF Next, Finished, BooksInv

LEMMA BooksExplain == BooksInv => LedgerExplainsStock
<1>. SUFFICES ASSUME BooksInv, NEW m \in Materials
              PROVE  LET rows   == {r \in Rows : r.material = m}
                         signed == [x \in movements |-> Signed(x)]
                     IN  SumFunctionOnSet(quantity, rows) =
                           SumFunctionOnSet(AtStart, rows)
                           + SumFunctionOnSet(signed, {x \in movements : x.material = m})
  BY DEF LedgerExplainsStock
<1>. DEFINE signed == [x \in movements |-> Signed(x)]
            S == {x \in movements : x.material = m}
<1>1. IsFiniteSet(S)
  BY FS_Subset DEF BooksInv, Books
<1>2. \A x \in S : Signs[x] \in Int /\ signed[x] = Signs[x]
  BY SignsAreInts DEF BooksInv, TypeInv, TablesOK
<1>3. SumFunctionOnSet(signed, S) = Moved(movements, m)
  <2>1. SumFunctionOnSet(signed, S) = SumFunctionOnSet(Signs, S)
    <3>. HIDE DEF signed, S
    <3>. QED  BY <1>1, <1>2, SumAgree
  <2>. QED  BY <2>1 DEF Moved
<1>4. HeldOf(quantity, m) = HeldOf(AtStart, m) + Moved(movements, m)
  BY DEF BooksInv, Books
<1>. QED  BY <1>3, <1>4 DEF HeldOf, RowsOf

\* The ledger explains the stock of every material, whatever committed, failed, was
\* replayed or deadlocked on the way, and even where a refused audit row undoes a
\* consumption that is answered with success.
THEOREM LedgerExplains == Spec => []LedgerExplainsStock
<1>1. Init => BooksInv
  BY InitType, InitBooks DEF BooksInv
<1>. QED  BY <1>1, NextBooks, BooksExplain, PTL DEF Spec
=============================================================================
