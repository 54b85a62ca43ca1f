---------------------------- MODULE AtomicStock ----------------------------
(***************************************************************************)
(* What the stock operations promise together, with no statements, locks or *)
(* transactions: a request is carried out as a whole or not at all, the     *)
(* balances change only by a whole request, never go below zero, and no two *)
(* requests that share a ledger key are both carried out.                   *)
(***************************************************************************)
EXTENDS Integers, Sequences

CONSTANTS Call, Row, Nothing, Initial

VARIABLES
    request,        \* the request each call carries
    done,           \* the calls whose request has been carried out
    balance         \* what is held at each row

RowOf(material, site) ==
    [material |-> material, project |-> site.project, warehouse |-> site.warehouse]

\* The keys a request is recorded under in the ledger.
LedgerKeys(op) ==
    IF op.key = Nothing THEN {}
    ELSE CASE op.kind = "transfer" -> {<<op.key, "_out">>, <<op.key, "_in">>}
           [] op.kind = "aviz"     -> {<<op.key, op.items[i].material>> : i \in DOMAIN op.items}
           [] OTHER                -> {<<op.key, "">>}

Change(r) == balance'[r] - balance[r]

Received(op) ==
    \A r \in Row : Change(r) = IF r = RowOf(op.items[1].material, op.to)
                               THEN op.items[1].qty ELSE 0

Consumed(op) ==
    \E s \in Row :
        /\ s.material = op.items[1].material /\ s.project = op.from.project
        /\ \A r \in Row : Change(r) = IF r = s THEN -op.items[1].qty ELSE 0

\* From one row to another, or to the same, which changes nothing.
Transferred(op) ==
    LET q == op.items[1].qty  m == op.items[1].material
    IN  \A r \in Row : Change(r) = (IF r = RowOf(m, op.to) THEN q ELSE 0)
                                  - (IF r = RowOf(m, op.from) THEN q ELSE 0)

\* A delivery note only adds, and only to the rows of its items.
Delivered(op) ==
    \A r \in Row :
        /\ Change(r) >= 0
        /\ Change(r) > 0 => \E i \in DOMAIN op.items : r = RowOf(op.items[i].material, op.to)

Effect(op) ==
    \/ op.kind = "receive"  /\ Received(op)
    \/ op.kind = "consume"  /\ Consumed(op)
    \/ op.kind = "transfer" /\ Transferred(op)
    \/ op.kind = "aviz"     /\ Delivered(op)

Init ==
    /\ request = [c \in Call |-> Nothing]
    /\ done    = {}
    /\ balance = Initial

Send(c) ==
    /\ request[c] = Nothing
    /\ request'[c] # Nothing
    /\ \A d \in Call \ {c} : request'[d] = request[d]
    /\ UNCHANGED <<done, balance>>

CarryOut(c) ==
    /\ c \notin done /\ request[c] # Nothing
    /\ \A d \in done : LedgerKeys(request[c]) \cap LedgerKeys(request[d]) = {}
    /\ balance' \in [Row -> Nat]
    /\ Effect(request[c])
    /\ done' = done \cup {c}
    /\ UNCHANGED request

Next == \E c \in Call : Send(c) \/ CarryOut(c)

Spec == Init /\ [][Next]_<<request, done, balance>>
=============================================================================
