--------------------------- MODULE AtomicReports ---------------------------
(***************************************************************************)
(* What the daily reports promise together, with no statements, locks or    *)
(* transactions: a report is submitted once, and in that one step its        *)
(* revision is written, for good, and all that it uses is taken from the     *)
(* stock of its project.  After that it can only be approved or rejected,     *)
(* and no two reports are created with one idempotency key.                  *)
(***************************************************************************)
EXTENDS Integers

CONSTANTS Reports, Projects, Materials, Initial, Opening, NoKey

VARIABLES
    status,         \* of each report
    key,            \* the idempotency key it was created with
    used,           \* what its revision uses: a project, and a quantity per material
    balance         \* what each project holds of each material

vars     == <<status, key, used, balance>>
Pairs    == Projects \X Materials

Use(u, b) == IF b[1] = u.project /\ b[2] \in DOMAIN u.need THEN u.need[b[2]] ELSE 0

\* Report r is created with a key that no other has.
KeyGiven(r) ==
    /\ key' = [key EXCEPT ![r] = key'[r]]
    /\ key'[r] # NoKey => \A s \in Reports : key[s] # key'[r]

Init ==
    /\ status  = Initial
    /\ key     = [r \in Reports |-> NoKey]
    /\ used    = [r \in Reports |-> {}]
    /\ balance = Opening

Draft(r) ==
    /\ status[r] = "NONE"
    /\ status' = [status EXCEPT ![r] = "DRAFT"]
    /\ KeyGiven(r)
    /\ UNCHANGED <<used, balance>>

Submit(r) ==
    /\ \/ status[r] = "NONE" /\ KeyGiven(r)
       \/ status[r] = "DRAFT" /\ UNCHANGED key
    /\ used[r] = {}
    /\ status' = [status EXCEPT ![r] = "SUBMITTED"]
    /\ \E u \in used'[r] :
          /\ used' = [used EXCEPT ![r] = {u}]
          /\ \A b \in Pairs : Use(u, b) \in Nat /\ Use(u, b) <= balance[b]
          /\ balance' = [b \in Pairs |-> balance[b] - Use(u, b)]

\* Two reviews of one report may overlap; the later one stands.
Decide(r) ==
    /\ status[r] \in {"SUBMITTED", "APPROVED", "REJECTED"}
    /\ \E action \in {"APPROVED", "REJECTED"} : status' = [status EXCEPT ![r] = action]
    /\ UNCHANGED <<key, used, balance>>

\* Another stock operation changes one balance.
Elsewhere(b) ==
    /\ balance' = [balance EXCEPT ![b] = balance'[b]]
    /\ balance'[b] \in Nat
    /\ UNCHANGED <<status, key, used>>

Next ==
    \/ \E r \in Reports : Draft(r) \/ Submit(r) \/ Decide(r)
    \/ \E b \in Pairs : Elsewhere(b)

Spec == Init /\ [][Next]_vars
=============================================================================
