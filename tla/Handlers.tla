------------------------------ MODULE Handlers ------------------------------
(***************************************************************************)
(* HTTP requests in the backend: what the services below have in common.    *)
(*                                                                         *)
(* A handler runs from one await to the next; between two of its statements *)
(* any other handler may run.  A transaction whose writes nothing but a row *)
(* lock orders is one action at its commit.  An answered handler is free    *)
(* for the next request, so that two handlers make behaviours of any        *)
(* length.                                                                  *)
(*                                                                         *)
(* Much of what the services promise holds for requests that come one after *)
(* the other and is not guarded against two at once: "raced" is the history *)
(* of what two overlapping requests were about.                             *)
(***************************************************************************)
EXTENDS Integers, FiniteSets

CONSTANTS
    Calls,      \* the handlers that can run at the same time
    Workloads,  \* sets of requests: a behaviour draws its requests from one of them
    Null

VARIABLES
    load,       \* the requests of this behaviour
    call,       \* the request, the next step and what was read, for each handler
    raced       \* what two overlapping requests were about

handlers == <<load, call, raced>>

\* Every request says what it does and what rows it is about.
ASSUME HandlersAssumption ==
    /\ \A w \in Workloads : \A q \in w : {"kind", "on"} \subseteq DOMAIN q
    /\ Null \notin Calls /\ Null \notin UNION Workloads

Free == [req |-> Null, pc |-> "free", seen |-> Null]

Req(c)      == call[c].req
Seen(c)     == call[c].seen
At(c, step) == call[c].pc = step
InFlight    == {c \in Calls : call[c].pc # "free"}

\* The first step of a request has the name of its kind.
Arrive(c) ==
    /\ At(c, "free")
    /\ \E q \in load :
          /\ call' = [call EXCEPT ![c] = [req |-> q, pc |-> q.kind, seen |-> Null]]
          /\ raced' = raced \cup {x \in q.on : \E d \in InFlight : x \in Req(d).on}
    /\ UNCHANGED load

\* The handler goes on with what it has read, or answers.
Goto(c, step, seen) ==
    /\ call' = [call EXCEPT ![c].pc = step, ![c].seen = seen]
    /\ UNCHANGED <<load, raced>>

Answer(c) == call' = [call EXCEPT ![c] = Free] /\ UNCHANGED <<load, raced>>

\* The process dies, or a statement fails: an open transaction is rolled back.
Drop(c) == c \in InFlight /\ Answer(c)

HandlersInit ==
    /\ load \in Workloads
    /\ call  = [c \in Calls |-> Free]
    /\ raced = {}

HandlersTypeOK ==
    /\ load \in Workloads
    /\ \A c \in Calls : Req(c) \in load \cup {Null} /\ (At(c, "free") <=> Req(c) = Null)
    /\ raced \subseteq UNION {q.on : q \in load}
=============================================================================
