----------------------------- MODULE SiteProofs -----------------------------
(***************************************************************************)
(* Proofs about module Site, for any users, tasks, plans, workers, bills,   *)
(* requests and number of handlers.                                         *)
(*                                                                         *)
(* Each component has an invariant about its own variables and about what    *)
(* the handlers that serve its requests have read, as far as no request      *)
(* about the same rows has overlapped.  For each of them:                    *)
(*   - XLeaves(c): what every step of a handler c leaves of its rows;        *)
(*   - XOthers:    that is all the other handlers rely on;                   *)
(*   - XStays:     nothing of it changes, but for handlers that are Idle, in *)
(*                 none of its steps, or Fresh, in the first of a request;   *)
(*   - XElsewhere: so a step of another component keeps it.                  *)
(***************************************************************************)
EXTENDS Site, FiniteSetTheorems, SequenceTheorems, WellFoundedInduction, NaturalsInduction, TLAPS

----------------------------------------------------------------------------
(* The handlers. *)

SiteRequest(q) ==
    AccountRequest(q) \/ TaskRequest(q) \/ PlanRequest(q) \/ AttendanceRequest(q) \/ ExpenseRequest(q)

CallShape == call = [c \in Calls |-> [req |-> Req(c), pc |-> call[c].pc, seen |-> Seen(c)]]

\* Two requests in flight have made a race of what both are about.
RacedInv == \A c, d \in InFlight : c # d => Req(c).on \cap Req(d).on \subseteq raced

HandlersInv == CallShape /\ HandlersTypeOK /\ RacedInv

\* A handler that is not free has a request, of one of the kinds.
LEMMA RequestOfCall ==
    ASSUME HandlersInv, NEW c \in Calls, call[c].pc # "free"
    PROVE  Req(c) \in load /\ SiteRequest(Req(c))
BY RequestsAssumption DEF SiteRequest, HandlersInv, HandlersTypeOK, At

\* What a handler is made of when it has taken a step.
LEMMA GotoShape ==
    ASSUME HandlersInv, NEW c \in Calls, NEW step, NEW seen, Goto(c, step, seen),
           call[c].pc # "free", step # "free"
    PROVE  /\ call'[c] = [req |-> Req(c), pc |-> step, seen |-> seen]
           /\ \A d \in Calls : d # c => call'[d] = call[d]
           /\ load' = load /\ raced' = raced
           /\ HandlersInv' /\ InFlight' = InFlight
<1> DEFINE new == [req |-> Req(c), pc |-> step, seen |-> seen]
<1>0. call' = [d \in Calls |-> IF d = c THEN new ELSE call[d]] /\ load' = load /\ raced' = raced
  <2>1. call = [d \in Calls |-> call[d]] BY DEF HandlersInv, CallShape
  <2>2. call[c] = [req |-> Req(c), pc |-> call[c].pc, seen |-> Seen(c)] BY DEF HandlersInv, CallShape
  <2> DEFINE mid == [req |-> Req(c), pc |-> step, seen |-> Seen(c)]
  <2>3. [call[c] EXCEPT !.pc = step] = mid BY <2>2
  <2>4. [mid EXCEPT !.seen = seen] = new OBVIOUS
  <2>5. [[call[c] EXCEPT !.pc = step] EXCEPT !.seen = seen] = new BY <2>3, <2>4
  <2> QED BY <2>1, <2>5 DEF Goto
<1>1. call'[c] = new /\ load' = load /\ raced' = raced BY <1>0
<1>2. \A d \in Calls : d # c => call'[d] = call[d] BY <1>0
<1>3. CallShape'
  <2>1. \A d \in Calls : call'[d] = [req |-> call'[d].req, pc |-> call'[d].pc, seen |-> call'[d].seen]
    BY <1>1, <1>2 DEF HandlersInv, CallShape, Req, Seen
  <2> QED BY <1>0, <2>1 DEF CallShape, Req, Seen
<1>4. InFlight' = InFlight BY <1>1, <1>2 DEF InFlight
<1>5. \A d \in Calls : Req(d)' = Req(d) /\ (At(d, "free")' <=> At(d, "free"))
  BY <1>1, <1>2 DEF Req, At
<1>6. HandlersTypeOK' BY <1>1, <1>5 DEF HandlersInv, HandlersTypeOK
<1>7. RacedInv'
  <2>1. \A d \in InFlight : d \in Calls BY DEF InFlight
  <2> QED BY <1>1, <1>4, <1>5, <2>1 DEF HandlersInv, RacedInv
<1> QED BY <1>1, <1>2, <1>3, <1>4, <1>6, <1>7 DEF HandlersInv

LEMMA AnswerShape ==
    ASSUME HandlersInv, NEW c \in Calls, Answer(c)
    PROVE  /\ call'[c] = Free
           /\ \A d \in Calls : d # c => call'[d] = call[d]
           /\ load' = load /\ raced' = raced
           /\ HandlersInv' /\ InFlight' = InFlight \ {c}
<1>1. call'[c] = Free /\ load' = load /\ raced' = raced
  BY DEF Answer, HandlersInv, CallShape
<1>2. \A d \in Calls : d # c => call'[d] = call[d] BY DEF Answer, HandlersInv, CallShape
<1>3. CallShape' BY DEF Answer, HandlersInv, CallShape, Req, Seen, Free
<1>4. InFlight' = InFlight \ {c} BY <1>1, <1>2 DEF InFlight, Free
<1>5. \A d \in Calls : d # c => Req(d)' = Req(d) /\ (At(d, "free")' <=> At(d, "free"))
  BY <1>2 DEF Req, At
<1>6. Req(c)' = Null /\ At(c, "free")' BY <1>1 DEF Req, At, Free
<1>7. HandlersTypeOK' BY <1>1, <1>5, <1>6 DEF HandlersInv, HandlersTypeOK
<1>8. RacedInv'
  <2>1. \A d \in InFlight : d \in Calls BY DEF InFlight
  <2> QED BY <1>1, <1>4, <1>5, <2>1 DEF HandlersInv, RacedInv
<1> QED BY <1>1, <1>2, <1>3, <1>4, <1>7, <1>8 DEF HandlersInv

\* The request that arrives is one of the behaviour; what it shares with one in flight is
\* a race from now on.
LEMMA ArriveShape ==
    ASSUME HandlersInv, NEW c \in Calls, Arrive(c)
    PROVE  \E q \in load :
              /\ SiteRequest(q)
              /\ call[c].pc = "free"
              /\ call'[c] = [req |-> q, pc |-> q.kind, seen |-> Null]
              /\ \A d \in Calls : d # c => call'[d] = call[d]
              /\ load' = load /\ raced \subseteq raced'
              /\ \A d \in Calls : call[d].pc # "free" => q.on \cap Req(d).on \subseteq raced'
              /\ HandlersInv'
<1>0. call[c].pc = "free" BY DEF Arrive, At
<1>1. PICK q \in load :
        /\ call' = [call EXCEPT ![c] = [req |-> q, pc |-> q.kind, seen |-> Null]]
        /\ raced' = raced \cup {x \in q.on : \E d \in InFlight : x \in Req(d).on}
  BY DEF Arrive
<1>2. load' = load BY DEF Arrive
<1>3. SiteRequest(q) BY RequestsAssumption DEF SiteRequest, HandlersInv, HandlersTypeOK
<1>4. call'[c] = [req |-> q, pc |-> q.kind, seen |-> Null] /\ \A d \in Calls : d # c => call'[d] = call[d]
  BY <1>1 DEF HandlersInv, CallShape
<1>5. CallShape' BY <1>1 DEF HandlersInv, CallShape, Req, Seen
<1>6. q.kind # "free" BY <1>3 DEF SiteRequest, AccountRequest, TaskRequest, PlanRequest, AttendanceRequest, ExpenseRequest
<1>7. q # Null BY HandlersAssumption DEF HandlersInv, HandlersTypeOK
<1>8. \A d \in Calls : d # c => Req(d)' = Req(d) /\ (At(d, "free")' <=> At(d, "free"))
  BY <1>4 DEF Req, At
<1>9. Req(c)' = q /\ ~At(c, "free")' BY <1>4, <1>6 DEF Req, At
<1>10. raced' \subseteq UNION {r.on : r \in load} /\ raced \subseteq raced'
  BY <1>1 DEF HandlersInv, HandlersTypeOK
<1>11. HandlersTypeOK' BY <1>2, <1>7, <1>8, <1>9, <1>10 DEF HandlersInv, HandlersTypeOK
<1>12. \A d \in Calls : call[d].pc # "free" => q.on \cap Req(d).on \subseteq raced'
  BY <1>1 DEF InFlight
<1>13. RacedInv'
  <2> SUFFICES ASSUME NEW a \in Calls, NEW b \in Calls, call'[a].pc # "free", call'[b].pc # "free", a # b
               PROVE  Req(a)'.on \cap Req(b)'.on \subseteq raced'
    BY DEF RacedInv, InFlight
  <2>1. CASE a = c BY <1>4, <1>8, <1>9, <1>12, <2>1
  <2>2. CASE b = c BY <1>4, <1>8, <1>9, <1>12, <2>2
  <2>3. CASE a # c /\ b # c
    <3>1. a \in InFlight /\ b \in InFlight BY <1>4, <2>3 DEF InFlight
    <3> QED BY <1>8, <1>10, <2>3, <3>1 DEF HandlersInv, RacedInv
  <2> QED BY <2>1, <2>2, <2>3
<1> QED BY <1>0, <1>2, <1>3, <1>4, <1>5, <1>10, <1>11, <1>12, <1>13 DEF HandlersInv

----------------------------------------------------------------------------
(* The steps of each component. *)

AccountSteps == {"changeRole", "setRole", "changeStatus", "countOwners", "setStatus",
                 "offboard", "takeStock", "handOver", "addMember", "insertMember",
                 "changeMemberRole", "setMemberRole", "removeMember", "deleteMember"}

TaskSteps == {"createTask", "insertTask", "updateTask", "writeTask", "blockTask", "writeBlock",
              "unblockTask", "writeUnblock", "assign", "insertAssignment",
              "addDependency", "search", "insertDependency"}

PlanSteps == {"createPlan", "publish", "writePublished", "complete", "recheck", "writeCompleted",
              "cancel", "writeCancelled", "progress", "writeProgress"}

AttendanceSteps == {"checkIn", "insert", "checkOut", "close", "correct", "rewrite"}

ExpenseSteps == {"submit", "review", "decide", "approve"}

\* A handler goes from a step of its component to another one of it, or answers.
Moves(c, steps) ==
    /\ call[c].pc \in steps /\ call'[c].pc \in steps \cup {"free"}
    /\ Req(c)' \in {Req(c), Null}
    /\ \A d \in Calls : d # c => call'[d] = call[d]
    /\ load' = load /\ raced' = raced
    /\ HandlersInv'

LEMMA GotoMoves ==
    ASSUME HandlersInv, NEW c \in Calls, NEW steps, NEW step \in steps, NEW seen,
           call[c].pc \in steps, "free" \notin steps, Goto(c, step, seen)
    PROVE  Moves(c, steps)
<1>1. call[c].pc # "free" /\ step # "free" OBVIOUS
<1>2. /\ call'[c] = [req |-> Req(c), pc |-> step, seen |-> seen]
      /\ \A d \in Calls : d # c => call'[d] = call[d]
      /\ load' = load /\ raced' = raced /\ HandlersInv'
  BY <1>1, GotoShape
<1>3. Req(c)' = Req(c) BY <1>2 DEF Req
<1> QED BY <1>2, <1>3 DEF Moves

LEMMA AnswerMoves ==
    ASSUME HandlersInv, NEW c \in Calls, NEW steps, call[c].pc \in steps, Answer(c)
    PROVE  Moves(c, steps)
<1>1. /\ call'[c] = Free /\ \A d \in Calls : d # c => call'[d] = call[d]
      /\ load' = load /\ raced' = raced /\ HandlersInv'
  BY AnswerShape
<1>2. Req(c)' = Null /\ call'[c].pc = "free" BY <1>1 DEF Req, Free
<1> QED BY <1>1, <1>2 DEF Moves

LEMMA AccountsMove ==
    ASSUME HandlersInv, NEW c \in Calls, AccountsStep(c)
    PROVE  Moves(c, AccountSteps)
<1>1. "free" \notin AccountSteps BY DEF AccountSteps
<1>2. call[c].pc \in AccountSteps
  BY DEF AccountsStep, AccountSteps, At, ChangeRole, SetRole, ChangeStatus, CountOwners, SetStatus, Offboard,
         TakeStock, HandOver, AddMember, InsertMember, ChangeMemberRole, SetMemberRole, RemoveMember, DeleteMember
<1>3. Answer(c) \/ \E step \in AccountSteps : \E seen : Goto(c, step, seen)
  <2>1. \A step \in {"setRole", "countOwners", "setStatus", "takeStock", "handOver", "insertMember", "setMemberRole",
                     "deleteMember"} : step \in AccountSteps
    BY DEF AccountSteps
  <2>2. CASE ChangeRole(c) BY <2>1, <2>2 DEF ChangeRole
  <2>3. CASE ChangeStatus(c) BY <2>1, <2>3 DEF ChangeStatus
  <2>4. CASE CountOwners(c) BY <2>1, <2>4 DEF CountOwners
  <2>5. CASE Offboard(c) BY <2>1, <2>5 DEF Offboard
  <2>6. CASE TakeStock(c) BY <2>1, <2>6 DEF TakeStock
  <2>7. CASE AddMember(c) BY <2>1, <2>7 DEF AddMember
  <2>8. CASE ChangeMemberRole(c) BY <2>1, <2>8 DEF ChangeMemberRole
  <2>9. CASE RemoveMember(c) BY <2>1, <2>9 DEF RemoveMember
  <2>10. CASE SetRole(c) \/ SetStatus(c) \/ HandOver(c) \/ InsertMember(c) \/ SetMemberRole(c) \/ DeleteMember(c)
    BY <2>10 DEF SetRole, SetStatus, HandOver, InsertMember, SetMemberRole, DeleteMember
  <2> QED BY <2>2, <2>3, <2>4, <2>5, <2>6, <2>7, <2>8, <2>9, <2>10 DEF AccountsStep
<1> QED BY <1>1, <1>2, <1>3, GotoMoves, AnswerMoves

LEMMA TasksMove ==
    ASSUME HandlersInv, NEW c \in Calls, TasksStep(c)
    PROVE  Moves(c, TaskSteps)
<1>1. "free" \notin TaskSteps BY DEF TaskSteps
<1>2. call[c].pc \in TaskSteps
  BY DEF TasksStep, TaskSteps, At, CreateTask, InsertTask, UpdateTask, WriteTask, BlockTask, WriteBlock,
         UnblockTask, WriteUnblock, AssignUser, InsertAssignment, AddDependency, Search, InsertDependency
<1>3. Answer(c) \/ \E step \in TaskSteps : \E seen : Goto(c, step, seen)
  <2>1. \A step \in {"createTask", "insertTask", "writeTask", "writeBlock", "writeUnblock", "insertAssignment",
                     "search", "insertDependency"} : step \in TaskSteps
    BY DEF TaskSteps
  <2>2. CASE CreateTask(c) BY <2>1, <2>2 DEF CreateTask
  <2>3. CASE InsertTask(c) BY <2>1, <2>3 DEF InsertTask
  <2>4. CASE UpdateTask(c) BY <2>1, <2>4 DEF UpdateTask
  <2>5. CASE BlockTask(c) BY <2>1, <2>5 DEF BlockTask
  <2>6. CASE UnblockTask(c) BY <2>1, <2>6 DEF UnblockTask
  <2>7. CASE AssignUser(c) BY <2>1, <2>7 DEF AssignUser
  <2>8. CASE AddDependency(c) BY <2>1, <2>8 DEF AddDependency
  <2>9. CASE Search(c) BY <2>1, <2>9 DEF Search
  <2>10. CASE WriteTask(c) \/ WriteBlock(c) \/ WriteUnblock(c) \/ InsertAssignment(c) \/ InsertDependency(c)
    BY <2>10 DEF WriteTask, WriteBlock, WriteUnblock, InsertAssignment, InsertDependency
  <2> QED BY <2>2, <2>3, <2>4, <2>5, <2>6, <2>7, <2>8, <2>9, <2>10 DEF TasksStep
<1> QED BY <1>1, <1>2, <1>3, GotoMoves, AnswerMoves

LEMMA PlansMove ==
    ASSUME HandlersInv, NEW c \in Calls, PlansStep(c)
    PROVE  Moves(c, PlanSteps)
<1>1. "free" \notin PlanSteps BY DEF PlanSteps
<1>2. call[c].pc \in PlanSteps
  BY DEF PlansStep, PlanSteps, At, CreatePlan, PublishPlan, WritePublished, CompletePlan, RecheckPlan,
         WriteCompleted, CancelPlan, WriteCancelled, Progress, WriteProgress
<1>3. Answer(c) \/ \E step \in PlanSteps : \E seen : Goto(c, step, seen)
  <2>1. \A step \in {"writePublished", "recheck", "writeCompleted", "writeCancelled", "writeProgress"} :
           step \in PlanSteps
    BY DEF PlanSteps
  <2>2. CASE PublishPlan(c) BY <2>1, <2>2 DEF PublishPlan
  <2>3. CASE CompletePlan(c) BY <2>1, <2>3 DEF CompletePlan
  <2>4. CASE RecheckPlan(c) BY <2>1, <2>4 DEF RecheckPlan
  <2>5. CASE CancelPlan(c) BY <2>1, <2>5 DEF CancelPlan
  <2>6. CASE Progress(c) BY <2>1, <2>6 DEF Progress
  <2>7. CASE CreatePlan(c) \/ WritePublished(c) \/ WriteCompleted(c) \/ WriteCancelled(c) \/ WriteProgress(c)
    BY <2>7 DEF CreatePlan, WritePublished, WriteCompleted, WriteCancelled, WriteProgress
  <2> QED BY <2>2, <2>3, <2>4, <2>5, <2>6, <2>7 DEF PlansStep
<1> QED BY <1>1, <1>2, <1>3, GotoMoves, AnswerMoves

LEMMA AttendanceMoves ==
    ASSUME HandlersInv, NEW c \in Calls, AttendanceStep(c)
    PROVE  Moves(c, AttendanceSteps)
<1>1. "free" \notin AttendanceSteps BY DEF AttendanceSteps
<1>2. call[c].pc \in AttendanceSteps
  BY DEF AttendanceStep, AttendanceSteps, At, CheckIn, CheckInInsert, CheckOut, CheckOutWrite, Correct, CorrectWrite
<1>3. Answer(c) \/ \E step \in AttendanceSteps : \E seen : Goto(c, step, seen)
  <2>1. \A step \in {"insert", "close", "rewrite"} : step \in AttendanceSteps BY DEF AttendanceSteps
  <2> QED BY <2>1 DEF AttendanceStep, CheckIn, CheckInInsert, CheckOut, CheckOutWrite, Correct, CorrectWrite
<1> QED BY <1>1, <1>2, <1>3, GotoMoves, AnswerMoves

LEMMA ExpensesMove ==
    ASSUME HandlersInv, NEW c \in Calls, ExpensesStep(c)
    PROVE  Moves(c, ExpenseSteps)
<1>1. "free" \notin ExpenseSteps BY DEF ExpenseSteps
<1>2. call[c].pc \in ExpenseSteps
  BY DEF ExpensesStep, ExpenseSteps, At, SubmitExpense, ReviewExpense, Decide, Approve
<1>3. Answer(c) \/ \E step \in ExpenseSteps : \E seen : Goto(c, step, seen)
  <2>1. \A step \in {"decide", "approve"} : step \in ExpenseSteps BY DEF ExpenseSteps
  <2> QED BY <2>1 DEF ExpensesStep, SubmitExpense, ReviewExpense, Decide, Approve
<1> QED BY <1>1, <1>2, <1>3, GotoMoves, AnswerMoves

----------------------------------------------------------------------------
(* Accounts, members and assignments. *)

\* The request a handler in one of these steps serves.
AccountKinds(c) ==
    /\ call[c].pc \in {"changeRole", "setRole"} => Req(c).kind = "changeRole"
    /\ call[c].pc \in {"changeStatus", "countOwners", "setStatus"} => Req(c).kind = "changeStatus"
    /\ call[c].pc \in {"offboard", "takeStock", "handOver"} => Req(c).kind = "offboard"
    /\ call[c].pc \in {"addMember", "insertMember"} => Req(c).kind = "addMember"
    /\ call[c].pc \in {"changeMemberRole", "setMemberRole"} => Req(c).kind = "changeMemberRole"
    /\ call[c].pc \in {"removeMember", "deleteMember"} => Req(c).kind = "removeMember"

\* An owner who is about to go is not the only one who was counted.
OwnerCounted(c) == Req(c).user \notin raced /\ IsOwner(Req(c).user) => \E x \in Seen(c).owners : x # Req(c).user

\* An owner who is about to be changed is so by another active owner of the organization,
\* unless a request about its owners raced.
OwnerActs(c) ==
    LET u == Req(c).user
    IN  <<"owners", OrgOf[u]>> \notin raced /\ IsOwner(u) =>
            Actor(c) \in Users /\ Actor(c) # u /\ OrgOf[Actor(c)] = OrgOf[u] /\ Active(Actor(c)) /\ IsOwner(Actor(c))

\* The steps between the check of the actor and the write.
OwnerSteps == {"setRole", "countOwners", "setStatus", "takeStock", "handOver"}

\* What a handler has read and still holds, unless a request about the same people raced.
AccountCall(c) ==
    /\ AccountKinds(c)
    /\ call[c].pc \in OwnerSteps => OwnerActs(c)
    /\ call[c].pc \in {"countOwners", "takeStock"} =>
          (Req(c).user \notin raced /\ IsOwner(Req(c).user) => Seen(c))
    /\ At(c, "setStatus") /\ Req(c).status # "ACTIVE" => OwnerCounted(c)
    /\ call[c].pc \in {"takeStock", "handOver"} => Req(c).to # Req(c).user
    /\ At(c, "handOver") =>
          /\ Seen(c).tasks \subseteq Tasks /\ Seen(c).role \in Roles \cup {Null}
          /\ OwnerCounted(c)
          /\ Req(c).user \notin raced /\ OrgOf[Actor(c)] = Organization =>
                /\ Seen(c).role = members[Req(c).user]
                /\ TasksOf(Req(c).user) \subseteq Seen(c).tasks
          /\ Req(c).to \notin raced => Active(Req(c).to)
    /\ At(c, "deleteMember") /\ <<"members">> \notin raced => \E x \in Members : x # Req(c).user

AccountData == AccountsTypeOK /\ ProjectKeepsMember

AccountInv == AccountData /\ \A c \in Calls : AccountCall(c)

\* A step that is not about a person leaves their rows.
AccountLeaves(c) ==
    /\ \A u \in Users \ Req(c).on :
          users'[u] = users[u] /\ members'[u] = members[u] /\ TasksOf(u)' = TasksOf(u)
    /\ <<"members">> \notin Req(c).on => members' = members
    /\ \A u \in Users : <<"owners", OrgOf[u]>> \notin Req(c).on => users'[u] = users[u]

\* In a set with more than one member, nobody is the only one.
LEMMA SomebodyElse ==
    ASSUME NEW S, IsFiniteSet(S), ~(Cardinality(S) <= 1), NEW x
    PROVE  \E y \in S : y # x
<1> SUFFICES ASSUME S \subseteq {x} PROVE FALSE OBVIOUS
<1>1. IsFiniteSet({x}) /\ Cardinality({x}) = 1 BY FS_Singleton
<1>2. Cardinality(S) <= Cardinality({x}) BY <1>1, FS_Subset
<1> QED BY <1>1, <1>2

LEMMA OwnersFinite == IsFiniteSet(ActiveOwners) /\ IsFiniteSet(Members)
BY AccountsAssumption, FS_Subset DEF ActiveOwners, Members

\* The request of a handler in one of these steps.
LEMMA AccountCalls ==
    ASSUME HandlersInv, NEW c \in Calls, AccountKinds(c), call[c].pc \in AccountSteps
    PROVE  AccountRequest(Req(c)) /\ call[c].pc # "free"
<1>1. call[c].pc # "free" BY DEF AccountSteps
<1>2. SiteRequest(Req(c)) BY <1>1, RequestOfCall
<1>3. Req(c).kind \in {"changeRole", "changeStatus", "offboard", "addMember", "changeMemberRole", "removeMember"}
  BY DEF AccountKinds, AccountSteps
<1> QED BY <1>1, <1>2, <1>3 DEF SiteRequest, TaskRequest, PlanRequest, AttendanceRequest, ExpenseRequest

\* Who may manage an owner is another active owner of the organization.
LEMMA OwnerMayAct ==
    ASSUME HandlersInv, NEW c \in Calls, AccountKinds(c), call[c].pc \in AccountSteps, MayManage(c, Req(c).user)
    PROVE  OwnerActs(c)
<1>1. AccountRequest(Req(c)) BY AccountCalls
<1>2. Actor(c) \in Users BY <1>1 DEF AccountRequest, Actor
<1> QED BY <1>2 DEF OwnerActs, MayManage, Authorized, SameOrganization

\* It remains so while the users do.
LEMMA OwnerActsStays ==
    ASSUME NEW c \in Calls, users' = users, raced \subseteq raced', Req(c)' = Req(c), OwnerActs(c)
    PROVE  OwnerActs(c)'
<1>1. PICK u, by : u = Req(c).user /\ by = Actor(c) OBVIOUS
<1>2. Req(c)'.user = u /\ Actor(c)' = by BY <1>1 DEF Actor
<1>3. \A x : (IsOwner(x)' <=> IsOwner(x)) /\ (Active(x)' <=> Active(x)) BY DEF IsOwner, Active
<1>4. (<<"owners", OrgOf[u]>> \notin raced /\ IsOwner(u) =>
            by \in Users /\ by # u /\ OrgOf[by] = OrgOf[u] /\ Active(by) /\ IsOwner(by))
  BY <1>1 DEF OwnerActs
<1>5. (<<"owners", OrgOf[u]>> \notin raced' /\ IsOwner(u)' =>
            by \in Users /\ by # u /\ OrgOf[by] = OrgOf[u] /\ Active(by)' /\ IsOwner(by)')
  BY <1>3, <1>4
<1>6. (IsOwner(Req(c).user)' <=> IsOwner(u)') /\ (IsOwner(Actor(c))' <=> IsOwner(by)')
      /\ (Active(Actor(c))' <=> Active(by)')
  BY <1>2 DEF IsOwner, Active
<1> QED BY <1>2, <1>5, <1>6 DEF OwnerActs

\* It remains so also when the step of another handler changes the owners of another organization.
LEMMA OwnerActsOthers ==
    ASSUME HandlersInv, NEW c \in Calls, call[c].pc # "free", AccountLeaves(c), raced' = raced,
           NEW d \in Calls, d # c, call'[d] = call[d], AccountKinds(d), call[d].pc \in OwnerSteps, OwnerActs(d)
    PROVE  OwnerActs(d)'
<1>1. Req(d)' = Req(d) BY DEF Req
<1>2. PICK u, by : u = Req(d).user /\ by = Actor(d) OBVIOUS
<1>3. Req(d)'.user = u /\ Actor(d)' = by BY <1>1, <1>2 DEF Actor
<1>4. AccountRequest(Req(d)) /\ call[d].pc # "free" BY AccountCalls DEF OwnerSteps, AccountSteps
<1>5. Req(d).kind \in {"changeRole", "changeStatus", "offboard"} BY DEF AccountKinds, OwnerSteps
<1>6. u \in Users /\ <<"owners", OrgOf[u]>> \in Req(d).on BY <1>2, <1>4, <1>5 DEF AccountRequest
<1>7. Req(d).on \cap Req(c).on \subseteq raced BY <1>4 DEF HandlersInv, RacedInv, InFlight
<1>8. (<<"owners", OrgOf[u]>> \notin raced /\ IsOwner(u) =>
            by \in Users /\ by # u /\ OrgOf[by] = OrgOf[u] /\ Active(by) /\ IsOwner(by))
  BY <1>2 DEF OwnerActs
<1>9. <<"owners", OrgOf[u]>> \notin raced =>
          \A x \in Users : OrgOf[x] = OrgOf[u] => (IsOwner(x)' <=> IsOwner(x)) /\ (Active(x)' <=> Active(x))
  BY <1>6, <1>7 DEF AccountLeaves, IsOwner, Active
<1>10. (<<"owners", OrgOf[u]>> \notin raced /\ IsOwner(u)' =>
            by \in Users /\ by # u /\ OrgOf[by] = OrgOf[u] /\ Active(by)' /\ IsOwner(by)')
  BY <1>6, <1>8, <1>9
<1>11. (IsOwner(Req(d).user)' <=> IsOwner(u)') /\ (IsOwner(Actor(d))' <=> IsOwner(by)')
      /\ (Active(Actor(d))' <=> Active(by)')
  BY <1>3 DEF IsOwner, Active
<1> QED BY <1>3, <1>10, <1>11 DEF OwnerActs

LEMMA AccountOthers ==
    ASSUME HandlersInv, NEW c \in Calls, call[c].pc # "free", AccountLeaves(c), raced' = raced,
           NEW d \in Calls, d # c, call'[d] = call[d], AccountCall(d)
    PROVE  AccountCall(d)'
<1>0. Req(d)' = Req(d) /\ Seen(d)' = Seen(d) /\ \A step : At(d, step)' = At(d, step) BY DEF Req, Seen, At
<1>1. CASE call[d].pc \notin AccountSteps
  BY <1>0, <1>1 DEF AccountCall, AccountKinds, AccountSteps, OwnerSteps, At
<1>2. CASE call[d].pc \in AccountSteps
  <2>1. AccountKinds(d) BY DEF AccountCall
  <2>2. AccountRequest(Req(d)) /\ call[d].pc # "free" BY <1>2, <2>1, AccountCalls
  <2>3. Req(d).on \cap Req(c).on \subseteq raced BY <2>2 DEF HandlersInv, RacedInv, InFlight
  <2>4. AccountKinds(d)' BY <1>0, <2>1 DEF AccountKinds
  <2>5. Req(d).user \in Users /\ Req(d).user \in Req(d).on BY <2>2 DEF AccountRequest
  <2>15. PICK u : u = Req(d).user OBVIOUS
  <2>6. u \notin raced =>
           users'[u] = users[u] /\ members'[u] = members[u] /\ TasksOf(u)' = TasksOf(u)
    BY <2>3, <2>5, <2>15 DEF AccountLeaves
  <2>7. u \notin raced => (IsOwner(u)' <=> IsOwner(u))
    BY <2>6 DEF IsOwner
  <2>8. OwnerCounted(d) => OwnerCounted(d)' BY <1>0, <2>7, <2>15 DEF OwnerCounted, IsOwner
  <2>9. ASSUME At(d, "handOver"), Req(d).to \notin raced PROVE Active(Req(d).to)'
    <3>1. Req(d).kind = "offboard" BY <2>1, <2>9 DEF AccountKinds, At
    <3>2. Req(d).to \in Users /\ Req(d).to \notin Req(c).on BY <2>2, <2>3, <2>9, <3>1 DEF AccountRequest
    <3>3. Active(Req(d).to) BY <2>9 DEF AccountCall
    <3> QED BY <1>0, <3>2, <3>3 DEF Active, AccountLeaves
  <2>10. ASSUME At(d, "deleteMember"), <<"members">> \notin raced PROVE (\E x \in Members : x # Req(d).user)'
    <3>1. Req(d).kind = "removeMember" BY <2>1, <2>10 DEF AccountKinds, At
    <3>2. members' = members BY <2>2, <2>3, <2>10, <3>1 DEF AccountRequest, AccountLeaves
    <3>3. \E x \in Members : x # Req(d).user BY <2>10 DEF AccountCall
    <3> QED BY <1>0, <3>2, <3>3 DEF Members
  <2>11. call[d].pc \in {"countOwners", "takeStock"} => (u \notin raced /\ IsOwner(u)' => Seen(d))
    BY <2>7, <2>15 DEF AccountCall
  <2>12. At(d, "handOver") =>
          /\ Seen(d).tasks \subseteq Tasks /\ Seen(d).role \in Roles \cup {Null}
          /\ OwnerCounted(d)'
          /\ u \notin raced /\ OrgOf[Actor(d)] = Organization =>
                Seen(d).role = members'[u] /\ TasksOf(u)' \subseteq Seen(d).tasks
    BY <2>6, <2>8, <2>15 DEF AccountCall
  <2>13. At(d, "setStatus") /\ Req(d).status # "ACTIVE" => OwnerCounted(d)' BY <2>8 DEF AccountCall
  <2>14. call[d].pc \in {"takeStock", "handOver"} => Req(d).to # Req(d).user BY DEF AccountCall
  <2>16. TasksOf(Req(d).user)' = TasksOf(u)' /\ (IsOwner(Req(d).user)' <=> IsOwner(u)')
    BY <1>0, <2>15 DEF TasksOf, IsOwner
  <2>17. call[d].pc \in OwnerSteps => OwnerActs(d)' BY <2>1, OwnerActsOthers DEF AccountCall
  <2>18. Actor(d)' = Actor(d) BY <1>0 DEF Actor
  <2> QED BY <1>0, <2>4, <2>9, <2>10, <2>11, <2>12, <2>13, <2>14, <2>15, <2>16, <2>17, <2>18 DEF AccountCall
<1> QED BY <1>1, <1>2

LEMMA AccountStepKeeps ==
    ASSUME HandlersInv, AccountInv, NEW c \in Calls, call[c].pc # "free",
           \A d \in Calls : d # c => call'[d] = call[d], raced' = raced,
           AccountLeaves(c), AccountCall(c)', AccountData'
    PROVE  AccountInv'
<1>1. \A d \in Calls : d # c => AccountCall(d)' BY AccountOthers DEF AccountInv
<1> QED BY <1>1 DEF AccountInv

LEMMA AccountIdle ==
    ASSUME NEW c \in Calls, call'[c].pc \notin AccountSteps
    PROVE  AccountCall(c)'
BY DEF AccountCall, AccountKinds, AccountSteps, OwnerSteps, At

LEMMA AccountFresh ==
    ASSUME NEW c \in Calls, call'[c].pc = Req(c)'.kind, SiteRequest(Req(c)')
    PROVE  AccountCall(c)'
BY DEF AccountCall, AccountKinds, OwnerSteps, At, SiteRequest, AccountRequest, TaskRequest, PlanRequest, AttendanceRequest,
       ExpenseRequest

\* What changes no row keeps what holds of them, also when more has raced.
LEMMA AccountStays ==
    ASSUME AccountInv, UNCHANGED accountVars, raced \subseteq raced',
           \A d \in Calls : call'[d] = call[d] \/ AccountCall(d)'
    PROVE  AccountInv'
<1>1. AccountData' BY DEF AccountInv, AccountData, AccountsTypeOK, ProjectKeepsMember, Members, accountVars
<1>2. ASSUME NEW d \in Calls, call'[d] = call[d] PROVE AccountCall(d)'
  <2>0. Req(d)' = Req(d) /\ Seen(d)' = Seen(d) /\ \A step : At(d, step)' = At(d, step) BY <1>2 DEF Req, Seen, At
  <2>1. AccountCall(d) BY DEF AccountInv
  <2>2. AccountKinds(d)' BY <1>2, <2>0, <2>1 DEF AccountCall, AccountKinds
  <2>3. \A u : (IsOwner(u)' <=> IsOwner(u)) /\ (Active(u)' <=> Active(u)) /\ TasksOf(u)' = TasksOf(u)
    BY DEF accountVars, IsOwner, Active, TasksOf
  <2>4. members' = members /\ Members' = Members BY DEF accountVars, Members
  <2>5. PICK u : u = Req(d).user OBVIOUS
  <2>6. PICK to : to = Req(d).to OBVIOUS
  <2>7. /\ IsOwner(Req(d).user)' = IsOwner(u)' /\ TasksOf(Req(d).user)' = TasksOf(u)'
        /\ Active(Req(d).to)' = Active(to)'
    BY <2>0, <2>5, <2>6 DEF IsOwner, TasksOf, Active
  <2>8. OwnerCounted(d) => OwnerCounted(d)' BY <2>0, <2>3, <2>5, <2>7 DEF OwnerCounted
  <2>9. OwnerActs(d) => OwnerActs(d)' BY <2>0, OwnerActsStays DEF accountVars
  <2>10. Actor(d)' = Actor(d) BY <2>0 DEF Actor
  <2> QED BY <1>2, <2>0, <2>1, <2>2, <2>3, <2>4, <2>5, <2>6, <2>7, <2>8, <2>9, <2>10 DEF AccountCall
<1> QED BY <1>1, <1>2 DEF AccountInv

\* A step that reads goes on with what it relies on.
LEMMA AccountReads ==
    ASSUME HandlersInv, AccountInv, NEW c \in Calls, UNCHANGED accountVars, Moves(c, AccountSteps), AccountCall(c)'
    PROVE  AccountInv'
BY AccountStays DEF Moves

LEMMA AccountAnswers ==
    ASSUME HandlersInv, AccountInv, NEW c \in Calls, UNCHANGED accountVars, Answer(c)
    PROVE  AccountInv'
<1>1. call'[c] = Free /\ raced' = raced /\ \A d \in Calls : d # c => call'[d] = call[d] BY AnswerShape
<1>2. call'[c].pc \notin AccountSteps BY <1>1 DEF Free, AccountSteps
<1>3. AccountCall(c)' BY <1>2, AccountIdle
<1> QED BY <1>1, <1>3, AccountStays

\* The first step of a request goes to one that relies on the kind and the actor only.
LEMMA AccountGoes ==
    ASSUME HandlersInv, AccountInv, NEW c \in Calls, UNCHANGED accountVars,
           NEW from, NEW step, NEW seen, At(c, from), Goto(c, step, seen),
           <<from, step>> \in {<<"changeRole", "setRole">>, <<"addMember", "insertMember">>,
                               <<"changeMemberRole", "setMemberRole">>},
           step = "setRole" => MayManage(c, Req(c).user)
    PROVE  AccountInv'
<1>1. call[c].pc = from /\ from # "free" /\ step # "free" BY DEF At
<1>2. /\ call'[c] = [req |-> Req(c), pc |-> step, seen |-> seen]
      /\ raced' = raced /\ \A d \in Calls : d # c => call'[d] = call[d]
  BY <1>1, GotoShape
<1>3. AccountKinds(c) BY DEF AccountInv, AccountCall
<1>4. Req(c)' = Req(c) /\ users' = users BY <1>2 DEF Req, accountVars
<1>5. step = "setRole" => OwnerActs(c)'
  BY <1>1, <1>2, <1>3, <1>4, OwnerMayAct, OwnerActsStays DEF AccountSteps
<1>6. AccountCall(c)' BY <1>1, <1>2, <1>3, <1>4, <1>5 DEF AccountCall, AccountKinds, OwnerSteps, At
<1> QED BY <1>2, <1>6, AccountStays

LEMMA ChangeStatusKeeps ==
    ASSUME HandlersInv, AccountInv, NEW c \in Calls, ChangeStatus(c)
    PROVE  AccountInv'
<1>0. UNCHANGED accountVars /\ call[c].pc = "changeStatus" BY DEF ChangeStatus, At
<1>1. CASE Answer(c) BY <1>0, <1>1, AccountAnswers
<1>2. CASE MayManage(c, Req(c).user) /\ Goto(c, "countOwners", IsOwner(Req(c).user))
  <2>1. PICK own : own = IsOwner(Req(c).user) OBVIOUS
  <2>2. Goto(c, "countOwners", own) BY <1>2, <2>1
  <2>3. /\ call'[c] = [req |-> Req(c), pc |-> "countOwners", seen |-> own]
        /\ raced' = raced /\ \A d \in Calls : d # c => call'[d] = call[d]
    BY <1>0, <2>2, GotoShape
  <2>4. Req(c)' = Req(c) /\ Seen(c)' = own BY <2>3 DEF Req, Seen
  <2>5. IsOwner(Req(c).user)' = IsOwner(Req(c).user) BY <1>0, <2>4 DEF accountVars, IsOwner
  <2>6. AccountKinds(c)' BY <1>0, <2>3, <2>4 DEF AccountInv, AccountCall, AccountKinds
  <2>7. AccountKinds(c) /\ call[c].pc \in AccountSteps BY <1>0 DEF AccountInv, AccountCall, AccountSteps
  <2>8. OwnerActs(c)' BY <1>0, <1>2, <2>3, <2>4, <2>7, OwnerMayAct, OwnerActsStays DEF accountVars
  <2>9. AccountCall(c)' BY <2>1, <2>3, <2>4, <2>5, <2>6, <2>8 DEF AccountCall, At
  <2> QED BY <1>0, <2>3, <2>9, AccountStays
<1> QED BY <1>1, <1>2 DEF ChangeStatus

LEMMA CountOwnersKeeps ==
    ASSUME HandlersInv, AccountInv, NEW c \in Calls, CountOwners(c)
    PROVE  AccountInv'
<1>0. UNCHANGED accountVars /\ call[c].pc = "countOwners" BY DEF CountOwners, At
<1>1. CASE Answer(c) BY <1>0, <1>1, AccountAnswers
<1>2. CASE /\ ~(Seen(c) /\ Req(c).status # "ACTIVE" /\ Cardinality(ActiveOwners) <= 1)
           /\ Goto(c, "setStatus", [owners |-> ActiveOwners])
  <2>1. PICK seen : seen = [owners |-> ActiveOwners] OBVIOUS
  <2>2. Goto(c, "setStatus", seen) BY <1>2, <2>1
  <2>3. /\ call'[c] = [req |-> Req(c), pc |-> "setStatus", seen |-> seen]
        /\ raced' = raced /\ \A d \in Calls : d # c => call'[d] = call[d]
    BY <1>0, <2>2, GotoShape
  <2>4. Req(c)' = Req(c) /\ Seen(c)' = seen BY <2>3 DEF Req, Seen
  <2>5. IsOwner(Req(c).user)' = IsOwner(Req(c).user) BY <1>0, <2>4 DEF accountVars, IsOwner
  <2>6. AccountKinds(c)' BY <1>0, <2>3, <2>4 DEF AccountInv, AccountCall, AccountKinds
  <2>7. ASSUME Req(c).status # "ACTIVE", Req(c).user \notin raced, IsOwner(Req(c).user)
        PROVE  \E x \in ActiveOwners : x # Req(c).user
    <3>1. Seen(c) BY <1>0, <2>7 DEF AccountInv, AccountCall
    <3> QED BY <1>2, <2>7, <3>1, OwnersFinite, SomebodyElse
  <2>8. Req(c).status # "ACTIVE" => OwnerCounted(c)'
    BY <2>1, <2>3, <2>4, <2>5, <2>7 DEF OwnerCounted
  <2>9. OwnerActs(c) BY <1>0 DEF AccountInv, AccountCall, OwnerSteps
  <2>10. OwnerActs(c)' BY <1>0, <2>3, <2>4, <2>9, OwnerActsStays DEF accountVars
  <2>11. AccountCall(c)' BY <2>3, <2>4, <2>6, <2>8, <2>10 DEF AccountCall, At
  <2> QED BY <1>0, <2>3, <2>11, AccountStays
<1> QED BY <1>1, <1>2 DEF CountOwners

LEMMA OffboardKeeps ==
    ASSUME HandlersInv, AccountInv, NEW c \in Calls, Offboard(c)
    PROVE  AccountInv'
<1>0. UNCHANGED accountVars /\ call[c].pc = "offboard" BY DEF Offboard, At
<1>1. CASE Answer(c) BY <1>0, <1>1, AccountAnswers
<1>2. CASE /\ MayManage(c, Req(c).user) /\ Req(c).to # Req(c).user
           /\ Goto(c, "takeStock", IsOwner(Req(c).user))
  <2>1. PICK own : own = IsOwner(Req(c).user) OBVIOUS
  <2>2. Goto(c, "takeStock", own) BY <1>2, <2>1
  <2>3. /\ call'[c] = [req |-> Req(c), pc |-> "takeStock", seen |-> own]
        /\ raced' = raced /\ \A d \in Calls : d # c => call'[d] = call[d]
    BY <1>0, <2>2, GotoShape
  <2>4. Req(c)' = Req(c) /\ Seen(c)' = own BY <2>3 DEF Req, Seen
  <2>5. IsOwner(Req(c).user)' = IsOwner(Req(c).user) BY <1>0, <2>4 DEF accountVars, IsOwner
  <2>6. AccountKinds(c)' BY <1>0, <2>3, <2>4 DEF AccountInv, AccountCall, AccountKinds
  <2>7. AccountKinds(c) /\ call[c].pc \in AccountSteps BY <1>0 DEF AccountInv, AccountCall, AccountSteps
  <2>8. OwnerActs(c)' BY <1>0, <1>2, <2>3, <2>4, <2>7, OwnerMayAct, OwnerActsStays DEF accountVars
  <2>9. AccountCall(c)' BY <1>2, <2>1, <2>3, <2>4, <2>5, <2>6, <2>8 DEF AccountCall, At
  <2> QED BY <1>0, <2>3, <2>9, AccountStays
<1> QED BY <1>1, <1>2 DEF Offboard

LEMMA TakeStockKeeps ==
    ASSUME HandlersInv, AccountInv, NEW c \in Calls, TakeStock(c)
    PROVE  AccountInv'
<1>0. UNCHANGED accountVars /\ call[c].pc = "takeStock" BY DEF TakeStock, At
<1>1. CASE Answer(c) BY <1>0, <1>1, AccountAnswers
<1>9. PICK within \in BOOLEAN : within <=> OrgOf[Actor(c)] = Organization OBVIOUS
<1>2. CASE /\ ~(Seen(c) /\ Cardinality(ActiveOwners) <= 1) /\ Active(Req(c).to)
           /\ Goto(c, "handOver", [role   |-> IF within THEN members[Req(c).user] ELSE Null,
                                   tasks  |-> IF within THEN TasksOf(Req(c).user) ELSE {},
                                   owners |-> ActiveOwners])
  <2>1. PICK seen : seen = [role   |-> IF within THEN members[Req(c).user] ELSE Null,
                            tasks  |-> IF within THEN TasksOf(Req(c).user) ELSE {},
                            owners |-> ActiveOwners]
    OBVIOUS
  <2>2. Goto(c, "handOver", seen) BY <1>2, <2>1
  <2>3. /\ call'[c] = [req |-> Req(c), pc |-> "handOver", seen |-> seen]
        /\ raced' = raced /\ \A d \in Calls : d # c => call'[d] = call[d]
    BY <1>0, <2>2, GotoShape
  <2>4. Req(c)' = Req(c) /\ Seen(c)' = seen BY <2>3 DEF Req, Seen
  <2>5. /\ IsOwner(Req(c).user)' = IsOwner(Req(c).user) /\ TasksOf(Req(c).user)' = TasksOf(Req(c).user)
        /\ Active(Req(c).to)' = Active(Req(c).to) /\ members' = members
    BY <1>0, <2>4 DEF accountVars, IsOwner, TasksOf, Active
  <2>6. AccountKinds(c)' BY <1>0, <2>3, <2>4 DEF AccountInv, AccountCall, AccountKinds
  <2>7. ASSUME Req(c).user \notin raced, IsOwner(Req(c).user)
        PROVE  \E x \in ActiveOwners : x # Req(c).user
    <3>1. Seen(c) BY <1>0, <2>7 DEF AccountInv, AccountCall
    <3> QED BY <1>2, <3>1, OwnersFinite, SomebodyElse
  <2>8. OwnerCounted(c)' BY <2>1, <2>3, <2>4, <2>5, <2>7 DEF OwnerCounted
  <2>9. AccountRequest(Req(c)) /\ Req(c).user \in Users
    BY <1>0, AccountCalls DEF AccountInv, AccountCall, AccountSteps, AccountRequest
  <2>10. seen.tasks \subseteq Tasks /\ seen.role \in Roles \cup {Null}
    BY <2>1, <2>9 DEF TasksOf, AccountInv, AccountData, AccountsTypeOK
  <2>11. Req(c).to # Req(c).user BY <1>0 DEF AccountInv, AccountCall
  <2>12. OrgOf[Actor(c)] = Organization => seen.role = members[Req(c).user] /\ seen.tasks = TasksOf(Req(c).user)
    BY <1>9, <2>1
  <2>13. OwnerActs(c) BY <1>0 DEF AccountInv, AccountCall, OwnerSteps
  <2>14. OwnerActs(c)' BY <1>0, <2>3, <2>4, <2>13, OwnerActsStays DEF accountVars
  <2>15. Actor(c)' = Actor(c) BY <2>4 DEF Actor
  <2>16. AccountCall(c)'
    BY <1>2, <2>3, <2>4, <2>5, <2>6, <2>8, <2>10, <2>11, <2>12, <2>14, <2>15 DEF AccountCall, At
  <2> QED BY <1>0, <2>3, <2>16, AccountStays
<1> QED BY <1>1, <1>2, <1>9 DEF TakeStock

LEMMA RemoveMemberKeeps ==
    ASSUME HandlersInv, AccountInv, NEW c \in Calls, RemoveMember(c)
    PROVE  AccountInv'
<1>0. UNCHANGED accountVars /\ call[c].pc = "removeMember" BY DEF RemoveMember, At
<1>1. CASE Answer(c) BY <1>0, <1>1, AccountAnswers
<1>2. CASE Cardinality(Members) > 1 /\ Goto(c, "deleteMember", Null)
  <2>3. /\ call'[c] = [req |-> Req(c), pc |-> "deleteMember", seen |-> Null]
        /\ raced' = raced /\ \A d \in Calls : d # c => call'[d] = call[d]
    BY <1>0, <1>2, GotoShape
  <2>4. Req(c)' = Req(c) /\ Members' = Members BY <1>0, <2>3 DEF Req, Members, accountVars
  <2>5. AccountKinds(c)' BY <1>0, <2>3, <2>4 DEF AccountInv, AccountCall, AccountKinds
  <2>6. ~(Cardinality(Members) <= 1) BY <1>2, OwnersFinite, FS_CardinalityType
  <2>7. \E x \in Members : x # Req(c).user BY <2>6, OwnersFinite, SomebodyElse
  <2>8. AccountCall(c)' BY <2>3, <2>4, <2>5, <2>7 DEF AccountCall, OwnerSteps, At
  <2> QED BY <1>0, <2>3, <2>8, AccountStays
<1> QED BY <1>1, <1>2 DEF RemoveMember

\* A write is the last step of its request.
LEMMA AccountWrites ==
    ASSUME HandlersInv, AccountInv, NEW c \in Calls, call[c].pc # "free", Answer(c),
           AccountLeaves(c), AccountData'
    PROVE  AccountInv'
<1>1. call'[c] = Free /\ raced' = raced /\ \A d \in Calls : d # c => call'[d] = call[d] BY AnswerShape
<1>2. call'[c].pc \notin AccountSteps BY <1>1 DEF Free, AccountSteps
<1>3. AccountCall(c)' BY <1>2, AccountIdle
<1> QED BY <1>1, <1>3, AccountStepKeeps

\* A write to the row of one user.
LEMMA UserChanged ==
    ASSUME HandlersInv, AccountInv, NEW c \in Calls, NEW u \in Users, {u, <<"owners", OrgOf[u]>>} \subseteq Req(c).on,
           NEW row \in Accounts, users' = [users EXCEPT ![u] = row], call[c].pc # "free", Answer(c), UNCHANGED <<members, assigned>>
    PROVE  AccountInv'
<1>1. \A x \in Users : x # u => users'[x] = users[x] BY DEF AccountInv, AccountData, AccountsTypeOK
<1>2. AccountLeaves(c) BY <1>1 DEF AccountLeaves, TasksOf
<1>3. raced' = raced BY AnswerShape
<1>4. AccountData' BY <1>3 DEF AccountInv, AccountData, AccountsTypeOK, ProjectKeepsMember, Members
<1> QED BY <1>2, <1>4, AccountWrites

LEMMA SetRoleKeeps ==
    ASSUME HandlersInv, AccountInv, NEW c \in Calls, SetRole(c)
    PROVE  AccountInv'
<1>0. call[c].pc = "setRole" BY DEF SetRole, At
<1>1. AccountRequest(Req(c)) /\ Req(c).kind = "changeRole"
  BY <1>0, AccountCalls DEF AccountInv, AccountCall, AccountSteps, AccountKinds
<1>2. PICK u : u = Req(c).user OBVIOUS
<1>3. u \in Users /\ {u, <<"owners", OrgOf[u]>>} \subseteq Req(c).on /\ Req(c).role \in Roles
  BY <1>1, <1>2 DEF AccountRequest
<1>4. PICK row : row = [users[u] EXCEPT !.role = Req(c).role] OBVIOUS
<1>5. row \in Accounts BY <1>3, <1>4 DEF AccountInv, AccountData, AccountsTypeOK, Accounts
<1>6. users' = [users EXCEPT ![u] = row] BY <1>2, <1>4 DEF SetRole
<1> QED BY <1>0, <1>3, <1>5, <1>6, UserChanged DEF SetRole

LEMMA SetStatusKeeps ==
    ASSUME HandlersInv, AccountInv, NEW c \in Calls, SetStatus(c)
    PROVE  AccountInv'
<1>0. call[c].pc = "setStatus" BY DEF SetStatus, At
<1>1. AccountRequest(Req(c)) /\ Req(c).kind = "changeStatus"
  BY <1>0, AccountCalls DEF AccountInv, AccountCall, AccountSteps, AccountKinds
<1>2. PICK u : u = Req(c).user OBVIOUS
<1>3. u \in Users /\ {u, <<"owners", OrgOf[u]>>} \subseteq Req(c).on /\ Req(c).status \in Statuses
  BY <1>1, <1>2 DEF AccountRequest
<1>4. PICK row : row = [users[u] EXCEPT !.status = Req(c).status] OBVIOUS
<1>5. row \in Accounts BY <1>3, <1>4 DEF AccountInv, AccountData, AccountsTypeOK, Accounts
<1>6. users' = [users EXCEPT ![u] = row] BY <1>2, <1>4 DEF SetStatus
<1> QED BY <1>0, <1>3, <1>5, <1>6, UserChanged DEF SetStatus

\* A write to the row of one member.
LEMMA MemberChanged ==
    ASSUME HandlersInv, AccountInv, NEW c \in Calls, NEW u \in Users, NEW role \in Roles \cup {Null},
           u \in Req(c).on, <<"members">> \in Req(c).on,
           <<"members">> \notin raced /\ role = Null => \E x \in Members : x # u,
           members' = [members EXCEPT ![u] = role], call[c].pc # "free", Answer(c), UNCHANGED <<users, assigned>>
    PROVE  AccountInv'
<1>1. \A x \in Users : x # u => members'[x] = members[x] BY DEF AccountInv, AccountData, AccountsTypeOK
<1>2. AccountLeaves(c) BY <1>1 DEF AccountLeaves, TasksOf
<1>3. raced' = raced BY AnswerShape
<1>4. members' \in [Users -> Roles \cup {Null}] /\ members'[u] = role
  BY DEF AccountInv, AccountData, AccountsTypeOK
<1>5. <<"members">> \notin raced => Members' # {}
  <2>1. CASE role = Null
    BY <1>1, <2>1 DEF Members
  <2>2. CASE role # Null BY <1>4, <2>2 DEF Members
  <2> QED BY <2>1, <2>2
<1>6. AccountData' BY <1>3, <1>4, <1>5 DEF AccountInv, AccountData, AccountsTypeOK, ProjectKeepsMember
<1> QED BY <1>2, <1>6, AccountWrites

LEMMA InsertMemberKeeps ==
    ASSUME HandlersInv, AccountInv, NEW c \in Calls, InsertMember(c)
    PROVE  AccountInv'
<1>0. call[c].pc = "insertMember" BY DEF InsertMember, At
<1>1. AccountRequest(Req(c)) /\ Req(c).kind = "addMember"
  BY <1>0, AccountCalls DEF AccountInv, AccountCall, AccountSteps, AccountKinds
<1>2. PICK u : u = Req(c).user OBVIOUS
<1>3. u \in Users /\ u \in Req(c).on /\ <<"members">> \in Req(c).on /\ Req(c).role \in Roles
  BY <1>1, <1>2 DEF AccountRequest
<1>4. PICK role : role = IF members[u] = Null THEN Req(c).role ELSE members[u] OBVIOUS
<1>5. role \in Roles /\ role # Null
  BY <1>3, <1>4, AccountsAssumption DEF AccountInv, AccountData, AccountsTypeOK
<1>6. members' = [members EXCEPT ![u] = role] BY <1>2, <1>4 DEF InsertMember
<1> QED BY <1>0, <1>3, <1>5, <1>6, MemberChanged DEF InsertMember

LEMMA SetMemberRoleKeeps ==
    ASSUME HandlersInv, AccountInv, NEW c \in Calls, SetMemberRole(c)
    PROVE  AccountInv'
<1>0. call[c].pc = "setMemberRole" BY DEF SetMemberRole, At
<1>1. AccountRequest(Req(c)) /\ Req(c).kind = "changeMemberRole"
  BY <1>0, AccountCalls DEF AccountInv, AccountCall, AccountSteps, AccountKinds
<1>2. PICK u : u = Req(c).user OBVIOUS
<1>3. u \in Users /\ u \in Req(c).on /\ <<"members">> \in Req(c).on /\ Req(c).role \in Roles
  BY <1>1, <1>2 DEF AccountRequest
<1>4. PICK role : role = IF members[u] = Null THEN Null ELSE Req(c).role OBVIOUS
<1>5. role \in Roles \cup {Null} BY <1>3, <1>4
<1>6. members' = [members EXCEPT ![u] = role] BY <1>2, <1>4 DEF SetMemberRole
<1>7. ASSUME <<"members">> \notin raced, role = Null PROVE \E x \in Members : x # u
  <2>1. members[u] = Null BY <1>3, <1>4, <1>7, AccountsAssumption
  <2>2. Members # {} BY <1>7 DEF AccountInv, AccountData, ProjectKeepsMember
  <2> QED BY <2>1, <2>2 DEF Members
<1> QED BY <1>0, <1>3, <1>5, <1>6, <1>7, MemberChanged DEF SetMemberRole

LEMMA DeleteMemberKeeps ==
    ASSUME HandlersInv, AccountInv, NEW c \in Calls, DeleteMember(c)
    PROVE  AccountInv'
<1>0. call[c].pc = "deleteMember" BY DEF DeleteMember, At
<1>1. AccountRequest(Req(c)) /\ Req(c).kind = "removeMember"
  BY <1>0, AccountCalls DEF AccountInv, AccountCall, AccountSteps, AccountKinds
<1>2. PICK u : u = Req(c).user OBVIOUS
<1>3. u \in Users /\ u \in Req(c).on /\ <<"members">> \in Req(c).on BY <1>1, <1>2 DEF AccountRequest
<1>4. members' = [members EXCEPT ![u] = Null] BY <1>2 DEF DeleteMember
<1>5. <<"members">> \notin raced => \E x \in Members : x # u
  BY <1>0, <1>2 DEF AccountInv, AccountCall, At
<1> QED BY <1>0, <1>3, <1>4, <1>5, MemberChanged DEF DeleteMember

\* What an offboarding does to the rows of the two people.
LEMMA HandedOver ==
    ASSUME HandlersInv, AccountInv, NEW c \in Calls, HandOver(c)
    PROVE  \E u \in Users, to \in Users :
              /\ u = Req(c).user /\ to = Req(c).to /\ u # to
              /\ {u, to, <<"members">>, <<"owners", OrgOf[u]>>} \subseteq Req(c).on
              /\ Seen(c).tasks \subseteq Tasks /\ Seen(c).role \in Roles \cup {Null}
              /\ members' = [x \in Users |-> IF Seen(c).role = Null THEN members[x]
                                 ELSE IF x = to /\ members[to] = Null THEN Seen(c).role
                                 ELSE IF x = u THEN Null ELSE members[x]]
              /\ assigned' = (assigned \cup (Seen(c).tasks \X {to})) \ (Seen(c).tasks \X {u})
              /\ users' = [users EXCEPT ![u].status = "SUSPENDED"]
<1>0. call[c].pc = "handOver" BY DEF HandOver, At
<1>1. AccountRequest(Req(c)) /\ Req(c).kind = "offboard"
  BY <1>0, AccountCalls DEF AccountInv, AccountCall, AccountSteps, AccountKinds
<1>2. PICK u, to : u = Req(c).user /\ to = Req(c).to OBVIOUS
<1>3. u \in Users /\ to \in Users /\ {u, to, <<"members">>, <<"owners", OrgOf[u]>>} \subseteq Req(c).on
  BY <1>1, <1>2 DEF AccountRequest
<1>4. u # to /\ Seen(c).tasks \subseteq Tasks /\ Seen(c).role \in Roles \cup {Null}
  BY <1>0, <1>2 DEF AccountInv, AccountCall, At
<1> QED BY <1>2, <1>3, <1>4 DEF HandOver

\* It is about both of them, and about the members.
LEMMA HandOverLeaves ==
    ASSUME HandlersInv, AccountInv, NEW c \in Calls, HandOver(c)
    PROVE  AccountLeaves(c)
<1>1. PICK u \in Users : \E to \in Users :
              /\ u = Req(c).user /\ to = Req(c).to /\ u # to
              /\ {u, to, <<"members">>, <<"owners", OrgOf[u]>>} \subseteq Req(c).on
              /\ Seen(c).tasks \subseteq Tasks /\ Seen(c).role \in Roles \cup {Null}
              /\ members' = [x \in Users |-> IF Seen(c).role = Null THEN members[x]
                                 ELSE IF x = to /\ members[to] = Null THEN Seen(c).role
                                 ELSE IF x = u THEN Null ELSE members[x]]
              /\ assigned' = (assigned \cup (Seen(c).tasks \X {to})) \ (Seen(c).tasks \X {u})
              /\ users' = [users EXCEPT ![u].status = "SUSPENDED"]
  BY HandedOver
<1>2. PICK to \in Users :
              /\ u = Req(c).user /\ to = Req(c).to /\ u # to
              /\ {u, to, <<"members">>, <<"owners", OrgOf[u]>>} \subseteq Req(c).on
              /\ Seen(c).tasks \subseteq Tasks /\ Seen(c).role \in Roles \cup {Null}
              /\ members' = [x \in Users |-> IF Seen(c).role = Null THEN members[x]
                                 ELSE IF x = to /\ members[to] = Null THEN Seen(c).role
                                 ELSE IF x = u THEN Null ELSE members[x]]
              /\ assigned' = (assigned \cup (Seen(c).tasks \X {to})) \ (Seen(c).tasks \X {u})
              /\ users' = [users EXCEPT ![u].status = "SUSPENDED"]
  BY <1>1
<1>3. users \in [Users -> Accounts] /\ members \in [Users -> Roles \cup {Null}] /\ assigned \subseteq Tasks \X Users
  BY DEF AccountInv, AccountData, AccountsTypeOK
<1>4. \A x \in Users : x # u => users'[x] = users[x] BY <1>2, <1>3
<1>5. \A x \in Users : x # u /\ x # to => members'[x] = members[x] BY <1>2
<1>6. \A x : x # u /\ x # to => TasksOf(x)' = TasksOf(x) BY <1>2 DEF TasksOf
<1> QED BY <1>2, <1>4, <1>5, <1>6 DEF AccountLeaves

LEMMA HandOverKeeps ==
    ASSUME HandlersInv, AccountInv, NEW c \in Calls, HandOver(c)
    PROVE  AccountInv'
<1>0. call[c].pc # "free" /\ Answer(c) BY DEF HandOver, At
<1>1. PICK u \in Users : \E to \in Users :
              /\ u = Req(c).user /\ to = Req(c).to /\ u # to
              /\ {u, to, <<"members">>, <<"owners", OrgOf[u]>>} \subseteq Req(c).on
              /\ Seen(c).tasks \subseteq Tasks /\ Seen(c).role \in Roles \cup {Null}
              /\ members' = [x \in Users |-> IF Seen(c).role = Null THEN members[x]
                                 ELSE IF x = to /\ members[to] = Null THEN Seen(c).role
                                 ELSE IF x = u THEN Null ELSE members[x]]
              /\ assigned' = (assigned \cup (Seen(c).tasks \X {to})) \ (Seen(c).tasks \X {u})
              /\ users' = [users EXCEPT ![u].status = "SUSPENDED"]
  BY HandedOver
<1>2. PICK to \in Users :
              /\ u = Req(c).user /\ to = Req(c).to /\ u # to
              /\ {u, to, <<"members">>, <<"owners", OrgOf[u]>>} \subseteq Req(c).on
              /\ Seen(c).tasks \subseteq Tasks /\ Seen(c).role \in Roles \cup {Null}
              /\ members' = [x \in Users |-> IF Seen(c).role = Null THEN members[x]
                                 ELSE IF x = to /\ members[to] = Null THEN Seen(c).role
                                 ELSE IF x = u THEN Null ELSE members[x]]
              /\ assigned' = (assigned \cup (Seen(c).tasks \X {to})) \ (Seen(c).tasks \X {u})
              /\ users' = [users EXCEPT ![u].status = "SUSPENDED"]
  BY <1>1
<1>3. users \in [Users -> Accounts] /\ members \in [Users -> Roles \cup {Null}] /\ assigned \subseteq Tasks \X Users
  BY DEF AccountInv, AccountData, AccountsTypeOK
<1>7. AccountLeaves(c) BY HandOverLeaves
<1>8. users' \in [Users -> Accounts]
  <2>1. [users[u] EXCEPT !.status = "SUSPENDED"] \in Accounts BY <1>3 DEF Accounts, Statuses
  <2> QED BY <1>2, <1>3, <2>1
<1>9. members' \in [Users -> Roles \cup {Null}] BY <1>2, <1>3
<1>10. assigned' \subseteq Tasks \X Users BY <1>2, <1>3
<1>11. <<"members">> \notin raced => Members' # {}
  <2>1. CASE Seen(c).role = Null
    <3>1. \A x \in Users : members'[x] = members[x] BY <1>2, <2>1
    <3> QED BY <3>1 DEF Members, AccountInv, AccountData, ProjectKeepsMember
  <2>2. CASE Seen(c).role # Null
    <3>1. members'[to] # Null BY <1>2, <2>2
    <3> QED BY <3>1 DEF Members
  <2> QED BY <2>1, <2>2
<1>12. raced' = raced BY <1>0, AnswerShape
<1>13. AccountData' BY <1>8, <1>9, <1>10, <1>11, <1>12 DEF AccountData, AccountsTypeOK, ProjectKeepsMember
<1> QED BY <1>0, <1>7, <1>13, AccountWrites

LEMMA AccountsStepKeeps ==
    ASSUME HandlersInv, AccountInv, NEW c \in Calls, AccountsStep(c)
    PROVE  AccountInv'
<1>1. CASE ChangeRole(c)
  BY <1>1, AccountAnswers, AccountGoes DEF ChangeRole
<1>2. CASE AddMember(c)
  BY <1>2, AccountAnswers, AccountGoes DEF AddMember
<1>3. CASE ChangeMemberRole(c)
  BY <1>3, AccountAnswers, AccountGoes DEF ChangeMemberRole
<1> QED BY <1>1, <1>2, <1>3, SetRoleKeeps, ChangeStatusKeeps, CountOwnersKeeps, SetStatusKeeps, OffboardKeeps,
           TakeStockKeeps, HandOverKeeps, InsertMemberKeeps, SetMemberRoleKeeps, RemoveMemberKeeps,
           DeleteMemberKeeps DEF AccountsStep

\* An assignment is about the user who gets the task.
LEMMA AssignmentLeaves ==
    ASSUME NEW c \in Calls, InsertAssignment(c), Req(c).user \in Req(c).on
    PROVE  AccountLeaves(c)
<1>1. PICK u : u = Req(c).user OBVIOUS
<1>2. PICK t : t = Req(c).task OBVIOUS
<1>3. assigned' = assigned \cup {<<t, u>>} BY <1>1, <1>2 DEF InsertAssignment
<1>4. \A x : x # u => TasksOf(x)' = TasksOf(x) BY <1>3 DEF TasksOf
<1> QED BY <1>1, <1>4 DEF AccountLeaves, InsertAssignment

LEMMA AssignmentKeepsAccounts ==
    ASSUME HandlersInv, AccountInv, NEW c \in Calls, InsertAssignment(c),
           Req(c).task \in Tasks, Req(c).user \in Users, Req(c).user \in Req(c).on
    PROVE  AccountInv'
<1>0. call[c].pc # "free" /\ Answer(c) /\ UNCHANGED <<users, members>> BY DEF InsertAssignment, At
<1>1. raced' = raced BY <1>0, AnswerShape
<1>2. assigned' = assigned \cup {<<Req(c).task, Req(c).user>>} BY DEF InsertAssignment
<1>3. AccountLeaves(c) BY AssignmentLeaves
<1>4. AccountData'
  BY <1>0, <1>1, <1>2 DEF AccountInv, AccountData, AccountsTypeOK, ProjectKeepsMember, Members
<1> QED BY <1>0, <1>3, <1>4, AccountWrites

\* The user whose status is written is not the only active owner there was.
LEMMA OwnerRemains ==
    ASSUME HandlersInv, AccountInv, NEW c \in Calls, SetStatus(c) \/ HandOver(c),
           ActiveOwners # {}, Seen(c).owners = ActiveOwners, Req(c).user \notin raced
    PROVE  ActiveOwners' # {}
<1>0. PICK u : u = Req(c).user OBVIOUS
<1>1. users \in [Users -> Accounts] BY DEF AccountInv, AccountData, AccountsTypeOK
<1>2. PICK status : users' = [users EXCEPT ![u].status = status] /\ (status = "ACTIVE" \/ OwnerCounted(c))
  <2>1. CASE SetStatus(c)
    <3>1. users' = [users EXCEPT ![u].status = Req(c).status] /\ At(c, "setStatus")
      BY <1>0, <2>1 DEF SetStatus
    <3>2. Req(c).status = "ACTIVE" \/ OwnerCounted(c) BY <3>1 DEF AccountInv, AccountCall
    <3> QED BY <3>1, <3>2
  <2>2. CASE HandOver(c)
    <3>1. users' = [users EXCEPT ![u].status = "SUSPENDED"] /\ At(c, "handOver")
      BY <1>0, <2>2 DEF HandOver
    <3>2. OwnerCounted(c) BY <3>1 DEF AccountInv, AccountCall
    <3> QED BY <3>1, <3>2
  <2> QED BY <2>1, <2>2
<1>3. \A x \in Users : x # u => users'[x] = users[x] BY <1>1, <1>2
<1>4. \A x \in ActiveOwners : x # u => x \in ActiveOwners' BY <1>3 DEF ActiveOwners, IsOwner, Active
<1>5. CASE u \notin ActiveOwners BY <1>4, <1>5
<1>6. CASE u \in ActiveOwners /\ OwnerCounted(c)
  <2>1. \E x \in ActiveOwners : x # u BY <1>0, <1>6 DEF OwnerCounted, ActiveOwners
  <2> QED BY <1>4, <2>1
<1>7. CASE u \in ActiveOwners /\ status = "ACTIVE"
  <2>1. users'[u].role = users[u].role /\ users'[u].status = "ACTIVE"
    BY <1>1, <1>2, <1>7 DEF ActiveOwners, Accounts
  <2>2. u \in ActiveOwners' BY <1>7, <2>1 DEF ActiveOwners, IsOwner, Active
  <2> QED BY <2>2
<1> QED BY <1>2, <1>5, <1>6, <1>7

\* A write that changes the owners of an organization is that of another active owner of it,
\* if none of the requests about them raced.
LEMMA OrganizationKeepsOwner ==
    ASSUME HandlersInv, AccountInv, NEW c \in Calls, SetRole(c) \/ SetStatus(c) \/ HandOver(c),
           NEW o \in Orgs, OwnersOf(o) # {}, <<"owners", o>> \notin raced
    PROVE  OwnersOf(o)' # {}
<1>0. PICK u, by : u = Req(c).user /\ by = Actor(c) OBVIOUS
<1>1. users \in [Users -> Accounts] BY DEF AccountInv, AccountData, AccountsTypeOK
<1>2. call[c].pc \in OwnerSteps BY DEF SetRole, SetStatus, HandOver, At, OwnerSteps
<1>3. OwnerActs(c) BY <1>2 DEF AccountInv, AccountCall
<1>4. \A x \in Users : x # u => users'[x] = users[x]
  BY <1>0, <1>1 DEF SetRole, SetStatus, HandOver
<1>5. \A x \in OwnersOf(o) : x # u => x \in OwnersOf(o)'
  BY <1>4 DEF OwnersOf, ActiveOwners, IsOwner, Active
<1>6. CASE u \notin OwnersOf(o) BY <1>5, <1>6
<1>7. CASE u \in OwnersOf(o)
  <2>1. OrgOf[u] = o /\ IsOwner(u) BY <1>7 DEF OwnersOf, ActiveOwners
  <2>2. by \in Users /\ by # u /\ OrgOf[by] = o /\ Active(by) /\ IsOwner(by)
    BY <1>0, <1>3, <2>1 DEF OwnerActs
  <2>3. by \in OwnersOf(o) BY <2>2 DEF OwnersOf, ActiveOwners
  <2> QED BY <1>5, <2>2, <2>3
<1> QED BY <1>6, <1>7

\* No other step changes a user.
LEMMA WhoChangesUsers ==
    ASSUME Next, users' # users
    PROVE  \E c \in Calls : SetRole(c) \/ SetStatus(c) \/ HandOver(c)
<1>1. PICK c \in Calls : Work(c) BY DEF Next, workVars, accountVars
<1>2. CASE AccountsStep(c)
  BY <1>2 DEF AccountsStep, accountVars, ChangeRole, ChangeStatus, CountOwners, Offboard, TakeStock, AddMember,
     InsertMember, ChangeMemberRole, SetMemberRole, RemoveMember, DeleteMember
<1>3. CASE TasksStep(c)
  BY <1>3 DEF TasksStep, accountVars, CreateTask, InsertTask, UpdateTask, WriteTask, BlockTask, WriteBlock,
     UnblockTask, WriteUnblock, AssignUser, InsertAssignment, AddDependency, Search, InsertDependency
<1>4. CASE PlansStep(c)
  BY <1>4 DEF PlansStep, accountVars, CreatePlan, PublishPlan, WritePublished, CompletePlan, RecheckPlan,
     WriteCompleted, CancelPlan, WriteCancelled, Progress, WriteProgress
<1> QED BY <1>1, <1>2, <1>3, <1>4 DEF Work

\* What an offboarding read is still so when it writes.
LEMMA HandsOver ==
    ASSUME HandlersInv, AccountInv, NEW c \in Calls, HandOver(c), raced \cap {Req(c).user, Req(c).to} = {},
           OrgOf[Actor(c)] = Organization
    PROVE  LET u == Req(c).user  to == Req(c).to
           IN  /\ users'[to].status = "ACTIVE" /\ users'[u].status = "SUSPENDED"
               /\ members'[u] = Null /\ (members[u] # Null => members'[to] # Null)
               /\ \A t \in Tasks : <<t, u>> \notin assigned' /\ (<<t, u>> \in assigned => <<t, to>> \in assigned')
<1>1. PICK u \in Users : \E to \in Users :
              /\ u = Req(c).user /\ to = Req(c).to /\ u # to
              /\ {u, to, <<"members">>, <<"owners", OrgOf[u]>>} \subseteq Req(c).on
              /\ Seen(c).tasks \subseteq Tasks /\ Seen(c).role \in Roles \cup {Null}
              /\ members' = [x \in Users |-> IF Seen(c).role = Null THEN members[x]
                                 ELSE IF x = to /\ members[to] = Null THEN Seen(c).role
                                 ELSE IF x = u THEN Null ELSE members[x]]
              /\ assigned' = (assigned \cup (Seen(c).tasks \X {to})) \ (Seen(c).tasks \X {u})
              /\ users' = [users EXCEPT ![u].status = "SUSPENDED"]
  BY HandedOver
<1>2. PICK to \in Users :
              /\ u = Req(c).user /\ to = Req(c).to /\ u # to
              /\ members' = [x \in Users |-> IF Seen(c).role = Null THEN members[x]
                                 ELSE IF x = to /\ members[to] = Null THEN Seen(c).role
                                 ELSE IF x = u THEN Null ELSE members[x]]
              /\ assigned' = (assigned \cup (Seen(c).tasks \X {to})) \ (Seen(c).tasks \X {u})
              /\ users' = [users EXCEPT ![u].status = "SUSPENDED"]
  BY <1>1
<1>3. users \in [Users -> Accounts] BY DEF AccountInv, AccountData, AccountsTypeOK
<1>4. Seen(c).role = members[u] /\ TasksOf(u) \subseteq Seen(c).tasks /\ users[to].status = "ACTIVE"
  BY <1>2 DEF HandOver, AccountInv, AccountCall, Active
<1>5. users'[to].status = "ACTIVE" /\ users'[u].status = "SUSPENDED" BY <1>2, <1>3, <1>4 DEF Accounts
<1>6. members'[u] = Null /\ (members[u] # Null => members'[to] # Null) BY <1>2, <1>4
<1>7. \A t \in Tasks : <<t, u>> \notin assigned' /\ (<<t, u>> \in assigned => <<t, to>> \in assigned')
  BY <1>2, <1>4 DEF TasksOf
<1> QED BY <1>2, <1>5, <1>6, <1>7

----------------------------------------------------------------------------
(* Tasks: the numbers in their codes. *)

\* A set of numbers with 0, and the successor of each of its members below n, has them all.
LEMMA UpTo ==
    ASSUME NEW n \in Nat, NEW S, 0 \in S, \A i \in 0..n : i \in S /\ i < n => i + 1 \in S
    PROVE  0..n \subseteq S
<1> DEFINE R == {ss \in Nat \X Nat : ss[1] < ss[2]}
           T == (0..n) \ S
<1> SUFFICES ASSUME T # {} PROVE FALSE OBVIOUS
<1>1. IsWellFoundedOn(R, Nat) BY NatLessThanWellFounded DEF OpToRel
<1>2. T \subseteq Nat OBVIOUS
<1>3. PICK x \in T : \A y \in T : ~(<<y, x>> \in R) BY <1>1, <1>2, WFMin
<1>4. x \in 0..n /\ x # 0 /\ x - 1 \in 0..n BY <1>3
<1>5. <<x - 1, x>> \in R BY <1>4
<1>6. x - 1 \in S BY <1>3, <1>4, <1>5
<1> QED BY <1>3, <1>4, <1>6

\* A finite set of numbers has a highest one.
LEMMA HighestExists ==
    ASSUME NEW S, IsFiniteSet(S), S \subseteq Nat
    PROVE  \E m \in S \cup {0} : \A x \in S : x <= m
<1>1. PICK n \in Nat : ExistsSurjection(1..n, S) BY FS_NatSurjection
<1>2. PICK f : f \in [1..n -> S] /\ \A x \in S : \E i \in 1..n : f[i] = x
  BY <1>1 DEF ExistsSurjection, Surjection
<1> DEFINE T == {i \in 0..n : \E m \in S \cup {0} : \A j \in 1..i : f[j] <= m}
<1>3. 0 \in T OBVIOUS
<1>4. ASSUME NEW i \in 0..n, i \in T, i < n PROVE i + 1 \in T
  <2>1. PICK m \in S \cup {0} : \A j \in 1..i : f[j] <= m BY <1>4
  <2>2. i + 1 \in 1..n /\ f[i + 1] \in S BY <1>2, <1>4
  <2>5. m \in Nat /\ \A j \in 1..n : f[j] \in Nat
    <3>1. \A j \in 1..n : f[j] \in S BY ONLY <1>2
    <3>2. S \cup {0} \subseteq Nat OBVIOUS
    <3> QED BY ONLY <3>1, <3>2, m \in S \cup {0}
  <2>3. PICK k \in S \cup {0} : m <= k /\ f[i + 1] <= k
    <3>1. CASE m <= f[i + 1] BY <2>2, <2>5, <3>1
    <3>2. CASE ~(m <= f[i + 1]) BY <2>2, <2>5, <3>2
    <3> QED BY <3>1, <3>2
  <2>4. \A j \in 1..(i + 1) : f[j] <= k
    <3>1. SUFFICES ASSUME NEW j \in 1..(i + 1) PROVE f[j] <= k OBVIOUS
    <3>2. CASE j = i + 1 BY <2>3, <3>2
    <3>3. CASE j \in 1..i
      <4>1. f[j] \in Nat /\ k \in Nat BY <1>4, <2>5, <3>3
      <4> QED BY <2>1, <2>3, <2>5, <3>3, <4>1
    <3> QED BY <3>2, <3>3
  <2> QED BY <2>2, <2>4
<1>5. n \in T
  <2> HIDE DEF T
  <2>1. 0..n \subseteq T BY <1>3, <1>4, UpTo
  <2> QED BY <2>1
<1>6. PICK m \in S \cup {0} : \A j \in 1..n : f[j] <= m BY <1>5
<1> QED BY <1>2, <1>6

HighestIs == Highest \in Created \cup {0} /\ Highest \in Nat /\ \A t \in Created : t \in Nat /\ t <= Highest

LEMMA HighestBeforeAndAfter == HighestIs /\ HighestIs'
<1>1. HighestIs
  <2>1. Created \subseteq Tasks /\ Tasks \subseteq Nat /\ IsFiniteSet(Created)
    BY TasksAssumption, FS_Subset DEF Created
  <2>2. \E n \in Created \cup {0} : \A t \in Created : t <= n BY <2>1, HighestExists
  <2>3. Highest \in Created \cup {0} /\ \A t \in Created : t <= Highest BY <2>2 DEF Highest
  <2> QED BY <2>1, <2>3 DEF HighestIs
<1> QED BY <1>1, PTL

\* No task ever goes away: the highest code never falls.
LEMMA HighestRises ==
    ASSUME Created \subseteq Created'
    PROVE  /\ Highest \in Nat /\ Highest' \in Nat /\ Highest' >= Highest
           /\ \A t \in Created : t <= Highest
BY HighestBeforeAndAfter DEF HighestIs

----------------------------------------------------------------------------
(* Tasks: their rows. *)

TaskKinds(c) ==
    /\ call[c].pc \in {"createTask", "insertTask"} => Req(c).kind = "createTask"
    /\ call[c].pc \in {"updateTask", "writeTask"} => Req(c).kind = "updateTask"
    /\ call[c].pc \in {"blockTask", "writeBlock"} => Req(c).kind = "blockTask"
    /\ call[c].pc \in {"unblockTask", "writeUnblock"} => Req(c).kind = "unblockTask"
    /\ call[c].pc \in {"assign", "insertAssignment"} => Req(c).kind = "assign"
    /\ call[c].pc \in {"addDependency", "search", "insertDependency"} => Req(c).kind = "addDependency"

\* What a creation keeps from one attempt to the next: every attempt but the first was for
\* a code beyond that of the one before.
Retries(seen) ==
    /\ seen \in [code: Nat, attempt: Nat \ {0}, highest: Nat]
    /\ seen.code >= seen.highest + seen.attempt

TaskCall(c) ==
    /\ TaskKinds(c)
    /\ At(c, "insertTask") => Retries(Seen(c)) /\ Highest >= Seen(c).code - 1
    /\ At(c, "createTask") /\ Seen(c) # Null => Retries(Seen(c)) /\ Highest >= Seen(c).code
    /\ call[c].pc \in {"writeTask", "writeBlock", "writeUnblock"} => Req(c).task \in Created
    /\ At(c, "writeTask") =>
          /\ Seen(c) \in [from: TaskStatuses, change: BOOLEAN]
          /\ Seen(c).change => <<Seen(c).from, Req(c).status>> \in Transitions
          /\ About(Req(c).task) \notin raced => task[Req(c).task].status = Seen(c).from
    /\ At(c, "writeBlock") /\ About(Req(c).task) \notin raced =>
          task[Req(c).task].status \notin {"COMPLETED", "VERIFIED", "CANCELLED"}
    /\ At(c, "writeUnblock") /\ About(Req(c).task) \notin raced =>
          task[Req(c).task].status = "BLOCKED" \/ task[Req(c).task].reason

\* A verified task names who verified it; a finished one has its end, but for races.
Finished(t) ==
    /\ task[t].status = "VERIFIED" => task[t].verifier # Null
    /\ About(t) \notin raced /\ task[t].status \in {"COMPLETED", "VERIFIED"} => task[t].ended

TaskData == task \in [Tasks -> TaskRows \cup {Null}] /\ \A t \in Created : Finished(t)

TaskInv == TaskData /\ \A c \in Calls : TaskCall(c)

\* No task goes away, and a step that is not about a task leaves it.
TaskLeaves(c) ==
    /\ Created \subseteq Created'
    /\ \A t \in Created : About(t) \notin Req(c).on => task'[t] = task[t]

LEMMA TaskCalls ==
    ASSUME HandlersInv, NEW c \in Calls, TaskKinds(c), call[c].pc \in TaskSteps
    PROVE  TaskRequest(Req(c)) /\ call[c].pc # "free"
<1>1. call[c].pc # "free" BY DEF TaskSteps
<1>2. SiteRequest(Req(c)) BY <1>1, RequestOfCall
<1>3. Req(c).kind \in {"createTask", "updateTask", "blockTask", "unblockTask", "assign", "addDependency"}
  BY DEF TaskKinds, TaskSteps
<1> QED BY <1>1, <1>2, <1>3 DEF SiteRequest, AccountRequest, PlanRequest, AttendanceRequest, ExpenseRequest

LEMMA TaskOthers ==
    ASSUME HandlersInv, NEW c \in Calls, call[c].pc # "free", TaskLeaves(c), raced' = raced,
           NEW d \in Calls, d # c, call'[d] = call[d], TaskCall(d)
    PROVE  TaskCall(d)'
<1>0. Req(d)' = Req(d) /\ Seen(d)' = Seen(d) /\ \A step : At(d, step)' = At(d, step) BY DEF Req, Seen, At
<1>1. TaskKinds(d)' BY <1>0 DEF TaskCall, TaskKinds
<1>2. Highest \in Nat /\ Highest' \in Nat /\ Highest' >= Highest BY HighestRises DEF TaskLeaves
<1>3. At(d, "insertTask") => Retries(Seen(d)) /\ Highest' >= Seen(d).code - 1
  BY <1>2 DEF TaskCall, Retries
<1>4. At(d, "createTask") /\ Seen(d) # Null => Retries(Seen(d)) /\ Highest' >= Seen(d).code
  BY <1>2 DEF TaskCall, Retries
<1>5. PICK t : t = Req(d).task OBVIOUS
<1>6. ASSUME call[d].pc \in {"writeTask", "writeBlock", "writeUnblock"}
      PROVE  t \in Created' /\ (About(t) \notin raced => task'[t] = task[t])
  <2>1. t \in Created BY <1>5, <1>6 DEF TaskCall
  <2>2. TaskRequest(Req(d)) /\ call[d].pc # "free"
    BY <1>6, TaskCalls DEF TaskCall, TaskSteps
  <2>3. About(t) \in Req(d).on BY <1>5, <1>6, <2>2 DEF TaskRequest, TaskCall, TaskKinds
  <2>4. About(t) \notin raced => About(t) \notin Req(c).on
    BY <2>2, <2>3 DEF HandlersInv, RacedInv, InFlight
  <2> QED BY <2>1, <2>4 DEF TaskLeaves
<1>7. About(Req(d).task)' = About(t) /\ About(Req(d).task) = About(t) BY <1>0, <1>5 DEF About
<1> QED BY <1>0, <1>1, <1>3, <1>4, <1>5, <1>6, <1>7 DEF TaskCall, At, Retries

LEMMA TaskStepKeeps ==
    ASSUME HandlersInv, TaskInv, NEW c \in Calls, call[c].pc # "free",
           \A d \in Calls : d # c => call'[d] = call[d], raced' = raced,
           TaskLeaves(c), TaskCall(c)', TaskData'
    PROVE  TaskInv'
<1>1. \A d \in Calls : d # c => TaskCall(d)' BY TaskOthers DEF TaskInv
<1> QED BY <1>1 DEF TaskInv

LEMMA TaskIdle ==
    ASSUME NEW c \in Calls, call'[c].pc \notin TaskSteps
    PROVE  TaskCall(c)'
BY DEF TaskCall, TaskKinds, TaskSteps, At

LEMMA TaskFresh ==
    ASSUME NEW c \in Calls, call'[c].pc = Req(c)'.kind, Seen(c)' = Null, SiteRequest(Req(c)')
    PROVE  TaskCall(c)'
BY DEF TaskCall, TaskKinds, At, SiteRequest, AccountRequest, TaskRequest, PlanRequest, AttendanceRequest,
       ExpenseRequest

LEMMA TaskStays ==
    ASSUME TaskInv, task' = task, raced \subseteq raced',
           \A d \in Calls : call'[d] = call[d] \/ TaskCall(d)'
    PROVE  TaskInv'
<1>1. Created' = Created /\ Highest' = Highest BY DEF Created, Highest
<1>2. TaskData'
  <2>1. \A t : About(t)' = About(t) BY DEF About
  <2> QED BY <1>1, <2>1 DEF TaskInv, TaskData, Finished
<1>3. ASSUME NEW d \in Calls, call'[d] = call[d] PROVE TaskCall(d)'
  <2>0. Req(d)' = Req(d) /\ Seen(d)' = Seen(d) /\ \A step : At(d, step)' = At(d, step) BY <1>3 DEF Req, Seen, At
  <2>1. TaskKinds(d)' BY <1>3, <2>0 DEF TaskInv, TaskCall, TaskKinds
  <2>2. About(Req(d).task)' = About(Req(d).task) BY <2>0 DEF About
  <2> QED BY <1>1, <1>3, <2>0, <2>1, <2>2 DEF TaskInv, TaskCall, Retries
<1> QED BY <1>2, <1>3 DEF TaskInv

LEMMA TaskAnswers ==
    ASSUME HandlersInv, TaskInv, NEW c \in Calls, task' = task, Answer(c)
    PROVE  TaskInv'
<1>1. call'[c] = Free /\ raced' = raced /\ \A d \in Calls : d # c => call'[d] = call[d] BY AnswerShape
<1>2. call'[c].pc \notin TaskSteps BY <1>1 DEF Free, TaskSteps
<1>3. TaskCall(c)' BY <1>2, TaskIdle
<1> QED BY <1>1, <1>3, TaskStays

LEMMA TaskGoes ==
    ASSUME HandlersInv, TaskInv, NEW c \in Calls, task' = task,
           NEW from, NEW step, NEW seen, At(c, from), Goto(c, step, seen),
           <<from, step>> \in {<<"assign", "insertAssignment">>, <<"addDependency", "search">>,
                               <<"search", "search">>, <<"search", "insertDependency">>}
    PROVE  TaskInv'
<1>1. call[c].pc = from /\ from # "free" /\ step # "free" BY DEF At
<1>2. /\ call'[c] = [req |-> Req(c), pc |-> step, seen |-> seen]
      /\ raced' = raced /\ \A d \in Calls : d # c => call'[d] = call[d]
  BY <1>1, GotoShape
<1>3. TaskKinds(c) BY DEF TaskInv, TaskCall
<1>4. TaskCall(c)' BY <1>1, <1>2, <1>3 DEF TaskCall, TaskKinds, Req, At
<1> QED BY <1>2, <1>4, TaskStays

LEMMA TaskWrites ==
    ASSUME HandlersInv, TaskInv, NEW c \in Calls, call[c].pc # "free", Answer(c),
           TaskLeaves(c), TaskData'
    PROVE  TaskInv'
<1>1. call'[c] = Free /\ raced' = raced /\ \A d \in Calls : d # c => call'[d] = call[d] BY AnswerShape
<1>2. call'[c].pc \notin TaskSteps BY <1>1 DEF Free, TaskSteps
<1>3. TaskCall(c)' BY <1>2, TaskIdle
<1> QED BY <1>1, <1>3, TaskStepKeeps

LEMMA CreateTaskKeeps ==
    ASSUME HandlersInv, TaskInv, NEW c \in Calls, CreateTask(c)
    PROVE  TaskInv'
<1>0. task' = task /\ call[c].pc = "createTask" BY DEF CreateTask, At, taskVars
<1>1. Highest \in Nat BY HighestBeforeAndAfter DEF HighestIs
<1>2. PICK seen : Goto(c, "insertTask", seen) /\ Retries(seen) /\ Highest >= seen.code - 1
  <2>1. CASE Seen(c) = Null
    <3>1. PICK seen : seen = [code |-> Highest + 1, attempt |-> 1, highest |-> Highest] OBVIOUS
    <3>2. Retries(seen) /\ Highest >= seen.code - 1 BY <1>1, <3>1 DEF Retries
    <3> QED BY <2>1, <3>1, <3>2 DEF CreateTask
  <2>2. CASE Seen(c) # Null
    <3>1. PICK old : old = Seen(c) OBVIOUS
    <3>2. Retries(old) /\ Highest >= old.code BY <1>0, <2>2, <3>1 DEF TaskInv, TaskCall, At
    <3>3. PICK seen : seen = [code |-> Highest + 1, attempt |-> old.attempt + 1, highest |-> old.highest] OBVIOUS
    <3>4. [old EXCEPT !.code = Highest + 1, !.attempt = @ + 1] = seen
      <4>1. old = [code |-> old.code, attempt |-> old.attempt, highest |-> old.highest] BY <3>2 DEF Retries
      <4>2. PICK mid : mid = [code |-> Highest + 1, attempt |-> old.attempt, highest |-> old.highest] OBVIOUS
      <4>3. [old EXCEPT !.code = Highest + 1] = mid BY <4>1, <4>2
      <4>4. [mid EXCEPT !.attempt = old.attempt + 1] = seen BY <3>3, <4>2
      <4>5. [old EXCEPT !.code = Highest + 1, !.attempt = @ + 1] = [mid EXCEPT !.attempt = old.attempt + 1]
        BY <4>2, <4>3
      <4> QED BY <4>4, <4>5
    <3>5. Goto(c, "insertTask", seen) BY <2>2, <3>1, <3>4 DEF CreateTask
    <3>6. old.code \in Nat /\ old.attempt \in Nat \ {0} /\ old.highest \in Nat /\ old.code >= old.highest + old.attempt
      BY <3>2 DEF Retries
    <3>7. Retries(seen) /\ Highest >= seen.code - 1 BY <1>1, <3>2, <3>3, <3>6 DEF Retries
    <3> QED BY <3>5, <3>7
  <2> QED BY <2>1, <2>2
<1>3. /\ call'[c] = [req |-> Req(c), pc |-> "insertTask", seen |-> seen]
      /\ raced' = raced /\ \A d \in Calls : d # c => call'[d] = call[d]
  BY <1>0, <1>2, GotoShape
<1>4. Req(c)' = Req(c) /\ Seen(c)' = seen /\ Highest' = Highest BY <1>0, <1>3 DEF Req, Seen, Highest, Created
<1>7. TaskKinds(c) BY DEF TaskInv, TaskCall
<1>5. TaskKinds(c)' BY <1>0, <1>3, <1>4, <1>7 DEF TaskKinds
<1>6. TaskCall(c)' BY <1>2, <1>3, <1>4, <1>5 DEF TaskCall, At, Retries
<1> QED BY <1>0, <1>3, <1>6, TaskStays

\* A write of a row, whose task is new or is what the request is about.
LEMMA RowWritten ==
    ASSUME HandlersInv, TaskInv, NEW c \in Calls, call[c].pc # "free", Answer(c),
           NEW t \in Tasks, NEW row \in TaskRows, task' = [task EXCEPT ![t] = row],
           t \in Created => About(t) \in Req(c).on,
           row.status = "VERIFIED" => row.verifier # Null,
           About(t) \notin raced /\ row.status \in {"COMPLETED", "VERIFIED"} => row.ended
    PROVE  TaskInv'
<1>1. task \in [Tasks -> TaskRows \cup {Null}] /\ row # Null BY TasksAssumption DEF TaskInv, TaskData
<1>2. task'[t] = row /\ \A x \in Tasks : x # t => task'[x] = task[x] BY <1>1
<1>3. Created' = Created \cup {t} BY <1>1, <1>2 DEF Created
<1>4. TaskLeaves(c) BY <1>2, <1>3 DEF TaskLeaves, Created
<1>5. raced' = raced BY AnswerShape
<1>6. \A x \in Created' : Finished(x)'
  <2> TAKE x \in Created'
  <2>1. CASE x = t BY <1>2, <1>5, <2>1 DEF Finished, About
  <2>2. CASE x # t
    <3>1. x \in Created /\ x \in Tasks /\ task'[x] = task[x] BY <1>2, <1>3, <2>2 DEF Created
    <3>2. Finished(x) BY <3>1 DEF TaskInv, TaskData
    <3> QED BY <1>5, <3>1, <3>2 DEF Finished, About
  <2> QED BY <2>1, <2>2
<1>7. task' \in [Tasks -> TaskRows \cup {Null}] BY <1>1
<1> QED BY <1>4, <1>6, <1>7, TaskWrites DEF TaskData

LEMMA InsertTaskKeeps ==
    ASSUME HandlersInv, TaskInv, NEW c \in Calls, InsertTask(c)
    PROVE  TaskInv'
<1>0. call[c].pc = "insertTask" BY DEF InsertTask, At
<1>1. PICK seen : seen = Seen(c) OBVIOUS
<1>2. Retries(seen) /\ Highest >= seen.code - 1 BY <1>0, <1>1 DEF TaskInv, TaskCall, At
<1>3. CASE Answer(c) /\ task' = task BY <1>3, TaskAnswers
<1>4. CASE seen.code \in Tasks \ Created /\ task' = [task EXCEPT ![seen.code] = NewTask] /\ Answer(c)
  <2>1. NewTask \in TaskRows /\ NewTask.status = "PLANNED" BY DEF NewTask, TaskRows, TaskStatuses
  <2> HIDE DEF NewTask
  <2> QED BY <1>0, <1>4, <2>1, RowWritten
<1>5. CASE seen.code \in Created /\ Goto(c, "createTask", seen) /\ task' = task
  <2>1. /\ call'[c] = [req |-> Req(c), pc |-> "createTask", seen |-> seen]
        /\ raced' = raced /\ \A d \in Calls : d # c => call'[d] = call[d]
    BY <1>0, <1>5, GotoShape
  <2>2. Req(c)' = Req(c) /\ Seen(c)' = seen /\ Highest' = Highest BY <1>5, <2>1 DEF Req, Seen, Highest, Created
  <2>6. TaskKinds(c) BY DEF TaskInv, TaskCall
  <2>3. TaskKinds(c)' BY <1>0, <2>1, <2>2, <2>6 DEF TaskKinds
  <2>4. Highest >= seen.code BY <1>5, HighestBeforeAndAfter DEF HighestIs
  <2>5. TaskCall(c)' BY <1>2, <2>1, <2>2, <2>3, <2>4 DEF TaskCall, At, Retries
  <2> QED BY <1>5, <2>1, <2>5, TaskStays
<1> QED BY <1>1, <1>3, <1>4, <1>5 DEF InsertTask

LEMMA UpdateTaskKeeps ==
    ASSUME HandlersInv, TaskInv, NEW c \in Calls, UpdateTask(c)
    PROVE  TaskInv'
<1>0. task' = task /\ call[c].pc = "updateTask" BY DEF UpdateTask, At, taskVars
<1>1. PICK t : t = Req(c).task OBVIOUS
<1>2. PICK change \in BOOLEAN : change = (Req(c).status \notin {Null, task[t].status}) OBVIOUS
<1>3. PICK seen : seen = [from |-> task[t].status, change |-> change] OBVIOUS
<1>4. CASE Answer(c) BY <1>0, <1>4, TaskAnswers
<1>5. CASE t \in Created /\ (change => Permitted(c, task[t])) /\ Goto(c, "writeTask", seen)
  <2>1. /\ call'[c] = [req |-> Req(c), pc |-> "writeTask", seen |-> seen]
        /\ raced' = raced /\ \A d \in Calls : d # c => call'[d] = call[d]
    BY <1>0, <1>5, GotoShape
  <2>2. Req(c)' = Req(c) /\ Seen(c)' = seen /\ Created' = Created BY <1>0, <2>1 DEF Req, Seen, Created
  <2>3. TaskKinds(c) BY DEF TaskInv, TaskCall
  <2>4. TaskKinds(c)' BY <1>0, <2>1, <2>2, <2>3 DEF TaskKinds
  <2>5. task[t] \in TaskRows BY <1>5 DEF TaskInv, TaskData, Created
  <2>6. seen \in [from: TaskStatuses, change: BOOLEAN] BY <1>3, <2>5 DEF TaskRows
  <2>7. seen.change => <<seen.from, Req(c).status>> \in Transitions BY <1>3, <1>5 DEF Permitted
  <2>8. seen.from = task[t].status BY <1>3
  <2>9. TaskCall(c)' BY <1>0, <1>1, <1>5, <2>1, <2>2, <2>4, <2>6, <2>7, <2>8 DEF TaskCall, At
  <2> QED BY <1>0, <2>1, <2>9, TaskStays
<1> QED BY <1>1, <1>2, <1>3, <1>4, <1>5 DEF UpdateTask

\* What a write finds: the task of the request, and its row.
LEMMA RowFound ==
    ASSUME HandlersInv, TaskInv, NEW c \in Calls, call[c].pc \in {"writeTask", "writeBlock", "writeUnblock"}
    PROVE  \E t \in Created :
              /\ t = Req(c).task /\ t \in Tasks /\ About(t) \in Req(c).on
              /\ task[t] \in TaskRows /\ Finished(t)
              /\ TaskRequest(Req(c)) /\ TaskKinds(c) /\ call[c].pc # "free"
<1>1. PICK t : t = Req(c).task OBVIOUS
<1>2. TaskKinds(c) /\ t \in Created BY <1>1 DEF TaskInv, TaskCall
<1>3. TaskRequest(Req(c)) /\ call[c].pc # "free" BY <1>2, TaskCalls DEF TaskSteps
<1>4. About(t) \in Req(c).on BY <1>1, <1>2, <1>3 DEF TaskKinds, TaskRequest
<1>5. t \in Tasks /\ task[t] \in TaskRows /\ Finished(t) BY <1>2 DEF TaskInv, TaskData, Created
<1> QED BY <1>1, <1>2, <1>3, <1>4, <1>5

\* The row a change of status makes, by the status it was decided on.
LEMMA RowChanges ==
    ASSUME NEW old \in TaskRows, NEW from, NEW to, NEW by \in Users, <<from, to>> \in Transitions,
           to \in TaskStatuses
    PROVE  LET new == Changed(old, from, to, by)
           IN  /\ new \in TaskRows /\ new.status = to /\ new.reason = old.reason
               /\ to = "VERIFIED" => new.verifier = by /\ new.verifier # Null /\ from = "COMPLETED"
               /\ to = "COMPLETED" => new.ended
               /\ to = "VERIFIED" => new.ended = old.ended
<1>1. PICK ended : ended = IF to = "COMPLETED" THEN TRUE
             ELSE IF from \in {"COMPLETED", "VERIFIED"} /\ to = "IN_PROGRESS" THEN FALSE ELSE old.ended
  OBVIOUS
<1>2. PICK verifier : verifier = IF to = "VERIFIED" THEN by ELSE IF from = "VERIFIED" THEN Null ELSE old.verifier
  OBVIOUS
<1>3. old = [status |-> old.status, reason |-> old.reason, verifier |-> old.verifier, ended |-> old.ended]
      /\ old.reason \in BOOLEAN /\ old.ended \in BOOLEAN /\ old.verifier \in Users \cup {Null}
  BY DEF TaskRows
<1>4. PICK new : new = [status |-> to, reason |-> old.reason, verifier |-> verifier, ended |-> ended] OBVIOUS
<1>5. Changed(old, from, to, by) = new
  <2>1. PICK mid : mid = [status |-> to, reason |-> old.reason, verifier |-> old.verifier, ended |-> old.ended]
    OBVIOUS
  <2>2. [old EXCEPT !.status = to] = mid BY <1>3, <2>1
  <2>3. PICK last : last = [status |-> to, reason |-> old.reason, verifier |-> old.verifier, ended |-> ended]
    OBVIOUS
  <2>4. [mid EXCEPT !.ended = ended] = last BY <2>1, <2>3
  <2>5. [last EXCEPT !.verifier = verifier] = new BY <1>4, <2>3
  <2>6. Changed(old, from, to, by) =
          [old EXCEPT !.status = to,
                      !.ended = IF to = "COMPLETED" THEN TRUE
                                ELSE IF from \in {"COMPLETED", "VERIFIED"} /\ to = "IN_PROGRESS" THEN FALSE ELSE @,
                      !.verifier = IF to = "VERIFIED" THEN by ELSE IF from = "VERIFIED" THEN Null ELSE @]
    BY DEF Changed
  <2> QED BY <1>1, <1>2, <2>1, <2>2, <2>3, <2>4, <2>5, <2>6
<1>6. by # Null BY AccountsAssumption
<1>7. to = "VERIFIED" => from = "COMPLETED" BY DEF Transitions
<1>8. ended \in BOOLEAN /\ verifier \in Users \cup {Null} BY <1>1, <1>2, <1>3
<1>9. new \in TaskRows BY <1>3, <1>4, <1>8 DEF TaskRows
<1>10. new.status = to /\ new.reason = old.reason /\ new.verifier = verifier /\ new.ended = ended BY <1>4
<1>11. (to = "COMPLETED" => ended) /\ (to = "VERIFIED" => ended = old.ended) BY <1>1
<1> QED BY <1>2, <1>5, <1>6, <1>7, <1>9, <1>10, <1>11

\* What WriteTask leaves in the row.
LEMMA TaskWritten ==
    ASSUME HandlersInv, TaskInv, NEW c \in Calls, WriteTask(c), NEW t \in Created, t = Req(c).task
    PROVE  \E row \in TaskRows :
              /\ task' = [task EXCEPT ![t] = row]
              /\ row.status = "VERIFIED" => row.verifier # Null
              /\ row = task[t]
                 \/ /\ Seen(c).change
                    /\ row.status = Req(c).status /\ row.reason = task[t].reason
                    /\ row.status = "VERIFIED" => row.verifier = Actor(c)
                    /\ About(t) \notin raced =>
                          /\ <<task[t].status, row.status>> \in Transitions
                          /\ row.status \in {"COMPLETED", "VERIFIED"} => row.ended
<1>0. call[c].pc = "writeTask" BY DEF WriteTask, At
<1>1. task[t] \in TaskRows /\ Finished(t) /\ TaskRequest(Req(c)) /\ TaskKinds(c) BY <1>0, RowFound
<1>2. PICK seen : seen = Seen(c) OBVIOUS
<1>3. /\ seen \in [from: TaskStatuses, change: BOOLEAN]
      /\ seen.change => <<seen.from, Req(c).status>> \in Transitions
      /\ About(t) \notin raced => task[t].status = seen.from
  BY <1>0, <1>2 DEF TaskInv, TaskCall, At
<1>4. CASE seen.change
  <2>1. PICK to, by : to = Req(c).status /\ by = Actor(c) OBVIOUS
  <2>2. by \in Users /\ to \in TaskStatuses
    BY <1>0, <1>1, <1>3, <1>4, <2>1 DEF TaskKinds, TaskRequest, Actor, Transitions, TaskStatuses
  <2>3. PICK row : row = Changed(task[t], seen.from, to, by) OBVIOUS
  <2>4. <<seen.from, to>> \in Transitions BY <1>3, <1>4, <2>1
  <2>5. /\ row \in TaskRows /\ row.status = to /\ row.reason = task[t].reason
        /\ to = "VERIFIED" => row.verifier = by /\ row.verifier # Null /\ seen.from = "COMPLETED"
        /\ to = "COMPLETED" => row.ended
        /\ to = "VERIFIED" => row.ended = task[t].ended
    BY <1>1, <2>2, <2>3, <2>4, RowChanges
  <2>6. task' = [task EXCEPT ![t] = row] BY <1>2, <1>4, <2>1, <2>3 DEF WriteTask
  <2>7. About(t) \notin raced =>
          /\ <<task[t].status, row.status>> \in Transitions
          /\ row.status \in {"COMPLETED", "VERIFIED"} => row.ended
    BY <1>1, <1>3, <2>4, <2>5 DEF Finished
  <2> QED BY <1>2, <1>4, <2>1, <2>5, <2>6, <2>7
<1>5. CASE ~seen.change
  <2>1. task' = [task EXCEPT ![t] = task[t]] BY <1>2, <1>5 DEF WriteTask
  <2> QED BY <1>1, <2>1 DEF Finished
<1> QED BY <1>3, <1>4, <1>5

LEMMA WriteTaskKeeps ==
    ASSUME HandlersInv, TaskInv, NEW c \in Calls, WriteTask(c)
    PROVE  TaskInv'
<1>0. call[c].pc = "writeTask" /\ Answer(c) BY DEF WriteTask, At
<1>1. PICK t \in Created :
         /\ t = Req(c).task /\ t \in Tasks /\ About(t) \in Req(c).on /\ task[t] \in TaskRows /\ Finished(t)
  BY <1>0, RowFound
<1>2. PICK row \in TaskRows :
              /\ task' = [task EXCEPT ![t] = row]
              /\ row.status = "VERIFIED" => row.verifier # Null
              /\ row = task[t]
                 \/ /\ Seen(c).change
                    /\ row.status = Req(c).status /\ row.reason = task[t].reason
                    /\ row.status = "VERIFIED" => row.verifier = Actor(c)
                    /\ About(t) \notin raced =>
                          /\ <<task[t].status, row.status>> \in Transitions
                          /\ row.status \in {"COMPLETED", "VERIFIED"} => row.ended
  BY <1>1, TaskWritten, Zenon
<1>3. About(t) \notin raced /\ row.status \in {"COMPLETED", "VERIFIED"} => row.ended
  BY <1>1, <1>2 DEF Finished
<1> QED BY <1>0, <1>1, <1>2, <1>3, RowWritten

LEMMA BlockTaskKeeps ==
    ASSUME HandlersInv, TaskInv, NEW c \in Calls, BlockTask(c)
    PROVE  TaskInv'
<1>0. task' = task /\ call[c].pc = "blockTask" BY DEF BlockTask, At, taskVars
<1>1. CASE Answer(c) BY <1>0, <1>1, TaskAnswers
<1>2. CASE /\ Req(c).task \in Created /\ task[Req(c).task].status \notin {"COMPLETED", "VERIFIED", "CANCELLED"}
           /\ Goto(c, "writeBlock", Null)
  <2>1. /\ call'[c] = [req |-> Req(c), pc |-> "writeBlock", seen |-> Null]
        /\ raced' = raced /\ \A d \in Calls : d # c => call'[d] = call[d]
    BY <1>0, <1>2, GotoShape
  <2>2. Req(c)' = Req(c) /\ Created' = Created BY <1>0, <2>1 DEF Req, Created
  <2>3. TaskKinds(c) BY DEF TaskInv, TaskCall
  <2>4. TaskKinds(c)' BY <1>0, <2>1, <2>2, <2>3 DEF TaskKinds
  <2>5. TaskCall(c)' BY <1>0, <1>2, <2>1, <2>2, <2>4 DEF TaskCall, At
  <2> QED BY <1>0, <2>1, <2>5, TaskStays
<1> QED BY <1>1, <1>2 DEF BlockTask

LEMMA UnblockTaskKeeps ==
    ASSUME HandlersInv, TaskInv, NEW c \in Calls, UnblockTask(c)
    PROVE  TaskInv'
<1>0. task' = task /\ call[c].pc = "unblockTask" BY DEF UnblockTask, At, taskVars
<1>1. CASE Answer(c) BY <1>0, <1>1, TaskAnswers
<1>2. CASE /\ Req(c).task \in Created /\ (task[Req(c).task].status = "BLOCKED" \/ task[Req(c).task].reason)
           /\ Goto(c, "writeUnblock", Null)
  <2>1. /\ call'[c] = [req |-> Req(c), pc |-> "writeUnblock", seen |-> Null]
        /\ raced' = raced /\ \A d \in Calls : d # c => call'[d] = call[d]
    BY <1>0, <1>2, GotoShape
  <2>2. Req(c)' = Req(c) /\ Created' = Created BY <1>0, <2>1 DEF Req, Created
  <2>3. TaskKinds(c) BY DEF TaskInv, TaskCall
  <2>4. TaskKinds(c)' BY <1>0, <2>1, <2>2, <2>3 DEF TaskKinds
  <2>5. TaskCall(c)' BY <1>0, <1>2, <2>1, <2>2, <2>4 DEF TaskCall, At
  <2> QED BY <1>0, <2>1, <2>5, TaskStays
<1> QED BY <1>1, <1>2 DEF UnblockTask

\* What a blocker, put on or taken off, leaves in the row.
LEMMA BlockerWritten ==
    ASSUME HandlersInv, TaskInv, NEW c \in Calls, WriteBlock(c) \/ WriteUnblock(c),
           NEW t \in Created, t = Req(c).task
    PROVE  \E row \in TaskRows :
              /\ task' = [task EXCEPT ![t] = row]
              /\ row.status \in {"BLOCKED", "IN_PROGRESS"}
              /\ About(t) \notin raced =>
                    \/ row.status = task[t].status \/ <<task[t].status, row.status>> \in Transitions
                    \/ task[t].reason /\ ~row.reason /\ row.status = "IN_PROGRESS"
<1>1. call[c].pc \in {"writeBlock", "writeUnblock"} BY DEF WriteBlock, WriteUnblock, At
<1>2. task[t] \in TaskRows /\ t \in Tasks BY <1>1, RowFound
<1>3. task \in [Tasks -> TaskRows \cup {Null}] BY DEF TaskInv, TaskData
<1>4. PICK status, reason :
         /\ task' = [task EXCEPT ![t].status = status, ![t].reason = reason]
         /\ \/ At(c, "writeBlock") /\ status = "BLOCKED" /\ reason = TRUE
            \/ At(c, "writeUnblock") /\ status = "IN_PROGRESS" /\ reason = FALSE
  BY DEF WriteBlock, WriteUnblock
<1>5. PICK mid : mid = [task[t] EXCEPT !.status = status] OBVIOUS
<1>6. PICK row : row = [mid EXCEPT !.reason = reason] OBVIOUS
<1>7. mid \in TaskRows BY <1>2, <1>4, <1>5 DEF TaskRows, TaskStatuses
<1>8. row \in TaskRows BY <1>4, <1>6, <1>7 DEF TaskRows
<1>9. row.status = status /\ row.reason = reason BY <1>2, <1>5, <1>6, <1>7 DEF TaskRows
<1>10. task' = [task EXCEPT ![t] = row]
  <2>1. PICK half : half = [task EXCEPT ![t].status = status] OBVIOUS
  <2>2. half = [task EXCEPT ![t] = mid] BY <1>5, <2>1
  <2>3. [half EXCEPT ![t].reason = reason] = [task EXCEPT ![t] = row]
    <3>1. half[t] = mid BY <1>2, <1>3, <2>2
    <3>2. [half EXCEPT ![t].reason = reason] = [half EXCEPT ![t] = row] BY <1>6, <3>1
    <3>3. [half EXCEPT ![t] = row] = [task EXCEPT ![t] = row] BY <2>2
    <3> QED BY <3>2, <3>3
  <2> QED BY <1>4, <2>1, <2>3
<1>11. ASSUME About(t) \notin raced
       PROVE  \/ row.status = task[t].status \/ <<task[t].status, row.status>> \in Transitions
              \/ task[t].reason /\ ~row.reason /\ row.status = "IN_PROGRESS"
  <2>1. CASE At(c, "writeBlock")
    <3>1. task[t].status \notin {"COMPLETED", "VERIFIED", "CANCELLED"} /\ row.status = "BLOCKED"
      BY <1>4, <1>9, <1>11, <2>1 DEF TaskInv, TaskCall, At
    <3> QED BY <1>2, <3>1 DEF TaskRows, TaskStatuses, Transitions
  <2>2. CASE At(c, "writeUnblock")
    <3>1. (task[t].status = "BLOCKED" \/ task[t].reason) /\ row.status = "IN_PROGRESS" /\ row.reason = FALSE
      BY <1>4, <1>9, <1>11, <2>2 DEF TaskInv, TaskCall, At
    <3> QED BY <3>1 DEF Transitions
  <2> QED BY <1>4, <2>1, <2>2
<1> QED BY <1>4, <1>8, <1>9, <1>10, <1>11

LEMMA BlockerKeeps ==
    ASSUME HandlersInv, TaskInv, NEW c \in Calls, WriteBlock(c) \/ WriteUnblock(c)
    PROVE  TaskInv'
<1>0. call[c].pc \in {"writeBlock", "writeUnblock"} /\ Answer(c) BY DEF WriteBlock, WriteUnblock, At
<1>1. PICK t \in Created :
         t = Req(c).task /\ t \in Tasks /\ About(t) \in Req(c).on /\ call[c].pc # "free"
  BY <1>0, RowFound
<1>2. PICK row \in TaskRows : task' = [task EXCEPT ![t] = row] /\ row.status \in {"BLOCKED", "IN_PROGRESS"}
  BY <1>1, BlockerWritten
<1> QED BY <1>0, <1>1, <1>2, RowWritten

LEMMA TasksStepKeepsTasks ==
    ASSUME HandlersInv, TaskInv, NEW c \in Calls, TasksStep(c)
    PROVE  TaskInv'
<1>1. CASE AssignUser(c) BY <1>1, TaskAnswers, TaskGoes DEF AssignUser, taskVars
<1>2. CASE AddDependency(c) BY <1>2, TaskAnswers, TaskGoes DEF AddDependency, taskVars
<1>3. CASE Search(c) BY <1>3, TaskAnswers, TaskGoes DEF Search, taskVars
<1>4. CASE InsertAssignment(c) \/ InsertDependency(c)
  BY <1>4, TaskAnswers DEF InsertAssignment, InsertDependency, taskVars
<1> QED BY <1>1, <1>2, <1>3, <1>4, CreateTaskKeeps, InsertTaskKeeps, UpdateTaskKeeps, WriteTaskKeeps,
           BlockTaskKeeps, UnblockTaskKeeps, BlockerKeeps DEF TasksStep

----------------------------------------------------------------------------
(* Tasks: nobody verifies their own. *)

\* Who is about to verify a task does not work on it, unless a request about them raced.
Independent(c) ==
    At(c, "writeTask") /\ Seen(c).change /\ Req(c).status = "VERIFIED" /\ Actor(c) \notin raced
    => <<Req(c).task, Actor(c)>> \notin assigned

VerifierInv == \A c \in Calls : Independent(c)

LEMMA IndependentIdle ==
    ASSUME NEW c \in Calls, call'[c].pc # "writeTask"
    PROVE  Independent(c)'
BY DEF Independent, At

LEMMA VerifierStays ==
    ASSUME VerifierInv, assigned' = assigned, raced \subseteq raced',
           \A d \in Calls : call'[d] = call[d] \/ Independent(d)'
    PROVE  VerifierInv'
BY DEF VerifierInv, Independent, At, Seen, Req, Actor

\* Assignments change by requests that are about who gets or loses a task.
LEMMA IndependentOthers ==
    ASSUME HandlersInv, TaskInv, NEW c \in Calls, call[c].pc # "free", AccountLeaves(c), raced' = raced,
           NEW d \in Calls, d # c, call'[d] = call[d], Independent(d)
    PROVE  Independent(d)'
<1>0. Req(d)' = Req(d) /\ Seen(d)' = Seen(d) /\ Actor(d)' = Actor(d) /\ (At(d, "writeTask")' <=> At(d, "writeTask"))
  BY DEF Req, Seen, At, Actor
<1>1. PICK t, u : t = Req(d).task /\ u = Actor(d) OBVIOUS
<1> SUFFICES ASSUME At(d, "writeTask"), Seen(d).change, Req(d).status = "VERIFIED", u \notin raced
             PROVE  <<t, u>> \notin assigned'
  BY <1>0, <1>1 DEF Independent
<1>2. TaskRequest(Req(d)) /\ TaskKinds(d) /\ call[d].pc # "free" BY RowFound DEF At
<1>3. t \in Tasks /\ u \in Users /\ u \in Req(d).on
  BY <1>1, <1>2 DEF TaskKinds, TaskRequest, At, Actor
<1>4. u \notin Req(c).on BY <1>2, <1>3 DEF HandlersInv, RacedInv, InFlight
<1>5. TasksOf(u)' = TasksOf(u) BY <1>3, <1>4 DEF AccountLeaves
<1>6. <<t, u>> \notin assigned BY <1>1 DEF Independent
<1> QED BY <1>3, <1>5, <1>6 DEF TasksOf

LEMMA VerifierStepKeeps ==
    ASSUME HandlersInv, TaskInv, VerifierInv, NEW c \in Calls, call[c].pc # "free", Answer(c), AccountLeaves(c)
    PROVE  VerifierInv'
<1>1. call'[c] = Free /\ raced' = raced /\ \A d \in Calls : d # c => call'[d] = call[d] BY AnswerShape
<1>2. Independent(c)' BY <1>1, IndependentIdle DEF Free
<1>3. \A d \in Calls : d # c => Independent(d)' BY <1>1, IndependentOthers DEF VerifierInv
<1> QED BY <1>2, <1>3 DEF VerifierInv

LEMMA AccountsKeepVerifiers ==
    ASSUME HandlersInv, AccountInv, TaskInv, VerifierInv, NEW c \in Calls, AccountsStep(c)
    PROVE  VerifierInv'
<1>1. CASE HandOver(c)
  BY <1>1, HandOverLeaves, VerifierStepKeeps DEF HandOver, At
<1>2. CASE ~HandOver(c)
  <2>1. assigned' = assigned
    BY <1>2 DEF AccountsStep, accountVars, ChangeRole, SetRole, ChangeStatus, CountOwners, SetStatus, Offboard,
       TakeStock, AddMember, InsertMember, ChangeMemberRole, SetMemberRole, RemoveMember, DeleteMember
  <2>2. /\ call'[c].pc \in AccountSteps \cup {"free"} /\ raced' = raced
        /\ \A d \in Calls : d # c => call'[d] = call[d]
    BY AccountsMove DEF Moves
  <2>3. Independent(c)' BY <2>2, IndependentIdle DEF AccountSteps
  <2> QED BY <2>1, <2>2, <2>3, VerifierStays
<1> QED BY <1>1, <1>2

\* The request that is about to insert an assignment.
LEMMA Assigning ==
    ASSUME HandlersInv, TaskInv, NEW c \in Calls, InsertAssignment(c)
    PROVE  Req(c).task \in Tasks /\ Req(c).user \in Users /\ Req(c).user \in Req(c).on /\ call[c].pc # "free"
<1>1. call[c].pc = "insertAssignment" /\ TaskKinds(c) BY DEF InsertAssignment, At, TaskInv, TaskCall
<1>2. TaskRequest(Req(c)) BY <1>1, TaskCalls DEF TaskSteps
<1> QED BY <1>1, <1>2 DEF TaskKinds, TaskRequest

LEMMA TasksKeepVerifiers ==
    ASSUME HandlersInv, TaskInv, VerifierInv, NEW c \in Calls, TasksStep(c)
    PROVE  VerifierInv'
<1>1. CASE InsertAssignment(c)
  <2>1. Req(c).user \in Req(c).on /\ call[c].pc # "free" BY <1>1, Assigning
  <2> QED BY <1>1, <2>1, AssignmentLeaves, VerifierStepKeeps DEF InsertAssignment
<1>2. CASE UpdateTask(c)
  <2>1. assigned' = assigned /\ call[c].pc = "updateTask" BY <1>2 DEF UpdateTask, accountVars, At
  <2>2. /\ raced' = raced /\ \A d \in Calls : d # c => call'[d] = call[d]
    BY TasksMove DEF Moves
  <2>3. PICK t, by : t = Req(c).task /\ by = Actor(c) OBVIOUS
  <2>4. PICK change \in BOOLEAN : change = (Req(c).status \notin {Null, task[t].status}) OBVIOUS
  <2>5. PICK seen : seen = [from |-> task[t].status, change |-> change] OBVIOUS
  <2>6. CASE Answer(c)
    <3>1. call'[c] = Free BY <2>6, AnswerShape
    <3>2. Independent(c)' BY <3>1, IndependentIdle DEF Free
    <3> QED BY <2>1, <2>2, <3>2, VerifierStays
  <2>7. CASE (change => Permitted(c, task[t])) /\ Goto(c, "writeTask", seen)
    <3>1. call'[c] = [req |-> Req(c), pc |-> "writeTask", seen |-> seen] BY <2>1, <2>7, GotoShape
    <3>2. Req(c)' = Req(c) /\ Seen(c)' = seen /\ Actor(c)' = by BY <2>3, <3>1 DEF Req, Seen, Actor
    <3>3. change /\ Req(c).status = "VERIFIED" => <<t, by>> \notin assigned BY <2>3, <2>7 DEF Permitted
    <3>4. Independent(c)' BY <2>1, <2>3, <2>5, <3>2, <3>3 DEF Independent
    <3> QED BY <2>1, <2>2, <3>4, VerifierStays
  <2> QED BY <1>2, <2>3, <2>4, <2>5, <2>6, <2>7 DEF UpdateTask
<1>3. CASE ~InsertAssignment(c) /\ ~UpdateTask(c)
  <2>1. assigned' = assigned
    BY <1>3 DEF TasksStep, accountVars, CreateTask, InsertTask, WriteTask, BlockTask, WriteBlock,
       UnblockTask, WriteUnblock, AssignUser, AddDependency, Search, InsertDependency
  <2>2. /\ raced' = raced /\ \A d \in Calls : d # c => call'[d] = call[d]
    BY TasksMove DEF Moves
  <2>3. Answer(c) \/ \E step \in TaskSteps \ {"writeTask"} : \E seen : Goto(c, step, seen) /\ call[c].pc # "free"
    <3>1. \A step \in {"createTask", "insertTask", "writeBlock", "writeUnblock", "insertAssignment",
                       "search", "insertDependency"} : step \in TaskSteps \ {"writeTask"}
      BY DEF TaskSteps
    <3>2. CASE CreateTask(c) BY <3>1, <3>2 DEF CreateTask, At
    <3>3. CASE InsertTask(c) BY <3>1, <3>3 DEF InsertTask, At
    <3>4. CASE BlockTask(c) BY <3>1, <3>4 DEF BlockTask, At
    <3>5. CASE UnblockTask(c) BY <3>1, <3>5 DEF UnblockTask, At
    <3>6. CASE AssignUser(c) BY <3>1, <3>6 DEF AssignUser, At
    <3>7. CASE AddDependency(c) BY <3>1, <3>7 DEF AddDependency, At
    <3>8. CASE Search(c) BY <3>1, <3>8 DEF Search, At
    <3>9. CASE WriteTask(c) \/ WriteBlock(c) \/ WriteUnblock(c) \/ InsertDependency(c)
      BY <3>9 DEF WriteTask, WriteBlock, WriteUnblock, InsertDependency
    <3> QED BY <1>3, <3>2, <3>3, <3>4, <3>5, <3>6, <3>7, <3>8, <3>9 DEF TasksStep
  <2>4. call'[c].pc # "writeTask"
    <3>1. CASE Answer(c) BY <3>1, AnswerShape DEF Free
    <3>2. CASE \E step \in TaskSteps \ {"writeTask"} : \E seen : Goto(c, step, seen) /\ call[c].pc # "free"
      <4>1. PICK step \in TaskSteps \ {"writeTask"} : \E seen : Goto(c, step, seen) /\ call[c].pc # "free" BY <3>2
      <4>2. PICK seen : Goto(c, step, seen) /\ call[c].pc # "free" BY <4>1
      <4>3. step # "free" BY DEF TaskSteps
      <4>4. call'[c] = [req |-> Req(c), pc |-> step, seen |-> seen] BY <4>2, <4>3, GotoShape
      <4> QED BY <4>4
    <3> QED BY <2>3, <3>1, <3>2
  <2> QED BY <2>1, <2>2, <2>4, IndependentIdle, VerifierStays
<1> QED BY <1>1, <1>2, <1>3

\* What a step does to a task that is there.
LEMMA LifecycleStep ==
    ASSUME HandlersInv, TaskInv, TaskInv', VerifierInv, NEW c \in Calls, TasksStep(c), NEW t \in Created
    PROVE  LET old == task[t]  new == task'[t]
           IN  /\ new.status = "VERIFIED" => new.verifier # Null
               /\ new # old /\ About(t) \notin raced =>
                     /\ \/ new.status = old.status
                        \/ <<old.status, new.status>> \in Transitions
                        \/ old.reason /\ ~new.reason /\ new.status = "IN_PROGRESS"
                     /\ new.status \in {"COMPLETED", "VERIFIED"} => new.ended
                     /\ new.status = "VERIFIED" /\ old.status # "VERIFIED" /\ new.verifier \notin raced
                        => <<t, new.verifier>> \notin assigned
<1>1. PICK old, new : old = task[t] /\ new = task'[t] OBVIOUS
<1>2. raced' = raced BY TasksMove DEF Moves
<1>3. t \in Tasks /\ old # Null /\ task \in [Tasks -> TaskRows \cup {Null}]
  BY <1>1 DEF TaskInv, TaskData, Created
<1>4. CASE new = old
  <2>1. Finished(t) BY DEF TaskInv, TaskData
  <2> QED BY <1>1, <1>4, <2>1 DEF Finished
<1>5. CASE new # old
  <2>1. CASE InsertTask(c)
    <3>1. new = old BY <1>1, <1>3, <2>1 DEF InsertTask
    <3> QED BY <1>5, <3>1
  <2>2. CASE WriteTask(c)
    <3>1. PICK x \in Created : x = Req(c).task /\ x \in Tasks BY <2>2, RowFound DEF WriteTask, At
    <3>2. PICK row \in TaskRows :
              /\ task' = [task EXCEPT ![x] = row]
              /\ row.status = "VERIFIED" => row.verifier # Null
              /\ row = task[x]
                 \/ /\ Seen(c).change
                    /\ row.status = Req(c).status /\ row.reason = task[x].reason
                    /\ row.status = "VERIFIED" => row.verifier = Actor(c)
                    /\ About(x) \notin raced =>
                          /\ <<task[x].status, row.status>> \in Transitions
                          /\ row.status \in {"COMPLETED", "VERIFIED"} => row.ended
      BY <2>2, <3>1, TaskWritten, Zenon
    <3>3. x = t /\ new = row BY <1>1, <1>3, <1>5, <3>1, <3>2
    <3>4. At(c, "writeTask") BY <2>2 DEF WriteTask
    <3>5. new.status = "VERIFIED" /\ new.verifier \notin raced => <<t, new.verifier>> \notin assigned
      BY <1>1, <1>5, <3>1, <3>2, <3>3, <3>4 DEF VerifierInv, Independent
    <3> QED BY <1>1, <1>5, <3>2, <3>3, <3>5
  <2>3. CASE WriteBlock(c) \/ WriteUnblock(c)
    <3>1. PICK x \in Created : x = Req(c).task /\ x \in Tasks BY <2>3, RowFound DEF WriteBlock, WriteUnblock, At
    <3>2. PICK row \in TaskRows :
              /\ task' = [task EXCEPT ![x] = row]
              /\ row.status \in {"BLOCKED", "IN_PROGRESS"}
              /\ About(x) \notin raced =>
                    \/ row.status = task[x].status \/ <<task[x].status, row.status>> \in Transitions
                    \/ task[x].reason /\ ~row.reason /\ row.status = "IN_PROGRESS"
      BY <2>3, <3>1, BlockerWritten, Zenon
    <3>3. x = t /\ new = row BY <1>1, <1>3, <1>5, <3>1, <3>2
    <3> QED BY <1>1, <1>5, <3>2, <3>3
  <2>4. CASE task' = task BY <1>1, <1>5, <2>4
  <2> QED BY <2>1, <2>2, <2>3, <2>4 DEF TasksStep, taskVars, CreateTask, UpdateTask, BlockTask, UnblockTask,
             AssignUser, InsertAssignment, AddDependency, Search, InsertDependency
<1> QED BY <1>4, <1>5

----------------------------------------------------------------------------
(* Dependencies: the search looks at all that comes after. *)

\* A set of tasks with all that must come after one of them.
Forward(V) == \A e \in deps : e[1] \in V => e[2] \in V

\* Every set of tasks has one that none of the others has to wait for.
Acyclic == \A S \in (SUBSET Tasks) \ {{}} : \E t \in S : \A x \in S : <<t, x>> \notin deps

Alone == <<"dependencies">> \notin raced

\* What has been visited and what is in the queue have all that comes after the visited
\* ones; when the queue has nothing new, the visited ones and the successor are apart from
\* the predecessor.
SearchCall(c) ==
    /\ call[c].pc \in {"search", "insertDependency"} => {Req(c).before, Req(c).after} \subseteq Tasks
    /\ At(c, "search") =>
          /\ Req(c).before \notin Seen(c).visited
          /\ Alone => /\ Req(c).after \in Seen(c).queue \cup Seen(c).visited
                      /\ \A e \in deps : e[1] \in Seen(c).visited => e[2] \in Seen(c).queue \cup Seen(c).visited
    /\ At(c, "insertDependency") /\ Alone => \E V : Req(c).after \in V /\ Req(c).before \notin V /\ Forward(V)

DependencyData == deps \subseteq Tasks \X Tasks /\ (Alone => Acyclic)

DependencyInv == DependencyData /\ \A c \in Calls : SearchCall(c)

LEMMA SearchIdle ==
    ASSUME NEW c \in Calls, call'[c].pc \notin {"search", "insertDependency"}
    PROVE  SearchCall(c)'
BY DEF SearchCall, At

LEMMA DependencyStays ==
    ASSUME DependencyInv, deps' = deps, raced \subseteq raced',
           \A d \in Calls : call'[d] = call[d] \/ SearchCall(d)'
    PROVE  DependencyInv'
<1>1. Alone' => Alone BY DEF Alone
<1>2. DependencyData' BY <1>1 DEF DependencyInv, DependencyData, Acyclic
<1>3. ASSUME NEW d \in Calls, call'[d] = call[d] PROVE SearchCall(d)'
  BY <1>1, <1>3 DEF DependencyInv, SearchCall, Forward, At, Req, Seen
<1> QED BY <1>2, <1>3 DEF DependencyInv

LEMMA AddDependencyKeeps ==
    ASSUME HandlersInv, DependencyInv, NEW c \in Calls, AddDependency(c)
    PROVE  DependencyInv'
<1>0. deps' = deps /\ call[c].pc = "addDependency" BY DEF AddDependency, At, taskVars
<1>1. raced' = raced /\ \A d \in Calls : d # c => call'[d] = call[d] BY TasksMove DEF TasksStep, Moves
<1>2. PICK seen : seen = [queue |-> {Req(c).after}, visited |-> {}] OBVIOUS
<1>3. CASE Answer(c)
  <2>1. call'[c].pc = "free" BY <1>3, AnswerShape DEF Free
  <2> QED BY <1>0, <1>1, <2>1, SearchIdle, DependencyStays
<1>4. CASE {Req(c).before, Req(c).after} \subseteq Created /\ Goto(c, "search", seen)
  <2>1. call'[c] = [req |-> Req(c), pc |-> "search", seen |-> seen] BY <1>0, <1>4, GotoShape
  <2>2. Req(c)' = Req(c) /\ Seen(c)' = seen BY <2>1 DEF Req, Seen
  <2>3. {Req(c).before, Req(c).after} \subseteq Tasks BY <1>4 DEF Created
  <2>4. seen.queue = {Req(c).after} /\ seen.visited = {} BY <1>2
  <2>5. SearchCall(c)' BY <2>1, <2>2, <2>3, <2>4 DEF SearchCall, At
  <2> QED BY <1>0, <1>1, <2>5, DependencyStays
<1> QED BY <1>2, <1>3, <1>4 DEF AddDependency

LEMMA SearchKeeps ==
    ASSUME HandlersInv, DependencyInv, NEW c \in Calls, Search(c)
    PROVE  DependencyInv'
<1>0. deps' = deps /\ call[c].pc = "search" BY DEF Search, At, taskVars
<1>1. raced' = raced /\ \A d \in Calls : d # c => call'[d] = call[d] BY TasksMove DEF TasksStep, Moves
<1>2. PICK before, after, queue, visited :
         before = Req(c).before /\ after = Req(c).after /\ queue = Seen(c).queue /\ visited = Seen(c).visited
  OBVIOUS
<1>3. /\ {before, after} \subseteq Tasks /\ before \notin visited
      /\ Alone => after \in queue \cup visited /\ \A e \in deps : e[1] \in visited => e[2] \in queue \cup visited
  BY <1>0, <1>2 DEF DependencyInv, SearchCall, At
<1>4. CASE Answer(c)
  <2>1. call'[c].pc = "free" BY <1>4, AnswerShape DEF Free
  <2> QED BY <1>0, <1>1, <2>1, SearchIdle, DependencyStays
<1>5. CASE before \notin queue /\ queue \ visited = {} /\ Goto(c, "insertDependency", Null)
  <2>1. call'[c] = [req |-> Req(c), pc |-> "insertDependency", seen |-> Null] BY <1>0, <1>5, GotoShape
  <2>2. Req(c)' = Req(c) /\ Alone' = Alone BY <1>1, <2>1 DEF Req, Alone
  <2>3. Alone => after \in visited /\ before \notin visited /\ \A e \in deps : e[1] \in visited => e[2] \in visited
    BY <1>3, <1>5
  <2>4. SearchCall(c)' BY <1>0, <1>2, <1>3, <2>1, <2>2, <2>3 DEF SearchCall, At, Forward
  <2> QED BY <1>0, <1>1, <2>4, DependencyStays
<1>6. CASE /\ before \notin queue
           /\ \E t \in queue \ visited :
                Goto(c, "search", [queue |-> (queue \ {t}) \cup SuccessorsOf(t), visited |-> visited \cup {t}])
  <2>1. PICK t \in queue \ visited :
          Goto(c, "search", [queue |-> (queue \ {t}) \cup SuccessorsOf(t), visited |-> visited \cup {t}])
    BY <1>6
  <2>2. PICK seen : seen = [queue |-> (queue \ {t}) \cup SuccessorsOf(t), visited |-> visited \cup {t}] OBVIOUS
  <2>3. call'[c] = [req |-> Req(c), pc |-> "search", seen |-> seen] BY <1>0, <2>1, <2>2, GotoShape
  <2>4. Req(c)' = Req(c) /\ Seen(c)' = seen /\ Alone' = Alone BY <1>1, <2>3 DEF Req, Seen, Alone
  <2>5. before \notin seen.visited BY <1>3, <1>6, <2>2
  <2>6. seen.queue \cup seen.visited = queue \cup visited \cup SuccessorsOf(t) BY <2>1, <2>2
  <2>7. ASSUME Alone, NEW e \in deps, e[1] \in seen.visited PROVE e[2] \in seen.queue \cup seen.visited
    <3>1. CASE e[1] \in visited BY <1>3, <2>6, <2>7, <3>1
    <3>2. CASE e[1] = t
      <4>1. e[2] \in SuccessorsOf(t) BY <3>2 DEF SuccessorsOf, DependencyInv, DependencyData
      <4> QED BY <2>6, <4>1
    <3> QED BY <2>2, <2>7, <3>1, <3>2
  <2>8. Alone => after \in seen.queue \cup seen.visited BY <1>3, <2>6
  <2>9. SearchCall(c)' BY <1>0, <1>2, <1>3, <2>3, <2>4, <2>5, <2>7, <2>8 DEF SearchCall, At
  <2> QED BY <1>0, <1>1, <2>9, DependencyStays
<1> QED BY <1>2, <1>4, <1>5, <1>6 DEF Search

\* An edge into a set it does not come from, and that no edge leaves, closes no cycle.
LEMMA EdgeKeepsAcyclic ==
    ASSUME Acyclic, NEW a, NEW b, NEW V, Forward(V), a \in V, b \notin V, deps' = deps \cup {<<b, a>>}
    PROVE  Acyclic'
<1> SUFFICES ASSUME NEW S \in (SUBSET Tasks) \ {{}}
             PROVE  \E t \in S : \A x \in S : <<t, x>> \notin deps'
  BY DEF Acyclic
<1>1. CASE S \cap V = {}
  <2>1. PICK t \in S : \A x \in S : <<t, x>> \notin deps BY DEF Acyclic
  <2>2. a \notin S BY <1>1
  <2> QED BY <2>1, <2>2
<1>2. CASE S \cap V # {}
  <2>1. PICK t \in S \cap V : \A x \in S \cap V : <<t, x>> \notin deps BY <1>2 DEF Acyclic
  <2>2. \A x : <<t, x>> \in deps => x \in V BY <2>1 DEF Forward
  <2>3. t # b BY <2>1
  <2> QED BY <2>1, <2>2, <2>3
<1> QED BY <1>1, <1>2

LEMMA InsertDependencyKeeps ==
    ASSUME HandlersInv, TaskInv, DependencyInv, NEW c \in Calls, InsertDependency(c)
    PROVE  DependencyInv'
<1>0. call[c].pc = "insertDependency" /\ Answer(c) BY DEF InsertDependency, At
<1>1. call'[c].pc = "free" /\ raced' = raced /\ \A d \in Calls : d # c => call'[d] = call[d]
  BY <1>0, AnswerShape DEF Free
<1>2. PICK a, b : a = Req(c).after /\ b = Req(c).before OBVIOUS
<1>3. deps' = deps \cup {<<b, a>>} BY <1>2 DEF InsertDependency
<1>4. {a, b} \subseteq Tasks /\ (Alone => \E V : a \in V /\ b \notin V /\ Forward(V))
  BY <1>0, <1>2 DEF DependencyInv, SearchCall, At
<1>5. Alone' = Alone BY <1>1 DEF Alone
<1>6. Alone => Acyclic' BY <1>3, <1>4, EdgeKeepsAcyclic DEF DependencyInv, DependencyData
<1>7. DependencyData' BY <1>3, <1>4, <1>5, <1>6 DEF DependencyInv, DependencyData
<1>8. ASSUME NEW d \in Calls, d # c PROVE SearchCall(d)'
  <2>0. call'[d] = call[d] BY <1>1, <1>8
  <2>1. SearchCall(d) BY DEF DependencyInv
  <2>2. CASE call[d].pc \notin {"search", "insertDependency"} BY <2>0, <2>2, SearchIdle
  <2>3. CASE call[d].pc \in {"search", "insertDependency"}
    <3>1. TaskKinds(c) /\ TaskKinds(d) BY DEF TaskInv, TaskCall
    <3>2. TaskRequest(Req(c)) /\ TaskRequest(Req(d)) /\ call[c].pc # "free" /\ call[d].pc # "free"
      BY <1>0, <2>3, <3>1, TaskCalls DEF TaskSteps
    <3>3. <<"dependencies">> \in Req(c).on /\ <<"dependencies">> \in Req(d).on
      BY <1>0, <2>3, <3>1, <3>2 DEF TaskKinds, TaskRequest
    <3>4. ~Alone' BY <1>5, <1>8, <3>2, <3>3 DEF HandlersInv, RacedInv, InFlight, Alone
    <3> QED BY <2>0, <2>1, <3>4 DEF SearchCall, At, Req, Seen
  <2> QED BY <2>2, <2>3
<1>9. SearchCall(c)' BY <1>1, SearchIdle
<1> QED BY <1>7, <1>8, <1>9 DEF DependencyInv

LEMMA TasksKeepDependencies ==
    ASSUME HandlersInv, TaskInv, DependencyInv, NEW c \in Calls, TasksStep(c)
    PROVE  DependencyInv'
<1>1. CASE AddDependency(c) \/ Search(c) \/ InsertDependency(c)
  BY <1>1, AddDependencyKeeps, SearchKeeps, InsertDependencyKeeps
<1>2. CASE ~(AddDependency(c) \/ Search(c) \/ InsertDependency(c))
  <2>1. deps' = deps
    BY <1>2 DEF TasksStep, taskVars, CreateTask, InsertTask, UpdateTask, WriteTask, BlockTask, WriteBlock,
       UnblockTask, WriteUnblock, AssignUser, InsertAssignment
  <2>2. raced' = raced /\ \A d \in Calls : d # c => call'[d] = call[d] BY TasksMove DEF Moves
  <2>3. call'[c].pc \notin {"search", "insertDependency"}
    <3>1. Answer(c) \/ \E step \in TaskSteps \ {"search", "insertDependency"} : \E seen :
             Goto(c, step, seen) /\ call[c].pc # "free"
      <4>1. \A step \in {"createTask", "insertTask", "writeTask", "writeBlock", "writeUnblock", "insertAssignment"} :
               step \in TaskSteps \ {"search", "insertDependency"}
        BY DEF TaskSteps
      <4>2. CASE CreateTask(c) BY <4>1, <4>2 DEF CreateTask, At
      <4>3. CASE InsertTask(c) BY <4>1, <4>3 DEF InsertTask, At
      <4>4. CASE BlockTask(c) BY <4>1, <4>4 DEF BlockTask, At
      <4>5. CASE UnblockTask(c) BY <4>1, <4>5 DEF UnblockTask, At
      <4>6. CASE AssignUser(c) BY <4>1, <4>6 DEF AssignUser, At
      <4>7. CASE UpdateTask(c) BY <4>1, <4>7 DEF UpdateTask, At
      <4>8. CASE WriteTask(c) \/ WriteBlock(c) \/ WriteUnblock(c) \/ InsertAssignment(c)
        BY <4>8 DEF WriteTask, WriteBlock, WriteUnblock, InsertAssignment
      <4> QED BY <1>2, <4>2, <4>3, <4>4, <4>5, <4>6, <4>7, <4>8 DEF TasksStep
    <3>2. CASE Answer(c) BY <3>2, AnswerShape DEF Free
    <3>3. CASE \E step \in TaskSteps \ {"search", "insertDependency"} : \E seen :
                  Goto(c, step, seen) /\ call[c].pc # "free"
      <4>1. PICK step \in TaskSteps \ {"search", "insertDependency"} : \E seen :
                  Goto(c, step, seen) /\ call[c].pc # "free"
        BY <3>3
      <4>2. PICK seen : Goto(c, step, seen) /\ call[c].pc # "free" BY <4>1
      <4>3. step # "free" BY DEF TaskSteps
      <4>4. call'[c] = [req |-> Req(c), pc |-> step, seen |-> seen] BY <4>2, <4>3, GotoShape
      <4> QED BY <4>4
    <3> QED BY <3>1, <3>2, <3>3
  <2> QED BY <2>1, <2>2, <2>3, SearchIdle, DependencyStays
<1> QED BY <1>1, <1>2

----------------------------------------------------------------------------
(* Daily plans. *)

PlanKinds(c) ==
    /\ At(c, "createPlan") => Req(c).kind = "createPlan"
    /\ call[c].pc \in {"publish", "writePublished"} => Req(c).kind = "publish"
    /\ call[c].pc \in {"complete", "recheck", "writeCompleted"} => Req(c).kind = "complete"
    /\ call[c].pc \in {"cancel", "writeCancelled"} => Req(c).kind = "cancel"
    /\ call[c].pc \in {"progress", "writeProgress"} => Req(c).kind = "progress"

PlanWrites == {"writePublished", "writeCompleted", "writeCancelled", "writeProgress"}

\* The plan is there, and what was read of it is still so unless a request about it raced.
PlanCall(c) ==
    /\ PlanKinds(c)
    /\ call[c].pc \in PlanWrites => Planned(Req(c).plan)
    /\ At(c, "writeProgress") => Req(c).task \in DOMAIN plans[Req(c).plan].done
    /\ Req(c).plan \notin raced =>
          /\ At(c, "writePublished") => plans[Req(c).plan].status = "DRAFT"
          /\ At(c, "writeCompleted") => MayComplete(Req(c).plan)
          /\ At(c, "writeCancelled") => plans[Req(c).plan].status # "COMPLETED"
          /\ At(c, "writeProgress") => plans[Req(c).plan].status = "PUBLISHED"

PlanInv == PlansTypeOK /\ \A c \in Calls : PlanCall(c)

\* No plan goes away or gets other tasks, and a step that is not about a plan leaves it.
PlanLeaves(c) ==
    \A p \in Plans : Planned(p) =>
        /\ plans'[p] # Null /\ DOMAIN plans'[p].done = DOMAIN plans[p].done
        /\ p \notin Req(c).on => plans'[p] = plans[p]

LEMMA PlanCalls ==
    ASSUME HandlersInv, NEW c \in Calls, PlanKinds(c), call[c].pc \in PlanSteps
    PROVE  PlanRequest(Req(c)) /\ call[c].pc # "free"
<1>1. call[c].pc # "free" BY DEF PlanSteps
<1>2. SiteRequest(Req(c)) BY <1>1, RequestOfCall
<1>3. Req(c).kind \in {"createPlan", "publish", "complete", "cancel", "progress"}
  BY DEF PlanKinds, PlanSteps, At
<1> QED BY <1>1, <1>2, <1>3 DEF SiteRequest, AccountRequest, TaskRequest, AttendanceRequest, ExpenseRequest

\* A request that is going to write a plan is about it.
LEMMA PlanOfCall ==
    ASSUME HandlersInv, NEW c \in Calls, PlanKinds(c), call[c].pc \in PlanSteps \ {"createPlan"}
    PROVE  Req(c).plan \in Plans /\ Req(c).plan \in Req(c).on /\ call[c].pc # "free"
<1>1. PlanRequest(Req(c)) /\ call[c].pc # "free" BY PlanCalls
<1>2. Req(c).kind \in {"publish", "complete", "cancel", "progress"} BY DEF PlanKinds, PlanSteps, At
<1> QED BY <1>1, <1>2 DEF PlanRequest

LEMMA PlanOthers ==
    ASSUME HandlersInv, NEW c \in Calls, call[c].pc # "free", PlanLeaves(c), raced' = raced,
           NEW d \in Calls, d # c, call'[d] = call[d], PlanCall(d)
    PROVE  PlanCall(d)'
<1>0. Req(d)' = Req(d) /\ \A step : At(d, step)' = At(d, step) BY DEF Req, At
<1>1. PlanKinds(d)' BY <1>0 DEF PlanCall, PlanKinds
<1>2. CASE call[d].pc \notin PlanWrites
  BY <1>0, <1>1, <1>2 DEF PlanCall, PlanWrites, At
<1>3. CASE call[d].pc \in PlanWrites
  <2>1. PICK p : p = Req(d).plan OBVIOUS
  <2>2. p \in Plans /\ p \in Req(d).on /\ call[d].pc # "free" /\ Planned(p)
    BY <1>3, <2>1, PlanOfCall DEF PlanCall, PlanWrites, PlanSteps
  <2>3. p \notin raced => plans'[p] = plans[p]
    BY <2>2 DEF PlanLeaves, HandlersInv, RacedInv, InFlight
  <2>4. plans'[p] # Null /\ DOMAIN plans'[p].done = DOMAIN plans[p].done BY <2>2 DEF PlanLeaves
  <2> QED BY <1>0, <1>1, <2>1, <2>3, <2>4 DEF PlanCall, Planned, MayComplete, Whole
<1> QED BY <1>2, <1>3

LEMMA PlanIdle ==
    ASSUME NEW c \in Calls, call'[c].pc \notin PlanSteps
    PROVE  PlanCall(c)'
BY DEF PlanCall, PlanKinds, PlanSteps, PlanWrites, At

LEMMA PlanFresh ==
    ASSUME NEW c \in Calls, call'[c].pc = Req(c)'.kind, SiteRequest(Req(c)')
    PROVE  PlanCall(c)'
BY DEF PlanCall, PlanKinds, PlanWrites, At, SiteRequest, AccountRequest, TaskRequest, PlanRequest,
       AttendanceRequest, ExpenseRequest

LEMMA PlanStays ==
    ASSUME PlanInv, plans' = plans, raced \subseteq raced',
           \A d \in Calls : call'[d] = call[d] \/ PlanCall(d)'
    PROVE  PlanInv'
<1>1. PlansTypeOK' BY DEF PlanInv, PlansTypeOK
<1>2. ASSUME NEW d \in Calls, call'[d] = call[d] PROVE PlanCall(d)'
  BY <1>2 DEF PlanInv, PlanCall, PlanKinds, Planned, MayComplete, Whole, At, Req
<1> QED BY <1>1, <1>2 DEF PlanInv

LEMMA PlanAnswers ==
    ASSUME HandlersInv, PlanInv, NEW c \in Calls, plans' = plans, Answer(c)
    PROVE  PlanInv'
<1>1. call'[c] = Free /\ raced' = raced /\ \A d \in Calls : d # c => call'[d] = call[d] BY AnswerShape
<1>2. call'[c].pc \notin PlanSteps BY <1>1 DEF Free, PlanSteps
<1> QED BY <1>1, <1>2, PlanIdle, PlanStays

LEMMA PlanWritten ==
    ASSUME HandlersInv, PlanInv, NEW c \in Calls, call[c].pc # "free", Answer(c),
           NEW p \in Plans, NEW row \in PlanRows, plans' = [plans EXCEPT ![p] = row],
           Planned(p) => p \in Req(c).on /\ DOMAIN row.done = DOMAIN plans[p].done
    PROVE  PlanInv'
<1>1. plans \in [Plans -> PlanRows \cup {Null}] /\ row # Null BY DailyPlansAssumption DEF PlanInv, PlansTypeOK
<1>2. plans'[p] = row /\ \A x \in Plans : x # p => plans'[x] = plans[x] BY <1>1
<1>3. PlanLeaves(c) BY <1>1, <1>2 DEF PlanLeaves, Planned
<1>4. call'[c] = Free /\ raced' = raced /\ \A d \in Calls : d # c => call'[d] = call[d] BY AnswerShape
<1>5. call'[c].pc \notin PlanSteps BY <1>4 DEF Free, PlanSteps
<1>6. PlanCall(c)' BY <1>5, PlanIdle
<1>7. \A d \in Calls : d # c => PlanCall(d)' BY <1>3, <1>4, PlanOthers DEF PlanInv
<1>8. PlansTypeOK' BY <1>1 DEF PlansTypeOK
<1> QED BY <1>6, <1>7, <1>8 DEF PlanInv

\* The four statements that write a plan there is.
LEMMA PlanUpdated ==
    ASSUME HandlersInv, PlanInv, NEW c \in Calls,
           WritePublished(c) \/ WriteCompleted(c) \/ WriteCancelled(c) \/ WriteProgress(c)
    PROVE  \E p \in Plans : \E row \in PlanRows :
              /\ Answer(c) /\ call[c].pc # "free" /\ plans' = [plans EXCEPT ![p] = row]
              /\ Planned(p) /\ p \in Req(c).on
              /\ DOMAIN row.done = DOMAIN plans[p].done
              /\ p \notin raced =>
                    /\ plans[p].status \in {"COMPLETED", "CANCELLED"} => row = plans[p]
                    /\ row.status = "COMPLETED" => \A t \in DOMAIN row.done : row.done[t]
<1>1. PICK p : p = Req(c).plan OBVIOUS
<1>2. PlanKinds(c) /\ call[c].pc \in PlanWrites
  BY DEF PlanInv, PlanCall, WritePublished, WriteCompleted, WriteCancelled, WriteProgress, At, PlanWrites
<1>3. p \in Plans /\ p \in Req(c).on /\ call[c].pc # "free"
  BY <1>1, <1>2, PlanOfCall DEF PlanWrites, PlanSteps
<1>4. Planned(p) BY <1>1, <1>2 DEF PlanInv, PlanCall
<1>5. PICK old \in PlanRows : old = plans[p]
  BY <1>3, <1>4 DEF PlanInv, PlansTypeOK, Planned
<1>6. old = [status |-> old.status, team |-> old.team, day |-> old.day, done |-> old.done]
  BY DEF PlanRows
<1>7. plans \in [Plans -> PlanRows \cup {Null}] BY DEF PlanInv, PlansTypeOK
<1>8. Answer(c)
  BY DEF WritePublished, WriteCompleted, WriteCancelled, WriteProgress
<1>9. ASSUME NEW status \in PlanStatuses, SetPlanStatus(p, status)
      PROVE  \E row \in PlanRows :
                /\ plans' = [plans EXCEPT ![p] = row]
                /\ row.status = status /\ row.done = old.done
                /\ old.status = status => row = old
  <2>1. PICK row : row = [status |-> status, team |-> old.team, day |-> old.day, done |-> old.done] OBVIOUS
  <2>2. row \in PlanRows BY <2>1 DEF PlanRows
  <2>3. [old EXCEPT !.status = status] = row BY <1>6, <2>1
  <2>4. plans' = [plans EXCEPT ![p] = row] BY <1>5, <1>9, <2>3 DEF SetPlanStatus
  <2>5. row.status = status /\ row.done = old.done /\ (old.status = status => row = old) BY <1>6, <2>1
  <2> QED BY <2>2, <2>4, <2>5
<1>10. CASE WritePublished(c)
  <2>1. SetPlanStatus(p, "PUBLISHED") /\ At(c, "writePublished") BY <1>1, <1>10 DEF WritePublished
  <2>2. PICK row \in PlanRows : plans' = [plans EXCEPT ![p] = row] /\ row.status = "PUBLISHED" /\ row.done = old.done
    BY <1>9, <2>1 DEF PlanStatuses
  <2>3. p \notin raced => old.status = "DRAFT" BY <1>1, <1>5, <2>1 DEF PlanInv, PlanCall
  <2> QED BY <1>3, <1>4, <1>5, <1>8, <2>2, <2>3
<1>11. CASE WriteCompleted(c)
  <2>1. SetPlanStatus(p, "COMPLETED") /\ At(c, "writeCompleted") BY <1>1, <1>11 DEF WriteCompleted
  <2>2. PICK row \in PlanRows : plans' = [plans EXCEPT ![p] = row] /\ row.status = "COMPLETED" /\ row.done = old.done
    BY <1>9, <2>1 DEF PlanStatuses
  <2>3. p \notin raced => old.status = "PUBLISHED" /\ \A t \in DOMAIN old.done : old.done[t]
    BY <1>1, <1>5, <2>1 DEF PlanInv, PlanCall, MayComplete, Whole
  <2> QED BY <1>3, <1>4, <1>5, <1>8, <2>2, <2>3
<1>12. CASE WriteCancelled(c)
  <2>1. SetPlanStatus(p, "CANCELLED") /\ At(c, "writeCancelled") BY <1>1, <1>12 DEF WriteCancelled
  <2>2. PICK row \in PlanRows : /\ plans' = [plans EXCEPT ![p] = row] /\ row.status = "CANCELLED" /\ row.done = old.done
                                /\ old.status = "CANCELLED" => row = old
    BY <1>9, <2>1 DEF PlanStatuses
  <2>3. p \notin raced => old.status # "COMPLETED" BY <1>1, <1>5, <2>1 DEF PlanInv, PlanCall
  <2> QED BY <1>3, <1>4, <1>5, <1>8, <2>2, <2>3
<1>13. CASE WriteProgress(c)
  <2>0. At(c, "writeProgress") BY <1>13 DEF WriteProgress
  <2>1. PICK t : t = Req(c).task OBVIOUS
  <2>2. PICK b : b = IF Req(c).completed # Null THEN Req(c).completed ELSE Req(c).quantity OBVIOUS
  <2>3. Req(c).kind = "progress" /\ PlanRequest(Req(c)) BY <1>2, <2>0, PlanCalls DEF PlanKinds, PlanWrites, PlanSteps, At
  <2>4. b \in BOOLEAN BY <2>2, <2>3 DEF PlanRequest
  <2>5. PICK tasks \in SUBSET Tasks : old.done \in [tasks -> BOOLEAN] BY DEF PlanRows
  <2>6. PICK done : done = [old.done EXCEPT ![t] = b] OBVIOUS
  <2>7. done \in [tasks -> BOOLEAN] BY <2>4, <2>5, <2>6
  <2>8. PICK row : row = [status |-> old.status, team |-> old.team, day |-> old.day, done |-> done] OBVIOUS
  <2>9. row \in PlanRows BY <2>7, <2>8 DEF PlanRows
  <2>10. [old EXCEPT !.done[t] = b] = row BY <1>6, <2>6, <2>8
  <2>11. plans' = [plans EXCEPT ![p] = row] BY <1>1, <1>5, <1>13, <2>1, <2>2, <2>10 DEF WriteProgress
  <2>12. DOMAIN row.done = DOMAIN old.done BY <2>5, <2>7, <2>8
  <2>13. p \notin raced => row.status = "PUBLISHED" /\ old.status = "PUBLISHED"
    BY <1>1, <1>5, <2>0, <2>8 DEF PlanInv, PlanCall
  <2> QED BY <1>3, <1>4, <1>5, <1>8, <2>9, <2>11, <2>12, <2>13
<1> QED BY <1>10, <1>11, <1>12, <1>13

LEMMA CreatePlanKeeps ==
    ASSUME HandlersInv, PlanInv, NEW c \in Calls, CreatePlan(c)
    PROVE  PlanInv'
<1>0. call[c].pc = "createPlan" /\ Answer(c) BY DEF CreatePlan, At
<1>1. CASE plans' = plans BY <1>0, <1>1, PlanAnswers
<1>2. CASE \E p \in Plans :
              /\ ~Planned(p)
              /\ plans' = [plans EXCEPT ![p] = [status |-> "DRAFT", team |-> Req(c).team, day |-> Req(c).day,
                                                done |-> [t \in Req(c).tasks |-> FALSE]]]
  <2>1. PICK p \in Plans :
              /\ ~Planned(p)
              /\ plans' = [plans EXCEPT ![p] = [status |-> "DRAFT", team |-> Req(c).team, day |-> Req(c).day,
                                                done |-> [t \in Req(c).tasks |-> FALSE]]]
    BY <1>2
  <2>2. PlanKinds(c) /\ Req(c).kind = "createPlan" BY <1>0 DEF PlanInv, PlanCall, PlanKinds, At
  <2>3. PlanRequest(Req(c)) BY <1>0, <2>2, PlanCalls DEF PlanSteps
  <2>4. PICK done : done = [t \in Req(c).tasks |-> FALSE] OBVIOUS
  <2>5. Req(c).tasks \in SUBSET Tasks /\ done \in [Req(c).tasks -> BOOLEAN] BY <2>2, <2>3, <2>4 DEF PlanRequest
  <2>6. PICK row : row = [status |-> "DRAFT", team |-> Req(c).team, day |-> Req(c).day, done |-> done] OBVIOUS
  <2>7. row \in PlanRows BY <2>2, <2>3, <2>5, <2>6 DEF PlanRows, PlanRequest, PlanStatuses
  <2>8. plans' = [plans EXCEPT ![p] = row] BY <2>1, <2>4, <2>6
  <2> QED BY <1>0, <2>1, <2>7, <2>8, PlanWritten
<1> QED BY <1>1, <1>2 DEF CreatePlan

\* A request that has found its plan as it wants it goes on to write it.
LEMMA PlanGoes ==
    ASSUME HandlersInv, PlanInv, NEW c \in Calls, plans' = plans,
           NEW from, NEW step, At(c, from), Goto(c, step, Null),
           <<from, step>> \in {<<"publish", "writePublished">>, <<"complete", "recheck">>,
                               <<"recheck", "writeCompleted">>, <<"cancel", "writeCancelled">>,
                               <<"progress", "writeProgress">>},
           step \in PlanWrites => Planned(Req(c).plan),
           step = "writePublished" => plans[Req(c).plan].status = "DRAFT",
           step = "writeCompleted" => MayComplete(Req(c).plan),
           step = "writeCancelled" => plans[Req(c).plan].status # "COMPLETED",
           step = "writeProgress" => /\ plans[Req(c).plan].status = "PUBLISHED"
                                     /\ Req(c).task \in DOMAIN plans[Req(c).plan].done
    PROVE  PlanInv'
<1>1. call[c].pc = from /\ from # "free" /\ step # "free" BY DEF At
<1>2. /\ call'[c] = [req |-> Req(c), pc |-> step, seen |-> Null]
      /\ raced' = raced /\ \A d \in Calls : d # c => call'[d] = call[d]
  BY <1>1, GotoShape
<1>3. PlanKinds(c) BY DEF PlanInv, PlanCall
<1>4. Req(c)' = Req(c) BY <1>2 DEF Req
<1>5. PlanKinds(c)' BY <1>1, <1>2, <1>3, <1>4 DEF PlanKinds, At
<1>6. \A p : Planned(p)' = Planned(p) /\ MayComplete(p)' = MayComplete(p) BY DEF Planned, MayComplete, Whole
<1>7. PICK p : p = Req(c).plan OBVIOUS
<1>8. Planned(Req(c).plan)' = Planned(p) /\ MayComplete(Req(c).plan)' = MayComplete(p)
  BY <1>4, <1>6, <1>7 DEF Planned, MayComplete, Whole
<1>9. PlanCall(c)' BY <1>2, <1>4, <1>5, <1>7, <1>8 DEF PlanCall, At
<1> QED BY <1>2, <1>9, PlanStays

LEMMA PlansStepKeepsPlans ==
    ASSUME HandlersInv, PlanInv, NEW c \in Calls, PlansStep(c)
    PROVE  PlanInv'
<1>1. CASE CreatePlan(c) BY <1>1, CreatePlanKeeps
<1>2. CASE PublishPlan(c) BY <1>2, PlanAnswers, PlanGoes DEF PublishPlan
<1>3. CASE CompletePlan(c) BY <1>3, PlanAnswers, PlanGoes DEF CompletePlan, PlanWrites
<1>4. CASE RecheckPlan(c)
  BY <1>4, PlanAnswers, PlanGoes DEF RecheckPlan, MayComplete
<1>5. CASE CancelPlan(c) BY <1>5, PlanAnswers, PlanGoes DEF CancelPlan
<1>6. CASE Progress(c) BY <1>6, PlanAnswers, PlanGoes DEF Progress
<1>7. CASE WritePublished(c) \/ WriteCompleted(c) \/ WriteCancelled(c) \/ WriteProgress(c)
  BY <1>7, PlanUpdated, PlanWritten
<1> QED BY <1>1, <1>2, <1>3, <1>4, <1>5, <1>6, <1>7 DEF PlansStep

\* What a step does to a plan that is there.
LEMMA ClosedStep ==
    ASSUME HandlersInv, PlanInv, NEW c \in Calls, PlansStep(c), NEW p \in Plans \ raced, Planned(p)
    PROVE  /\ plans[p].status \in {"COMPLETED", "CANCELLED"} => plans'[p] = plans[p]
           /\ plans[p].status # "COMPLETED" /\ plans'[p].status = "COMPLETED"
              => \A t \in DOMAIN plans'[p].done : plans'[p].done[t]
<1>0. plans \in [Plans -> PlanRows \cup {Null}] BY DEF PlanInv, PlansTypeOK
<1>1. CASE plans'[p] = plans[p] BY <1>1
<1>2. CASE CreatePlan(c) BY <1>0, <1>1, <1>2 DEF CreatePlan
<1>3. CASE WritePublished(c) \/ WriteCompleted(c) \/ WriteCancelled(c) \/ WriteProgress(c)
  <2>1. PICK x \in Plans : \E row \in PlanRows :
              /\ plans' = [plans EXCEPT ![x] = row]
              /\ x \notin raced =>
                    /\ plans[x].status \in {"COMPLETED", "CANCELLED"} => row = plans[x]
                    /\ row.status = "COMPLETED" => \A t \in DOMAIN row.done : row.done[t]
    BY <1>3, PlanUpdated
  <2> QED BY <1>0, <1>1, <2>1
<1>4. CASE plans' = plans BY <1>1, <1>4
<1> QED BY <1>2, <1>3, <1>4 DEF PlansStep, PublishPlan, CompletePlan, RecheckPlan, CancelPlan, Progress

----------------------------------------------------------------------------
(* Attendance. *)

AttendanceKinds(c) ==
    /\ call[c].pc \in {"checkIn", "insert"} => Req(c).kind = "checkIn"
    /\ call[c].pc \in {"checkOut", "close"} => Req(c).kind = "checkOut"
    /\ call[c].pc \in {"correct", "rewrite"} => Req(c).kind = "correct"

AttendanceCall(c) ==
    /\ AttendanceKinds(c)
    /\ At(c, "insert") => Seen(c).now \in Times
    /\ At(c, "close") =>
          /\ Seen(c).record \in Records /\ Recorded(Seen(c).record) /\ Seen(c).record[1] = Req(c).worker
          /\ Seen(c).in \in Times /\ Seen(c).now \in Times
          /\ Req(c).worker \notin raced => attendance[Seen(c).record].in = Seen(c).in
    /\ At(c, "rewrite") =>
          /\ Recorded(Req(c).record) /\ Seen(c) \in Sheets
          /\ Req(c).record[1] \notin raced => attendance[Req(c).record] = Seen(c)

SingleOpen == \A r, s \in Records : Open(r) /\ Open(s) /\ r[1] = s[1] => r = s

AttendanceData == AttendanceTypeOK /\ SingleOpen /\ HoursFollowTimes

AttendanceInv == AttendanceData /\ \A c \in Calls : AttendanceCall(c)

\* No record goes away, and a step that is not about a worker leaves their records.
AttendanceLeaves(c) ==
    \A r \in Records : Recorded(r) =>
        /\ attendance'[r] # Null
        /\ r[1] \notin Req(c).on => attendance'[r] = attendance[r]

LEMMA SingleOpenIsOneOpenSession ==
    ASSUME SingleOpen
    PROVE  OneOpenSession
<1> SUFFICES ASSUME NEW w \in Workers PROVE Cardinality(OpenOf(w)) <= 1
  BY DEF OneOpenSession
<1>1. CASE OpenOf(w) = {} BY <1>1, FS_EmptySet
<1>2. CASE OpenOf(w) # {}
  <2>1. PICK r : r \in OpenOf(w) BY <1>2
  <2>2. OpenOf(w) = {r} BY <2>1 DEF SingleOpen, OpenOf
  <2> QED BY <2>2, FS_Singleton
<1> QED BY <1>1, <1>2

LEMMA TimesAreNumbers == Times \subseteq Nat /\ 0 \in Times /\ RegularHours \in Nat
BY AttendanceAssumption DEF Times

\* What is worked between two times, regular hours and overtime, is not longer than the day.
LEMMA HoursAreTimes ==
    ASSUME NEW in \in Times, NEW out \in Times
    PROVE  HoursOf(in, out) \in Times /\ OvertimeOf(in, out) \in Times
BY AttendanceAssumption DEF Times, HoursOf, OvertimeOf

LEMMA TimedSheet ==
    ASSUME NEW sheet \in Sheets
    PROVE  /\ Timed(sheet) \in Sheets /\ Timed(sheet).in = sheet.in /\ Timed(sheet).out = sheet.out
           /\ sheet.out # Null => /\ Timed(sheet).hours = HoursOf(sheet.in, sheet.out)
                                  /\ Timed(sheet).overtime = OvertimeOf(sheet.in, sheet.out)
<1>1. sheet = [in |-> sheet.in, out |-> sheet.out, hours |-> sheet.hours, overtime |-> sheet.overtime]
  BY DEF Sheets
<1>2. sheet.in \in Times /\ sheet.out \in Times \cup {Null} BY DEF Sheets
<1>3. CASE sheet.out = Null BY <1>3 DEF Timed
<1>4. CASE sheet.out # Null
  <2>1. PICK h, o : h = HoursOf(sheet.in, sheet.out) /\ o = OvertimeOf(sheet.in, sheet.out) OBVIOUS
  <2>2. h \in Times /\ o \in Times BY <1>2, <1>4, <2>1, HoursAreTimes
  <2>3. PICK mid : mid = [in |-> sheet.in, out |-> sheet.out, hours |-> h, overtime |-> sheet.overtime] OBVIOUS
  <2>4. PICK end : end = [in |-> sheet.in, out |-> sheet.out, hours |-> h, overtime |-> o] OBVIOUS
  <2>5. [sheet EXCEPT !.hours = h] = mid BY <1>1, <2>3
  <2>6. [mid EXCEPT !.overtime = o] = end BY <2>3, <2>4
  <2>7. [sheet EXCEPT !.hours = h, !.overtime = o] = end BY <2>5, <2>6
  <2>8. Timed(sheet) = end BY <1>4, <2>1, <2>7 DEF Timed
  <2>9. end \in Sheets BY <1>2, <2>2, <2>4 DEF Sheets
  <2> QED BY <2>1, <2>4, <2>8, <2>9
<1> QED BY <1>3, <1>4

LEMMA AttendanceCalls ==
    ASSUME HandlersInv, NEW c \in Calls, AttendanceKinds(c), call[c].pc \in AttendanceSteps
    PROVE  AttendanceRequest(Req(c)) /\ call[c].pc # "free"
<1>1. call[c].pc # "free" BY DEF AttendanceSteps
<1>2. SiteRequest(Req(c)) BY <1>1, RequestOfCall
<1>3. Req(c).kind \in {"checkIn", "checkOut", "correct"} BY DEF AttendanceKinds, AttendanceSteps
<1> QED BY <1>1, <1>2, <1>3 DEF SiteRequest, AccountRequest, TaskRequest, PlanRequest, ExpenseRequest

LEMMA AttendanceOthers ==
    ASSUME HandlersInv, NEW c \in Calls, call[c].pc # "free", AttendanceLeaves(c), raced' = raced,
           NEW d \in Calls, d # c, call'[d] = call[d], AttendanceCall(d)
    PROVE  AttendanceCall(d)'
<1>0. Req(d)' = Req(d) /\ Seen(d)' = Seen(d) /\ \A step : At(d, step)' = At(d, step) BY DEF Req, Seen, At
<1>1. AttendanceKinds(d)' BY <1>0 DEF AttendanceCall, AttendanceKinds
<1>2. CASE At(d, "close")
  <2>1. PICK r, w : r = Seen(d).record /\ w = Req(d).worker OBVIOUS
  <2>2. r \in Records /\ Recorded(r) /\ r[1] = w BY <1>2, <2>1 DEF AttendanceCall
  <2>3. AttendanceRequest(Req(d)) /\ call[d].pc # "free" /\ Req(d).kind = "checkOut"
    BY <1>2, AttendanceCalls DEF AttendanceCall, AttendanceSteps, At, AttendanceKinds
  <2>4. w \in Req(d).on BY <2>1, <2>3 DEF AttendanceRequest
  <2>5. w \notin raced => attendance'[r] = attendance[r]
    BY <2>2, <2>3, <2>4 DEF AttendanceLeaves, HandlersInv, RacedInv, InFlight
  <2>6. attendance'[r] # Null BY <2>2 DEF AttendanceLeaves
  <2> QED BY <1>0, <1>1, <1>2, <2>1, <2>5, <2>6 DEF AttendanceCall, Recorded, At
<1>3. CASE At(d, "rewrite")
  <2>1. PICK r : r = Req(d).record OBVIOUS
  <2>2. AttendanceRequest(Req(d)) /\ call[d].pc # "free" /\ Req(d).kind = "correct"
    BY <1>3, AttendanceCalls DEF AttendanceCall, AttendanceSteps, At, AttendanceKinds
  <2>3. r \in Records /\ r[1] \in Req(d).on BY <2>1, <2>2 DEF AttendanceRequest
  <2>4. Recorded(r) BY <1>3, <2>1 DEF AttendanceCall
  <2>5. r[1] \notin raced => attendance'[r] = attendance[r]
    BY <2>2, <2>3, <2>4 DEF AttendanceLeaves, HandlersInv, RacedInv, InFlight
  <2>6. attendance'[r] # Null BY <2>3, <2>4 DEF AttendanceLeaves
  <2> QED BY <1>0, <1>1, <1>3, <2>1, <2>5, <2>6 DEF AttendanceCall, Recorded, At
<1>4. CASE ~At(d, "close") /\ ~At(d, "rewrite")
  BY <1>0, <1>1, <1>4 DEF AttendanceCall
<1> QED BY <1>2, <1>3, <1>4

LEMMA AttendanceIdle ==
    ASSUME NEW c \in Calls, call'[c].pc \notin AttendanceSteps
    PROVE  AttendanceCall(c)'
BY DEF AttendanceCall, AttendanceKinds, AttendanceSteps, At

LEMMA AttendanceFresh ==
    ASSUME NEW c \in Calls, call'[c].pc = Req(c)'.kind, SiteRequest(Req(c)')
    PROVE  AttendanceCall(c)'
BY DEF AttendanceCall, AttendanceKinds, At, SiteRequest, AccountRequest, TaskRequest, PlanRequest,
       AttendanceRequest, ExpenseRequest

LEMMA AttendanceStays ==
    ASSUME AttendanceInv, attendance' = attendance, correction' = correction, clock' \in Times,
           raced \subseteq raced',
           \A d \in Calls : call'[d] = call[d] \/ AttendanceCall(d)'
    PROVE  AttendanceInv'
<1>1. \A r : Open(r)' = Open(r) /\ Recorded(r)' = Recorded(r) BY DEF Open, Recorded
<1>2. AttendanceTypeOK' BY DEF AttendanceInv, AttendanceData, AttendanceTypeOK
<1>3. SingleOpen' BY <1>1 DEF AttendanceInv, AttendanceData, SingleOpen
<1>4. HoursFollowTimes' BY <1>1 DEF AttendanceInv, AttendanceData, HoursFollowTimes
<1>5. ASSUME NEW d \in Calls, call'[d] = call[d] PROVE AttendanceCall(d)'
  BY <1>5 DEF AttendanceInv, AttendanceCall, AttendanceKinds, Recorded, At, Req, Seen
<1> QED BY <1>2, <1>3, <1>4, <1>5 DEF AttendanceInv, AttendanceData

LEMMA AttendanceAnswers ==
    ASSUME HandlersInv, AttendanceInv, NEW c \in Calls, UNCHANGED attendanceVars, Answer(c)
    PROVE  AttendanceInv'
<1>1. call'[c] = Free /\ raced' = raced /\ \A d \in Calls : d # c => call'[d] = call[d] BY AnswerShape
<1>2. call'[c].pc \notin AttendanceSteps BY <1>1 DEF Free, AttendanceSteps
<1>3. attendance' = attendance /\ correction' = correction /\ clock' \in Times
  BY DEF attendanceVars, AttendanceInv, AttendanceData, AttendanceTypeOK
<1> QED BY <1>1, <1>2, <1>3, AttendanceIdle, AttendanceStays

LEMMA TickKeeps ==
    ASSUME AttendanceInv, Tick
    PROVE  AttendanceInv'
<1>1. clock' \in Times
  BY AttendanceAssumption DEF Tick, Times, AttendanceInv, AttendanceData, AttendanceTypeOK
<1>2. attendance' = attendance /\ correction' = correction /\ raced' = raced /\ call' = call BY DEF Tick, handlers
<1> QED BY <1>1, <1>2, AttendanceStays

\* A write of a record that the request is about, or of a new one: no second record of the
\* worker is opened, and the hours follow the times.
LEMMA SheetWritten ==
    ASSUME HandlersInv, AttendanceInv, NEW c \in Calls, call[c].pc # "free", Answer(c),
           NEW r \in Records, NEW sheet \in Sheets, attendance' = [attendance EXCEPT ![r] = sheet],
           clock' = clock, correction' \in [record: Records, before: Sheets, after: Sheets] \cup {Null},
           Recorded(r) => r[1] \in Req(c).on,
           sheet.out = Null => OpenOf(r[1]) \subseteq {r},
           sheet.out # Null /\ r[1] \notin raced =>
              sheet.hours = HoursOf(sheet.in, sheet.out) /\ sheet.overtime = OvertimeOf(sheet.in, sheet.out)
    PROVE  AttendanceInv'
<1>1. attendance \in [Records -> Sheets \cup {Null}] /\ clock \in Times /\ sheet # Null
  BY AttendanceAssumption DEF AttendanceInv, AttendanceData, AttendanceTypeOK
<1>2. attendance'[r] = sheet /\ \A x \in Records : x # r => attendance'[x] = attendance[x] BY <1>1
<1>3. AttendanceLeaves(c) BY <1>1, <1>2 DEF AttendanceLeaves, Recorded
<1>4. call'[c] = Free /\ raced' = raced /\ \A d \in Calls : d # c => call'[d] = call[d] BY AnswerShape
<1>5. call'[c].pc \notin AttendanceSteps BY <1>4 DEF Free, AttendanceSteps
<1>6. AttendanceCall(c)' BY <1>5, AttendanceIdle
<1>7. \A d \in Calls : d # c => AttendanceCall(d)' BY <1>3, <1>4, AttendanceOthers DEF AttendanceInv
<1>8. AttendanceTypeOK' BY <1>1 DEF AttendanceTypeOK
<1>9. /\ Recorded(r)' /\ (Open(r)' <=> sheet.out = Null)
      /\ \A x \in Records : x # r => (Recorded(x)' <=> Recorded(x)) /\ (Open(x)' <=> Open(x))
  BY <1>1, <1>2 DEF Recorded, Open
<1>10. SingleOpen'
  <2>1. SingleOpen BY DEF AttendanceInv, AttendanceData
  <2>2. \A x \in Records : Open(x) /\ x[1] = r[1] => x \in OpenOf(r[1]) BY DEF OpenOf
  <2> SUFFICES ASSUME NEW x \in Records, NEW y \in Records, Open(x)', Open(y)', x[1] = y[1]
               PROVE  x = y
    BY DEF SingleOpen
  <2>3. CASE x # r /\ y # r BY <1>9, <2>1, <2>3 DEF SingleOpen
  <2>4. CASE x = r \/ y = r
    <3>1. OpenOf(r[1]) \subseteq {r} \/ (x # r /\ y # r) BY <1>9
    <3> QED BY <1>9, <2>2, <2>4, <3>1
  <2> QED BY <2>3, <2>4
<1>11. HoursFollowTimes'
  <2>1. HoursFollowTimes BY DEF AttendanceInv, AttendanceData
  <2> SUFFICES ASSUME NEW x \in Records, ~Open(x)', Recorded(x)', x[1] \notin raced
               PROVE  /\ attendance'[x].hours = HoursOf(attendance'[x].in, attendance'[x].out)
                      /\ attendance'[x].overtime = OvertimeOf(attendance'[x].in, attendance'[x].out)
    BY <1>4 DEF HoursFollowTimes
  <2>2. CASE x = r BY <1>2, <1>9, <2>2
  <2>3. CASE x # r BY <1>2, <1>9, <2>1, <2>3 DEF HoursFollowTimes
  <2> QED BY <2>2, <2>3
<1> QED BY <1>6, <1>7, <1>8, <1>10, <1>11 DEF AttendanceInv, AttendanceData

LEMMA CheckInKeeps ==
    ASSUME HandlersInv, AttendanceInv, NEW c \in Calls, CheckIn(c)
    PROVE  AttendanceInv'
<1>0. call[c].pc = "checkIn" /\ UNCHANGED attendanceVars BY DEF CheckIn, At
<1>1. CASE Answer(c) BY <1>0, <1>1, AttendanceAnswers
<1>2. CASE Goto(c, "insert", [now |-> clock])
  <2>1. /\ call'[c] = [req |-> Req(c), pc |-> "insert", seen |-> [now |-> clock]]
        /\ raced' = raced /\ \A d \in Calls : d # c => call'[d] = call[d]
    BY <1>0, <1>2, GotoShape
  <2>2. AttendanceKinds(c) BY DEF AttendanceInv, AttendanceCall
  <2>3. clock \in Times BY DEF AttendanceInv, AttendanceData, AttendanceTypeOK
  <2>4. AttendanceCall(c)' BY <1>0, <2>1, <2>2, <2>3 DEF AttendanceCall, AttendanceKinds, At, Req, Seen
  <2>5. attendance' = attendance /\ correction' = correction /\ clock' \in Times BY <1>0, <2>3 DEF attendanceVars
  <2> QED BY <2>1, <2>4, <2>5, AttendanceStays
<1> QED BY <1>1, <1>2 DEF CheckIn

LEMMA CheckInInsertKeeps ==
    ASSUME HandlersInv, AttendanceInv, NEW c \in Calls, CheckInInsert(c)
    PROVE  AttendanceInv'
<1>0. call[c].pc = "insert" /\ clock' = clock /\ correction' = correction /\ Answer(c)
  BY DEF CheckInInsert, At
<1>1. CASE attendance' = attendance BY <1>0, <1>1, AttendanceAnswers DEF attendanceVars
<1>2. CASE OpenOf(Req(c).worker) = {} /\ \E r \in NewRecord(Req(c).worker) : OpenAt(c, r)
  <2>1. PICK w : w = Req(c).worker OBVIOUS
  <2>2. PICK r \in NewRecord(w) : OpenAt(c, r) BY <1>2, <2>1
  <2>3. AttendanceKinds(c) /\ Seen(c).now \in Times BY <1>0 DEF AttendanceInv, AttendanceCall, At
  <2>4. w \in Workers
    BY <1>0, <2>1, <2>3, AttendanceCalls DEF AttendanceKinds, AttendanceSteps, AttendanceRequest
  <2>5. r \in Records /\ ~Recorded(r) /\ r[1] = w
    <3>1. PICK n \in 1..MaxRecords : r = <<w, n>> /\ ~Recorded(<<w, n>>) BY <2>2 DEF NewRecord
    <3> QED BY <2>4, <3>1 DEF Records
  <2>6. PICK sheet : sheet = [in |-> Seen(c).now, out |-> Null, hours |-> 0, overtime |-> 0] OBVIOUS
  <2>7. sheet \in Sheets /\ sheet.out = Null BY <2>3, <2>6, TimesAreNumbers DEF Sheets
  <2>8. attendance' = [attendance EXCEPT ![r] = sheet] BY <2>2, <2>6 DEF OpenAt
  <2>9. correction' \in [record: Records, before: Sheets, after: Sheets] \cup {Null}
    BY <1>0 DEF AttendanceInv, AttendanceData, AttendanceTypeOK
  <2>10. OpenOf(r[1]) = {} BY <1>2, <2>1, <2>5
  <2> QED BY <1>0, <2>5, <2>7, <2>8, <2>9, <2>10, SheetWritten
<1> QED BY <1>1, <1>2 DEF CheckInInsert

LEMMA CheckOutKeeps ==
    ASSUME HandlersInv, AttendanceInv, NEW c \in Calls, CheckOut(c)
    PROVE  AttendanceInv'
<1>0. call[c].pc = "checkOut" /\ UNCHANGED attendanceVars BY DEF CheckOut, At
<1>1. CASE Answer(c) BY <1>0, <1>1, AttendanceAnswers
<1>2. CASE ~Answer(c)
  <2>1. PICK w : w = Req(c).worker OBVIOUS
  <2>2. AttendanceKinds(c) BY DEF AttendanceInv, AttendanceCall
  <2>3. w \in Workers /\ Req(c).record \in Records \cup {Null}
    BY <1>0, <2>1, <2>2, AttendanceCalls DEF AttendanceKinds, AttendanceSteps, AttendanceRequest
  <2>4. PICK r : /\ r \in Records /\ Recorded(r) /\ r[1] = w
                 /\ Goto(c, "close", [record |-> r, in |-> attendance[r].in, now |-> clock])
    BY <1>2, <2>1, <2>3 DEF CheckOut, OpenOf, Open
  <2>5. PICK seen : seen = [record |-> r, in |-> attendance[r].in, now |-> clock] OBVIOUS
  <2>6. /\ call'[c] = [req |-> Req(c), pc |-> "close", seen |-> seen]
        /\ raced' = raced /\ \A d \in Calls : d # c => call'[d] = call[d]
    BY <1>0, <2>4, <2>5, GotoShape
  <2>7. clock \in Times /\ attendance[r] \in Sheets /\ attendance' = attendance /\ correction' = correction /\ clock' = clock
    BY <1>0, <2>4 DEF AttendanceInv, AttendanceData, AttendanceTypeOK, Recorded, attendanceVars
  <2>8. Req(c)' = Req(c) /\ Seen(c)' = seen BY <2>6 DEF Req, Seen
  <2>9. AttendanceKinds(c)' BY <1>0, <2>2, <2>6, <2>8 DEF AttendanceKinds
  <2>10. seen.record = r /\ seen.in = attendance[r].in /\ seen.now = clock BY <2>5
  <2>11. Recorded(r)' BY <2>4, <2>7 DEF Recorded
  <2>12. Recorded(Seen(c).record)' BY <2>8, <2>10, <2>11 DEF Recorded
  <2>13. attendance[r].in \in Times BY <2>7 DEF Sheets
  <2>14. AttendanceCall(c)'
    BY <2>1, <2>4, <2>6, <2>7, <2>8, <2>9, <2>10, <2>12, <2>13 DEF AttendanceCall, At
  <2> QED BY <2>6, <2>7, <2>14, AttendanceStays
<1> QED BY <1>1, <1>2

LEMMA CheckOutWriteKeeps ==
    ASSUME HandlersInv, AttendanceInv, NEW c \in Calls, CheckOutWrite(c)
    PROVE  AttendanceInv'
<1>0. call[c].pc = "close" /\ clock' = clock /\ correction' = correction /\ Answer(c)
  BY DEF CheckOutWrite, At
<1>1. PICK r, in, out : r = Seen(c).record /\ in = Seen(c).in /\ out = Seen(c).now OBVIOUS
<1>2. AttendanceCall(c) /\ AttendanceKinds(c) BY DEF AttendanceInv, AttendanceCall
<1>3. /\ r \in Records /\ Recorded(r) /\ r[1] = Req(c).worker /\ in \in Times /\ out \in Times
      /\ Req(c).worker \notin raced => attendance[r].in = in
  BY <1>0, <1>1, <1>2 DEF AttendanceCall, At
<1>4. Req(c).worker \in Req(c).on
  BY <1>0, <1>2, AttendanceCalls DEF AttendanceKinds, AttendanceSteps, AttendanceRequest
<1>5. PICK first : first = [in |-> in, out |-> out, hours |-> 0, overtime |-> 0] OBVIOUS
<1>6. first \in Sheets /\ out # Null
  BY <1>3, <1>5, TimesAreNumbers, AttendanceAssumption DEF Sheets
<1>7. PICK end : end = Timed(first) OBVIOUS
<1>8. /\ end \in Sheets /\ end.in = in /\ end.out = out
      /\ end.hours = HoursOf(in, out) /\ end.overtime = OvertimeOf(in, out)
  BY <1>5, <1>6, <1>7, TimedSheet
<1>9. end = [in |-> end.in, out |-> end.out, hours |-> end.hours, overtime |-> end.overtime] BY <1>8 DEF Sheets
<1>10. PICK start : start = attendance[r].in OBVIOUS
<1>11. start \in Times BY <1>3, <1>10 DEF AttendanceInv, AttendanceData, AttendanceTypeOK, Recorded, Sheets
<1>12. PICK sheet : sheet = [in |-> start, out |-> end.out, hours |-> end.hours, overtime |-> end.overtime] OBVIOUS
<1>13. sheet \in Sheets BY <1>8, <1>11, <1>12 DEF Sheets
<1>14. [end EXCEPT !.in = start] = sheet BY <1>9, <1>12
<1>15. attendance' = [attendance EXCEPT ![r] = sheet]
  BY <1>1, <1>5, <1>7, <1>10, <1>14 DEF CheckOutWrite
<1>16. sheet.out # Null BY <1>6, <1>8, <1>12
<1>17. r[1] \notin raced => sheet.hours = HoursOf(sheet.in, sheet.out) /\ sheet.overtime = OvertimeOf(sheet.in, sheet.out)
  BY <1>3, <1>8, <1>10, <1>12
<1>18. correction' \in [record: Records, before: Sheets, after: Sheets] \cup {Null}
  BY <1>0 DEF AttendanceInv, AttendanceData, AttendanceTypeOK
<1> QED BY <1>0, <1>3, <1>4, <1>13, <1>15, <1>16, <1>17, <1>18, SheetWritten

LEMMA CorrectKeeps ==
    ASSUME HandlersInv, AttendanceInv, NEW c \in Calls, Correct(c)
    PROVE  AttendanceInv'
<1>0. call[c].pc = "correct" /\ UNCHANGED attendanceVars BY DEF Correct, At
<1>1. CASE Answer(c) BY <1>0, <1>1, AttendanceAnswers
<1>2. PICK r : r = Req(c).record OBVIOUS
<1>3. CASE Recorded(r) /\ Goto(c, "rewrite", attendance[r])
  <2>1. AttendanceKinds(c) BY DEF AttendanceInv, AttendanceCall
  <2>2. r \in Records
    BY <1>0, <1>2, <2>1, AttendanceCalls DEF AttendanceKinds, AttendanceSteps, AttendanceRequest
  <2>3. PICK seen \in Sheets : seen = attendance[r]
    BY <1>3, <2>2 DEF AttendanceInv, AttendanceData, AttendanceTypeOK, Recorded
  <2>4. /\ call'[c] = [req |-> Req(c), pc |-> "rewrite", seen |-> seen]
        /\ raced' = raced /\ \A d \in Calls : d # c => call'[d] = call[d]
    BY <1>0, <1>3, <2>3, GotoShape
  <2>5. Req(c)' = Req(c) /\ Seen(c)' = seen BY <2>4 DEF Req, Seen
  <2>6. AttendanceKinds(c)' BY <1>0, <2>1, <2>4, <2>5 DEF AttendanceKinds
  <2>7. attendance' = attendance /\ correction' = correction /\ clock' \in Times
    BY <1>0 DEF attendanceVars, AttendanceInv, AttendanceData, AttendanceTypeOK
  <2>8. Recorded(Req(c).record)' BY <1>2, <1>3, <2>5, <2>7 DEF Recorded
  <2>9. AttendanceCall(c)' BY <1>2, <2>3, <2>4, <2>5, <2>6, <2>7, <2>8 DEF AttendanceCall, At
  <2> QED BY <2>4, <2>7, <2>9, AttendanceStays
<1> QED BY <1>1, <1>2, <1>3 DEF Correct

\* The columns of a record after a patch.
LEMMA PatchedSheet ==
    ASSUME NEW sheet \in Sheets, NEW patch,
           "in" \in DOMAIN patch => patch["in"] \in Times,
           "out" \in DOMAIN patch => patch["out"] \in Times \cup {Null},
           "hours" \in DOMAIN patch => patch["hours"] \in Times,
           "overtime" \in DOMAIN patch => patch["overtime"] \in Times
    PROVE  /\ Patched(sheet, patch) \in Sheets
           /\ Patched(sheet, patch).in = IF "in" \in DOMAIN patch THEN patch["in"] ELSE sheet.in
           /\ Patched(sheet, patch).out = IF "out" \in DOMAIN patch THEN patch["out"] ELSE sheet.out
           /\ Patched(sheet, patch).hours = IF "hours" \in DOMAIN patch THEN patch["hours"] ELSE sheet.hours
           /\ Patched(sheet, patch).overtime = IF "overtime" \in DOMAIN patch THEN patch["overtime"] ELSE sheet.overtime
<1>1. DOMAIN sheet = {"in", "out", "hours", "overtime"} BY DEF Sheets
<1>2. PICK new : new = [f \in {"in", "out", "hours", "overtime"} |-> IF f \in DOMAIN patch THEN patch[f] ELSE sheet[f]]
  OBVIOUS
<1>3. Patched(sheet, patch) = new BY <1>1, <1>2 DEF Patched
<1>4. /\ new.in = IF "in" \in DOMAIN patch THEN patch["in"] ELSE sheet.in
      /\ new.out = IF "out" \in DOMAIN patch THEN patch["out"] ELSE sheet.out
      /\ new.hours = IF "hours" \in DOMAIN patch THEN patch["hours"] ELSE sheet.hours
      /\ new.overtime = IF "overtime" \in DOMAIN patch THEN patch["overtime"] ELSE sheet.overtime
  BY <1>2
<1>5. /\ sheet.in \in Times /\ sheet.out \in Times \cup {Null}
      /\ sheet.hours \in Times /\ sheet.overtime \in Times
  BY DEF Sheets
<1>6. /\ new.in \in Times /\ new.out \in Times \cup {Null}
      /\ new.hours \in Times /\ new.overtime \in Times
  BY <1>4, <1>5
<1>7. new = [in |-> new.in, out |-> new.out, hours |-> new.hours, overtime |-> new.overtime] BY <1>2
<1>8. new \in Sheets BY <1>6, <1>7 DEF Sheets
<1> QED BY <1>3, <1>4, <1>8

\* What a correction that is written makes of the record it is about.
LEMMA Corrected ==
    ASSUME HandlersInv, AttendanceInv, NEW c \in Calls, CorrectWrite(c), attendance' # attendance \/ correction' # correction
    PROVE  \E r \in Records : \E sheet \in Sheets :
              /\ Answer(c) /\ call[c].pc # "free" /\ clock' = clock
              /\ attendance' = [attendance EXCEPT ![r] = sheet]
              /\ correction' = [record |-> r, before |-> Seen(c), after |-> sheet]
              /\ r[1] \in Req(c).on /\ Seen(c) \in Sheets
              /\ r[1] \notin raced => attendance[r] = Seen(c)
              /\ sheet.out = Null => OpenOf(r[1]) \subseteq {r}
              /\ sheet.out # Null /\ r[1] \notin raced =>
                    sheet.hours = HoursOf(sheet.in, sheet.out) /\ sheet.overtime = OvertimeOf(sheet.in, sheet.out)
<1>0. call[c].pc = "rewrite" /\ clock' = clock /\ Answer(c) BY DEF CorrectWrite, At
<1>1. AttendanceCall(c) /\ AttendanceKinds(c) BY DEF AttendanceInv, AttendanceCall
<1>2. PICK r, seen, patch : r = Req(c).record /\ seen = Seen(c) /\ patch = Req(c).patch OBVIOUS
<1>3. /\ r \in Records /\ r[1] \in Req(c).on
      /\ "hours" \notin DOMAIN patch /\ "overtime" \notin DOMAIN patch
      /\ "in" \in DOMAIN patch => patch["in"] \in Times
      /\ "out" \in DOMAIN patch => patch["out"] \in Times \cup {Null}
  BY <1>0, <1>1, <1>2, AttendanceCalls DEF AttendanceKinds, AttendanceSteps, AttendanceRequest
<1>4. Recorded(r) /\ seen \in Sheets /\ (r[1] \notin raced => attendance[r] = seen)
  BY <1>0, <1>1, <1>2 DEF AttendanceCall, At
<1>5. PICK old \in Sheets : old = attendance[r]
  BY <1>3, <1>4 DEF AttendanceInv, AttendanceData, AttendanceTypeOK, Recorded
<1>6. PICK want : want = Patched(seen, patch) OBVIOUS
<1>7. /\ want \in Sheets
      /\ want.in = IF "in" \in DOMAIN patch THEN patch["in"] ELSE seen.in
      /\ want.out = IF "out" \in DOMAIN patch THEN patch["out"] ELSE seen.out
      /\ want.hours = seen.hours /\ want.overtime = seen.overtime
  BY <1>3, <1>4, <1>6, PatchedSheet
<1>8. PICK timed : timed = Timed(want) OBVIOUS
<1>9. /\ timed \in Sheets /\ timed.in = want.in /\ timed.out = want.out
      /\ want.out # Null => timed.hours = HoursOf(want.in, want.out) /\ timed.overtime = OvertimeOf(want.in, want.out)
  BY <1>7, <1>8, TimedSheet
<1>10. PICK hours : hours = IF Retimed(patch) /\ want.out # Null THEN {"hours", "overtime"} ELSE {} OBVIOUS
<1>11. DOMAIN want = {"in", "out", "hours", "overtime"} BY <1>7 DEF Sheets
<1>12. PICK row : row = [f \in (DOMAIN patch \cap DOMAIN want) \cup hours |-> timed[f]] OBVIOUS
<1>13. Rewrite(c) = row BY <1>2, <1>6, <1>8, <1>10, <1>12 DEF Rewrite
<1>14. DOMAIN row = (DOMAIN patch \cap {"in", "out"}) \cup hours BY <1>3, <1>11, <1>12
<1>15. /\ "in" \in DOMAIN row <=> "in" \in DOMAIN patch
       /\ "out" \in DOMAIN row <=> "out" \in DOMAIN patch
       /\ "hours" \in DOMAIN row <=> hours # {}
       /\ "overtime" \in DOMAIN row <=> hours # {}
  BY <1>3, <1>10, <1>14
<1>16. \A f \in DOMAIN row : row[f] = timed[f] BY <1>12
<1>17. /\ timed.in \in Times /\ timed.out \in Times \cup {Null}
       /\ timed.hours \in Times /\ timed.overtime \in Times
  BY <1>9 DEF Sheets
<1>18. PICK sheet : sheet = Patched(old, row) OBVIOUS
<1>19. /\ sheet \in Sheets
       /\ sheet.in = IF "in" \in DOMAIN patch THEN timed.in ELSE old.in
       /\ sheet.out = IF "out" \in DOMAIN patch THEN timed.out ELSE old.out
       /\ sheet.hours = IF hours # {} THEN timed.hours ELSE old.hours
       /\ sheet.overtime = IF hours # {} THEN timed.overtime ELSE old.overtime
  BY <1>15, <1>16, <1>17, <1>18, PatchedSheet
<1>20. /\ sheet.out # Null \/ OpenOf(r[1]) \subseteq {r}
       /\ attendance' = [attendance EXCEPT ![r] = sheet]
       /\ correction' = [record |-> r, before |-> seen, after |-> sheet]
  BY <1>2, <1>5, <1>13, <1>18 DEF CorrectWrite
<1>21. ASSUME sheet.out # Null, r[1] \notin raced
       PROVE  sheet.hours = HoursOf(sheet.in, sheet.out) /\ sheet.overtime = OvertimeOf(sheet.in, sheet.out)
  <2>1. old = seen /\ sheet.in = want.in /\ sheet.out = want.out BY <1>4, <1>5, <1>7, <1>9, <1>19, <1>21
  <2>2. CASE Retimed(patch)
    <3>1. hours # {} BY <1>10, <1>21, <2>1, <2>2
    <3> QED BY <1>9, <1>19, <1>21, <2>1, <3>1
  <2>3. CASE ~Retimed(patch)
    <3>1. hours = {} /\ sheet.hours = old.hours /\ sheet.overtime = old.overtime BY <1>10, <1>19, <2>3
    <3>2. sheet.in = old.in /\ sheet.out = old.out BY <1>19, <2>3 DEF Retimed
    <3>3. ~Open(r) BY <1>5, <1>21, <3>2 DEF Open
    <3>4. old.hours = HoursOf(old.in, old.out) /\ old.overtime = OvertimeOf(old.in, old.out)
      BY <1>3, <1>4, <1>5, <1>21, <3>3 DEF AttendanceInv, AttendanceData, HoursFollowTimes
    <3> QED BY <3>1, <3>2, <3>4
  <2> QED BY <2>2, <2>3
<1> QED BY <1>0, <1>2, <1>3, <1>4, <1>19, <1>20, <1>21

LEMMA CorrectWriteKeeps ==
    ASSUME HandlersInv, AttendanceInv, NEW c \in Calls, CorrectWrite(c)
    PROVE  AttendanceInv'
<1>1. CASE attendance' = attendance /\ correction' = correction
  BY <1>1, AttendanceAnswers DEF CorrectWrite, attendanceVars
<1>2. CASE attendance' # attendance \/ correction' # correction
  <2>1. PICK r \in Records : \E sheet \in Sheets :
              /\ Answer(c) /\ call[c].pc # "free" /\ clock' = clock
              /\ attendance' = [attendance EXCEPT ![r] = sheet]
              /\ correction' = [record |-> r, before |-> Seen(c), after |-> sheet]
              /\ r[1] \in Req(c).on /\ Seen(c) \in Sheets
              /\ sheet.out = Null => OpenOf(r[1]) \subseteq {r}
              /\ sheet.out # Null /\ r[1] \notin raced =>
                    sheet.hours = HoursOf(sheet.in, sheet.out) /\ sheet.overtime = OvertimeOf(sheet.in, sheet.out)
    BY <1>2, Corrected
  <2>2. PICK sheet \in Sheets :
              /\ Answer(c) /\ call[c].pc # "free" /\ clock' = clock
              /\ attendance' = [attendance EXCEPT ![r] = sheet]
              /\ correction' = [record |-> r, before |-> Seen(c), after |-> sheet]
              /\ r[1] \in Req(c).on /\ Seen(c) \in Sheets
              /\ sheet.out = Null => OpenOf(r[1]) \subseteq {r}
              /\ sheet.out # Null /\ r[1] \notin raced =>
                    sheet.hours = HoursOf(sheet.in, sheet.out) /\ sheet.overtime = OvertimeOf(sheet.in, sheet.out)
    BY <2>1
  <2>3. correction' \in [record: Records, before: Sheets, after: Sheets] \cup {Null} BY <2>2
  <2> QED BY <2>2, <2>3, SheetWritten
<1> QED BY <1>1, <1>2

LEMMA AttendanceStepKeepsAttendance ==
    ASSUME HandlersInv, AttendanceInv, NEW c \in Calls, AttendanceStep(c)
    PROVE  AttendanceInv'
BY CheckInKeeps, CheckInInsertKeeps, CheckOutKeeps, CheckOutWriteKeeps, CorrectKeeps, CorrectWriteKeeps
   DEF AttendanceStep

\* What a correction says of the record.
LEMMA CorrectionStep ==
    ASSUME HandlersInv, AttendanceInv, NEW c \in Calls, AttendanceStep(c), correction' # correction
    PROVE  LET k == correction'
           IN  /\ k.after = attendance'[k.record]
               /\ k.record[1] \notin raced => k.before = attendance[k.record]
<1>1. CorrectWrite(c)
  BY DEF AttendanceStep, attendanceVars, CheckIn, CheckInInsert, CheckOut, CheckOutWrite, Correct
<1>2. PICK r \in Records : \E sheet \in Sheets :
              /\ attendance' = [attendance EXCEPT ![r] = sheet]
              /\ correction' = [record |-> r, before |-> Seen(c), after |-> sheet]
              /\ r[1] \notin raced => attendance[r] = Seen(c)
  BY <1>1, Corrected
<1>3. attendance \in [Records -> Sheets \cup {Null}] BY DEF AttendanceInv, AttendanceData, AttendanceTypeOK
<1> QED BY <1>2, <1>3

----------------------------------------------------------------------------
(* Expenses. *)

ExpenseKinds(c) ==
    /\ At(c, "submit") => Req(c).kind = "submit"
    /\ call[c].pc \in {"review", "decide", "approve"} => Req(c).kind = "review"

ExpenseCall(c) ==
    /\ ExpenseKinds(c)
    /\ call[c].pc \in {"decide", "approve"} =>
          /\ Submitted(Req(c).bill)
          /\ Req(c).bill \notin raced => /\ expenses[Req(c).bill].by # Req(c).user
                                         /\ expenses[Req(c).bill].status \notin {"APPROVED", "REIMBURSED"}

\* What DecisionsStand says of a decision on an expense; and the expense is there.
Stands(b, i) ==
    /\ Submitted(b)
    /\ LaterOn(b, i) = {} => expenses[b].status = approvals[i].status
    /\ b \notin raced => /\ approvals[i].status = "APPROVED" => LaterOn(b, i) = {}
                         /\ approvals[i].by # expenses[b].by

ExpenseData ==
    /\ ExpensesTypeOK
    /\ \A b \in Bills : \A i \in DOMAIN approvals : approvals[i].bill = b => Stands(b, i)

ExpenseInv == ExpenseData /\ \A c \in Calls : ExpenseCall(c)

\* No expense goes away, and a step that is not about an expense leaves it.
ExpenseLeaves(c) ==
    \A b \in Bills : Submitted(b) =>
        /\ expenses'[b] # Null
        /\ b \notin Req(c).on => expenses'[b] = expenses[b]

LEMMA ExpenseCalls ==
    ASSUME HandlersInv, NEW c \in Calls, ExpenseKinds(c), call[c].pc \in ExpenseSteps
    PROVE  ExpenseRequest(Req(c)) /\ call[c].pc # "free"
<1>1. call[c].pc # "free" BY DEF ExpenseSteps
<1>2. SiteRequest(Req(c)) BY <1>1, RequestOfCall
<1>3. Req(c).kind \in {"submit", "review"} BY DEF ExpenseKinds, ExpenseSteps, At
<1> QED BY <1>1, <1>2, <1>3 DEF SiteRequest, AccountRequest, TaskRequest, PlanRequest, AttendanceRequest

\* A review is about its expense.
LEMMA BillOfCall ==
    ASSUME HandlersInv, NEW c \in Calls, ExpenseKinds(c), call[c].pc \in {"review", "decide", "approve"}
    PROVE  /\ Req(c).bill \in Bills /\ Req(c).bill \in Req(c).on /\ call[c].pc # "free"
           /\ Req(c).user \in Staff /\ Req(c).status \in {"APPROVED", "REJECTED"}
<1>1. ExpenseRequest(Req(c)) /\ call[c].pc # "free" BY ExpenseCalls DEF ExpenseSteps
<1>2. Req(c).kind = "review" BY DEF ExpenseKinds
<1> QED BY <1>1, <1>2 DEF ExpenseRequest

LEMMA ExpenseOthers ==
    ASSUME HandlersInv, NEW c \in Calls, call[c].pc # "free", ExpenseLeaves(c), raced' = raced,
           NEW d \in Calls, d # c, call'[d] = call[d], ExpenseCall(d)
    PROVE  ExpenseCall(d)'
<1>0. Req(d)' = Req(d) /\ \A step : At(d, step)' = At(d, step) BY DEF Req, At
<1>1. ExpenseKinds(d)' BY <1>0 DEF ExpenseCall, ExpenseKinds
<1>2. CASE call[d].pc \in {"decide", "approve"}
  <2>1. PICK b : b = Req(d).bill OBVIOUS
  <2>2. b \in Bills /\ b \in Req(d).on /\ call[d].pc # "free" /\ Submitted(b)
    BY <1>2, <2>1, BillOfCall DEF ExpenseCall
  <2>3. b \notin raced => expenses'[b] = expenses[b]
    BY <2>2 DEF ExpenseLeaves, HandlersInv, RacedInv, InFlight
  <2>4. expenses'[b] # Null BY <2>2 DEF ExpenseLeaves
  <2> QED BY <1>0, <1>1, <2>1, <2>3, <2>4 DEF ExpenseCall, Submitted
<1>3. CASE call[d].pc \notin {"decide", "approve"} BY <1>1, <1>3 DEF ExpenseCall
<1> QED BY <1>2, <1>3

LEMMA ExpenseIdle ==
    ASSUME NEW c \in Calls, call'[c].pc \notin ExpenseSteps
    PROVE  ExpenseCall(c)'
BY DEF ExpenseCall, ExpenseKinds, ExpenseSteps, At

LEMMA ExpenseFresh ==
    ASSUME NEW c \in Calls, call'[c].pc = Req(c)'.kind, SiteRequest(Req(c)')
    PROVE  ExpenseCall(c)'
BY DEF ExpenseCall, ExpenseKinds, At, SiteRequest, AccountRequest, TaskRequest, PlanRequest,
       AttendanceRequest, ExpenseRequest

LEMMA ExpenseStays ==
    ASSUME ExpenseInv, expenses' = expenses, approvals' = approvals, holder' \in [Bills -> Calls \cup {Null}],
           raced \subseteq raced',
           \A d \in Calls : call'[d] = call[d] \/ ExpenseCall(d)'
    PROVE  ExpenseInv'
<1>1. ExpensesTypeOK' BY DEF ExpenseInv, ExpenseData, ExpensesTypeOK
<1>2. \A b \in Bills : \A i \in DOMAIN approvals' : approvals'[i].bill = b => Stands(b, i)'
  BY DEF ExpenseInv, ExpenseData, Stands, Submitted, LaterOn
<1>3. ASSUME NEW d \in Calls, call'[d] = call[d] PROVE ExpenseCall(d)'
  BY <1>3 DEF ExpenseInv, ExpenseCall, ExpenseKinds, Submitted, At, Req
<1> QED BY <1>1, <1>2, <1>3 DEF ExpenseInv, ExpenseData

LEMMA ExpenseAnswers ==
    ASSUME HandlersInv, ExpenseInv, NEW c \in Calls, expenses' = expenses, approvals' = approvals,
           holder' \in [Bills -> Calls \cup {Null}], Answer(c)
    PROVE  ExpenseInv'
<1>1. call'[c] = Free /\ raced' = raced /\ \A d \in Calls : d # c => call'[d] = call[d] BY AnswerShape
<1>2. call'[c].pc \notin ExpenseSteps BY <1>1 DEF Free, ExpenseSteps
<1> QED BY <1>1, <1>2, ExpenseIdle, ExpenseStays

LEMMA DropKeepsExpenses ==
    ASSUME HandlersInv, ExpenseInv, NEW c \in Calls, DropExpense(c)
    PROVE  ExpenseInv'
<1>1. holder' \in [Bills -> Calls \cup {Null}]
  BY DEF DropExpense, ExpenseInv, ExpenseData, ExpensesTypeOK
<1> QED BY <1>1, ExpenseAnswers DEF DropExpense, Drop

\* A write of an expense after which the decisions stand.
LEMMA ExpenseWritten ==
    ASSUME HandlersInv, ExpenseInv, NEW c \in Calls, call[c].pc # "free", Answer(c),
           ExpenseLeaves(c), ExpenseData'
    PROVE  ExpenseInv'
<1>1. call'[c] = Free /\ raced' = raced /\ \A d \in Calls : d # c => call'[d] = call[d] BY AnswerShape
<1>2. call'[c].pc \notin ExpenseSteps BY <1>1 DEF Free, ExpenseSteps
<1>3. ExpenseCall(c)' BY <1>2, ExpenseIdle
<1>4. \A d \in Calls : d # c => ExpenseCall(d)' BY <1>1, ExpenseOthers DEF ExpenseInv
<1> QED BY <1>3, <1>4 DEF ExpenseInv

LEMMA SubmitKeeps ==
    ASSUME HandlersInv, ExpenseInv, NEW c \in Calls, SubmitExpense(c)
    PROVE  ExpenseInv'
<1>0. call[c].pc = "submit" /\ Answer(c) /\ approvals' = approvals /\ holder' = holder
  BY DEF SubmitExpense, At, expenseVars
<1>1. holder' \in [Bills -> Calls \cup {Null}] BY <1>0 DEF ExpenseInv, ExpenseData, ExpensesTypeOK
<1>2. CASE expenses' = expenses BY <1>0, <1>1, <1>2, ExpenseAnswers
<1>3. CASE expenses' # expenses
  <2>1. PICK b \in Bills :
           /\ ~Submitted(b)
           /\ expenses' = [expenses EXCEPT ![b] = [by |-> Req(c).user, key |-> Req(c).key, status |-> "SUBMITTED"]]
    BY <1>3 DEF SubmitExpense
  <2>2. PICK row : row = [by |-> Req(c).user, key |-> Req(c).key, status |-> "SUBMITTED"] OBVIOUS
  <2>3. ExpenseKinds(c) /\ Req(c).kind = "submit" BY <1>0 DEF ExpenseInv, ExpenseCall, ExpenseKinds, At
  <2>4. ExpenseRequest(Req(c)) BY <1>0, <2>3, ExpenseCalls DEF ExpenseSteps
  <2>5. row \in ExpenseRows BY <2>2, <2>3, <2>4 DEF ExpenseRequest, ExpenseRows, ExpenseStatuses
  <2>6. expenses \in [Bills -> ExpenseRows \cup {Null}] /\ row # Null
    BY <2>5, ExpensesAssumption DEF ExpenseInv, ExpenseData, ExpensesTypeOK
  <2>7. expenses' = [expenses EXCEPT ![b] = row] BY <2>1, <2>2
  <2>8. \A x \in Bills : Submitted(x) => expenses'[x] = expenses[x] /\ Submitted(x)'
    BY <2>1, <2>6, <2>7 DEF Submitted
  <2>9. ExpenseLeaves(c) BY <2>8 DEF ExpenseLeaves, Submitted
  <2>10. raced' = raced BY <1>0, AnswerShape
  <2>11. ASSUME NEW x \in Bills, NEW i \in DOMAIN approvals', approvals'[i].bill = x
         PROVE  Stands(x, i)'
    <3>1. Stands(x, i) BY <1>0, <2>11 DEF ExpenseInv, ExpenseData
    <3>2. expenses'[x] = expenses[x] /\ Submitted(x)' BY <2>8, <3>1 DEF Stands
    <3>3. LaterOn(x, i)' = LaterOn(x, i) BY <1>0 DEF LaterOn
    <3> QED BY <1>0, <2>10, <3>1, <3>2, <3>3 DEF Stands
  <2>12. ExpensesTypeOK' BY <1>0, <2>5, <2>6, <2>7 DEF ExpenseInv, ExpenseData, ExpensesTypeOK
  <2> QED BY <1>0, <2>9, <2>11, <2>12, ExpenseWritten DEF ExpenseData
<1> QED BY <1>2, <1>3

LEMMA ExpenseGoes ==
    ASSUME HandlersInv, ExpenseInv, NEW c \in Calls, expenses' = expenses, approvals' = approvals,
           holder' \in [Bills -> Calls \cup {Null}],
           NEW from, NEW step, At(c, from), Goto(c, step, Null),
           <<from, step>> \in {<<"review", "decide">>, <<"decide", "approve">>},
           Submitted(Req(c).bill),
           Req(c).bill \notin raced => /\ expenses[Req(c).bill].by # Req(c).user
                                       /\ expenses[Req(c).bill].status \notin {"APPROVED", "REIMBURSED"}
    PROVE  ExpenseInv'
<1>1. call[c].pc = from /\ from # "free" /\ step # "free" BY DEF At
<1>2. /\ call'[c] = [req |-> Req(c), pc |-> step, seen |-> Null]
      /\ raced' = raced /\ \A d \in Calls : d # c => call'[d] = call[d]
  BY <1>1, GotoShape
<1>3. ExpenseKinds(c) BY DEF ExpenseInv, ExpenseCall
<1>4. Req(c)' = Req(c) BY <1>2 DEF Req
<1>5. ExpenseKinds(c)' BY <1>1, <1>2, <1>3, <1>4 DEF ExpenseKinds, At
<1>6. ExpenseCall(c)' BY <1>2, <1>4, <1>5 DEF ExpenseCall, Submitted
<1> QED BY <1>2, <1>6, ExpenseStays

LEMMA ReviewKeeps ==
    ASSUME HandlersInv, ExpenseInv, NEW c \in Calls, ReviewExpense(c)
    PROVE  ExpenseInv'
<1>1. expenses' = expenses /\ approvals' = approvals /\ holder' = holder /\ At(c, "review")
  BY DEF ReviewExpense, expenseVars
<1>2. holder' \in [Bills -> Calls \cup {Null}] BY <1>1 DEF ExpenseInv, ExpenseData, ExpensesTypeOK
<1>3. CASE Answer(c) BY <1>1, <1>2, <1>3, ExpenseAnswers
<1>4. CASE /\ Submitted(Req(c).bill) /\ expenses[Req(c).bill].by # Req(c).user
           /\ expenses[Req(c).bill].status \notin {"APPROVED", "REIMBURSED"} /\ Goto(c, "decide", Null)
  BY <1>1, <1>2, <1>4, ExpenseGoes
<1> QED BY <1>3, <1>4 DEF ReviewExpense

LEMMA DecideKeeps ==
    ASSUME HandlersInv, ExpenseInv, NEW c \in Calls, Decide(c)
    PROVE  ExpenseInv'
<1>1. expenses' = expenses /\ approvals' = approvals /\ At(c, "decide") /\ Goto(c, "approve", Null)
  BY DEF Decide
<1>2. holder' \in [Bills -> Calls \cup {Null}] BY DEF Decide, ExpenseInv, ExpenseData, ExpensesTypeOK
<1>3. /\ Submitted(Req(c).bill)
      /\ Req(c).bill \notin raced => /\ expenses[Req(c).bill].by # Req(c).user
                                     /\ expenses[Req(c).bill].status \notin {"APPROVED", "REIMBURSED"}
  BY <1>1 DEF ExpenseInv, ExpenseCall, At
<1> QED BY <1>1, <1>2, <1>3, ExpenseGoes

\* The decision becomes the last one on its expense; if no other review overlapped, none
\* before it was an approval.
LEMMA ApproveKeeps ==
    ASSUME HandlersInv, ExpenseInv, NEW c \in Calls, Approve(c)
    PROVE  ExpenseInv'
<1>0. call[c].pc = "approve" /\ Answer(c) BY DEF Approve, At
<1>1. PICK b, by, status : b = Req(c).bill /\ by = Req(c).user /\ status = Req(c).status OBVIOUS
<1>2. ExpenseCall(c) /\ ExpenseKinds(c) BY DEF ExpenseInv, ExpenseCall
<1>3. b \in Bills /\ b \in Req(c).on /\ by \in Staff /\ status \in {"APPROVED", "REJECTED"} /\ call[c].pc # "free"
  BY <1>0, <1>1, <1>2, BillOfCall
<1>4. Submitted(b) /\ (b \notin raced => expenses[b].by # by /\ expenses[b].status \notin {"APPROVED", "REIMBURSED"})
  BY <1>0, <1>1, <1>2 DEF ExpenseCall
<1>5. PICK old \in ExpenseRows : old = expenses[b]
  BY <1>3, <1>4 DEF ExpenseInv, ExpenseData, ExpensesTypeOK, Submitted
<1>6. old = [by |-> old.by, key |-> old.key, status |-> old.status] BY DEF ExpenseRows
<1>7. PICK row : row = [by |-> old.by, key |-> old.key, status |-> status] OBVIOUS
<1>8. row \in ExpenseRows BY <1>3, <1>7 DEF ExpenseRows, ExpenseStatuses
<1>9. [old EXCEPT !.status = status] = row BY <1>6, <1>7
<1>10. expenses' = [expenses EXCEPT ![b] = row] BY <1>1, <1>5, <1>9 DEF Approve
<1>11. expenses \in [Bills -> ExpenseRows \cup {Null}] /\ row # Null
  BY <1>8, ExpensesAssumption DEF ExpenseInv, ExpenseData, ExpensesTypeOK
<1>12. expenses'[b] = row /\ \A x \in Bills : x # b => expenses'[x] = expenses[x] BY <1>3, <1>10, <1>11
<1>13. ExpenseLeaves(c) BY <1>3, <1>11, <1>12 DEF ExpenseLeaves, Submitted
<1>14. raced' = raced BY <1>0, AnswerShape
<1>15. PICK decision : decision = [bill |-> b, by |-> by, status |-> status] OBVIOUS
<1>16. decision \in [bill: Bills, by: Staff, status: ExpenseStatuses] BY <1>3, <1>15 DEF ExpenseStatuses
<1>17. approvals \in Seq([bill: Bills, by: Staff, status: ExpenseStatuses]) BY DEF ExpenseInv, ExpenseData, ExpensesTypeOK
<1>18. approvals' = Append(approvals, decision) BY <1>1, <1>15 DEF Approve
<1>19. PICK n : n = Len(approvals) + 1 OBVIOUS
<1>20. /\ DOMAIN approvals = 1..(n - 1) /\ DOMAIN approvals' = 1..n /\ n \in Nat \ {0}
       /\ approvals'[n] = decision /\ \A i \in 1..(n - 1) : approvals'[i] = approvals[i]
  BY <1>16, <1>17, <1>18, <1>19
<1>21. LaterOn(b, n)' = {} BY <1>20 DEF LaterOn
<1>22. \A i \in 1..(n - 1) : n \in LaterOn(b, i)' BY <1>15, <1>20 DEF LaterOn
<1>23. \A i \in 1..(n - 1) : \A x : x # b => LaterOn(x, i)' = LaterOn(x, i)
  BY <1>15, <1>20 DEF LaterOn
<1>24. ASSUME NEW x \in Bills, NEW i \in DOMAIN approvals', approvals'[i].bill = x
       PROVE  Stands(x, i)'
  <2>1. CASE i = n
    <3>1. x = b /\ approvals'[i].by = by /\ approvals'[i].status = status BY <1>15, <1>20, <1>24, <2>1
    <3>2. LaterOn(x, i)' = {} BY <1>21, <2>1, <3>1
    <3>3. expenses'[x].status = status /\ expenses'[x].by = old.by /\ expenses'[x] # Null
      BY <1>7, <1>11, <1>12, <3>1
    <3> QED BY <1>4, <1>5, <1>14, <3>1, <3>2, <3>3 DEF Stands, Submitted
  <2>2. CASE i # n
    <3>1. i \in 1..(n - 1) /\ i \in DOMAIN approvals /\ approvals'[i] = approvals[i] BY <1>20, <2>2
    <3>2. Stands(x, i) BY <1>24, <3>1 DEF ExpenseInv, ExpenseData
    <3>3. CASE x = b
      <4>1. LaterOn(x, i)' # {} BY <1>22, <3>1, <3>3
      <4>2. x \notin raced => approvals[i].status # "APPROVED" BY <1>4, <3>2, <3>3 DEF Stands
      <4>3. expenses'[x] # Null /\ expenses'[x].by = expenses[x].by BY <1>5, <1>7, <1>11, <1>12, <3>3
      <4> QED BY <1>14, <3>1, <3>2, <4>1, <4>2, <4>3 DEF Stands, Submitted
    <3>4. CASE x # b
      <4>1. LaterOn(x, i)' = LaterOn(x, i) BY <1>23, <3>1, <3>4
      <4>2. expenses'[x] = expenses[x] BY <1>12, <3>4
      <4> QED BY <1>14, <3>1, <3>2, <4>1, <4>2 DEF Stands, Submitted
    <3> QED BY <3>3, <3>4
  <2> QED BY <2>1, <2>2
<1>25. ExpensesTypeOK'
  <2>1. holder' \in [Bills -> Calls \cup {Null}] BY <1>3 DEF Approve, ExpenseInv, ExpenseData, ExpensesTypeOK
  <2>2. approvals' \in Seq([bill: Bills, by: Staff, status: ExpenseStatuses]) BY <1>16, <1>17, <1>18
  <2>3. expenses' \in [Bills -> ExpenseRows \cup {Null}] BY <1>8, <1>10, <1>11
  <2> QED BY <2>1, <2>2, <2>3 DEF ExpensesTypeOK
<1> QED BY <1>0, <1>3, <1>13, <1>24, <1>25, ExpenseWritten DEF ExpenseData

LEMMA ExpensesStepKeepsExpenses ==
    ASSUME HandlersInv, ExpenseInv, NEW c \in Calls, ExpensesStep(c)
    PROVE  ExpenseInv'
BY SubmitKeeps, ReviewKeeps, DecideKeeps, ApproveKeeps DEF ExpensesStep

LEMMA DecisionsStandBy ==
    ASSUME ExpenseData
    PROVE  DecisionsStand
<1> SUFFICES ASSUME NEW i \in DOMAIN approvals
             PROVE  LET a == approvals[i]  b == a.bill
                    IN  /\ LaterOn(b, i) = {} => expenses[b].status = a.status
                        /\ b \notin raced => /\ a.status = "APPROVED" => LaterOn(b, i) = {}
                                             /\ a.by # expenses[b].by
  BY DEF DecisionsStand
<1>1. approvals[i] \in [bill: Bills, by: Staff, status: ExpenseStatuses]
  <2>1. PICK D : D = [bill: Bills, by: Staff, status: ExpenseStatuses] OBVIOUS
  <2>2. approvals \in Seq(D) BY <2>1 DEF ExpenseData, ExpensesTypeOK
  <2>3. approvals[i] \in D BY <2>2
  <2> QED BY <2>1, <2>3
<1>2. PICK b \in Bills : b = approvals[i].bill BY <1>1
<1>3. Stands(b, i) BY <1>2 DEF ExpenseData
<1> QED BY <1>2, <1>3 DEF Stands

----------------------------------------------------------------------------
(* All components together. *)

Inv ==
    /\ HandlersInv
    /\ AccountInv /\ TaskInv /\ VerifierInv /\ DependencyInv
    /\ PlanInv /\ AttendanceInv /\ ExpenseInv

LEMMA InitInv == Init => Inv
<1> SUFFICES ASSUME Init PROVE Inv
  OBVIOUS
<1>1. call = [c \in Calls |-> Free] /\ raced = {} /\ load \in Workloads BY DEF Init, HandlersInit
<1>2. \A c \in Calls : call[c].pc = "free" /\ Req(c) = Null /\ Seen(c) = Null BY <1>1 DEF Free, Req, Seen
<1>3. HandlersInv
  <2>1. CallShape BY <1>1 DEF CallShape, Req, Seen, Free
  <2>2. HandlersTypeOK BY <1>1, <1>2 DEF HandlersTypeOK, At
  <2>3. RacedInv BY <1>2 DEF RacedInv, InFlight
  <2> QED BY <2>1, <2>2, <2>3 DEF HandlersInv
<1>4. AccountInv
  <2>0. users = FirstUsers /\ members = FirstMembers /\ assigned = {} BY DEF Init, AccountsInit
  <2>1. AccountData
    <3>1. AccountsTypeOK BY <2>0, AccountsAssumption DEF AccountsTypeOK
    <3>2. PICK u \in Users : members[u] # Null BY <2>0, AccountsAssumption
    <3> QED BY <3>1, <3>2 DEF AccountData, ProjectKeepsMember, Members
  <2>2. \A c \in Calls : AccountCall(c) BY <1>2 DEF AccountCall, AccountKinds, OwnerSteps, At
  <2> QED BY <2>1, <2>2 DEF AccountInv
<1>5. TaskInv
  <2>1. NewTask \in TaskRows /\ NewTask.status = "PLANNED" BY DEF NewTask, TaskRows, TaskStatuses
  <2>2. TaskData BY <2>1 DEF Init, TasksInit, TaskData, Created, Finished
  <2>3. \A c \in Calls : TaskCall(c) BY <1>2 DEF TaskCall, TaskKinds, At
  <2> QED BY <2>2, <2>3 DEF TaskInv
<1>6. VerifierInv BY <1>2 DEF VerifierInv, Independent, At
<1>7. DependencyInv
  <2>1. deps = {} BY DEF Init, TasksInit
  <2>3. Acyclic
    <3> SUFFICES ASSUME NEW S \in (SUBSET Tasks) \ {{}} PROVE \E t \in S : \A x \in S : <<t, x>> \notin deps
      BY DEF Acyclic
    <3>1. PICK t : t \in S OBVIOUS
    <3> QED BY <2>1, <3>1
  <2>2. \A c \in Calls : SearchCall(c) BY <1>2 DEF SearchCall, At
  <2> QED BY <2>1, <2>2, <2>3 DEF DependencyInv, DependencyData
<1>8. PlanInv
  <2>1. PlansTypeOK BY DEF Init, PlansInit, PlansTypeOK
  <2>2. \A c \in Calls : PlanCall(c) BY <1>2 DEF PlanCall, PlanKinds, PlanWrites, At
  <2> QED BY <2>1, <2>2 DEF PlanInv
<1>9. AttendanceInv
  <2>1. attendance = [r \in Records |-> Null] /\ clock = 0 /\ correction = Null BY DEF Init, AttendanceInit
  <2>2. AttendanceTypeOK BY <2>1, TimesAreNumbers DEF AttendanceTypeOK
  <2>3. \A r \in Records : ~Recorded(r) /\ ~Open(r) BY <2>1 DEF Recorded, Open
  <2>4. SingleOpen /\ HoursFollowTimes BY <2>3 DEF SingleOpen, HoursFollowTimes
  <2>5. \A c \in Calls : AttendanceCall(c) BY <1>2 DEF AttendanceCall, AttendanceKinds, At
  <2> QED BY <2>2, <2>4, <2>5 DEF AttendanceInv, AttendanceData
<1>10. ExpenseInv
  <2>1. approvals = <<>> /\ expenses = [b \in Bills |-> Null] /\ holder = [b \in Bills |-> Null]
    BY DEF Init, ExpensesInit
  <2>2. ExpensesTypeOK BY <2>1 DEF ExpensesTypeOK
  <2>3. \A i \in DOMAIN approvals : FALSE BY <2>1
  <2>4. \A c \in Calls : ExpenseCall(c) BY <1>2 DEF ExpenseCall, ExpenseKinds, At
  <2> QED BY <2>2, <2>3, <2>4 DEF ExpenseInv, ExpenseData
<1> QED BY <1>3, <1>4, <1>5, <1>6, <1>7, <1>8, <1>9, <1>10 DEF Inv

LEMMA StutterKeeps ==
    ASSUME Inv, UNCHANGED vars
    PROVE  Inv'
<1>1. call' = call /\ raced' = raced /\ load' = load BY DEF vars, handlers
<1>2. UNCHANGED <<users, members, assigned, task, deps, plans>> BY DEF vars, workVars, accountVars, taskVars
<1>3. UNCHANGED <<clock, attendance, correction, expenses, approvals, holder>>
  BY DEF vars, attendanceVars, expenseVars
<1>4. HandlersInv'
  BY <1>1 DEF Inv, HandlersInv, CallShape, HandlersTypeOK, RacedInv, InFlight, Req, Seen, At
<1>5. AccountInv' BY <1>1, <1>2, AccountStays DEF Inv, accountVars
<1>6. TaskInv' BY <1>1, <1>2, TaskStays DEF Inv
<1>7. VerifierInv' BY <1>1, <1>2, VerifierStays DEF Inv
<1>8. DependencyInv' BY <1>1, <1>2, DependencyStays DEF Inv
<1>9. PlanInv' BY <1>1, <1>2, PlanStays DEF Inv
<1>10. clock' \in Times /\ holder' \in [Bills -> Calls \cup {Null}]
  BY <1>3 DEF Inv, AttendanceInv, AttendanceData, AttendanceTypeOK, ExpenseInv, ExpenseData, ExpensesTypeOK
<1>11. AttendanceInv' BY <1>1, <1>3, <1>10, AttendanceStays DEF Inv
<1>12. ExpenseInv' BY <1>1, <1>3, <1>10, ExpenseStays DEF Inv
<1> QED BY <1>4, <1>5, <1>6, <1>7, <1>8, <1>9, <1>11, <1>12 DEF Inv

\* What a step of another component leaves: the handler that takes it is in none of the
\* steps of this one, before or after.
LEMMA AccountsElsewhere ==
    ASSUME AccountInv, NEW c \in Calls, NEW steps, Moves(c, steps), steps \cap AccountSteps = {}, UNCHANGED accountVars
    PROVE  AccountInv'
<1>1. call'[c].pc \notin AccountSteps BY DEF Moves, AccountSteps
<1> QED BY <1>1, AccountIdle, AccountStays DEF Moves

LEMMA TasksElsewhere ==
    ASSUME TaskInv, NEW c \in Calls, NEW steps, Moves(c, steps), steps \cap TaskSteps = {}, task' = task
    PROVE  TaskInv'
<1>1. call'[c].pc \notin TaskSteps BY DEF Moves, TaskSteps
<1> QED BY <1>1, TaskIdle, TaskStays DEF Moves

LEMMA VerifiersElsewhere ==
    ASSUME VerifierInv, NEW c \in Calls, NEW steps, Moves(c, steps), steps \cap TaskSteps = {}, assigned' = assigned
    PROVE  VerifierInv'
<1>1. call'[c].pc # "writeTask" BY DEF Moves, TaskSteps
<1> QED BY <1>1, IndependentIdle, VerifierStays DEF Moves

LEMMA DependenciesElsewhere ==
    ASSUME DependencyInv, NEW c \in Calls, NEW steps, Moves(c, steps), steps \cap TaskSteps = {}, deps' = deps
    PROVE  DependencyInv'
<1>1. call'[c].pc \notin {"search", "insertDependency"} BY DEF Moves, TaskSteps
<1> QED BY <1>1, SearchIdle, DependencyStays DEF Moves

LEMMA PlansElsewhere ==
    ASSUME PlanInv, NEW c \in Calls, NEW steps, Moves(c, steps), steps \cap PlanSteps = {}, plans' = plans
    PROVE  PlanInv'
<1>1. call'[c].pc \notin PlanSteps BY DEF Moves, PlanSteps
<1> QED BY <1>1, PlanIdle, PlanStays DEF Moves

LEMMA AttendanceElsewhere ==
    ASSUME AttendanceInv, NEW c \in Calls, NEW steps, Moves(c, steps), steps \cap AttendanceSteps = {},
           UNCHANGED attendanceVars
    PROVE  AttendanceInv'
<1>1. call'[c].pc \notin AttendanceSteps BY DEF Moves, AttendanceSteps
<1>2. attendance' = attendance /\ correction' = correction /\ clock' \in Times
  BY DEF attendanceVars, AttendanceInv, AttendanceData, AttendanceTypeOK
<1> QED BY <1>1, <1>2, AttendanceIdle, AttendanceStays DEF Moves

LEMMA ExpensesElsewhere ==
    ASSUME ExpenseInv, NEW c \in Calls, NEW steps, Moves(c, steps), steps \cap ExpenseSteps = {},
           UNCHANGED expenseVars
    PROVE  ExpenseInv'
<1>1. call'[c].pc \notin ExpenseSteps BY DEF Moves, ExpenseSteps
<1>2. expenses' = expenses /\ approvals' = approvals /\ holder' \in [Bills -> Calls \cup {Null}]
  BY DEF expenseVars, ExpenseInv, ExpenseData, ExpensesTypeOK
<1> QED BY <1>1, <1>2, ExpenseIdle, ExpenseStays DEF Moves

LEMMA StepsApart ==
    /\ \A steps \in {TaskSteps, PlanSteps, AttendanceSteps, ExpenseSteps} : steps \cap AccountSteps = {}
    /\ \A steps \in {AccountSteps, PlanSteps, AttendanceSteps, ExpenseSteps} : steps \cap TaskSteps = {}
    /\ \A steps \in {AccountSteps, TaskSteps, AttendanceSteps, ExpenseSteps} : steps \cap PlanSteps = {}
    /\ \A steps \in {AccountSteps, TaskSteps, PlanSteps, ExpenseSteps} : steps \cap AttendanceSteps = {}
    /\ \A steps \in {AccountSteps, TaskSteps, PlanSteps, AttendanceSteps} : steps \cap ExpenseSteps = {}
BY DEF AccountSteps, TaskSteps, PlanSteps, AttendanceSteps, ExpenseSteps

LEMMA ArriveKeeps ==
    ASSUME Inv, NEW c \in Calls, Arrive(c), UNCHANGED <<workVars, attendanceVars, expenseVars>>
    PROVE  Inv'
<1>1. PICK q \in load :
              /\ SiteRequest(q)
              /\ call'[c] = [req |-> q, pc |-> q.kind, seen |-> Null]
              /\ \A d \in Calls : d # c => call'[d] = call[d]
              /\ raced \subseteq raced'
              /\ HandlersInv'
  BY ArriveShape DEF Inv
<1>2. call'[c].pc = Req(c)'.kind /\ Seen(c)' = Null /\ SiteRequest(Req(c)') /\ Req(c)' = q
  BY <1>1 DEF Req, Seen
<1>3. UNCHANGED <<users, members, assigned, task, deps, plans>> BY DEF workVars, accountVars, taskVars
<1>4. UNCHANGED <<clock, attendance, correction, expenses, approvals, holder>> BY DEF attendanceVars, expenseVars
<1>5. clock' \in Times /\ holder' \in [Bills -> Calls \cup {Null}]
  BY <1>4 DEF Inv, AttendanceInv, AttendanceData, AttendanceTypeOK, ExpenseInv, ExpenseData, ExpensesTypeOK
<1>6. AccountInv'
  <2>1. AccountCall(c)' BY <1>2, AccountFresh
  <2> QED BY <1>1, <1>3, <2>1, AccountStays DEF Inv, accountVars
<1>7. TaskInv'
  <2>1. TaskCall(c)' BY <1>2, TaskFresh
  <2> QED BY <1>1, <1>3, <2>1, TaskStays DEF Inv
<1>8. call'[c].pc \notin {"writeTask", "search", "insertDependency"}
  BY <1>1 DEF SiteRequest, AccountRequest, TaskRequest, PlanRequest, AttendanceRequest, ExpenseRequest
<1>9. VerifierInv'
  <2>1. Independent(c)' BY <1>8, IndependentIdle
  <2> QED BY <1>1, <1>3, <2>1, VerifierStays DEF Inv
<1>10. DependencyInv'
  <2>1. SearchCall(c)' BY <1>8, SearchIdle
  <2> QED BY <1>1, <1>3, <2>1, DependencyStays DEF Inv
<1>11. PlanInv'
  <2>1. PlanCall(c)' BY <1>2, PlanFresh
  <2> QED BY <1>1, <1>3, <2>1, PlanStays DEF Inv
<1>12. AttendanceInv'
  <2>1. AttendanceCall(c)' BY <1>2, AttendanceFresh
  <2> QED BY <1>1, <1>4, <1>5, <2>1, AttendanceStays DEF Inv
<1>13. ExpenseInv'
  <2>1. ExpenseCall(c)' BY <1>2, ExpenseFresh
  <2> QED BY <1>1, <1>4, <1>5, <2>1, ExpenseStays DEF Inv
<1> QED BY <1>1, <1>6, <1>7, <1>9, <1>10, <1>11, <1>12, <1>13 DEF Inv

LEMMA AccountsKeep ==
    ASSUME Inv, NEW c \in Calls, AccountsStep(c), UNCHANGED <<taskVars, plans, attendanceVars, expenseVars>>
    PROVE  Inv'
<1>1. Moves(c, AccountSteps) BY AccountsMove DEF Inv
<1>2. HandlersInv' BY <1>1 DEF Moves
<1>3. AccountInv' BY AccountsStepKeeps DEF Inv
<1>4. TaskInv' BY <1>1, StepsApart, TasksElsewhere DEF Inv, taskVars
<1>5. VerifierInv' BY AccountsKeepVerifiers DEF Inv
<1>6. DependencyInv' BY <1>1, StepsApart, DependenciesElsewhere DEF Inv, taskVars
<1>7. PlanInv' BY <1>1, StepsApart, PlansElsewhere DEF Inv
<1>8. AttendanceInv' BY <1>1, StepsApart, AttendanceElsewhere DEF Inv
<1>9. ExpenseInv' BY <1>1, StepsApart, ExpensesElsewhere DEF Inv
<1> QED BY <1>2, <1>3, <1>4, <1>5, <1>6, <1>7, <1>8, <1>9 DEF Inv

LEMMA TasksKeep ==
    ASSUME Inv, NEW c \in Calls, TasksStep(c), UNCHANGED <<plans, attendanceVars, expenseVars>>
    PROVE  Inv'
<1>1. Moves(c, TaskSteps) BY TasksMove DEF Inv
<1>2. HandlersInv' BY <1>1 DEF Moves
<1>3. TaskInv' BY TasksStepKeepsTasks DEF Inv
<1>4. AccountInv'
  <2>1. CASE InsertAssignment(c)
    <3>1. Req(c).task \in Tasks /\ Req(c).user \in Users /\ Req(c).user \in Req(c).on BY <2>1, Assigning DEF Inv
    <3> QED BY <2>1, <3>1, AssignmentKeepsAccounts DEF Inv
  <2>2. CASE ~InsertAssignment(c)
    <3>1. UNCHANGED accountVars
      BY <2>2 DEF TasksStep, accountVars, CreateTask, InsertTask, UpdateTask, WriteTask, BlockTask, WriteBlock,
         UnblockTask, WriteUnblock, AssignUser, AddDependency, Search, InsertDependency
    <3> QED BY <1>1, <3>1, StepsApart, AccountsElsewhere DEF Inv
  <2> QED BY <2>1, <2>2
<1>5. VerifierInv' BY TasksKeepVerifiers DEF Inv
<1>6. DependencyInv' BY TasksKeepDependencies DEF Inv
<1>7. PlanInv' BY <1>1, StepsApart, PlansElsewhere DEF Inv
<1>8. AttendanceInv' BY <1>1, StepsApart, AttendanceElsewhere DEF Inv
<1>9. ExpenseInv' BY <1>1, StepsApart, ExpensesElsewhere DEF Inv
<1> QED BY <1>2, <1>3, <1>4, <1>5, <1>6, <1>7, <1>8, <1>9 DEF Inv

LEMMA PlansKeep ==
    ASSUME Inv, NEW c \in Calls, PlansStep(c), UNCHANGED <<attendanceVars, expenseVars>>
    PROVE  Inv'
<1>1. Moves(c, PlanSteps) BY PlansMove DEF Inv
<1>2. HandlersInv' BY <1>1 DEF Moves
<1>3. UNCHANGED accountVars /\ UNCHANGED taskVars
  BY DEF PlansStep, CreatePlan, PublishPlan, WritePublished, CompletePlan, RecheckPlan, WriteCompleted,
     CancelPlan, WriteCancelled, Progress, WriteProgress
<1>4. UNCHANGED <<assigned, task, deps>> BY <1>3 DEF accountVars, taskVars
<1>5. PlanInv' BY PlansStepKeepsPlans DEF Inv
<1>6. AccountInv' BY <1>1, <1>3, StepsApart, AccountsElsewhere DEF Inv
<1>7. TaskInv' BY <1>1, <1>4, StepsApart, TasksElsewhere DEF Inv
<1>8. VerifierInv' BY <1>1, <1>4, StepsApart, VerifiersElsewhere DEF Inv
<1>9. DependencyInv' BY <1>1, <1>4, StepsApart, DependenciesElsewhere DEF Inv
<1>10. AttendanceInv' BY <1>1, StepsApart, AttendanceElsewhere DEF Inv
<1>11. ExpenseInv' BY <1>1, StepsApart, ExpensesElsewhere DEF Inv
<1> QED BY <1>2, <1>5, <1>6, <1>7, <1>8, <1>9, <1>10, <1>11 DEF Inv

LEMMA AttendanceKeeps ==
    ASSUME Inv, NEW c \in Calls, AttendanceStep(c), UNCHANGED <<workVars, expenseVars>>
    PROVE  Inv'
<1>1. Moves(c, AttendanceSteps) BY AttendanceMoves DEF Inv
<1>2. HandlersInv' BY <1>1 DEF Moves
<1>3. UNCHANGED accountVars /\ UNCHANGED <<assigned, task, deps, plans>> BY DEF workVars, accountVars, taskVars
<1>4. AttendanceInv' BY AttendanceStepKeepsAttendance DEF Inv
<1>5. AccountInv' BY <1>1, <1>3, StepsApart, AccountsElsewhere DEF Inv
<1>6. TaskInv' BY <1>1, <1>3, StepsApart, TasksElsewhere DEF Inv
<1>7. VerifierInv' BY <1>1, <1>3, StepsApart, VerifiersElsewhere DEF Inv
<1>8. DependencyInv' BY <1>1, <1>3, StepsApart, DependenciesElsewhere DEF Inv
<1>9. PlanInv' BY <1>1, <1>3, StepsApart, PlansElsewhere DEF Inv
<1>10. ExpenseInv' BY <1>1, StepsApart, ExpensesElsewhere DEF Inv
<1> QED BY <1>2, <1>4, <1>5, <1>6, <1>7, <1>8, <1>9, <1>10 DEF Inv

LEMMA ExpensesKeep ==
    ASSUME Inv, NEW c \in Calls, ExpensesStep(c), UNCHANGED <<workVars, attendanceVars>>
    PROVE  Inv'
<1>1. Moves(c, ExpenseSteps) BY ExpensesMove DEF Inv
<1>2. HandlersInv' BY <1>1 DEF Moves
<1>3. UNCHANGED accountVars /\ UNCHANGED <<assigned, task, deps, plans>> BY DEF workVars, accountVars, taskVars
<1>4. ExpenseInv' BY ExpensesStepKeepsExpenses DEF Inv
<1>5. AccountInv' BY <1>1, <1>3, StepsApart, AccountsElsewhere DEF Inv
<1>6. TaskInv' BY <1>1, <1>3, StepsApart, TasksElsewhere DEF Inv
<1>7. VerifierInv' BY <1>1, <1>3, StepsApart, VerifiersElsewhere DEF Inv
<1>8. DependencyInv' BY <1>1, <1>3, StepsApart, DependenciesElsewhere DEF Inv
<1>9. PlanInv' BY <1>1, <1>3, StepsApart, PlansElsewhere DEF Inv
<1>10. AttendanceInv' BY <1>1, StepsApart, AttendanceElsewhere DEF Inv
<1> QED BY <1>2, <1>4, <1>5, <1>6, <1>7, <1>8, <1>9, <1>10 DEF Inv

\* A handler that fails is in no component's steps any more.
LEMMA DropKeeps ==
    ASSUME Inv, NEW c \in Calls, DropExpense(c), UNCHANGED <<workVars, attendanceVars>>
    PROVE  Inv'
<1>1. /\ call'[c].pc = "free" /\ \A d \in Calls : d # c => call'[d] = call[d]
      /\ raced' = raced /\ HandlersInv'
  BY AnswerShape DEF Inv, DropExpense, Drop, Free
<1>2. call'[c].pc \notin AccountSteps \cup TaskSteps \cup PlanSteps \cup AttendanceSteps \cup {"writeTask", "search", "insertDependency"}
  BY <1>1 DEF AccountSteps, TaskSteps, PlanSteps, AttendanceSteps
<1>3. UNCHANGED accountVars /\ UNCHANGED <<assigned, task, deps, plans>> BY DEF workVars, accountVars, taskVars
<1>4. attendance' = attendance /\ correction' = correction /\ clock' \in Times
  BY DEF attendanceVars, Inv, AttendanceInv, AttendanceData, AttendanceTypeOK
<1>5. AccountInv' BY <1>1, <1>2, <1>3, AccountIdle, AccountStays DEF Inv
<1>6. TaskInv' BY <1>1, <1>2, <1>3, TaskIdle, TaskStays DEF Inv
<1>7. VerifierInv' BY <1>1, <1>2, <1>3, IndependentIdle, VerifierStays DEF Inv
<1>8. DependencyInv' BY <1>1, <1>2, <1>3, SearchIdle, DependencyStays DEF Inv
<1>9. PlanInv' BY <1>1, <1>2, <1>3, PlanIdle, PlanStays DEF Inv
<1>10. AttendanceInv' BY <1>1, <1>2, <1>4, AttendanceIdle, AttendanceStays DEF Inv
<1>11. ExpenseInv' BY DropKeepsExpenses DEF Inv
<1> QED BY <1>1, <1>5, <1>6, <1>7, <1>8, <1>9, <1>10, <1>11 DEF Inv

LEMMA HourKeeps ==
    ASSUME Inv, Tick, UNCHANGED <<workVars, expenseVars>>
    PROVE  Inv'
<1>1. call' = call /\ raced' = raced /\ load' = load BY DEF Tick, handlers
<1>2. UNCHANGED accountVars /\ UNCHANGED <<assigned, task, deps, plans>> BY DEF workVars, accountVars, taskVars
<1>3. expenses' = expenses /\ approvals' = approvals /\ holder' \in [Bills -> Calls \cup {Null}]
  BY DEF expenseVars, Inv, ExpenseInv, ExpenseData, ExpensesTypeOK
<1>4. HandlersInv'
  BY <1>1 DEF Inv, HandlersInv, CallShape, HandlersTypeOK, RacedInv, InFlight, Req, Seen, At
<1>5. AccountInv' BY <1>1, <1>2, AccountStays DEF Inv
<1>6. TaskInv' BY <1>1, <1>2, TaskStays DEF Inv
<1>7. VerifierInv' BY <1>1, <1>2, VerifierStays DEF Inv
<1>8. DependencyInv' BY <1>1, <1>2, DependencyStays DEF Inv
<1>9. PlanInv' BY <1>1, <1>2, PlanStays DEF Inv
<1>10. AttendanceInv' BY TickKeeps DEF Inv
<1>11. ExpenseInv' BY <1>1, <1>3, ExpenseStays DEF Inv
<1> QED BY <1>4, <1>5, <1>6, <1>7, <1>8, <1>9, <1>10, <1>11 DEF Inv

LEMMA NextKeeps == Inv /\ [Next]_vars => Inv'
<1> SUFFICES ASSUME Inv, [Next]_vars PROVE Inv'
  OBVIOUS
<1>1. ASSUME NEW c \in Calls, Arrive(c), UNCHANGED <<workVars, attendanceVars, expenseVars>> PROVE Inv'
  BY <1>1, ArriveKeeps
<1>2. ASSUME NEW c \in Calls, AccountsStep(c), UNCHANGED <<taskVars, plans>>, UNCHANGED <<attendanceVars, expenseVars>>
      PROVE  Inv'
  BY <1>2, AccountsKeep
<1>3. ASSUME NEW c \in Calls, TasksStep(c), UNCHANGED plans, UNCHANGED <<attendanceVars, expenseVars>> PROVE Inv'
  BY <1>3, TasksKeep
<1>4. ASSUME NEW c \in Calls, PlansStep(c), UNCHANGED <<attendanceVars, expenseVars>> PROVE Inv'
  BY <1>4, PlansKeep
<1>5. ASSUME NEW c \in Calls, AttendanceStep(c), UNCHANGED <<workVars, expenseVars>> PROVE Inv'
  BY <1>5, AttendanceKeeps
<1>6. ASSUME NEW c \in Calls, ExpensesStep(c), UNCHANGED <<workVars, attendanceVars>> PROVE Inv'
  BY <1>6, ExpensesKeep
<1>7. ASSUME NEW c \in Calls, DropExpense(c), UNCHANGED <<workVars, attendanceVars>> PROVE Inv'
  BY <1>7, DropKeeps
<1>8. ASSUME Tick, UNCHANGED <<workVars, expenseVars>> PROVE Inv'
  BY <1>8, HourKeeps
<1>9. ASSUME UNCHANGED vars PROVE Inv'
  BY <1>9, StutterKeeps
<1> QED BY <1>1, <1>2, <1>3, <1>4, <1>5, <1>6, <1>7, <1>8, <1>9 DEF Next, Work

LEMMA InvHolds == Spec => []Inv
<1>1. Init => Inv BY InitInv
<1>2. Inv /\ [Next]_vars => Inv' BY NextKeeps
<1> QED BY <1>1, <1>2, PTL DEF Spec

----------------------------------------------------------------------------
(* The properties of module Site. *)

\* Every row, request and reading has its type.
THEOREM SiteTypes == Spec => []TypeOK
<1>1. Inv => TypeOK
  BY DEF Inv, TypeOK, HandlersInv, AccountInv, AccountData, TaskInv, TaskData, TasksTypeOK, DependencyInv,
         DependencyData, PlanInv, AttendanceInv, AttendanceData, ExpenseInv, ExpenseData
<1> QED BY <1>1, InvHolds, PTL

\* removeMember never takes the last member of a project, whatever members are added,
\* removed and offboarded one after the other.
THEOREM MembersRemain == Spec => []ProjectKeepsMember
<1>1. Inv => ProjectKeepsMember BY DEF Inv, AccountInv, AccountData
<1> QED BY <1>1, InvHolds, PTL

\* A creation of a task tries again only after another request has taken its code, for
\* any number of creations at the same time.
THEOREM RetriesHaveWinners == Spec => []EveryRetryHasAWinner
<1>1. Inv => EveryRetryHasAWinner
  <2> SUFFICES ASSUME Inv, NEW c \in Calls, At(c, "insertTask") \/ (At(c, "createTask") /\ Seen(c) # Null)
               PROVE  Highest - Seen(c).highest >= Seen(c).attempt - 1
    BY DEF EveryRetryHasAWinner
  <2>1. PICK seen : seen = Seen(c) OBVIOUS
  <2>2. Highest \in Nat BY HighestBeforeAndAfter DEF HighestIs
  <2>3. Retries(seen) /\ (Highest >= seen.code - 1 \/ Highest >= seen.code) BY <2>1 DEF Inv, TaskInv, TaskCall
  <2>4. seen.code \in Nat /\ seen.attempt \in Nat /\ seen.highest \in Nat /\ seen.code >= seen.highest + seen.attempt
    BY <2>3 DEF Retries
  <2>5. Highest - seen.highest >= seen.attempt - 1 BY <2>2, <2>3, <2>4
  <2> QED BY <2>1, <2>5
<1> QED BY <1>1, InvHolds, PTL

\* The breadth-first search of addDependency lets no cycle in, whatever the tasks and the
\* dependencies are, as long as one request at a time looks for it.
THEOREM NoCycles == Spec => []DependenciesAcyclic
<1>1. Inv => DependenciesAcyclic
  BY DEF Inv, DependencyInv, DependencyData, DependenciesAcyclic, Alone, Acyclic
<1> QED BY <1>1, InvHolds, PTL

\* No worker is ever checked in twice.
THEOREM OneSession == Spec => []OneOpenSession
<1>1. Inv => OneOpenSession BY SingleOpenIsOneOpenSession DEF Inv, AttendanceInv, AttendanceData
<1> QED BY <1>1, InvHolds, PTL

\* Regular hours and overtime of a record are those of its times.
THEOREM HoursAreThoseOfTheTimes == Spec => []HoursFollowTimes
<1>1. Inv => HoursFollowTimes BY DEF Inv, AttendanceInv, AttendanceData
<1> QED BY <1>1, InvHolds, PTL

\* An expense has the status of the last decision on it, and an approval is final.
THEOREM DecisionsAreFinal == Spec => []DecisionsStand
<1>1. Inv => DecisionsStand BY DecisionsStandBy DEF Inv, ExpenseInv
<1> QED BY <1>1, InvHolds, PTL

\* updateRole, updateStatus and offboardAndReassign leave each organization an active owner
\* unless two of them overlap in it, and the latter two leave the system one.
THEOREM OwnersRemain == Spec => ActiveOwnerRemains
<1>1. ASSUME Inv, NEW c \in Calls, SetStatus(c) \/ HandOver(c),
             ActiveOwners # {}, Seen(c).owners = ActiveOwners, Req(c).user \notin raced
      PROVE  ActiveOwners' # {}
  BY <1>1, OwnerRemains DEF Inv
<1>2. ASSUME Inv, Next, users' # users, NEW o \in Orgs, OwnersOf(o) # {}, <<"owners", o>> \notin raced
      PROVE  OwnersOf(o)' # {}
  BY <1>2, WhoChangesUsers, OrganizationKeepsOwner DEF Inv
<1>3. Inv /\ [Next]_vars =>
         [/\ \A o \in Orgs : OwnersOf(o) # {} /\ <<"owners", o>> \notin raced => OwnersOf(o)' # {}
          /\ \A c \in Calls :
                /\ SetStatus(c) \/ HandOver(c)
                /\ ActiveOwners # {} /\ Seen(c).owners = ActiveOwners /\ Req(c).user \notin raced
                => ActiveOwners' # {}]_users
  BY <1>1, <1>2 DEF vars, workVars, accountVars
<1> QED BY <1>3, InvHolds, PTL DEF ActiveOwnerRemains, Spec

\* Nothing is lost when a user leaves.
THEOREM NothingIsLost == Spec => OffboardingHandsOver
<1>1. Inv => [\A c \in Calls :
                HandOver(c) /\ raced \cap {Req(c).user, Req(c).to} = {} /\ OrgOf[Actor(c)] = Organization
                => LET u == Req(c).user  to == Req(c).to
                   IN  /\ users'[to].status = "ACTIVE" /\ users'[u].status = "SUSPENDED"
                       /\ members'[u] = Null /\ (members[u] # Null => members'[to] # Null)
                       /\ \A t \in Tasks : <<t, u>> \notin assigned' /\ (<<t, u>> \in assigned => <<t, to>> \in assigned')]_<<accountVars>>
  BY HandsOver DEF Inv
<1> QED BY <1>1, InvHolds, PTL DEF OffboardingHandsOver

\* The status of a task moves along the table, and nobody verifies a task of their own.
THEOREM TasksFollowTheTable == Spec => TaskLifecycle
<1> DEFINE Follows(t) ==
          LET old == task[t]  new == task'[t]
          IN  /\ new.status = "VERIFIED" => new.verifier # Null
              /\ new # old /\ About(t) \notin raced =>
                    /\ \/ new.status = old.status
                       \/ <<old.status, new.status>> \in Transitions
                       \/ old.reason /\ ~new.reason /\ new.status = "IN_PROGRESS"
                    /\ new.status \in {"COMPLETED", "VERIFIED"} => new.ended
                    /\ new.status = "VERIFIED" /\ old.status # "VERIFIED" /\ new.verifier \notin raced
                       => <<t, new.verifier>> \notin assigned
<1>1. Inv /\ Inv' /\ [Next]_vars => [\A t \in Created : Follows(t)]_task
  <2> SUFFICES ASSUME Inv, Inv', Next, task' # task, NEW t \in Created PROVE Follows(t)
    BY DEF vars, workVars, taskVars
  <2>1. PICK c \in Calls : TasksStep(c)
    <3>1. UNCHANGED workVars => task' = task BY DEF workVars, taskVars
    <3>2. UNCHANGED taskVars => task' = task BY DEF taskVars
    <3>3. \A c \in Calls : PlansStep(c) => UNCHANGED taskVars
      BY DEF PlansStep, CreatePlan, PublishPlan, WritePublished, CompletePlan, RecheckPlan, WriteCompleted,
         CancelPlan, WriteCancelled, Progress, WriteProgress
    <3> QED BY <3>1, <3>2, <3>3 DEF Next, Work
  <2>2. HandlersInv /\ TaskInv /\ TaskInv' /\ VerifierInv BY DEF Inv
  <2> QED BY <2>1, <2>2, LifecycleStep
<1>2. Spec => []Inv /\ [][Next]_vars BY InvHolds DEF Spec
<1> QED BY <1>1, <1>2, PTL DEF TaskLifecycle

\* A plan that has been completed or cancelled stays so, and only a whole one is completed.
THEOREM ClosedPlansStay == Spec => ClosedPlanStays
<1> DEFINE Closed(p) ==
          /\ plans[p].status \in {"COMPLETED", "CANCELLED"} => plans'[p] = plans[p]
          /\ plans[p].status # "COMPLETED" /\ plans'[p].status = "COMPLETED"
             => \A t \in DOMAIN plans'[p].done : plans'[p].done[t]
<1>1. Inv /\ [Next]_vars => [\A p \in Plans \ raced : Planned(p) => Closed(p)]_plans
  <2> SUFFICES ASSUME Inv, Next, plans' # plans, NEW p \in Plans \ raced, Planned(p) PROVE Closed(p)
    BY DEF vars, workVars
  <2>1. PICK c \in Calls : PlansStep(c)
    <3>1. UNCHANGED workVars => plans' = plans BY DEF workVars
    <3> QED BY <3>1 DEF Next, Work
  <2> QED BY <2>1, ClosedStep DEF Inv
<1>2. Spec => []Inv /\ [][Next]_vars BY InvHolds DEF Spec
<1> QED BY <1>1, <1>2, PTL DEF ClosedPlanStays

\* The record of a correction is what was there before and what is there after it.
THEOREM CorrectionsAreTrue == Spec => CorrectionTellsTheTruth
<1> DEFINE True == correction' # correction =>
          LET k == correction'
          IN  /\ k.after = attendance'[k.record]
              /\ k.record[1] \notin raced => k.before = attendance[k.record]
<1>1. Inv /\ [Next]_vars => [True]_<<attendance, correction>>
  <2> SUFFICES ASSUME Inv, Next, correction' # correction PROVE True
    BY DEF vars, attendanceVars
  <2>1. PICK c \in Calls : AttendanceStep(c)
    <3>1. UNCHANGED attendanceVars => correction' = correction BY DEF attendanceVars
    <3>2. Tick => correction' = correction BY DEF Tick
    <3> QED BY <3>1, <3>2 DEF Next, Work
  <2> QED BY <2>1, CorrectionStep DEF Inv
<1>2. Spec => []Inv /\ [][Next]_vars BY InvHolds DEF Spec
<1> QED BY <1>1, <1>2, PTL DEF CorrectionTellsTheTruth

=============================================================================
