------------------------------ MODULE Accounts ------------------------------
(***************************************************************************)
(* Users, the members of a project and who works on which task: the         *)
(* operations of UsersService and ProjectMembersService that change them.   *)
(*                                                                         *)
(* The guards read the actor in one step with the handler's first read.     *)
(* The sessions these operations end are the subject of module Sessions.    *)
(***************************************************************************)
EXTENDS Handlers

CONSTANTS
    Users, Tasks,
    Orgs,           \* the organizations
    OrgOf,          \* the organization of each user, or Null; it never changes
    Organization,   \* the organization of the project
    FirstUsers,     \* role and status of each user at the start
    FirstMembers    \* role in the project of each user at the start, or Null

VARIABLES
    users,          \* rows of users: role, status
    members,        \* rows of project_members: the role of each user, or Null
    assigned        \* rows of task_assignments

accountVars == <<users, members, assigned>>

Roles    == {"OWNER", "ADMIN", "PM", "SITE_MANAGER", "QA_QC", "WORKER"}
Statuses == {"ACTIVE", "PENDING", "SUSPENDED"}
Accounts == [role: Roles, status: Statuses]

ASSUME AccountsAssumption ==
    /\ OrgOf \in [Users -> Orgs \cup {Null}] /\ Organization \in Orgs /\ Null \notin Orgs
    /\ FirstUsers \in [Users -> Accounts]
    /\ FirstMembers \in [Users -> Roles \cup {Null}]
    /\ \E u \in Users : FirstMembers[u] # Null
    /\ IsFiniteSet(Users) /\ Null \notin Users \cup Roles

\* A request is about the people whose rows it changes, the owners of their organization,
\* and the members of the project.
AccountRequest(q) ==
    /\ q.kind \in {"changeRole", "changeStatus", "offboard", "addMember", "changeMemberRole", "removeMember"}
    /\ {q.by, q.user} \subseteq Users /\ q.user \in q.on
    /\ q.kind \in {"changeRole", "addMember", "changeMemberRole"} => q.role \in Roles
    /\ q.kind = "changeStatus" => q.status \in Statuses
    /\ q.kind = "offboard" => q.to \in Users /\ q.to \in q.on
    /\ q.kind \notin {"changeRole", "changeStatus"} => <<"members">> \in q.on
    /\ q.kind \in {"changeRole", "changeStatus", "offboard"} => <<"owners", OrgOf[q.user]>> \in q.on

Active(u)    == users[u].status = "ACTIVE"
IsOwner(u)   == users[u].role = "OWNER"
ActiveOwners == {u \in Users : IsOwner(u) /\ Active(u)}   \* of every organization
OwnersOf(o)  == {u \in ActiveOwners : OrgOf[u] = o}
Members      == {u \in Users : members[u] # Null}
TasksOf(u)   == {t \in Tasks : <<t, u>> \in assigned}

Actor(c)     == Req(c).by
Authorized(c, roles) == Active(Actor(c)) /\ users[Actor(c)].role \in roles

Administrators == {"ADMIN", "OWNER"}
MemberManagers == {"ADMIN", "OWNER", "PM"}

\* The project guard lets administrators of any organization pass; others must be members.
MayManageMembers(c) ==
    /\ Authorized(c, MemberManagers)
    /\ users[Actor(c)].role \in Administrators \/ Actor(c) \in Members

\* A user of another organization is not found.
SameOrganization(c, u) == OrgOf[Actor(c)] # Null /\ OrgOf[u] = OrgOf[Actor(c)]

\* Only an owner manages owners, only those of their organization, and nobody their own account.
MayManage(c, u) ==
    /\ Authorized(c, Administrators) /\ SameOrganization(c, u) /\ u # Actor(c)
    /\ IsOwner(u) => IsOwner(Actor(c))

----------------------------------------------------------------------------
(* updateRole, updateStatus *)

\* Nothing asks whether another active owner remains.
ChangeRole(c) ==
    /\ At(c, "changeRole")
    /\ IF MayManage(c, Req(c).user) /\ (Req(c).role = "OWNER" => IsOwner(Actor(c)))
       THEN Goto(c, "setRole", Null) ELSE Answer(c)
    /\ UNCHANGED accountVars

SetRole(c) ==
    /\ At(c, "setRole")
    /\ users' = [users EXCEPT ![Req(c).user].role = Req(c).role]
    /\ Answer(c)
    /\ UNCHANGED <<members, assigned>>

ChangeStatus(c) ==
    /\ At(c, "changeStatus")
    /\ IF MayManage(c, Req(c).user) THEN Goto(c, "countOwners", IsOwner(Req(c).user)) ELSE Answer(c)
    /\ UNCHANGED accountVars

\* Faulty variant: the owner to be suspended is not counted.
CountOwnersLess(c) ==
    /\ At(c, "countOwners")
    /\ IF Seen(c) /\ Req(c).status # "ACTIVE" /\ ActiveOwners = {}
       THEN Answer(c) ELSE Goto(c, "setStatus", [owners |-> ActiveOwners])
    /\ UNCHANGED accountVars

\* In the transaction, by the role that was read before it.  The count is over the owners of
\* all organizations: "owners" is who was counted.
CountOwners(c) ==
    /\ At(c, "countOwners")
    /\ IF Seen(c) /\ Req(c).status # "ACTIVE" /\ Cardinality(ActiveOwners) <= 1
       THEN Answer(c) ELSE Goto(c, "setStatus", [owners |-> ActiveOwners])
    /\ UNCHANGED accountVars

SetStatus(c) ==
    /\ At(c, "setStatus")
    /\ users' = [users EXCEPT ![Req(c).user].status = Req(c).status]
    /\ Answer(c)
    /\ UNCHANGED <<members, assigned>>

----------------------------------------------------------------------------
(* offboardAndReassign *)

Offboard(c) ==
    /\ At(c, "offboard")
    /\ IF MayManage(c, Req(c).user) /\ Req(c).to # Req(c).user
       THEN Goto(c, "takeStock", IsOwner(Req(c).user)) ELSE Answer(c)
    /\ UNCHANGED accountVars

\* In the transaction: another active owner in whatever organization, the replacement, and
\* what is to be handed over in the projects of the actor's organization.
TakeStock(c) ==
    /\ At(c, "takeStock")
    /\ LET within == OrgOf[Actor(c)] = Organization
       IN  IF \/ Seen(c) /\ Cardinality(ActiveOwners) <= 1
              \/ ~Active(Req(c).to) \/ OrgOf[Req(c).to] # OrgOf[Actor(c)]
           THEN Answer(c)
           ELSE Goto(c, "handOver", [role   |-> IF within THEN members[Req(c).user] ELSE Null,
                                     tasks  |-> IF within THEN TasksOf(Req(c).user) ELSE {},
                                     owners |-> ActiveOwners])
    /\ UNCHANGED accountVars

\* Faulty variant: the rows are taken from the user, but those the replacement has
\* already make the insert of the others fail silently.
HandOverOrSkip(c) ==
    /\ At(c, "handOver")
    /\ LET u == Req(c).user  to == Req(c).to
           new == IF TasksOf(to) \cap Seen(c).tasks = {} THEN Seen(c).tasks \X {to} ELSE {}
       IN  /\ members' = [x \in Users |-> IF Seen(c).role = Null THEN members[x]
                              ELSE IF x = to /\ members[to] = Null THEN Seen(c).role
                              ELSE IF x = u THEN Null ELSE members[x]]
           /\ assigned' = (assigned \cup new) \ (Seen(c).tasks \X {u})
           /\ users' = [users EXCEPT ![u].status = "SUSPENDED"]
           /\ Answer(c)

\* What was read goes to the replacement, who may have some of it (skipDuplicates), and
\* is deleted; the user is suspended.  COMMIT.  A row that was deleted and inserted again
\* meanwhile counts as the same.
HandOver(c) ==
    /\ At(c, "handOver")
    /\ LET u == Req(c).user  to == Req(c).to
       IN  /\ members' = [x \in Users |-> IF Seen(c).role = Null THEN members[x]
                              ELSE IF x = to /\ members[to] = Null THEN Seen(c).role
                              ELSE IF x = u THEN Null ELSE members[x]]
           /\ assigned' = (assigned \cup (Seen(c).tasks \X {to})) \ (Seen(c).tasks \X {u})
           /\ users' = [users EXCEPT ![u].status = "SUSPENDED"]
           /\ Answer(c)

----------------------------------------------------------------------------
(* ProjectMembersService *)

AddMember(c) ==
    /\ At(c, "addMember")
    /\ IF /\ MayManageMembers(c) /\ members[Req(c).user] = Null
          /\ SameOrganization(c, Req(c).user) /\ OrgOf[Actor(c)] = Organization
       THEN Goto(c, "insertMember", Null) ELSE Answer(c)
    /\ UNCHANGED accountVars

\* A member since the check: the unique index refuses the row.
InsertMember(c) ==
    /\ At(c, "insertMember")
    /\ members' = [members EXCEPT ![Req(c).user] = IF @ = Null THEN Req(c).role ELSE @]
    /\ Answer(c)
    /\ UNCHANGED <<users, assigned>>

\* Neither this nor the removal asks for an organization.
ChangeMemberRole(c) ==
    /\ At(c, "changeMemberRole")
    /\ IF MayManageMembers(c) /\ members[Req(c).user] # Null
       THEN Goto(c, "setMemberRole", Null) ELSE Answer(c)
    /\ UNCHANGED accountVars

\* Not a member any more: the update finds no row.
SetMemberRole(c) ==
    /\ At(c, "setMemberRole")
    /\ members' = [members EXCEPT ![Req(c).user] = IF @ = Null THEN @ ELSE Req(c).role]
    /\ Answer(c)
    /\ UNCHANGED <<users, assigned>>

\* Faulty variant: the last member is not protected.
RemoveAnyMember(c) ==
    /\ At(c, "removeMember")
    /\ IF MayManageMembers(c) /\ Req(c).user \in Members
       THEN Goto(c, "deleteMember", Null) ELSE Answer(c)
    /\ UNCHANGED accountVars

RemoveMember(c) ==
    /\ At(c, "removeMember")
    /\ IF MayManageMembers(c) /\ Req(c).user \in Members /\ Cardinality(Members) > 1
       THEN Goto(c, "deleteMember", Null) ELSE Answer(c)
    /\ UNCHANGED accountVars

\* The tasks of the member stay with them.
DeleteMember(c) ==
    /\ At(c, "deleteMember")
    /\ members' = [members EXCEPT ![Req(c).user] = Null]
    /\ Answer(c)
    /\ UNCHANGED <<users, assigned>>

----------------------------------------------------------------------------
AccountsInit ==
    /\ users    = FirstUsers
    /\ members  = FirstMembers
    /\ assigned = {}

AccountsStep(c) ==
    \/ ChangeRole(c) \/ SetRole(c)
    \/ ChangeStatus(c) \/ CountOwners(c) \/ SetStatus(c)
    \/ Offboard(c) \/ TakeStock(c) \/ HandOver(c)
    \/ AddMember(c) \/ InsertMember(c)
    \/ ChangeMemberRole(c) \/ SetMemberRole(c)
    \/ RemoveMember(c) \/ DeleteMember(c)

AccountsTypeOK ==
    /\ users \in [Users -> Accounts]
    /\ members \in [Users -> Roles \cup {Null}]
    /\ assigned \subseteq Tasks \X Users

\* "The last active Super Administrator cannot be deactivated" nor "offboarded"
\* (users.service.ts:192, 479).  As the count is over all organizations it is not what keeps
\* the last owner of one: that is the rule that owners are managed by another active owner
\* of the same organization.  Hence an organization keeps an active owner through changes of
\* role, deactivations and offboardings as long as no two of them overlap in it, and the
\* count keeps one in the system when they do, if those who were counted are still the active
\* owners at the write and no other request about the user overlaps.
ActiveOwnerRemains ==
    [][/\ \A o \in Orgs : OwnersOf(o) # {} /\ <<"owners", o>> \notin raced => OwnersOf(o)' # {}
       /\ \A c \in Calls :
             /\ SetStatus(c) \/ HandOver(c)
             /\ ActiveOwners # {} /\ Seen(c).owners = ActiveOwners /\ Req(c).user \notin raced
             => ActiveOwners' # {}]_users

\* An offboarding in the organization of the project, which no other request about the two
\* people overlaps, hands over everything: each task and the membership of the one who leaves
\* is with the replacement, who is active, and nothing is left behind (users.service.ts:496-530).
OffboardingHandsOver ==
    [][\A c \in Calls :
          HandOver(c) /\ raced \cap {Req(c).user, Req(c).to} = {} /\ OrgOf[Actor(c)] = Organization
          => LET u == Req(c).user  to == Req(c).to
             IN  /\ users'[to].status = "ACTIVE" /\ users'[u].status = "SUSPENDED"
                 /\ members'[u] = Null /\ (members[u] # Null => members'[to] # Null)
                 /\ \A t \in Tasks : <<t, u>> \notin assigned' /\ (<<t, u>> \in assigned => <<t, to>> \in assigned')]_<<accountVars>>

\* A project "protects against removing the last member" (project-members.service.ts:172):
\* whatever the order of additions, removals and offboardings, if no two of them overlap.
ProjectKeepsMember == <<"members">> \notin raced => Members # {}
=============================================================================
