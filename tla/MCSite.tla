------------------------------- MODULE MCSite -------------------------------
(* A small instance of Site: what the requests of one behaviour are about. *)
EXTENDS Site, TLC

CONSTANTS boss, chief, lead, ann, bob, rival, peer, ours, theirs, roofers, monday, p1, p2, b1, b2, k1, nobody, c1, c2

\* "rival" and "peer" are the owners of another organization.
MCOrgOf      == [u \in Users |-> IF u \in {rival, peer} THEN theirs ELSE ours]
MCFirstUsers == [u \in {boss, chief, rival, peer} |-> [role |-> "OWNER", status |-> "ACTIVE"]]
                @@ lead :> [role |-> "ADMIN", status |-> "ACTIVE"]
                @@ [u \in Users |-> [role |-> "WORKER", status |-> "ACTIVE"]]
MCFirstMembers == ann :> "WORKER" @@ bob :> "QA_QC" @@ [u \in Users |-> nobody]
MCTeamOf       == bob :> roofers @@ [u \in Users |-> nobody]

\* Accounts
Owners(user) == <<"owners", OrgOf[user]>>
Account(kind, by, user) == [kind |-> kind, by |-> by, user |-> user, on |-> {user, Owners(user)}]
Role(by, user, role)     == Account("changeRole", by, user) @@ [role |-> role]
Status(by, user, status) == Account("changeStatus", by, user) @@ [status |-> status]
Leave(by, user, to) ==
    [kind |-> "offboard", by |-> by, user |-> user, to |-> to, on |-> {user, to, <<"members">>, Owners(user)}]
Member(kind, by, user, role) ==
    [kind |-> kind, by |-> by, user |-> user, role |-> role, on |-> {user, <<"members">>}]
Assign(t, user) == [kind |-> "assign", by |-> lead, task |-> t, user |-> user, on |-> {About(t), user}]

\* Tasks
Update(t, by, status) == [kind |-> "updateTask", task |-> t, by |-> by, status |-> status, on |-> {About(t), by}]
Of(kind, t, by)       == [kind |-> kind, task |-> t, by |-> by, on |-> {About(t)}]
Create                == [kind |-> "createTask", by |-> lead, on |-> {<<"codes">>}]
Before(t, x)          == [kind |-> "addDependency", before |-> t, after |-> x, on |-> {<<"dependencies">>}]

\* Plans
Draft(team)     == [kind |-> "createPlan", team |-> team, day |-> monday, tasks |-> {1, 2}, on |-> {<<"plans">>}]
Plan(kind, p)   == [kind |-> kind, plan |-> p, on |-> {p}]
Report(p, t, by, completed, quantity) ==
    [kind |-> "progress", plan |-> p, task |-> t, by |-> by, completed |-> completed,
     quantity |-> quantity, on |-> {p}]

\* Attendance
In(w)             == [kind |-> "checkIn", worker |-> w, on |-> {w}]
Out(w, n)         == [kind |-> "checkOut", worker |-> w, record |-> IF n = 0 THEN nobody ELSE <<w, n>>, on |-> {w}]
Correction(w, n, patch) == [kind |-> "correct", record |-> <<w, n>>, patch |-> patch, on |-> {w}]

\* Expenses
Submit(user, key)          == [kind |-> "submit", user |-> user, key |-> key, on |-> {}]
Review(b, user, status)    == [kind |-> "review", bill |-> b, user |-> user, status |-> status, on |-> {b}]

MCWorkloads == {
    {Role(boss, chief, "ADMIN"), Role(lead, ann, "OWNER"), Status(boss, chief, "SUSPENDED"),
     Status(chief, boss, "PENDING"), Status(boss, chief, "ACTIVE"), Leave(chief, boss, lead), Leave(boss, chief, ann)},
    {Status(rival, peer, "SUSPENDED"), Status(peer, rival, "SUSPENDED"), Status(rival, boss, "SUSPENDED"),
     Status(boss, chief, "SUSPENDED"), Status(chief, boss, "SUSPENDED"), Leave(chief, boss, peer)},
    {Leave(lead, ann, bob), Leave(boss, bob, ann), Assign(1, ann), Assign(1, bob), Assign(2, ann)},
    {Leave(lead, ann, bob), Member("addMember", lead, chief, "PM"), Member("addMember", lead, peer, "PM"),
     Member("changeMemberRole", rival, ann, "QA_QC"), Member("removeMember", lead, ann, "WORKER"),
     Member("removeMember", ann, bob, "WORKER"), Role(boss, ann, "PM")},
    {Update(1, lead, s) : s \in {"COMPLETED", "VERIFIED"}}
      \cup {Update(1, ann, "IN_PROGRESS"), Update(1, bob, "VERIFIED"), Update(1, lead, "IN_PROGRESS"),
            Update(1, ann, nobody), Assign(1, bob), Assign(1, lead)},
    {Update(1, lead, s) : s \in {"IN_PROGRESS", "COMPLETED"}}
      \cup {Update(1, bob, "VERIFIED"), Assign(1, ann), Leave(lead, ann, bob)},
    {Update(1, lead, s) : s \in {"READY", "IN_PROGRESS", "COMPLETED", "VERIFIED", "CANCELLED", "PLANNED"}}
      \cup {Of("blockTask", 1, ann), Of("unblockTask", 1, ann)},
    {Create},
    {Before(1, 2), Before(2, 1), Before(2, 3), Before(3, 1), Create},
    {Assign(1, ann), Draft(roofers), Draft(nobody), Plan("publish", p1), Plan("complete", p1), Plan("cancel", p1),
     Report(p1, 1, ann, TRUE, FALSE), Report(p1, 2, bob, nobody, TRUE), Report(p1, 2, bob, FALSE, TRUE)},
    {In(ann), Out(ann, 0), Out(ann, 1), Correction(ann, 1, [in |-> 1]),
     Correction(ann, 1, [out |-> nobody])},
    {Submit(ann, k1), Submit(ann, nobody), Review(b1, lead, "APPROVED"), Review(b1, boss, "REJECTED"),
     Review(b1, ann, "APPROVED"), Review(b2, lead, "REJECTED")} }

\* Only a task that is worked on, blocked, and verified.
MCTaskWorkload ==
    {{Update(1, lead, s) : s \in {"IN_PROGRESS", "COMPLETED", "VERIFIED"}}
      \cup {Of("blockTask", 1, ann), Of("unblockTask", 1, ann)}}

Symmetry == Permutations(Calls)
=============================================================================
