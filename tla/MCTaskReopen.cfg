SPECIFICATION Spec
CONSTANTS
    boss = boss  chief = chief  lead = lead  ann = ann  bob = bob  rival = rival  peer = peer
    ours = ours  theirs = theirs  roofers = roofers  monday = monday
    p1 = p1  p2 = p2  b1 = b1  b2 = b2  k1 = k1  nobody = nobody  c1 = c1  c2 = c2
    Calls = {c1, c2}
    Null = nobody
    Workloads <- MCTaskWorkload
    Users = {boss, chief, lead, ann, bob, rival, peer}
    Orgs = {ours, theirs}
    OrgOf <- MCOrgOf
    Organization = ours
    Tasks = {1, 2, 3, 4}
    FirstUsers <- MCFirstUsers
    FirstMembers <- MCFirstMembers
    FirstTasks = {1, 2}
    Attempts = 3
    Plans = {p1, p2}
    Teams = {roofers}
    Days = {monday}
    TeamOf <- MCTeamOf
    Workers = {ann}
    MaxRecords = 2
    MaxTime = 2
    RegularHours = 1
    Staff = {boss, lead, ann}
    Keys = {k1}
    Bills = {b1, b2}
    MaxApprovals = 3
SYMMETRY Symmetry
PROPERTY OnlyReopenersReopen
