----------------------------- MODULE MCReports -----------------------------
(* Small instances of DailyReports. *)
EXTENDS DailyReports, TLC

CONSTANTS site, site2, depot, leader, mate, boss, nobody, k1, r1, r2, r3, r4, c1, c2, c3

Of(material, qty) == [material |-> material, qty |-> qty]

Ask(kind, user) == [kind |-> kind, user |-> user, status |-> nobody, action |-> nobody,
                    project |-> nobody, lines |-> nobody, key |-> nobody]

Create(status, lines, key) ==
    [Ask("create", leader) EXCEPT !.status = status, !.project = site, !.lines = lines, !.key = key]
Update(project, lines) ==
    [Ask("update", leader) EXCEPT !.project = project, !.lines = lines]
Submit(user) == Ask("submit", user)
Review(user, action) == [Ask("review", user) EXCEPT !.action = action]

MCRequests == {
    Create("SUBMITTED", {Of(1, 1), Of(2, 1)}, k1), Create("DRAFT", {Of(2, 1)}, k1),
    Create("SUBMITTED", {Of(1, -1)}, nobody),
    Update(site2, nobody), Update(nobody, {Of(2, 1), Of(1, -1)}),
    Submit(boss), Submit(mate), Review(boss, "APPROVED"), Review(boss, "REJECTED") }

MCExisting ==
    r1 :> [status |-> "DRAFT", leader |-> leader, project |-> site, lines |-> {Of(1, 1), Of(2, 1)}]
    @@ r2 :> [status |-> "SUBMITTED", leader |-> leader, project |-> site, lines |-> {Of(1, 1)}]

Row(project, material, warehouse) ==
    [project |-> project, material |-> material, warehouse |-> warehouse]

\* The first site has its cement in two rows; the second site has no stock.
MCBalances == {Row(site, 1, nobody), Row(site, 1, depot), Row(site, 2, nobody)}

MCOpening == [b \in Balances |-> IF b.warehouse = depot THEN 0 ELSE 1]

\* Other operations use the cement of the depot.
MCElsewhere == [b \in Balances |-> IF b.warehouse = depot THEN 1 ELSE 0]

\* r3 and r4 are not there at the start: they differ in nothing but their name.
Symmetry == Permutations(Calls) \cup Permutations({r3, r4})
=============================================================================
