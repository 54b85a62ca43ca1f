---------------------------- MODULE MCDocuments ----------------------------
(* A small instance of Documents: what the requests of one behaviour are about. *)
EXTENDS Documents, TLC

CONSTANTS site, yard, all, x, y, a1, a2, c1, c2

\* Folder 1 is one of the project site.
MCFirstFolders == 1 :> [parent |-> all, name |-> x, project |-> site] @@ [f \in Folders |-> all]

Tree(kind, f, parent, name) ==
    [kind |-> kind, folder |-> f, parent |-> parent, name |-> name, project |-> site, on |-> {}]

Put(project, folder, content, unique) ==
    [kind |-> "upload", project |-> project, folder |-> folder, content |-> content, unique |-> unique,
     link |-> FALSE, on |-> {}]
For(project, target, checked) ==
    [kind |-> "upload", project |-> project, folder |-> all, content |-> x, unique |-> FALSE,
     link |-> TRUE, target |-> target, checked |-> checked, on |-> {<<"links">>}]
Next1(content, unique) ==
    [kind |-> "addVersion", doc |-> 1, content |-> content, unique |-> unique, on |-> {<<"doc", 1>>}]
Of(kind)          == [kind |-> kind, doc |-> 1, on |-> {<<"doc", 1>>}]
In(folder)        == [kind |-> "file", doc |-> 1, folder |-> folder, on |-> {<<"doc", 1>>}]
To(project)       == [kind |-> "reassign", doc |-> 1, project |-> project, on |-> {<<"doc", 1>>, <<"links">>}]
Join(project, target, checked) ==
    [kind |-> "attach", doc |-> 1, project |-> project, target |-> target, checked |-> checked, on |-> {<<"links">>}]
Part(a)           == [kind |-> "detach", attachment |-> a, on |-> {<<"links">>}]

MCWorkloads == {
    {Tree("createFolder", all, all, y), Tree("createFolder", all, 1, x), Tree("renameFolder", 2, all, x),
     Tree("moveFolder", 1, 2, x), Tree("moveFolder", 2, 1, x), Tree("moveFolder", 3, 2, x),
     Tree("moveFolder", 1, 3, x), Tree("moveFolder", 3, all, x), Tree("deleteFolder", 2, all, x)},
    {Put(site, 1, x, TRUE), In(1), In(all), To(site), To(yard), Tree("deleteFolder", 1, all, x)},
    {Put(site, all, x, TRUE), In(1), To(yard), Next1(y, FALSE), Of("archive"), Of("restore")},
    {Put(site, all, x, TRUE), Put(all, all, x, FALSE), Next1(x, FALSE), Next1(y, TRUE)},
    {For(site, site, TRUE), For(site, yard, TRUE), Part(a1), To(yard), Next1(y, TRUE)},
    {For(site, yard, FALSE), Part(a1), To(yard)},
    {Put(all, all, x, TRUE), Join(site, site, TRUE), Join(site, yard, TRUE), Join(site, yard, FALSE),
     To(site), To(yard)} }

Symmetry == Permutations(Calls)
=============================================================================
