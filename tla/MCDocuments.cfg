SPECIFICATION Spec
CONSTANTS
    site = site  yard = yard  all = all  x = x  y = y  a1 = a1  a2 = a2  c1 = c1  c2 = c2
    Calls = {c1, c2}
    Null = all
    Workloads <- MCWorkloads
    Folders = {1, 2, 3}
    Names = {x, y}
    Projects = {site, yard}
    Docs = {1, 2}
    Contents = {x, y}
    MaxBlobs = 3
    Attachments = {a1, a2}
    FirstFolders <- MCFirstFolders
SYMMETRY Symmetry
INVARIANTS TypeOK VersionsMatchFiles FoldersHoldTogether AttachmentsStayInProject
PROPERTY ArchivedIsFrozen
