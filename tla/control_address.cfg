SPECIFICATION Spec
CONSTANTS
    p1 = p1  p2 = p2
    t1 = t1  t2 = t2  t3 = t3  s1 = s1  s2 = s2  n1 = n1  n2 = n2
    a1 = a1  a2 = a2  x1 = x1  x2 = x2  c1 = c1  c2 = c2
    NoTenant = NoTenant  NoSlug = NoSlug  NoName = NoName  NoAccount = NoAccount
    NoSession = NoSession
    NoChat = NoChat  NoTask = NoTask  NoRow = NoRow  NoFile = NoFile
    Tenants = {t1, t2}
    Slugs = {s1, s2}
    Names = {n1, n2}
    Accounts = {a1, a2}
    Sessions = {x1, x2}
    Chats = {c1, c2}
    NameOf <- OwnName
    Backend = "sqlite"
    Tools = {p1}
    Entries <- RenameEntries
    Files = {}
    MaxCommands = 2
    MaxFaults = 0
    MaxJobs = 2
INVARIANTS
    AddressIsCurrent
CHECK_DEADLOCK FALSE
