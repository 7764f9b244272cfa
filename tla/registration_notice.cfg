SPECIFICATION Spec
CONSTANTS
    m1 = m1  m2 = m2  m3 = m3  m4 = m4
    h1 = h1  h2 = h2  p1 = p1  p2 = p2  t1 = t1  t2 = t2
    NoMessage = NoMessage  NoTenant = NoTenant  NoRow = NoRow
    Messages = {m1, m2, m3, m4}
    KindOf <- SomeKinds
    Handlers = {h1}
    Tools = {p1}
    Tenants = {t1}
    Window = 2
    MaxDeliveries = 4
    MaxCommands = 1
    MaxFaults = 0
    MaxRestarts = 0
    Characters <- SomeCharacters
    PhoneTexts = {}
    MinRest = 2
    MaxRest = 4
INVARIANTS
    ReadyIsTold
CHECK_DEADLOCK FALSE
