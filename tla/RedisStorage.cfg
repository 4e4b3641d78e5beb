SPECIFICATION FairSpec
CONSTANTS
    Absent = Absent
    Nothing <- NoRecord
    c1 = c1
    c2 = c2
    n = n
    m = "*"
    v = v
    w = w
    Clients = {c1, c2}
    Namespaces = {n, m}
    Keys <- TrickyKeys
    Values = {v, w}
    Applications <- MCApplications
    NotificationsEnabled = {n}
PROPERTIES
    AtomicOperations
    EveryChangePublished
    EveryCallAnswered
