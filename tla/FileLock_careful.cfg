SPECIFICATION CarefulSpec
CONSTANTS
    p1 = p1
    p2 = p2
    p3 = p3
    a1 = a1
    a2 = a2
    b1 = b1
    c1 = c1
    t1 = t1
    t2 = t2
    t3 = t3
    t4 = t4
    h1 = h1
    h2 = h2
    root = root
    user = user
    Proc = {p1, p2, p3}
    Obj = {a1, a2, b1, c1}
    ProcOf <- MCProcOf
    HostOf <- TwoHosts
    UserOf <- OneUser
    Token = {t1, t2, t3, t4}
    NoToken = NoToken
    Host = {h1, h2}
    HumanHost = h1
    NoFile = NoFile
    Garbage = Garbage
    InitFile = {NoFile, Garbage}
    MayCrash = {p1, p2, p3}
    MaxBirth = 1
SYMMETRY TokenSymmetry
CHECK_DEADLOCK FALSE
INVARIANT MutualExclusion
