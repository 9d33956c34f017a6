\* The services and tools, one at a time.  A service may have nothing more to do.
SPECIFICATION Spec
CONSTANTS
    c1 = c1
    c2 = c2
    h1 = h1
    h2 = h2
    d1 = d1
    d2 = d2
    cl1 = cl1
    cl2 = cl2
    cl3 = cl3
    cf1 = cf1
    cf2 = cf2
    s1 = s1
    s2 = s2
    af1 = af1
    af2 = af2
    ag1 = ag1
    ag2 = ag2
    rf1 = rf1
    rf2 = rf2
    rh1 = rh1
    rh2 = rh2
    pf1 = pf1
    pf2 = pf2
    e1 = e1
    a1 = a1
    pw = pw
    v1 = v1
    DbDisks = {d1, d2}
    DbFiles = {f1}
    DbVersions = {1, 2}
    DbSizes = {1}
    DbHosts = {h1, h2}
    DbClients = {c1, c2}
    DbHostOf <- HostOf
    DbPool = 2
    DbMaxOps = 3
    DbNone = DbNone
    CfgSlots = {"1", "2"}
    CfgSetIds = {st1, st2}
    CfgMimes = {m1}
    CfgEdits = 2
    XElements = {e1}
    XAttrs = {a1, pw}
    XVals = {v1, XNull}
    XSecret = {pw}
    XNull = XNull
    XEmpty = XEmpty
    XHidden = XHidden
    XNone = XNone
    XDocs <- SomeXml
    XRadix = 3
    XMaxIndex = 3
    XMaxOps = 4
    ObjHops = 3
    SnFiles = {f1, f2}
    SnOps = 2
    SnFaults = 2
    ClHosts = {cl1, cl2, cl3}
    ClWaker = cl1
    ClPool = 2
    ClRows <- SomeRows
    ClFaults = 2
    CoIds = {1, 2, 3}
    CoNames = {n1}
    CoFiles = {cf1, cf2}
    CoSize <- CoSizes
    CoReqs = {q1, q2}
    CoMaxReqs = 2
    CoNone = CoNone
    MpDocs <- SomeDocs
    MpBlocks = {1, 3, 4, 7}
    MpDelim = 3
    MqFiles = {f1, f2}
    MqThreads = {t1, t2}
    MqLimit = 4
    MqEvents = 4
    XsFiles = {f1, f2}
    XsThreads = {t1, t2}
    XsMaxRetries = 2
    XsEvents = 4
    AlSessions = {s1, s2}
    AlWant <- Want
    AlKnown = {af1, af2}
    AlPushers = 1
    AlThreads = {1, 2}
    AlEvents = 2
    RjTasks = {1, 2}
    RjFiles <- TaskFiles
    RjHosts = {rh1, rh2}
    RjStored <- SomeStored
    RjRetries = 1
    RjEvents = 2
    RjNone = RjNone
    FmFiles = {f1, f2}
    FmServers = {v1, v2}
    FmArchivers = {a1, a2}
    FmCheckers = {k1}
    FmEvents = 2
    FmNone = FmNone
    CrServers = {v1, v2}
    CrFaults = 2
    RgPaths = 3
    RgFileId <- PathIds
    RgUnknown = {3}
    RgCmds = {c1, c2}
    RgEvents = 1
    LsFiles = {f1, f2, f3}
    LsReqs = {r1, r2}
    LsMax = 2
    LsEvents = 2
    CpFiles = {pf1, pf2}
    CpObs <- OneObs
    CpHost <- TwoHosts
    CpEvents = 2
    CpNone = CpNone
    AtFiles = {f1}
    AtTools = {t1, t2}
    AtOptions = {{"archive", "check"}, {"cleanUp"}}
    AtMaxVer = 2
    AtEvents = 1
    AtNone = AtNone
CHECK_DEADLOCK FALSE
INVARIANTS
    DatabaseSound
    ConfigurationSound
    ObjectsTravel
    ClusterServes
    ContainersAddUp
    RequestsNotLost
    
    
    FilesAccounted
PROPERTIES
    SourceArchived
