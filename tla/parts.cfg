SPECIFICATION PartsSpec
CONSTANTS
    Parts = {"link", "conf", "send", "glines", "masks", "rules", "tables", "messages", "uping", "settings", "ipcheck"}
    u1 = u1
    u2 = u2
    s1 = s1
    s2 = s2
    o1 = o1
    m1 = m1
    m2 = m2
    m3 = m3
    p1 = p1
    Servers = {1, 2, 3}
    CLines <- mcAll
    Ports <- mcPorts
    HLines <- mcHPairs
    LLines = {}
    LeafBuilds = {}
    StartOf <- mcStart
    OperNumeric = {0}
    Linked <- mcLinked
    SameSecond = FALSE
    MaxTries = 3
    MaxCuts = 1
    People = {u1, u2}
    Links = {s1}
    Files <- mcFiles
    MaxRehash = 2
    MaxOpers = 1
    Down <- mcDown
    Zipped = {s2}
    OperSeq <- mcOpers
    Plain = {}
    BufUnits = 2
    PoolBufs = 3
    SqUnits = 2
    SendLimit = 2
    FloodLimit = 0
    Slow = {s1}
    SockUnits = 2
    ListBuckets = 3
    ListLow = 2
    MaxMsgs = 3
    MaxLists = 1
    Masks = {m1, m2}
    Persons = {p1}
    Hits <- mcHits
    Covers <- mcCovers
    Spans = {1, 2}
    LastMods = {0, 2}
    MaxGTime = 3
    MaxGlines = 2
    MaskChars <- mcMaskChars
    NameChars <- mcNameChars
    MaxMask = 4
    MaxName = 3
    MaxOther = 3
    Behind <- mcBehind
    Phrases <- mcPhrases
    MaxPhrases = 5
    Named <- mcNamed
    RuleWorlds <- mcRuleWorlds
    Myself = "me"
    Ids = {"c1", "c2"}
    Names = {"n1", "n2", "n3"}
    Chain <- mcChain
    Blocks = {"b1", "b2"}
    Tries = {"l1"}
    MyMask = 0
    HisMask = 1
    MaxNumeric = 4
    Focus = {"clients", "channels", "watches", "addresses"}
    Relays = {"r1", "r2", "r3"}
    Way <- mcWay
    Folk <- mcFolk
    HomeOf <- mcHomes
    Worlds <- mcWorlds
    Talk <- mcTalk
    SilMasks = {"*", "a*", "c*"}
    SilTalk <- mcSilTalk
    Silencers = {"eve"}
    SilCovers <- mcSilCovers
    SilHits <- mcSilHits
    SilLen <- mcSilLen
    MAXSILES = 2
    MAXSILELENGTH = 4
    MaxTalk = 3
    MaxSilCmds = 4
    Goals = {1, 2, 3}
    MAXTARGETS = 2
    RESERVEDTARGETS = 1
    STARTTARGETS = 2
    TARGET_DELAY = 2
    MaxPaceClock = 8
    MaxPaced = 5
    Desks = {"talk", "silence", "targets"}
    Askers = {"o1", "o2"}
    Pings = {"p1", "p2"}
    Fds = {1, 2, 3, 4}
    Counts = {1, 2}
    MaxExtra = 1
    SetKeys <- mcSetKeys
    KindOf <- mcKinds
    ValuesOf <- mcValuesOf
    Atoi <- mcAtoi
    NickMax = 30
    MaxWrites = 3
    Boots = {"file"}
    Client = {k1, k2}
    Ip = {i1, i2}
    Iline = {i2}
    MaxClones = 1
    ConnMod = 16
    AttMod = 4
    TimeMod = 16
    Limit = 1
    Period = 1
    Delay = 0
    Expire = 2
    ProxyProto = {"TCP4"}
    MaxNow = 3
    MaxIpTries = 2
INVARIANTS
    PartQuietTree PartLinksAreAttachments PartOutputKept NoneSlips PartMatchersAgree
    PartRuleMeaning PartTablesKept PartDelivered PingsOwned PartSettingsFollow ClonesCounted
CHECK_DEADLOCK FALSE
