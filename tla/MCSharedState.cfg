SPECIFICATION Spec
CONSTANTS
    RingSize = 2
    QueueSize = 1
    QueueBatch = 1
    Chunks = {"short", "tracker", "message", "h2 preface", "unparsable", "asset"}
    DefaultLimit = 2
    MaxLimit = 3
    Limits = {0, 1}
    MaxChunks = 3
    MaxReads = 1
    BufBytes = 2
    RecordBytes = 3
    MaxBytes = 3
    Names = {"A", "b", "c"}
    Domains = {"a", "b", "c"}
    SafeNames = {"A", "b", "c"}
    Lower <- MCLower
    Base <- MCBase
    CacheSize = 3
    CacheProbe = 2
    Wrappers = {t1, t2}
    MaxCerts = 3
    MaxCas = 2
    MaxHits = 3
    MaxStarts = 2
    DnsSlots = 2
    DnsNames = {"x", "y", "z"}
    Addresses = {"ip1", "ip2"}
    Answers <- MCAnswers
    DnsTtl = 2
    MinTtl = 1
    MaxNow = 4
    MaxPackets = 4
    PoolSize = 2
    SshProxies = {1, 2, 3}
    MaxTests = 3
CHECK_DEADLOCK FALSE
INVARIANTS
    RingHoldsLatest
    PollsAreExact
    RelayKeepsOrder
    CertCacheIsSound
    CertRefsAreExact
    CaIsWhole
    DnsEntriesAreLatest
    SshPoolIsSound
PROPERTY
    SentIsRead
