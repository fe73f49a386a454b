----------------------------- MODULE MitmEngine -----------------------------
(***************************************************************************)
(* The TLS interception engine (mitm.c) and its callers in main.c: the CA  *)
(* on disk, the engine loaded from it, the cache of domain certificates,   *)
(* the requests that enable, disable and re-generate, and the accept       *)
(* threads that wrap connections.                                          *)
(*                                                                         *)
(* A CA is its number, in the order they are generated; a file that does   *)
(* not hold a whole PEM is Broken.  pf_mitm_get_cert and the first part of *)
(* pf_mitm_close run with cache_lock held and are one step each.  The rest *)
(* of pf_mitm_close and pf_mitm_init run without it, while accept threads  *)
(* may be using the engine: an access through a pointer that was freed is  *)
(* undefined behaviour, which undefinedUse records; the model says nothing *)
(* of what follows.                                                        *)
(***************************************************************************)
EXTENDS Integers, Sequences, FiniteSets

CONSTANTS Names,       \* names clients ask for, in any case
          Domains,     \* the names in lower case
          Lower,       \* the lower case of a name
          SafeNames,   \* names fit for a certificate, domain_is_safe
          Base,        \* per domain: its hash, fnv1a64_lower & CACHE_MASK
          CacheSize,   \* PF_MITM_CERT_CACHE_SIZE, 256
          CacheProbe,  \* CACHE_PROBE, 16
          Wrappers,    \* accept threads
          MaxCerts,    \* bound: certificates generated between starts
          MaxCas,      \* bound: CAs generated
          MaxHits,     \* bound on g_tick
          MaxStarts    \* bound: starts of the daemon

ASSUME MitmAssumption ==
    /\ Lower \in [Names -> Domains] /\ SafeNames \subseteq Names
    /\ CacheSize \in Nat \ {0} /\ CacheProbe \in 1..CacheSize
    /\ Base \in [Domains -> 0..CacheSize-1] /\ IsFiniteSet(Wrappers)
    /\ MaxCerts \in Nat /\ MaxCas \in Nat /\ MaxHits \in Nat /\ MaxStarts \in Nat

Absent == 0
Broken == -1

VARIABLES
    caKeyFile, caCertFile,  \* the two files
    inspectStored,  \* the setting inspect_enabled in the database
    caKey, caCert,  \* m->ca_key, m->ca_cert: 0 is NULL
    contexts,       \* m->server_ctx, m->client_ctx: none or live
    dangling,       \* m holds pointers pf_mitm_close has freed
    enabled,        \* m->enabled
    cache,          \* m->cache
    cacheCount,     \* m->cache_count
    tick,           \* g_tick
    certs,          \* certificates generated since the start: domain, CA, issuer
    refs,           \* per certificate: reference count
    mitmMain,       \* where the main thread is
    acked,          \* the last answer to inspect.generate_ca was ok
    wrap,           \* per accept thread: where it is, for which name, with what
    lastCa, starts, \* counters of CAs and of starts
    undefinedUse    \* history: freed memory was used

caFiles == <<caKeyFile, caCertFile, lastCa>>
engine == <<caKey, caCert, contexts, dangling, enabled>>
cacheVars == <<cache, cacheCount, tick, certs, refs>>
mitmVars == <<caKeyFile, caCertFile, lastCa, inspectStored, caKey, caCert, contexts,
              dangling, enabled, cache, cacheCount, tick, certs, refs, mitmMain,
              acked, wrap, starts, undefinedUse>>

-----------------------------------------------------------------------------
NoEntry == [used |-> FALSE, dom |-> CHOOSE d \in Domains : TRUE, cert |-> 0, last |-> 0]
Free == [at |-> "idle", name |-> CHOOSE n \in Names : TRUE, cert |-> 0]

CaExists == caKeyFile # Absent /\ caCertFile # Absent

MitmInit ==
    /\ caKeyFile = Absent /\ caCertFile = Absent /\ lastCa = 0
    /\ inspectStored = FALSE
    /\ caKey = 0 /\ caCert = 0 /\ contexts = FALSE /\ dangling = FALSE /\ enabled = FALSE
    /\ cache = [i \in 0..CacheSize-1 |-> NoEntry] /\ cacheCount = 0 /\ tick = 0
    /\ certs = <<>> /\ refs = <<>>
    /\ mitmMain = "start" /\ acked = FALSE
    /\ wrap = [t \in Wrappers |-> Free]
    /\ starts = 1 /\ undefinedUse = FALSE

-----------------------------------------------------------------------------
(* pf_mitm_init and its callers. *)

\* pf_mitm_init: the fields it leaves, and whether it returns PF_OK.  It stops
\* at the first file that does not load, keeping what it has loaded.
Load ==
    LET key == IF CaExists /\ caKeyFile # Broken THEN caKeyFile ELSE 0
        cert == IF key # 0 /\ caCertFile # Broken THEN caCertFile ELSE 0
    IN [key |-> key, cert |-> cert, ok |-> ~CaExists \/ cert # 0]

LoadEngine ==
    /\ caKey' = Load.key /\ caCert' = Load.cert
    /\ contexts' = (Load.cert # 0) /\ dangling' = FALSE

\* Start of the daemon: the setting is restored only after a good init.
StartEngine ==
    /\ ~undefinedUse /\ mitmMain = "start"
    /\ LoadEngine
    /\ enabled' = (Load.ok /\ inspectStored /\ Load.key # 0)
    /\ mitmMain' = "idle"
    /\ UNCHANGED <<caFiles, inspectStored, cacheVars, acked, wrap, starts, undefinedUse>>

InspectEnable ==
    /\ ~undefinedUse /\ mitmMain = "idle" /\ caKey # 0
    /\ enabled' = TRUE /\ inspectStored' = TRUE
    /\ UNCHANGED <<caFiles, caKey, caCert, contexts, dangling, cacheVars, mitmMain, acked, wrap, starts, undefinedUse>>

InspectDisable ==
    /\ ~undefinedUse /\ mitmMain = "idle"
    /\ enabled' = FALSE /\ inspectStored' = FALSE
    /\ UNCHANGED <<caFiles, caKey, caCert, contexts, dangling, cacheVars, mitmMain, acked, wrap, starts, undefinedUse>>

-----------------------------------------------------------------------------
(* inspect.generate_ca. *)

\* Fault: a key that is there is kept when a CA is generated.
GenerateCaKeepsKey ==
    /\ ~undefinedUse /\ mitmMain = "idle"
    /\ IF CaExists
       THEN mitmMain' = "close" /\ UNCHANGED lastCa
       ELSE /\ lastCa < MaxCas /\ lastCa' = lastCa + 1
            /\ mitmMain' = IF caKeyFile = Absent THEN "write key" ELSE "write cert"
    /\ acked' = FALSE
    /\ UNCHANGED <<caKeyFile, caCertFile, inspectStored, engine, cacheVars, wrap, starts, undefinedUse>>

\* A CA that exists, whatever is in its files, is not generated again.
GenerateCa ==
    /\ ~undefinedUse /\ mitmMain = "idle"
    /\ IF CaExists
       THEN mitmMain' = "close" /\ UNCHANGED lastCa
       ELSE /\ lastCa < MaxCas /\ lastCa' = lastCa + 1
            /\ mitmMain' = "write key"
    /\ acked' = FALSE
    /\ UNCHANGED <<caKeyFile, caCertFile, inspectStored, engine, cacheVars, wrap, starts, undefinedUse>>

\* A file is written, or left broken (truncated before the write fails), with
\* or without the error being noticed, or cannot be opened.
WriteKey ==
    /\ ~undefinedUse /\ mitmMain = "write key"
    /\ \/ caKeyFile' = lastCa /\ mitmMain' = "write cert"
       \/ caKeyFile' = Broken /\ mitmMain' \in {"write cert", "idle"}
       \/ UNCHANGED caKeyFile /\ mitmMain' = "idle"
    /\ UNCHANGED <<caCertFile, lastCa, inspectStored, engine, cacheVars, acked, wrap, starts, undefinedUse>>

WriteCert ==
    /\ ~undefinedUse /\ mitmMain = "write cert"
    /\ \/ caCertFile' = lastCa /\ mitmMain' = "close"
       \/ caCertFile' = Broken /\ mitmMain' \in {"close", "idle"}
       \/ UNCHANGED caCertFile /\ mitmMain' = "idle"
    /\ UNCHANGED <<caKeyFile, lastCa, inspectStored, engine, cacheVars, acked, wrap, starts, undefinedUse>>

\* The certificates in the cache, each once per slot.
Cached(c) == {i \in 0..CacheSize-1 : cache[i].used /\ cache[i].cert = c}

\* pf_mitm_close with the lock: the cache's references go, its slots stay.
CloseCache ==
    /\ ~undefinedUse /\ mitmMain = "close"
    /\ refs' = [c \in DOMAIN refs |-> refs[c] - Cardinality(Cached(c))]
    /\ cacheCount' = 0
    /\ dangling' = TRUE
    /\ mitmMain' = "clear"
    /\ UNCHANGED <<caFiles, inspectStored, caKey, caCert, contexts, enabled, cache, tick, certs, acked, wrap, starts, undefinedUse>>

\* Fault: the cache is not cleared with the rest of the engine.
ReloadKeepsCache ==
    /\ ~undefinedUse /\ mitmMain = "clear"
    /\ LoadEngine /\ enabled' = FALSE
    /\ acked' = Load.ok
    /\ mitmMain' = "idle"
    /\ UNCHANGED <<caFiles, inspectStored, cache, cacheCount, tick, certs, refs, wrap, starts, undefinedUse>>

\* The rest of pf_mitm_close and pf_mitm_init: the engine is cleared and loaded
\* again, disabled; the stored setting is left as it was.
Reload ==
    /\ ~undefinedUse /\ mitmMain = "clear"
    /\ LoadEngine /\ enabled' = FALSE
    /\ cache' = [i \in 0..CacheSize-1 |-> NoEntry]
    /\ acked' = Load.ok
    /\ mitmMain' = "idle"
    /\ UNCHANGED <<caFiles, inspectStored, cacheCount, tick, certs, refs, wrap, starts, undefinedUse>>

\* The daemon ends at any point and is started again.
Restart ==
    /\ starts < MaxStarts /\ ~undefinedUse /\ mitmMain # "start"
    /\ starts' = starts + 1
    /\ caKey' = 0 /\ caCert' = 0 /\ contexts' = FALSE /\ dangling' = FALSE /\ enabled' = FALSE
    /\ cache' = [i \in 0..CacheSize-1 |-> NoEntry] /\ cacheCount' = 0 /\ tick' = 0
    /\ certs' = <<>> /\ refs' = <<>> /\ wrap' = [t \in Wrappers |-> Free]
    /\ mitmMain' = "start" /\ acked' = FALSE
    /\ \/ UNCHANGED <<caKeyFile, caCertFile>>
       \/ mitmMain = "write key" /\ caKeyFile' = Broken /\ UNCHANGED caCertFile
       \/ mitmMain = "write cert" /\ caCertFile' = Broken /\ UNCHANGED caKeyFile
    /\ UNCHANGED <<lastCa, inspectStored, undefinedUse>>

-----------------------------------------------------------------------------
(* An accept thread. *)

\* The engine is used through pointers that may have been freed.
UseFreed ==
    /\ undefinedUse' = TRUE
    /\ UNCHANGED <<caFiles, inspectStored, engine, cacheVars, mitmMain, acked, wrap, starts>>

\* pf_mitm_wrap_server.
WrapServer(t) ==
    /\ ~undefinedUse /\ wrap[t].at = "idle" /\ enabled /\ caKey # 0
    /\ IF contexts /\ dangling
       THEN UseFreed
       ELSE /\ contexts
            /\ \E n \in Names : wrap' = [wrap EXCEPT ![t] = [at |-> "cert", name |-> n, cert |-> 0]]
            /\ UNCHANGED <<caFiles, inspectStored, engine, cacheVars, mitmMain, acked, starts, undefinedUse>>

\* The slots a domain may be in, in the order they are probed.
Probe(d) == [k \in 1..CacheProbe |-> (Base[d] + k - 1) % CacheSize]

\* The length of the run of used slots at the start of a probe.
Run(d) == LET empty == {k \in 1..CacheProbe : ~cache[Probe(d)[k]].used}
          IN IF empty = {} THEN CacheProbe
             ELSE (CHOOSE k \in empty : \A j \in empty : k <= j) - 1

Hits(d) == {k \in 1..Run(d) : cache[Probe(d)[k]].dom = d}

\* The first free slot of the probe, or the least recently used one.
InsertSlot(d) ==
    LET p == Probe(d)
    IN IF Run(d) < CacheProbe THEN p[Run(d) + 1]
       ELSE p[CHOOSE k \in 1..CacheProbe :
                 \A j \in 1..CacheProbe : cache[p[k]].last <= cache[p[j]].last]

\* pf_mitm_get_cert, with the lock: a hit, or a certificate signed with the CA
\* and inserted; the caller gets a reference of its own.
GetCert(t) ==
    LET d == Lower[wrap[t].name]
        i == InsertSlot(d)
        new == Len(certs) + 1
    IN /\ ~undefinedUse /\ wrap[t].at = "cert" /\ wrap[t].name \in SafeNames
       /\ caKey # 0 /\ tick < MaxHits
       /\ IF dangling
          THEN UseFreed
          ELSE /\ \/ /\ Hits(d) # {}
                     /\ LET hit == Probe(d)[CHOOSE k \in Hits(d) : \A j \in Hits(d) : k <= j]
                            c == cache[hit].cert
                        IN /\ cache' = [cache EXCEPT ![hit].last = tick + 1]
                           /\ refs' = [refs EXCEPT ![c] = @ + 1]
                           /\ wrap' = [wrap EXCEPT ![t].at = "ssl", ![t].cert = c]
                     /\ UNCHANGED <<certs, cacheCount>>
                  \/ /\ Hits(d) = {} /\ new <= MaxCerts
                     /\ certs' = Append(certs, [dom |-> d, ca |-> caKey, issuer |-> caCert])
                     /\ refs' = Append([c \in DOMAIN refs |->
                                   IF cache[i].used /\ cache[i].cert = c
                                   THEN refs[c] - 1 ELSE refs[c]], 2)
                     /\ cacheCount' = IF cache[i].used THEN cacheCount ELSE cacheCount + 1
                     /\ cache' = [cache EXCEPT ![i] =
                                   [used |-> TRUE, dom |-> d, cert |-> new, last |-> tick + 1]]
                     /\ wrap' = [wrap EXCEPT ![t].at = "ssl", ![t].cert = new]
               /\ tick' = tick + 1
               /\ UNCHANGED <<caFiles, inspectStored, engine, mitmMain, acked, starts, undefinedUse>>

\* The certificate cannot be had: the CA is gone, the name is not safe, or its
\* generation fails.
NoCert(t) ==
    /\ ~undefinedUse /\ wrap[t].at = "cert"
    /\ wrap' = [wrap EXCEPT ![t] = Free]
    /\ UNCHANGED <<caFiles, inspectStored, engine, cacheVars, mitmMain, acked, starts, undefinedUse>>

\* SSL_new and SSL_use_certificate: the session takes the reference over.
UseCert(t) ==
    /\ ~undefinedUse /\ wrap[t].at = "ssl"
    /\ IF contexts /\ dangling
       THEN UseFreed
       ELSE /\ contexts
            /\ wrap' = [wrap EXCEPT ![t].at = "relay"]
            /\ UNCHANGED <<caFiles, inspectStored, engine, cacheVars, mitmMain, acked, starts, undefinedUse>>

\* Fault: the reference of a session that could not be made is kept.
DropCertKeepsRef(t) ==
    /\ ~undefinedUse /\ wrap[t].at \in {"ssl", "relay"}
    /\ wrap' = [wrap EXCEPT ![t] = Free]
    /\ UNCHANGED <<caFiles, inspectStored, engine, cacheVars, mitmMain, acked, starts, undefinedUse>>

\* The session cannot be made or its handshake fails, or the connection it
\* served is closed.
DropCert(t) ==
    /\ ~undefinedUse /\ wrap[t].at \in {"ssl", "relay"}
    /\ refs' = [refs EXCEPT ![wrap[t].cert] = @ - 1]
    /\ wrap' = [wrap EXCEPT ![t] = Free]
    /\ UNCHANGED <<caFiles, inspectStored, engine, cache, cacheCount, tick, certs, mitmMain, acked, starts, undefinedUse>>

MitmNext ==
    \/ StartEngine \/ InspectEnable \/ InspectDisable
    \/ GenerateCa \/ WriteKey \/ WriteCert \/ CloseCache \/ Reload \/ Restart
    \/ \E t \in Wrappers : WrapServer(t) \/ GetCert(t) \/ NoCert(t) \/ UseCert(t) \/ DropCert(t)

-----------------------------------------------------------------------------
(* Properties. *)

MitmTypeOK ==
    /\ caKeyFile \in -1..MaxCas /\ caCertFile \in -1..MaxCas /\ lastCa \in 0..MaxCas
    /\ inspectStored \in BOOLEAN /\ enabled \in BOOLEAN /\ contexts \in BOOLEAN
    /\ dangling \in BOOLEAN /\ acked \in BOOLEAN /\ undefinedUse \in BOOLEAN
    /\ caKey \in 0..MaxCas /\ caCert \in 0..MaxCas
    /\ cache \in [0..CacheSize-1 -> [used : BOOLEAN, dom : Domains,
                                     cert : 0..MaxCerts, last : 0..MaxHits]]
    /\ cacheCount \in 0..CacheSize /\ tick \in 0..MaxHits
    /\ certs \in Seq([dom : Domains, ca : 1..MaxCas, issuer : 0..MaxCas])
    /\ refs \in [1..Len(certs) -> Nat]
    /\ wrap \in [Wrappers -> [at : {"idle", "cert", "ssl", "relay"}, name : Names,
                              cert : 0..MaxCerts]]
    /\ mitmMain \in {"start", "idle", "write key", "write cert", "close", "clear"}
    /\ starts \in 1..MaxStarts

\* The cache stays a hash table under insertion, eviction and reload, by any
\* threads: no domain is in it twice, every entry is found by its probe (no
\* free slot in front of it), cache_count is the number of entries, and an
\* entry's certificate is for its domain and signed by the CA that is loaded
\* now (pf_mitm_get_cert, pf_mitm_close).
CertCacheIsSound ==
    ~dangling =>
        LET used == {i \in 0..CacheSize-1 : cache[i].used}
        IN /\ cacheCount = Cardinality(used)
           /\ \A i \in used :
                 /\ \E k \in Hits(cache[i].dom) : Probe(cache[i].dom)[k] = i
                 /\ Cardinality(Hits(cache[i].dom)) = 1
                 /\ certs[cache[i].cert].dom = cache[i].dom
                 /\ certs[cache[i].cert].ca = caKey
           /\ \A t \in Wrappers : wrap[t].cert # 0 =>
                 certs[wrap[t].cert].dom = Lower[wrap[t].name]

\* Certificates are neither leaked nor freed under their users: each has one
\* reference per cache slot and one per accept thread or connection that
\* holds it, across eviction and reload (the owned references of
\* pf_mitm_get_cert), so one that is in use is alive.
CertRefsAreExact ==
    \A c \in DOMAIN refs :
        refs[c] = Cardinality({t \in Wrappers : wrap[t].cert = c})
                  + IF dangling THEN 0 ELSE Cardinality(Cached(c))

\* Over failed writes, crashes, restarts and reloads: interception is on only
\* with a key loaded, it wraps connections only with a key and certificate of
\* the same CA, every certificate was signed with such a pair, and a
\* generate_ca that was answered with ok has left a CA that a restart loads
\* (pf_mitm_generate_ca, pf_mitm_init, inspect.enable).
CaIsWhole ==
    /\ enabled => caKey # 0
    /\ contexts => caKey # 0 /\ caKey = caCert
    /\ \A c \in DOMAIN certs : certs[c].issuer = certs[c].ca
    /\ acked => Load.ok /\ Load.key # 0
=============================================================================
