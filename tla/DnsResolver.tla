----------------------------- MODULE DnsResolver -----------------------------
(***************************************************************************)
(* The local resolver of the via-proxy mode (dns_resolver.c).  The main    *)
(* thread reads a query from the UDP socket and starts a detached thread   *)
(* for it; the thread answers from the cache or asks a DoH server through  *)
(* a proxy, answers, and caches.  The main thread may close and open the   *)
(* socket at any time (DnsMode) and does not know which threads still run. *)
(*                                                                         *)
(* The cache is a ring under a mutex: an answer is written at g_dns_cache_ *)
(* head whatever is there, and looked up from slot 0 on.  A query has a    *)
(* key (name and type); its id, which the lookup puts in front of the      *)
(* cached bytes, is left out.  The clock does not step back.               *)
(***************************************************************************)
EXTENDS Naturals, FiniteSetsExt

CONSTANTS Queries,   \* threads that may run at the same time
          Keys,      \* names and types that are asked for
          NoKey,     \* a question that extract_query_key rejects
          Size,      \* DNS_CACHE_SIZE
          TTL,       \* DNS_CACHE_TTL_S
          MaxClock   \* bound: seconds that pass

ASSUME ResolverAssumption ==
    /\ NoKey \notin Keys
    /\ Size \in Nat \ {0} /\ TTL \in Nat \ {0} /\ MaxClock \in Nat \ {0}

VARIABLES
    sock,    \* udp_fd is an open socket
    usable,  \* the database has an enabled SOCKS5 or HTTP proxy
    clock,   \* time(NULL)
    cache,   \* g_dns_cache
    head,    \* g_dns_cache_head
    job      \* query -> its packet, or the thread that works on it

resolverVars == <<sock, usable, clock, cache, head, job>>

\* An answer: the key it is about, and, when it comes from the cache, the time
\* until which it may be used.
NoAnswer == [key |-> NoKey, until |-> 0, hit |-> FALSE]
NoEntry == [key |-> NoKey, answer |-> NoKey, expires |-> 0]
NoJob == [pc |-> "idle", key |-> NoKey, asked |-> 0, now |-> 0, answer |-> NoAnswer]

ResolverInit ==
    /\ sock = FALSE /\ usable = TRUE
    /\ clock = 1
    /\ cache = [i \in 0..(Size - 1) |-> NoEntry] /\ head = 0
    /\ job = [q \in Queries |-> NoJob]

Move(q, pc) == job' = [job EXCEPT ![q].pc = pc]
Drop(q) == job' = [job EXCEPT ![q] = NoJob]

-----------------------------------------------------------------------------
(* The main thread and the rest of the world. *)

Open ==
    /\ ~sock /\ sock' = TRUE
    /\ UNCHANGED <<usable, clock, cache, head, job>>

\* Packets that have not been read go with the socket; threads go on.
Close ==
    /\ sock /\ sock' = FALSE
    /\ job' = [q \in Queries |-> IF job[q].pc = "queued" THEN NoJob ELSE job[q]]
    /\ UNCHANGED <<usable, clock, cache, head>>

\* A proxy is switched on or off.
ToggleProxy == usable' = ~usable /\ UNCHANGED <<sock, clock, cache, head, job>>

Tick == clock < MaxClock /\ clock' = clock + 1 /\ UNCHANGED <<sock, usable, cache, head, job>>

\* A program in the cgroup asks; the kernel redirects the packet.
Ask(q, k) ==
    /\ sock /\ job[q] = NoJob
    /\ job' = [job EXCEPT ![q] = [NoJob EXCEPT !.pc = "queued", !.key = k, !.asked = clock]]
    /\ UNCHANGED <<sock, usable, clock, cache, head>>

\* recvfrom and pthread_create, which may fail.
Process(q) ==
    /\ sock /\ job[q].pc = "queued"
    /\ Move(q, "start") \/ Drop(q)
    /\ UNCHANGED <<sock, usable, clock, cache, head>>

-----------------------------------------------------------------------------
(* dns_worker *)

HasKey(q) == job[q].key # NoKey

\* dns_cache_lookup reads the clock before it takes the lock.
ReadClock(q) ==
    /\ job[q].pc = "start"
    /\ IF HasKey(q)
       THEN job' = [job EXCEPT ![q].pc = "lookup", ![q].now = clock]
       ELSE Move(q, "pick")
    /\ UNCHANGED <<sock, usable, clock, cache, head>>

\* Fault: the slots are compared by key only.
LiveExpiredToo(q) == {i \in DOMAIN cache : cache[i].key = job[q].key}

\* The slots that answer the query.
Live(q) == {i \in DOMAIN cache : cache[i].expires > job[q].now /\ cache[i].key = job[q].key}

\* The cached bytes.
Cached(e) == [key |-> e.answer, until |-> e.expires, hit |-> TRUE]

\* Under the lock: the first slot that fits.
Lookup(q) ==
    /\ job[q].pc = "lookup"
    /\ IF Live(q) = {}
       THEN Move(q, "pick")
       ELSE job' = [job EXCEPT ![q].pc = "reply", ![q].answer = Cached(cache[Min(Live(q))])]
    /\ UNCHANGED <<sock, usable, clock, cache, head>>

\* Which proxy does not matter here.
PickDnsProxy(q) ==
    /\ job[q].pc = "pick"
    /\ IF usable THEN Move(q, "connect") ELSE Drop(q)
    /\ UNCHANGED <<sock, usable, clock, cache, head>>

\* The tunnel is there (ProxyConnect); its timeouts are set.
ConnectViaProxy(q) ==
    /\ job[q].pc = "connect" /\ Move(q, "exchange")
    /\ UNCHANGED <<sock, usable, clock, cache, head>>

\* TLS handshake, request, response.
Exchange(q) ==
    /\ job[q].pc = "exchange"
    /\ job' = [job EXCEPT ![q].pc = "reply",
                          ![q].answer = [key |-> job[q].key, until |-> 0, hit |-> FALSE]]
    /\ UNCHANGED <<sock, usable, clock, cache, head>>

\* Fault: no timeout is set on the tunnel.
ExchangeFailsToConnect(q) ==
    /\ job[q].pc = "connect" /\ Drop(q)
    /\ UNCHANGED <<sock, usable, clock, cache, head>>

\* No tunnel, no handshake, an answer that is not 200 or has no usable length,
\* or silence for 8 seconds: the query is dropped without an answer.
ExchangeFails(q) ==
    /\ job[q].pc \in {"connect", "exchange"} /\ Drop(q)
    /\ UNCHANGED <<sock, usable, clock, cache, head>>

\* sendto on whatever udp_fd is now; its failure is logged.
SendReply(q) ==
    /\ job[q].pc = "reply"
    /\ IF job[q].answer.hit \/ ~HasKey(q) THEN Drop(q) ELSE Move(q, "put")
    /\ UNCHANGED <<sock, usable, clock, cache, head>>

\* Fault: the expiry is computed from the time the lookup has read.
StoredFromLookup(q) == [key |-> job[q].key, answer |-> job[q].answer.key, expires |-> job[q].now + TTL]

Stored(q) == [key |-> job[q].key, answer |-> job[q].answer.key, expires |-> clock + TTL]

NextHead == (head + 1) % Size

\* Under the lock; an answer of more than DNS_CACHE_RESP_MAX bytes is not kept.
CachePut(q) ==
    /\ job[q].pc = "put" /\ Drop(q)
    /\ \/ cache' = [cache EXCEPT ![head] = Stored(q)] /\ head' = NextHead
       \/ UNCHANGED <<cache, head>>
    /\ UNCHANGED <<sock, usable, clock>>

-----------------------------------------------------------------------------
WorkerStep(q) == \/ ReadClock(q) \/ Lookup(q) \/ PickDnsProxy(q) \/ ConnectViaProxy(q)
                 \/ Exchange(q) \/ ExchangeFails(q) \/ SendReply(q) \/ CachePut(q)

ResolverNext ==
    \/ Open \/ Close \/ ToggleProxy \/ Tick
    \/ \E q \in Queries, k \in Keys \cup {NoKey} : Ask(q, k)
    \/ \E q \in Queries : Process(q) \/ WorkerStep(q)

ResolverSpec == ResolverInit /\ [][ResolverNext]_resolverVars

\* A thread keeps running, and its blocking calls fail within their timeouts.
\* That servers answer is not assumed, nor that the main loop comes by.
FairSpec ==
    /\ ResolverSpec
    /\ \A q \in Queries :
          /\ WF_resolverVars(ReadClock(q)) /\ WF_resolverVars(Lookup(q))
          /\ WF_resolverVars(PickDnsProxy(q)) /\ WF_resolverVars(ExchangeFails(q))
          /\ WF_resolverVars(SendReply(q)) /\ WF_resolverVars(CachePut(q))

-----------------------------------------------------------------------------
Steps == {"idle", "queued", "start", "lookup", "pick", "connect", "exchange", "reply", "put"}
Times == 0..(MaxClock + TTL)

ResolverTypeOK ==
    /\ sock \in BOOLEAN /\ usable \in BOOLEAN /\ clock \in 1..MaxClock
    /\ cache \in [0..(Size - 1) -> [key : Keys \cup {NoKey}, answer : Keys \cup {NoKey}, expires : Times]]
    /\ head \in 0..(Size - 1)
    /\ job \in [Queries -> [pc : Steps, key : Keys \cup {NoKey}, asked : Times, now : Times,
                           answer : [key : Keys \cup {NoKey}, until : Times, hit : BOOLEAN]]]

Replying(q) == job[q].pc = "reply"

\* What is sent to a client answers the question of its query, whichever thread
\* obtained the answer and however often its slot has been overwritten since,
\* and had not expired when the client asked, however long the thread waited
\* for the lock after it read the clock (dns_cache_lookup).
NoStaleAnswer ==
    \A q \in Queries : Replying(q) =>
        /\ job[q].answer.key = job[q].key
        /\ job[q].answer.hit => job[q].answer.until > job[q].asked

\* What the next answer overwrites is, of all slots, the one that expires
\* first: threads finish in any order, but a full cache never loses an entry
\* while it keeps one with less time to live.
OldestIsReplaced ==
    \A i \in DOMAIN cache : cache[head].expires <= cache[i].expires

\* Every thread ends, so that they do not pile up when servers are silent.
ThreadsEnd ==
    \A q \in Queries : (job[q].pc \notin {"idle", "queued"}) ~> (job[q].pc \in {"idle", "queued"})
=============================================================================
