# ProxiFlare: a TLA+ verification project

ProxiFlare routes the traffic of chosen applications through proxies. A daemon
(C, `daemon/src`) moves the processes of an application into a cgroup, marks the
cgroup's traffic with nftables, receives it through TPROXY, chooses a proxy by
rule and relays, optionally decrypting and recording what passes. A desktop
application (`gui`) configures it over a Unix socket.

This directory holds TLA+ modules of the daemon, the TLC configurations that
check them and proofs checked by TLAPS. `PROJECT.json` maps every definition to
the lines it models and lists runs, mutants, findings, hazards and theorems.
Paths below are relative to `daemon/src`.

## 1. Inventory

| Component | State | Operations | Talks to | Hard because | Correct when |
|---|---|---|---|---|---|
| Capture queue and worker (`capture_queue.c`, `capture_worker.c`) | ring of pointers, wrapping cursors, counters, eventfd, `g_running` | init, push, drain, close; start, stop, the worker's loop | fed by the relay, feeds the inspector | wake-up written outside the mutex, overflow, unsigned wrap, join of a sleeping thread | nothing leaks or is handled twice, only the oldest is lost, no wake-up is missed, stop ends |
| Connection table and relay (`tproxy.c`, `main.c`) | `conns[]`, descriptors, epoll set | accept thread: route, connect, claim, handshake, register; main thread: look up, relay, close twice | rules, MITM, inspector | one thread per connection against the main thread, partly without the lock; descriptor numbers re-used at once; stale events in a batch | a slot refers to its own sockets, none leaks, teardown hits the right connection |
| Rule application (`cgroup.c`, `nft.c`, `monitor.c`, `main.c`) | rules table, ruleset, cgroups, nft marks, cgroup of each process | rule.add/edit/delete/reorder, proxy.edit, SIGHUP, exec and exit events, startup, shutdown | kernel, database | five copies of a rule kept together by call order only; crashes; processes fork meanwhile | marks and cgroups agree with the stored rules, after restarts too |
| Rule matching and routing (`rules.c`, `main.c`) | ruleset, proxies and chains in the database | `pf_rules_match`, `proxy_connect_for_tproxy` | accept threads, database | configuration changes between match and look-up; two scans with their own precedence | the intended rule decides, blocked stays blocked |
| Configuration database (`config.c`) | proxies, chains, hops, rules, key-value | CRUD, reference counts | all handlers | chain updates are several statements without a transaction | references stay valid, no partial chain |
| Chains (`chain.c`), SOCKS and HTTP clients (`proxy_socks.c`, `proxy_http.c`) | a descriptor being negotiated | connect, negotiate hop by hop | routing | partial reads, timeouts, failure at each hop | no descriptor leaks, hops in order |
| SSH pool (`proxy_ssh.c`) | sessions with a mutex | get, connect, invalidate | proxy.test only; no accept thread uses it | sessions die unnoticed, one retry, dead slots of a bounded pool | one live session per proxy, no socket leaks, a dead slot is never in the way |
| TLS interception (`mitm.c`) | CA files, engine, certificate cache, stored setting | init, close, generate, enable, disable, wrap server and client | accept threads, IPC, database | cache shared by threads, eviction within a probe window, two files written one after the other, engine replaced while in use | a certificate is of the domain asked for and of the loaded CA, references are exact, key and certificate belong together |
| Inspector (`main.c`, `http_parser.c`, `body_decode.c`) | ring of 5000 entries, counters | filter (relay), insert (worker), list, get | capture worker, IPC | readers do not take the lock | the ring holds the latest entries, a reader sees whole ones |
| DNS interception and cache (`dns.c`) | 4096 address to name entries | process a packet, look up | routing | entries expire and slots are re-used, the table fills up, addresses are shared by names | one live entry per name, and it is the latest |
| DoH resolver (`dns_resolver.c`), DNS modes (`nft.c`, `main.c`) | UDP socket, cache, nft redirect | enable, disable, one thread per query | kernel, proxies | threads outlive the socket; mode switch fails half way | queries never go to a closed port |
| IPC server (`ipc.c`, `main.c`) | 16 client slots, line buffers, subscriptions | accept, process, send, broadcast, close | GUI, accept threads | sparse slots, requests in pieces, partial writes, broadcasts from other threads without a lock | clients are served, answers come once and in order, shutdown is heard |
| Logger, statistics (`logger.c`, `stats.c`) | file, counters | format, write | all | | |
| Credentials (`crypto.c`), SNI (`sni.c`) | key | encrypt, decrypt; parse | config, routing | pure computation | |
| GUI (`gui/`), cJSON (`vendor/`) | | | IPC | presentation; vendored | |

The main thread runs one event loop (IPC requests, process events, new
connections, relaying); accept threads run routing and handshakes; the capture
worker runs the inspector; DNS queries have a thread each. They share the
ruleset (rwlock), the connection table (`conns_lock`, partly), the capture queue
(mutex), the inspect ring (lock taken by the writer only), the log ring (no lock)
and the database handle.

## 2. Modules

### CaptureQueue, refining LossyChannel

`LossyChannel` is the promise: a bounded FIFO whose writer never waits, pushing
out the oldest message when full. `CaptureQueue` is the code. `head` and `tail`
are counted modulo `Word = Size * Laps` and slots modulo `Size`, as `uint32_t`
and the mask do. The main thread's `main` walks start-up (`QueueInit`,
`WorkerStart`, `WireInspect`, each with its failure), the loop (`Push` under the
mutex, `Wake` after it) and shutdown (`StopWorker`, `StopWake`, `JoinWorker`,
`CloseQueue`); `worker` walks `worker_main` (`CheckRunning`, `ReadEventfd` or
`ReadInterrupted`, `RecheckRunning`, `Drain`, `Process`). A message is the number
of its push. `handled` and `lost` are history. The refinement maps the slots
between the cursors to the channel's `pending` and the worker's batch to `taken`.

Fairness (`FairSpec`): weak fairness of every step of a running thread (both are
ordinary scheduled threads; `ReadEventfd` is a `read` that returns when the
counter is positive). Nothing obliges the main thread to push, the user to stop
the daemon, start-up to proceed, or a signal to interrupt the `read`.

### ConnTable

`files` is the kernel's descriptor table (lowest free number first, as POSIX
demands), `epoll` the registered numbers, `conns` the slots, `thread` one accept
thread per connection and `main` the event loop with the batch of the last
`epoll_wait`. Steps that hold `conns_lock` are single actions (`Claim`, `Find`,
`Reclose`); the close inside `pf_tproxy_relay` runs without the lock and is one
action per shared write (`RelayFails`, `CloseClientFd`, `CloseProxyFd`,
`Deactivate`), followed by `DelClient`, `DelProxy` and the second close. What
the handshake leaves in a slot (`server_ssl`, `client_ssl`, `inspect`) is one
field, `tls`; data and `conn_count` are left out.

### RuleSync

`main` is the position of the main thread: the handler it is in (`job`), the call it
makes next (`at`), the rule the call is about, and what is left of a walk over rules
or of a list of UPDATEs. Each call is an action (`DoMkdir`, `DoMark`, `DoUnmark`,
`DoList`, `DoDrain`, `DoRmdir`, `DoAssign`, `DoReload`, `DoDelete`, `DoPriority`,
`DoListen`; `NextRule` and `EndOfRules` are the loops of `proxy.edit` and of start-up),
so processes exec, fork and exit and the daemon dies between any two. Handlers:
`RuleAdd`, `RuleEdit`, `RuleDelete`, `RuleReorder`, `ProxyEdit`, `Hangup`,
`MonitorEvent`; life: `Crash`, `Shutdown`, `Start`. Ids keep their decimal digits
because marks are removed by substring. `undone` is history: the rules that lost their
mark to a failed DELETE or to another rule's removal; `ActiveRuleIsMarked` excepts
them. Left out: application patterns, failures of `nft` and `mkdir`, lost netlink
events, and more marks than the 256 that `nft_delete_by_comment` removes at a time
(`MaxHandles`, in `SyncAssumption`).

### RuleRouting

One accept thread (`Arrive`, `Match`, `Act`, `Connect`, `ConnectDirect`, `Done`)
against the main thread (`RuleAdd`, `RuleEdit`, `RuleDelete`, `RuleReorder`,
`Toggle`, `Delete`). `Choose` is the decision made under the ruleset lock, with
the second scan as a recursive function of the number of rules seen (`Scan`);
`Reference` is its meaning by sets and positions. The
patterns of the match functions are replaced by equality, and addresses and
ports by one criterion; the hops of a chain are in `ProxyConnect`.

### ProxyConnect

One thread connects (`UseProxy` or `UseChain`, `ReadHop`, `ReadProxies`,
`TcpConnect`, then per hop `SendFirst`, `ReadMethod`, `SendAuth`, `ReadStatus`,
`SendRequest`, `ReadReply`, `ReadBound`, `ReadReply4`, `ReadHttp`) while the main
thread writes the configuration a statement at a time (`ChainAdd`,
`ChainUpdate`, `ClearHops`, `InsertHop`, `ChainDelete`, `ProxyDelete`). A chain is
one socket, so the model keeps apart the tunnel as it is (`path`) and the hop
the client believes it talks to (`conn.at`). Replies are pieces, read exactly by
the SOCKS clients and in arbitrary portions by the HTTP client. Peers may refuse,
answer nonsense, be silent or go away. Hop rows are read one per step because
reader and writer share one SQLite connection and so are not isolated. The
`enabled` flag of a proxy is left out: a rule's proxy is checked before
connecting (`RuleRouting`), the hops of a chain never are.

Fairness (`FairSpec`): weak fairness of the connecting thread. Every blocking
call returns within the timeout set on the socket (`IoFails`); nothing is asked
of peers or of the user. The run does not check deadlock: when everything has
been deleted there is nothing to do.

### DnsMode

One setting in four places: the nat rules (`nat`), the resolver's socket (`sock`),
its registration (`watched`) and the database (`store`). The main thread's `main`
walks dns_leak.enable (`OpenResolver` or `CloseResolver` and `CheckServer`,
`ClearRules`, two `AddRule`, `SaveEnabled`, `SaveMode`, `SaveServer`),
dns_leak.disable (`Disable`, `DisableResolver`, `SaveDisabled`) and the restore at
start-up, which takes the same steps with `boot` set. `Crash` may come between any
two; rules outlive the daemon, the socket does not. `told` is history: the setting
last answered "ok" to, and whether a request was refused or cut off since. Left
out: mode names other than the two documented ones, failures of nft to delete or
to create its tables, failures of the database to write.

### DnsResolver

`job` holds a packet in the socket or the detached thread that works on it
(`ReadClock`, `Lookup`, `PickDnsProxy`, `ConnectViaProxy`, `Exchange` or
`ExchangeFails`, `SendReply`, `CachePut`); the steps under the cache mutex are
single actions, and the clock is read before the lock is taken, as the code does.
The socket is closed and opened at any time, which is what `DnsMode` does to it.
The clock is assumed not to step back.

Fairness (`FairSpec`): weak fairness of each thread's own steps and of the failure
of a blocked exchange (`SO_RCVTIMEO` and `SO_SNDTIMEO` of 8 seconds); that a server
answers or that the main loop reads the socket is not assumed.

### IpcServer

`clients` are the slots (descriptor, line buffer, subscription), `clientCount`
their count and `polled` the epoll set. The main thread (`Accept`, `Drop`, `Read`,
then `HandleLine`, `SkipLine`, `NoMoreLines` until the buffer holds no line)
answers through the same loop of writes (`Write`, `WouldBlock`, `GiveUp`) that
accept threads run for log events (`StartBroadcast`, `VisitSlot`), so their pieces
interleave. `Searched` is the part of the table the event loop looks at. Input is
a sequence of pieces; a line is a request when it is one piece, and a message
written is two. Each case of `MCScripts` is a set of clients and what they send.
A connection stands for its descriptor; the number's re-use by other sockets is
`ConnTable`'s subject. stats.subscribe is as log.subscribe, but nothing is ever
sent for it: `pf_ipc_broadcast_stats` has no caller.

Fairness: the main thread runs, and every ready descriptor and the end of the
loop get their turn again and again although other events come in between, which
is strong fairness: `epoll_wait` reports all ready descriptors and `running` is
tested after every batch. Clients and accept threads owe nothing.

### Inspector

The consumer of the capture queue, which is here the abstract `LossyChannel`:
`CaptureQueue` implements it, so what is checked here holds of the two together.
`OnInspectData` filters and offers, `TakeBatch` drains, `Discarded` and
`BuildEntry` are the worker's decision; the insertion is one step per shared write
(`DeleteOld`, `StoreEntry`, `AdvanceHead`, `CountEntry`), because the readers
(`StartList`, `StartGet`, `Locate`, `Examine`, `EndPoll`, `Respond`) do not take
the lock. `readFreed` records the undefined behaviour and stops the model.

### Relay

One connection and its two directions. The kernel's socket (`socket`), the bytes
an SSL session has read but not handed out (`inside`) and the record it could not
write (`unsent`) are kept apart, because epoll sees only the first, and because
`SSL_write` after a refused write stands for the old record if the buffer address
is the same and the length not smaller, and fails otherwise (`TlsWrites`).
`Transfer`, `WriteFails`, `ReadNothing` and `ReadEnd` are the outcomes of one
direction of `pf_tproxy_relay`. Fairness: the event loop starts a relay that is
reported and finishes it.

### MitmEngine

The files (`caKeyFile`, `caCertFile`), the stored setting, the engine (`caKey`,
`caCert`, `contexts`, `enabled`), the cache and the accept threads (`WrapServer`,
`GetCert` or `NoCert`, `UseCert`, `DropCert`). inspect.generate_ca is `GenerateCa`,
`WriteKey`, `WriteCert`, `CloseCache`, `Reload`; between the last two the engine
is freed but in place (`dangling`), and a thread that uses it then sets
`undefinedUse`. Files may be left broken with or without an error being noticed,
and the daemon may die at any step (`Restart`). References of certificates are
counted as OpenSSL does; a certificate and its key go together.

### DnsCache

`Query` and `Response` are packets, `RecordAddress` and `SkipRecord` the loop over
the records of an answer; the event loop handles one packet at a time. `FindSlot`
and `Lookup` are the two searches. `news` is history: what each name was last
told, and until when it counts.

### SshPool

A proxy.test (`SshTest`) gets a session (`ReuseSession`, `CreateSession`,
`CreateFails`, `Exhausted`) and opens a channel (`OpenChannel`), or drops the
session and tries once more (`RetrySession`), or fails (`ChannelFails`). Servers
let sessions die at any time (`ServerDrops`). Only the main thread opens
channels, so there is one test at a time.

### How they fit together

`Inspector` composes the worker and the polls with the channel that `CaptureQueue`
implements. `Relay` refines what `ConnTable` takes as `RelayOk` or `RelayFails`;
`MitmEngine` what it takes as the outcome of a handshake. `DnsMode` opens and
closes the socket of `DnsResolver`. `DnsCache` supplies the name that
`RuleRouting` takes as known or unknown, and `ProxyConnect` is its `Connect`.
`MCSharedState` checks the five parts that share no variable in one
specification: the variable `part` chooses at the start which of them runs, and
the others keep their initial state. This is their interleaving without the
product of their states: no property relates variables of two of them.

Each module keeps a type invariant. Those of `CaptureQueue`, `ConnTable`, `RuleSync`,
`DnsMode`, `DnsResolver`, `ProxyConnect` and `IpcServer` are proved, and the other proofs prove
the types they need; the runs do not list them, since the other invariants fail
with them.

## 3. Runs

| Run | Bounds | Shows |
|---|---|---|
| `capture_queue` | 4 slots, 2 laps, batches of 2, 9 pushes | all safety properties of the queue, that queued messages are taken and stop ends (fairness above), and refinement of `LossyChannel` |
| `conn_table` | 3 connections, 2 slots, 4 descriptors, batches of 2 | slots own their descriptors, no leak (the table-full path included), a relay serves one connection, failed ones are gone |
| `rule_sync` | ids 1 and 10, 3 client rules, 2 processes, 1 pending event, failing statements | no mark without its rule and its cgroup, a rule that applies is marked, fresh cgroups |
| `rule_routing` | 10 rules in lists of up to 2, 4 connections, 2 proxies, 1 chain | choice equals the reference, blocked stays closed |
| `proxy_connect` | a proxy of each type, chains of 2 and 3 hops (SOCKS5 then HTTP; HTTP, SOCKS4, SOCKS5; SOCKS4 then SSH), buffer of 3 pieces, 3 pieces under way | what is sent to a hop reaches that hop, replies are read to their end, bytes of the destination are lost behind HTTP only, connecting ends |
| `dns_mode` | 2 servers and one that is no address | what was acknowledged is in force and survives restarts, refusals are not stored, queries have one destination |
| `dns_resolver` | 2 threads, 2 names and one malformed question, 2 slots, time to live of 1 second, 2 seconds | answers fit their questions and had not expired, the ring replaces what expires first, threads end |
| `ipc_server` | 2 slots, 7 cases of up to 3 clients, a buffer of 3 pieces, 1 retry, 1 broadcast | slots and count fit the connections, requests are taken up and answered once and in order, what waits is read unless the client is stranded, the daemon stops |
| `shared_state`, inspector | ring of 2, queue of 1, 3 chunks of 6 kinds, 1 poll | the ring holds the latest entries and accounts for the rest, an undisturbed poll is exact |
| `shared_state`, relay | buffer of 2 bytes, records of up to 3, 3 bytes each way, plain and TLS | bytes arrive in order, none twice, none missing unless a write was refused; what is sent is read unless it is stalled inside a TLS session |
| `shared_state`, mitm | 3 slots, window of 2, 3 names of which two collide and one is in upper case, 2 threads, 3 certificates, 2 CAs, 2 starts | the cache is a hash table of certificates of the loaded CA, references are exact, key and certificate belong together over crashes |
| `shared_state`, dns | 2 slots, 3 names, 2 addresses, 4 packets, 4 units of time | one live entry per name, the latest, found by its address |
| `shared_state`, ssh | 2 slots, 3 proxies, 3 tests | one session per proxy, no leaked socket, dead slots re-used, a retry uses a new session |

Why the bounds are enough: with 9 pushes on 4 slots both cursors pass the wrap
of 8 with the ring full, empty and part full; two
established connections use both slots and all four numbers, so the third
re-uses slot and numbers of the first, and finds the table full when it has
connected while the first is being torn down; with ids 1 and 10 the removal of
one mark hits the other, and of 10 alone does not; two rules are enough for
every precedence between two kinds of rule; every protocol occurs alone, before
and after another hop, and a response header more than the buffer holds occurs;
`dns_mode` has no bound on requests, crashes or restarts; two slots and re-used
threads overwrite live and expired entries. With two IPC slots a client is left
behind in the upper one, a third is turned away, and a slot changes hands in the
middle of a broadcast. Three entries go round a ring of two, so every slot is
replaced while a poll is under way. A record of three bytes does not fit the
relay's buffer of two, a chunk of two is written in part, and a kept record meets
a later chunk that is as long, shorter and longer. Three domains on a window of
two evict, wrap around the table and are found past one another; two CAs allow a
second generation after a failed first one, across a restart. Three names on two
DNS slots fill the table and re-use expired slots in front of live ones; three
proxies on two SSH slots exhaust the pool and re-use dead slots. Each run finishes
within two and a half minutes on two cores. `ipc_server`, `shared_state` and
`proxy_connect` do not check deadlock: when clients, chunks or tests are used up,
or the daemon is down, nothing is left to do.

### Disagreements between code and comments

Each has a run that TLC refutes, with the line it quotes under `findings`.

| Run | What the trace shows |
|---|---|
| `conn_cleanup` | the second close of a slot closes the connection that has just claimed it |
| `rule_unmark` | removing rule 1's mark removes rule 10's |
| `inspect_readers` | inspect.list reads an entry the capture worker has just deleted |

Also noticed while modelling, without a run of their own.

Queue and inspector: on overflow the queue frees its oldest message and `push`
returns 0, where `capture_queue.h:71-72` speaks of the caller's message and -1; the
inspect callback is wired to a queue that failed to start (`main.c:2158-2173`); the
log ring is written by accept threads and read by log.recent without any lock
(`main.c:752`).

Connections: `epoll_del` of a number that has been closed and re-used unregisters a
live connection (`main.c:2431`); an event left in the batch for such a number
relays a connection during its handshake; a relay that meets a full socket forgets
the rest of the chunk but counts and captures it (`tproxy.c:378`); the end of one
direction closes both, so an answer to a half-closed request is cut; a TLS record
larger than `PF_BUF_SIZE` is stalled inside the session until the next event
(`tproxy.c:307`); a connection whose interception fails half way through its
handshakes is relayed plain, although parts of the handshake are already consumed
(`main.c:1938-1945`).

Rules: rule.add, rule.edit and start-up divert a rule's traffic although its proxy
is off (`main.c:975-977`), and the mark is added a second time when the proxy is
switched on; start-up assigns no process that is already running (`main.c:908`); a
process of an application with a DIRECT rule of better priority is not diverted
although another rule names it (`main.c:448-449`).

Routing: a BLOCK rule that names an application never applies and rules without
one come first (`main.c:664`), where the design document says "First match wins";
a connection a rule covers goes out directly when its proxy is gone, off, of type
ssh or unreachable (`main.c:779`); the name from the DNS cache is used through a
pointer into a table that the event loop rewrites (`main.c:647`); a connection made
during, or after a failed, chain.edit skips hops, for which there is no transaction
(`config.c:664`); what a destination sends along with the end of a CONNECT response
is dropped with the buffer (`proxy_http.c:217`, `chain.c:424`).

DNS: dns_leak.enable with a server that is no address closes the resolver and
leaves the redirect to it in place (`main.c:1508-1509`, where line 1471 says
"Switching modes tears down the other cleanly"), and with a rule that fails to load
leaves no protection while dns_leak.status still reports it; TCP queries are
redirected to a port where the resolver has no TCP socket (`nft.c:391-392`); the DNS
cache keeps one address per name, the last record of the last answer, where
`dns.c:104` speaks of "IP(s)", and a repeated query blanks it until the answer comes.

Interception: inspect.generate_ca reloads the engine disabled while the stored
setting still says true, and frees it under the accept threads that use it
(`main.c:1714`); a CA whose files are broken is never generated again
(`mitm.c:113`).

IPC and SSH: a client in a slot at or above `client_count` is not served until
others come or leave (`main.c:2395`); a message that is given up leaves half a line
in the client's stream (`ipc.c:170`); a session of the SSH pool outlives the edit or
deletion of its proxy, since it is found by id only, and `proxy_ssh.h:18` names
accept threads as users, of which there are none.

## 4. Proofs

Every theorem is about `Spec`, the safety part of a module's specification, or the
corresponding one of a module with a prefix (`RelaySpec`, `InspectorSpec`, `SshSpec`,
`DnsSpec`, `MitmSpec`, `ResolverSpec`), and holds for every value of the constants
that the module's named assumptions allow. The assumptions say that sizes are
positive, that markers such as `NoFd` are none of the values they stand apart from,
and what the constants range over; the bounds that keep a run finite (`MaxPush`,
`MaxClock`, ...) are arbitrary numbers. `PROJECT.json` lists the theorems with the
property each states. All invariance proofs have the same shape: an inductive
invariant that strengthens the property, a lemma for each action, and a last step
that combines them.

| Module | Assumption | Theorem | States |
|---|---|---|---|
| `CaptureQueueProofs` | `QueueAssumption` | `TypeCorrect`, `RingIsSound`, `MessagesAreConserved`, `NoWakeupIsLost`, `ShutdownIsClean`, `LossIsCounted`; `DeliveryIsOrdered`, `LossIsTheOldest`; `QueueIsAChannel` | the queue's invariants; its action properties; `CaptureQueue` implements `LossyChannel` |
| `ConnTableProofs` | `TableAssumption` | `TableTypeCorrect`, `SlotsOwn`, `NothingLeaks`, `RelayIsOnOneConnection`, `TearDownIsComplete` | the table's invariants |
| `SharedStateProofs` | one for each of the five modules | `RelayInOrder`; `RingIsLatest`, `PollsExact`; `SshPoolSound`; `DnsCacheSound`; `CaStaysWhole`, `CertRefsExact`, `CertCacheSound` | the invariants that `shared_state` checks, each of its own module's specification |
| `RuleSyncProofs` | `SyncAssumption` | `SyncTypes`, `NoMarkIsOrphaned`, `EveryActiveRuleIsMarked`; `NewRuleIsEmpty` | the invariants and the action property of `rule_sync` |
| `RoutingProofs` | `RoutingAssumption`, `ResolverAssumption` | `BlockingIsFinal`, `ChoiceFollowsReference`; `AnswersAreFresh`, `EvictionIsByAge` | `BlockedStaysClosed` and `ChoiceIsReference` of `RuleRouting`; the invariants of `DnsResolver` |
| `ProxyConnectProofs` | `ConnectAssumption` | `ConnectTypeCorrect`, `TunnelIsRight`, `ClientAndHopsInStep` | the invariants of a connection being made |
| `DnsModeProofs` | `DnsAssumption` | `DnsTypeCorrect`, `AcknowledgedHolds`, `RefusalsLeaveTheStore`, `TargetsAgree` | the invariants of `dns_mode` |
| `IpcServerProofs` | `IpcAssumption`, `ScriptAssumption` | `IpcTypeCorrect`, `SlotsHoldClients`, `RequestsAnsweredInOrder` | the invariants of `ipc_server` |

### The arguments

**Capture queue.** `RingIntegrity` gives the content of every slot from the cursors,
so that what `Push` overwrites and `Drain` takes is known; `ExactlyOnePlace` and
`HandledFirst` (what is in the batch is newer than what was handled) give the
order; `Control` ties the two threads' positions, `running` and the descriptor
together, and `WakeupPending` needs it to know that the wake-up of `Wake` is not
lost on a closed descriptor. The cursor arithmetic is a layer of lemmas about
`%` (`DivMod`, `ModWrap`, `ModUnique`, `ModShift`, `ModLap`) and about advancing
head, tail and slots (`HeadAdvance`, `TailAdvance`, `AheadAdvance`,
`AheadOfSlot`, `SlotOfAhead`, `HeadSlot`). `LossInv` adds that `lost` is finite,
so that the counter can be compared with its cardinality. For the refinement each
step of the code is shown to be a step of the channel or none: a push on a full
ring is the channel's overwriting write, `Drain` its take, and the steps that only
move a thread leave the mapped state alone.

**Connection table.** The code frees a slot in pieces and without the lock, so what
a slot or a thread holds depends on where everybody is. `ThreadHolds` says which
sockets an accept thread owns at each of its steps, `SlotHolds` which fields of a
slot are live at each step of the main thread's teardown, `Held` that every open
descriptor has a holder, `OneSlotEach` that no connection has two slots,
`MainHolds` what the main thread remembers from its look-up and `FailedGone` what
is gone of a failed connection. A slot survives the re-use of descriptor numbers
because a closed number leaves its field in the same step, before the slot itself
is given up.

**Relay, inspector, SSH pool, DNS cache, TLS interception.** `RelayInv` orders
the bytes of each direction: what was delivered comes before what a TLS session
keeps unsent, and until a write is refused it is all that was read. `InspectorInv` has one part for the channel (`QueueInv`), one for the
ring with the insertion in progress (`RingInv`) and one for a poll that has read
some of the slots (`PollInv`), which speaks only of polls that no insertion
overlapped. `SshInv` separates the pool (`PoolInv`) from what the test in progress
holds (`TestInv`). In `DnsInv` a live entry says what its name was last told and until
when, and no name has two (`EntriesInv`). `MitmInv` keeps the files, the
engine and the stored setting (`CaInv`) apart from the certificate table
(`TableInv`): the cache, what each wrapping thread holds, and the references as a
sum of two cardinalities, changed by one at a time.

**Rule application.** The two properties speak of a main thread that is back in its
loop; `SyncInv` says what holds between the calls of a handler. `StepInv` gives the
handlers that make each call; `TargetInv` says that what a walk sets up may be set up
and what it tears down does not apply. A mark belongs to a stored rule with a cgroup,
or it is of the rule at hand and its removal is still ahead (`MarkInv`, `UnmarkAhead`):
`rule.delete` removes the cgroup before the mark, the other handlers after it. A rule
that applies is marked, or the handler is still going to set it up or to delete it
(`ActiveInv`, `SetUpAhead`). While the daemon is down both are void, since a crash may
have taken the marks; `Start` removes all marks and has every rule that applies ahead
of it. `IdInv` bounds the ids of rules, of cgroups and of the cgroups of processes by
the last one handed out, from which the action property follows. `NothingPending` is
the step from `SyncInv` to the properties. `SyncAssumption` keeps the marks within the
number that one removal takes: with more of them, `NoOrphanMark` would not hold.

**Routing and resolver.** `RouteInv` says that a connection whose rule was found to
block is at the step that closes it or past it, with a copy of the rule that led
the list when it was read. The scans are pure: `EarliestLeads` says that the rule at
the least place leads any set of rules, `ScanFindsTheLeader` that the first scan
returns it. The second scan is recursive over the list. `Scanned` is what it is to hold
after i rules; `ScannedStep` shows that this solves the recursion, so there is a
solution, and `ScanIsScanned` that no other does, by the least place at which two
solutions would differ. `ChooseIsReference` puts the two scans together. In
`ResolverInv` a thread that has an answer has one to its own question, and one from
the cache was alive when the question was asked (`JobInv`), a slot holds what it is
filed under, for no longer than the time to live from now (`SlotInv`), and expiry
times rise around the ring from the slot to be replaced (`RingOrder`).

**Connecting.** `ClientInv` says for every step of the client where the tunnel ends
(`ToHop`, `ToTarget`) and what is still unread: nothing before a request is sent
(`SendInv`), the rest of one reply while it is read (`GreetInv`, `ReplyInv`,
`BoundInv`, `Reply4Inv`), buffer and stream together one response while the HTTP client reads in
portions (`HttpInv`), and only the destination's bytes in the end (`DoneInv`).

**DNS modes.** `AcknowledgedIsInForce` speaks of the waiting daemon only; `DnsInv`
says what holds inside a request: which rules are in at each step (`RulesInv`), the
socket's state (`SocketInv`), that a restore works on the stored setting
(`RequestInv`) and that store and acknowledged setting agree except while a request
saves (`StoreInv`); `StoreIsKept` carries the last part over the steps that do not
save. That a refusal is not stored (`RefusalIsNotStored`) is a part of
`AcknowledgedIsInForce` and a theorem of its own.

**IPC server.** `ServerInv` ties slots, connections and the main thread's position
together; the count is exact because slots in use and open connections are in
bijection. `StreamInv` reads each client's stream: the line buffer starts at the
start of a line and the requests before it are exactly those taken up (`InputInv`),
the pieces written are those of the answers so far and of the one being written
(`AnswerInv`), log events go to subscribers (`LogInv`) and are whole or being
written (`EventInv`). What each action changes is proved first, pointwise (the
definitions ending in `Facts`), and the invariants are then shown from those facts.

### Only model-checked

- Liveness, which is outside the prover's reach: `QueuedIsTaken`, `StopTerminates`,
  `ConnectEnds`, `ThreadsEnd`, `WaitingIsServed`, `StopIsHeard`, `SentIsRead`.

Every safety property that a passing run checks is proved.

## 5. Plan

The modules are done, in this order of importance: `LossyChannel` and
`CaptureQueue`, `ConnTable`, `RuleSync`, `RuleRouting`, `ProxyConnect`, `DnsMode` and
`DnsResolver`, `IpcServer`, `Inspector`, `Relay`, `MitmEngine`, `DnsCache`, `SshPool`;
each has proofs of its safety properties.

Left of the modelling: the pattern matchers (`pf_match_domain`, `pf_match_ip`,
`pf_match_app`) as operators against reference definitions, and the log ring with
several writers.

## 6. Not modelled

Cryptography (OpenSSL, libssh2, `crypto.c`), HTTP parsing (`http_parser.c`),
decompression (`body_decode.c`), the bytes of a ClientHello (`sni.c`) and of DNS
packets, JSON and the pattern languages of rules are transformations of data: the
modules take their outcome. The GUI is presentation and cJSON is vendored. The
QUIC rule (`quic_block.enable`, `nft.c`) is one nft rule and one stored setting
without anything concurrent. `pf_tproxy_accept`, `mitm_handshake_thread`,
`pf_ipc_broadcast_stats`, most of `stats.c` and the rotation of `logger.c` have no
caller in the daemon. `PROJECT.json` gives the reason for each component.
