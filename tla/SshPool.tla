------------------------------- MODULE SshPool ------------------------------
(***************************************************************************)
(* The pool of SSH sessions (proxy_ssh.c): sessions are made for proxies   *)
(* as they are needed, kept, and made again when they turn out dead.       *)
(*                                                                         *)
(* In the daemon only proxy.test, which the main thread serves, opens      *)
(* channels; the pool's mutex is never contended.  The server at the other *)
(* end may let a session die at any time; the daemon learns of it when a   *)
(* channel cannot be opened.                                               *)
(***************************************************************************)
EXTENDS Integers, FiniteSets

CONSTANTS PoolSize,   \* PF_MAX_PROXIES
          SshProxies, \* ids of SSH proxies, over the life of the daemon
          MaxTests    \* bound: proxy.test requests

ASSUME SshPoolAssumption ==
    /\ PoolSize \in Nat \ {0} /\ SshProxies \subseteq Nat \ {0} /\ MaxTests \in Nat

VARIABLES
    pool,        \* pool->sessions
    poolCount,   \* pool->count
    open,        \* sockets open, numbered as they are made
    alive,       \* sockets whose session the server still holds
    sockets,     \* number of sockets made
    test,        \* the test being served: proxy, where it is, retry, slot
    tests,       \* number of tests begun
    deleted      \* proxies deleted from the database

sshVars == <<pool, poolCount, open, alive, sockets, test, tests, deleted>>

PoolSlots == 1..PoolSize
NoSession == [connected |-> FALSE, proxy |-> 0, sock |-> 0, born |-> 0]
NoTest == [at |-> "none", proxy |-> 0, retry |-> FALSE, slot |-> 0, outcome |-> "none"]

SshInit ==
    /\ pool = [i \in PoolSlots |-> NoSession] /\ poolCount = 0
    /\ open = {} /\ alive = {} /\ sockets = 0
    /\ test = NoTest /\ tests = 0 /\ deleted = {}

-----------------------------------------------------------------------------
(* pf_ssh_get_session. *)

Session(p) == {i \in 1..poolCount : pool[i].connected /\ pool[i].proxy = p}
DeadSlots == {i \in 1..poolCount : ~pool[i].connected}
Lowest(S) == CHOOSE i \in S : \A j \in S : i <= j

\* Fault: a slot is taken at the end of the pool only.
NewSlotAtEnd == IF poolCount < PoolSize THEN poolCount + 1 ELSE 0

\* A slot at the end while there is one, then the first dead one, or none.
NewSlot == IF poolCount < PoolSize THEN poolCount + 1
           ELSE IF DeadSlots # {} THEN Lowest(DeadSlots) ELSE 0

\* A slot cleared for a session that then cannot be made.
Cleared(i) == [pool EXCEPT ![i] = NoSession]

SshTest ==
    /\ test.at = "none" /\ tests < MaxTests
    /\ \E p \in SshProxies \ deleted :
          test' = [NoTest EXCEPT !.at = "session", !.proxy = p]
    /\ tests' = tests + 1
    /\ UNCHANGED <<pool, poolCount, open, alive, sockets, deleted>>

ReuseSession ==
    /\ test.at = "session" /\ Session(test.proxy) # {}
    /\ test' = [test EXCEPT !.at = "channel", !.slot = Lowest(Session(test.proxy))]
    /\ UNCHANGED <<pool, poolCount, open, alive, sockets, tests, deleted>>

Exhausted ==
    /\ test.at = "session" /\ Session(test.proxy) = {} /\ NewSlot = 0
    /\ test' = [test EXCEPT !.at = "end", !.outcome = "exhausted"]
    /\ UNCHANGED <<pool, poolCount, open, alive, sockets, tests, deleted>>

\* ssh_session_create: the connection, the handshake or the authentication
\* fails, and whatever was made is closed again.
CreateFails ==
    /\ test.at = "session" /\ Session(test.proxy) = {} /\ NewSlot # 0
    /\ pool' = Cleared(NewSlot)
    /\ test' = [test EXCEPT !.at = "end", !.outcome = "no session"]
    /\ UNCHANGED <<poolCount, open, alive, sockets, tests, deleted>>

CreateSession ==
    /\ test.at = "session" /\ Session(test.proxy) = {} /\ NewSlot # 0
    /\ sockets' = sockets + 1
    /\ open' = open \cup {sockets'} /\ alive' = alive \cup {sockets'}
    /\ pool' = [pool EXCEPT ![NewSlot] = [connected |-> TRUE, proxy |-> test.proxy,
                                          sock |-> sockets', born |-> tests]]
    /\ poolCount' = IF NewSlot = poolCount + 1 THEN poolCount + 1 ELSE poolCount
    /\ test' = [test EXCEPT !.at = "channel", !.slot = NewSlot]
    /\ UNCHANGED <<tests, deleted>>

-----------------------------------------------------------------------------
(* pf_ssh_connect. *)

\* The channel is opened, and freed by the test; the session stays.
OpenChannel ==
    /\ test.at = "channel" /\ pool[test.slot].sock \in alive
    /\ test' = [test EXCEPT !.at = "end", !.outcome = "ok"]
    /\ UNCHANGED <<pool, poolCount, open, alive, sockets, tests, deleted>>

\* session_invalidate: the slot keeps its proxy.
Invalidate(i) ==
    /\ open' = open \ {pool[i].sock} /\ alive' = alive \ {pool[i].sock}
    /\ pool' = [pool EXCEPT ![i].connected = FALSE, ![i].sock = 0]

\* A channel is refused, by a dead session or by one that is alive: the
\* session is dropped and the test tries once more.
RetrySession ==
    /\ test.at = "channel" /\ ~test.retry
    /\ Invalidate(test.slot)
    /\ test' = [test EXCEPT !.at = "session", !.retry = TRUE]
    /\ UNCHANGED <<poolCount, sockets, tests, deleted>>

\* The second time the session is left in the pool.
ChannelFails ==
    /\ test.at = "channel" /\ test.retry
    /\ test' = [test EXCEPT !.at = "end", !.outcome = "no channel"]
    /\ UNCHANGED <<pool, poolCount, open, alive, sockets, tests, deleted>>

TestEnds ==
    /\ test.at = "end"
    /\ test' = NoTest
    /\ UNCHANGED <<pool, poolCount, open, alive, sockets, tests, deleted>>

-----------------------------------------------------------------------------
\* pf_ssh_pool_close, when the daemon ends.
PoolClose ==
    /\ test.at = "none"
    /\ LET live == {i \in 1..poolCount : pool[i].connected}
       IN /\ open' = open \ {pool[i].sock : i \in live}
          /\ alive' = alive \ {pool[i].sock : i \in live}
          /\ pool' = [i \in PoolSlots |-> IF i \in live
                         THEN [pool[i] EXCEPT !.connected = FALSE, !.sock = 0] ELSE pool[i]]
    /\ poolCount' = 0
    /\ test' = [NoTest EXCEPT !.at = "closed"]
    /\ UNCHANGED <<sockets, tests, deleted>>

\* The server ends a session.
ServerDrops ==
    /\ \E s \in alive : alive' = alive \ {s}
    /\ UNCHANGED <<pool, poolCount, open, sockets, test, tests, deleted>>

\* proxy.delete leaves the pool alone.
DeleteProxy ==
    /\ test.at = "none"
    /\ \E p \in SshProxies \ deleted : deleted' = deleted \cup {p}
    /\ UNCHANGED <<pool, poolCount, open, alive, sockets, test, tests>>

SshNext ==
    \/ SshTest \/ ReuseSession \/ Exhausted \/ CreateFails \/ CreateSession
    \/ OpenChannel \/ RetrySession \/ ChannelFails \/ TestEnds
    \/ PoolClose \/ ServerDrops \/ DeleteProxy

-----------------------------------------------------------------------------
(* Properties. *)

SshTypeOK ==
    /\ pool \in [PoolSlots -> [connected : BOOLEAN, proxy : SshProxies \cup {0},
                               sock : Nat, born : 0..MaxTests]]
    /\ poolCount \in 0..PoolSize /\ alive \subseteq open /\ open \subseteq 1..sockets
    /\ tests \in 0..MaxTests /\ deleted \subseteq SshProxies
    /\ test.at \in {"none", "session", "channel", "end", "closed"}

\* However sessions die and are made again: a proxy has at most one session,
\* every open socket belongs to one session of the pool and none is left
\* after the pool is closed, a dead slot is never in the way (a test is turned
\* away only while every slot holds the session of another proxy), and a test
\* that fails for its channel has tried a session of its own, not a stale one
\* (pf_ssh_get_session, pf_ssh_connect, pf_ssh_pool_close).
SshPoolIsSound ==
    LET held == {i \in PoolSlots : pool[i].connected}
    IN /\ held \subseteq 1..poolCount
       /\ \A i, j \in held : pool[i].proxy = pool[j].proxy => i = j
       /\ open = {pool[i].sock : i \in held} /\ Cardinality(open) = Cardinality(held)
       /\ test.at = "closed" => open = {}
       /\ test.outcome = "exhausted" => \A i \in PoolSlots :
             pool[i].connected /\ pool[i].proxy # test.proxy
       /\ test.outcome = "no channel" => pool[test.slot].born = tests
=============================================================================
