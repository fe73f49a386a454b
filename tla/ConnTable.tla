----------------------------- MODULE ConnTable ------------------------------
(***************************************************************************)
(* The transparent-proxy connection table (tproxy.c) and the threads that  *)
(* share it in main.c: the main thread, which waits on epoll, accepts,     *)
(* relays and tears connections down; and one detached accept thread per   *)
(* connection, which routes it, claims a slot of the table, performs the   *)
(* TLS interception handshake and registers both descriptors in epoll.     *)
(*                                                                         *)
(* The kernel is part of the model where the code depends on it: open(2)-  *)
(* like calls return the lowest free descriptor number, closing a          *)
(* descriptor removes it from epoll, and epoll_wait returns a batch of     *)
(* numbers that are looked up only when their turn comes.                  *)
(*                                                                         *)
(* conns_lock is held for a whole step where the code holds it (Claim,     *)
(* Find, Reclose); pf_tproxy_close_conn as called by pf_tproxy_relay runs  *)
(* without it and is one step per shared write.  conn_count, a statistic   *)
(* nothing but its own guard reads, is left out.                           *)
(***************************************************************************)
EXTENDS Naturals, Sequences, FiniteSets

CONSTANTS Conns,      \* connections clients may open
          NSlots,     \* PF_MAX_CONNECTIONS, 1024 in the code
          MaxFd,      \* descriptor numbers 1..MaxFd are available to connections
          MaxBatch,   \* MAX_EVENTS, 64 in the code
          None        \* no connection

ASSUME TableAssumption ==
    /\ NSlots \in Nat \ {0} /\ MaxFd \in Nat \ {0} /\ MaxBatch \in Nat \ {0}
    /\ None \notin Conns

Slots == 1..NSlots
Fds == 1..MaxFd
NoFd == 0             \* -1 in the code
Listen == MaxFd + 1   \* the event of the listening socket

VARIABLES
    files,    \* fd -> the connection whose socket it is, None when closed
    epoll,    \* the descriptors registered in the main epoll set
    conns,    \* tproxy.conns[]
    thread,   \* per connection, its accept thread
    main,     \* the main thread
    failed    \* history: connections whose relay failed

vars == <<files, epoll, conns, thread, main, failed>>

-----------------------------------------------------------------------------
FreeFds == {f \in Fds : files[f] = None}
LowestFreeFd == CHOOSE f \in FreeFds : \A g \in FreeFds : f <= g

FreeSlots == {s \in Slots : ~conns[s].active}
FirstFreeSlot == CHOOSE s \in FreeSlots : \A t \in FreeSlots : s <= t

\* A slot after memset.  tls stands for what the handshake leaves in a slot
\* (server_ssl, client_ssl, inspect) and names the connection that made it; the
\* history field owner names who claimed the slot.
EmptySlot == [active |-> FALSE, cfd |-> NoFd, pfd |-> NoFd, tls |-> None, owner |-> None]

\* pcs of an accept thread: not connected yet, routing (SO_ORIGINAL_DST, SNI
\* peek, connect_cb), in the blocking connect of connect_cb, falling back to
\* the original destination, in that connect, in the two halves of the
\* handshake, about to register the client's and then the proxy's descriptor,
\* finished.
ThreadSteps == {"none", "route", "connect", "direct", "dconnect",
                "server", "client", "reg1", "reg2", "end"}
MainSteps == {"wait", "event", "relay", "close1", "close2", "close3",
              "del1", "del2", "reclose"}

Idle == [pc |-> "wait", batch |-> <<>>, slot |-> 1, cfd |-> NoFd, pfd |-> NoFd,
         conn |-> None]

\* A finished thread: its locals are gone.
Ended == [pc |-> "end", cfd |-> NoFd, pfd |-> NoFd, slot |-> 1]

Init ==
    /\ files = [f \in Fds |-> None]
    /\ epoll = {}
    /\ conns = [s \in Slots |-> EmptySlot]
    /\ thread = [c \in Conns |-> [Ended EXCEPT !.pc = "none"]]
    /\ main = Idle
    /\ failed = {}

\* close(2): the number becomes free and leaves the epoll set.
Close(fds) ==
    /\ files' = [f \in Fds |-> IF f \in fds THEN None ELSE files[f]]
    /\ epoll' = epoll \ fds

-----------------------------------------------------------------------------
(* Accept threads. *)

\* The connection is refused: no original destination, a BLOCK rule, or no
\* descriptor left for the fallback's socket().
RouteRefuses(c) ==
    /\ thread[c].pc \in {"route", "direct"}
    /\ Close({thread[c].cfd})
    /\ thread' = [thread EXCEPT ![c] = Ended]
    /\ UNCHANGED <<conns, main, failed>>

\* socket(): by connect_cb for the proxy, or for the original destination when
\* connect_cb answers DIRECT or has failed.
OpenSocket(c) ==
    /\ FreeFds # {}
    /\ files' = [files EXCEPT ![LowestFreeFd] = c]
    /\ \/ /\ thread[c].pc = "route"
          /\ thread' = [thread EXCEPT ![c].pc = "connect", ![c].pfd = LowestFreeFd]
       \/ /\ thread[c].pc \in {"route", "direct"}
          /\ thread' = [thread EXCEPT ![c].pc = "dconnect", ![c].pfd = LowestFreeFd]
    /\ UNCHANGED <<epoll, conns, main, failed>>

\* A proxy that cannot be reached sends the connection to its original
\* destination; when that fails too both descriptors are closed.
ConnectFails(c) ==
    /\ \/ /\ thread[c].pc = "connect"
          /\ Close({thread[c].pfd})
          /\ thread' = [thread EXCEPT ![c].pc = "direct", ![c].pfd = NoFd]
       \/ /\ thread[c].pc = "dconnect"
          /\ Close({thread[c].pfd, thread[c].cfd})
          /\ thread' = [thread EXCEPT ![c] = Ended]
    /\ UNCHANGED <<conns, main, failed>>

\* The slot is cleared and filled in.
TakeSlot(c, s) ==
    /\ conns' = [conns EXCEPT ![s] =
                   [EmptySlot EXCEPT !.active = TRUE, !.cfd = thread[c].cfd,
                                     !.pfd = thread[c].pfd, !.owner = c]]
    /\ thread' = [thread EXCEPT ![c].pc = "server", ![c].slot = s]
    /\ UNCHANGED <<files, epoll>>

\* The connection is given up and fds are closed.
TurnAway(c, fds) ==
    /\ Close(fds)
    /\ thread' = [thread EXCEPT ![c] = Ended]
    /\ UNCHANGED conns

\* Fault: the table-full path forgets the proxy's descriptor.
ClaimFullLeaks(c) ==
    /\ thread[c].pc \in {"connect", "dconnect"}
    /\ IF FreeSlots = {} THEN TurnAway(c, {thread[c].cfd})
                         ELSE TakeSlot(c, FirstFreeSlot)
    /\ UNCHANGED <<main, failed>>

\* Fault: the number of connections is taken for the index of a free slot.
ClaimByCount(c) ==
    /\ thread[c].pc \in {"connect", "dconnect"}
    /\ IF FreeSlots = {} THEN TurnAway(c, {thread[c].cfd, thread[c].pfd})
                         ELSE TakeSlot(c, NSlots + 1 - Cardinality(FreeSlots))
    /\ UNCHANGED <<main, failed>>

\* Step 4, the connect having succeeded, under conns_lock: claim the first
\* free slot; a full table closes both descriptors.
Claim(c) ==
    /\ thread[c].pc \in {"connect", "dconnect"}
    /\ IF FreeSlots = {} THEN TurnAway(c, {thread[c].cfd, thread[c].pfd})
                         ELSE TakeSlot(c, FirstFreeSlot)
    /\ UNCHANGED <<main, failed>>

\* Step 5: no interception (disabled, no CA, no SNI, plain text) or a failed
\* handshake with the server leaves the slot as it is; a successful one leaves
\* its session there.  The results are written through the slot pointer taken at Claim.
HandshakeServer(c) ==
    /\ thread[c].pc = "server"
    /\ \/ /\ UNCHANGED conns
          /\ thread' = [thread EXCEPT ![c].pc = "reg1"]
       \/ /\ conns' = [conns EXCEPT ![thread[c].slot].tls = c]
          /\ thread' = [thread EXCEPT ![c].pc = "client"]
    /\ UNCHANGED <<files, epoll, main, failed>>

\* The handshake with the client: failure gives up the server's side too.
HandshakeClient(c) ==
    /\ thread[c].pc = "client"
    /\ \E made \in {c, None} : conns' = [conns EXCEPT ![thread[c].slot].tls = made]
    /\ thread' = [thread EXCEPT ![c].pc = "reg1"]
    /\ UNCHANGED <<files, epoll, main, failed>>

\* EPOLL_CTL_ADD fails, unnoticed, on a number that is not open.
AddToEpoll(fd) == epoll' = IF files[fd] # None THEN epoll \cup {fd} ELSE epoll

RegisterClient(c) ==
    /\ thread[c].pc = "reg1"
    /\ AddToEpoll(thread[c].cfd)
    /\ thread' = [thread EXCEPT ![c].pc = "reg2"]
    /\ UNCHANGED <<files, conns, main, failed>>

RegisterProxy(c) ==
    /\ thread[c].pc = "reg2"
    /\ AddToEpoll(thread[c].pfd)
    /\ thread' = [thread EXCEPT ![c] = Ended]
    /\ UNCHANGED <<files, conns, main, failed>>

-----------------------------------------------------------------------------
(* The main thread. *)

Waiting == {c \in Conns : thread[c].pc = "none"}
Ready == epoll \cup (IF Waiting # {} THEN {Listen} ELSE {})

\* epoll_wait: any registered descriptor may be readable; the kernel returns
\* a batch of at most MaxBatch distinct numbers in some order.
EpollWait ==
    /\ main.pc = "wait"
    /\ \E n \in 1..MaxBatch : \E b \in [1..n -> Ready] :
          /\ \A i, j \in 1..n : i # j => b[i] # b[j]
          /\ main' = [Idle EXCEPT !.pc = "event", !.batch = b]
    /\ UNCHANGED <<files, epoll, conns, thread, failed>>

\* epoll_wait returns nothing for 1000 ms, or is interrupted.
EpollTimeout == main.pc = "wait" /\ UNCHANGED vars

\* The rest of the batch, or the next wait.
NextEvent == IF Len(main.batch) <= 1 THEN Idle
             ELSE [Idle EXCEPT !.pc = "event", !.batch = Tail(main.batch)]

\* A new connection: accept, then a thread of its own.  accept fails when no
\* descriptor is left; a thread that cannot be created closes it again.
Accept ==
    /\ main.pc = "event" /\ Head(main.batch) = Listen
    /\ main' = NextEvent
    /\ \/ \E c \in Waiting :
             /\ FreeFds # {}
             /\ \/ /\ files' = [files EXCEPT ![LowestFreeFd] = c]
                   /\ thread' = [thread EXCEPT ![c].pc = "route", ![c].cfd = LowestFreeFd]
                \/ /\ UNCHANGED files
                   /\ thread' = [thread EXCEPT ![c] = Ended]
       \/ /\ Waiting = {} \/ FreeFds = {}
          /\ UNCHANGED <<files, thread>>
    /\ UNCHANGED <<epoll, conns, failed>>

\* Slots whose connection uses descriptor fd.
UsesFd(s, fd) == conns[s].active /\ (conns[s].cfd = fd \/ conns[s].pfd = fd)

\* Under conns_lock: which slot does the number belong to now?
Find ==
    /\ main.pc = "event" /\ Head(main.batch) # Listen
    /\ LET fd == Head(main.batch)
           owners == {s \in Slots : UsesFd(s, fd)}
       IN main' = IF owners = {} THEN NextEvent
                  ELSE LET s == CHOOSE s \in owners : \A t \in owners : s <= t
                       IN [main EXCEPT !.pc = "relay", !.slot = s, !.cfd = conns[s].cfd,
                                       !.pfd = conns[s].pfd, !.conn = conns[s].owner]
    /\ UNCHANGED <<files, epoll, conns, thread, failed>>

\* pf_tproxy_relay moved what could be moved in both directions.
RelayOk ==
    /\ main.pc = "relay"
    /\ main' = NextEvent
    /\ UNCHANGED <<files, epoll, conns, thread, failed>>

\* One side closed or failed: pf_tproxy_relay calls pf_tproxy_close_conn
\* itself, without the lock.  It frees the SSL objects first.
RelayFails ==
    /\ main.pc = "relay"
    /\ conns' = [conns EXCEPT ![main.slot].tls = None]
    /\ main' = [main EXCEPT !.pc = "close1"]
    /\ failed' = failed \cup {main.conn}
    /\ UNCHANGED <<files, epoll, thread>>

CloseClientFd ==
    /\ main.pc = "close1"
    /\ Close({conns[main.slot].cfd})
    /\ conns' = [conns EXCEPT ![main.slot].cfd = NoFd]
    /\ main' = [main EXCEPT !.pc = "close2"]
    /\ UNCHANGED <<thread, failed>>

\* Fault: only the side that failed is closed.
CloseProxyFdForgotten ==
    /\ main.pc = "close2"
    /\ conns' = [conns EXCEPT ![main.slot].pfd = NoFd]
    /\ main' = [main EXCEPT !.pc = "close3"]
    /\ UNCHANGED <<files, epoll, thread, failed>>

CloseProxyFd ==
    /\ main.pc = "close2"
    /\ Close({conns[main.slot].pfd})
    /\ conns' = [conns EXCEPT ![main.slot].pfd = NoFd]
    /\ main' = [main EXCEPT !.pc = "close3"]
    /\ UNCHANGED <<thread, failed>>

Deactivate ==
    /\ main.pc = "close3"
    /\ conns' = [conns EXCEPT ![main.slot].active = FALSE, ![main.slot].owner = None]
    /\ main' = [main EXCEPT !.pc = "del1"]
    /\ UNCHANGED <<files, epoll, thread, failed>>

\* Back in the event loop: epoll_del of the two numbers copied by Find.
DelClient ==
    /\ main.pc = "del1"
    /\ epoll' = epoll \ {main.cfd}
    /\ main' = [main EXCEPT !.pc = "del2"]
    /\ UNCHANGED <<files, conns, thread, failed>>

DelProxy ==
    /\ main.pc = "del2"
    /\ epoll' = epoll \ {main.pfd}
    /\ main' = [main EXCEPT !.pc = "reclose"]
    /\ UNCHANGED <<files, conns, thread, failed>>

\* Fault: the second close skips the check that the slot is active.
RecloseUnchecked ==
    /\ main.pc = "reclose"
    /\ Close({main.cfd, main.pfd})
    /\ conns' = [conns EXCEPT ![main.slot] = EmptySlot]
    /\ main' = NextEvent
    /\ UNCHANGED <<thread, failed>>

\* The second pf_tproxy_close_conn of the same slot, under conns_lock: it
\* returns at once unless the slot is active again.
Reclose ==
    /\ main.pc = "reclose"
    /\ IF conns[main.slot].active
       THEN /\ Close({conns[main.slot].cfd, conns[main.slot].pfd})
            /\ conns' = [conns EXCEPT ![main.slot] = EmptySlot]
       ELSE UNCHANGED <<files, epoll, conns>>
    /\ main' = NextEvent
    /\ UNCHANGED <<thread, failed>>

-----------------------------------------------------------------------------
ThreadNext(c) == \/ RouteRefuses(c) \/ OpenSocket(c) \/ ConnectFails(c) \/ Claim(c)
                 \/ HandshakeServer(c) \/ HandshakeClient(c)
                 \/ RegisterClient(c) \/ RegisterProxy(c)

MainNext == \/ EpollWait \/ EpollTimeout \/ Accept \/ Find \/ RelayOk \/ RelayFails
            \/ CloseClientFd \/ CloseProxyFd \/ Deactivate
            \/ DelClient \/ DelProxy \/ Reclose

Next == MainNext \/ \E c \in Conns : ThreadNext(c)

Spec == Init /\ [][Next]_vars

-----------------------------------------------------------------------------
SlotRecords == [active : BOOLEAN, cfd : 0..MaxFd, pfd : 0..MaxFd,
                tls : Conns \cup {None}, owner : Conns \cup {None}]

TypeOK ==
    /\ files \in [Fds -> Conns \cup {None}]
    /\ epoll \subseteq Fds
    /\ conns \in [Slots -> SlotRecords]
    /\ thread \in [Conns -> [pc : ThreadSteps, cfd : 0..MaxFd, pfd : 0..MaxFd, slot : Slots]]
    /\ main \in [pc : MainSteps, batch : Seq(Fds \cup {Listen}), slot : Slots,
                 cfd : 0..MaxFd, pfd : 0..MaxFd, conn : Conns \cup {None}]
    /\ failed \subseteq Conns

\* Every descriptor number in an active slot is open and is a socket of the
\* connection that claimed the slot, whatever was closed and re-used before:
\* a slot never refers to a number that has passed to somebody else.
SlotFdsOf(s) == {conns[s].cfd, conns[s].pfd} \ {NoFd}
SlotsOwnTheirFds ==
    \A s \in Slots : conns[s].active =>
        \A f \in SlotFdsOf(s) : files[f] = conns[s].owner

\* The steps at which an accept thread alone holds its descriptors.
Routing == {"route", "connect", "direct", "dconnect"}

\* No descriptor leaks: an open one is held by an accept thread that has yet
\* to claim a slot, or by an active slot.
NoFdLeak ==
    \A f \in Fds : files[f] # None =>
        \/ \E c \in Conns : thread[c].pc \in Routing /\ f \in {thread[c].cfd, thread[c].pfd}
        \/ \E s \in Slots : conns[s].active /\ f \in SlotFdsOf(s)

\* What the main thread relays is one connection: from the lookup under the
\* lock to the relay without it, the slot stays with the same connection and
\* both numbers are two different sockets of it.
RelaysOneConnection ==
    main.pc = "relay" =>
        LET s == conns[main.slot]
        IN /\ s.active /\ s.owner = main.conn
           /\ s.cfd = main.cfd /\ s.pfd = main.pfd /\ s.cfd # s.pfd
           /\ files[s.cfd] = main.conn /\ files[s.pfd] = main.conn

\* A connection whose relay failed is torn down completely before the next
\* event is looked at: no slot and no descriptor of it remain.
FailedIsTornDown ==
    main.pc \in {"wait", "event"} =>
        \A c \in failed : /\ \A f \in Fds : files[f] # c
                          /\ \A s \in Slots : ~(conns[s].active /\ conns[s].owner = c)

\* "serialize scan+claim against concurrent accept threads and the main epoll
\* cleanup" (main.c, step 4 of the accept thread): the cleanup's second close
\* acts on the connection whose relay failed, never on another one that has
\* claimed the slot in the meantime.
CleanupClosesOnlyItsOwn ==
    main.pc = "reclose" /\ conns[main.slot].active => conns[main.slot].owner = main.conn
=============================================================================
