----------------------------- MODULE IpcServer ------------------------------
(***************************************************************************)
(* The IPC server (ipc.c), its part of the event loop (main.c) and the log *)
(* events that accept threads broadcast to it.                             *)
(*                                                                         *)
(* The main thread accepts clients, reads requests and answers them; an    *)
(* accept thread that has routed a connection walks the client slots and   *)
(* sends a log event to the subscribed ones, without a lock.  pf_ipc_send  *)
(* is a loop of write(2) calls, so two senders to one client interleave.   *)
(*                                                                         *)
(* A connection stands for its descriptor: only the main thread opens and  *)
(* closes the descriptors of clients, one at a time, so their numbers are  *)
(* never confused.  Input is a sequence of pieces, a piece being a newline *)
(* or a stretch of text; text that is a whole request is of one of the     *)
(* kinds the code tells apart.  A message sent is two pieces, the second   *)
(* of which ends in the newline.                                           *)
(***************************************************************************)
EXTENDS Integers, Sequences, FiniteSets

CONSTANTS Clients,     \* connections that may be made to the socket
          Prompt,      \* those that read what they are sent without delay
          SystemUsers, \* those made by a system user
          NoFd,        \* the descriptor -1 of a free slot
          MaxClients,  \* PF_MAX_CLIENTS
          BufSize,     \* pieces that fit in client->buf
          MaxRetries,  \* how often a write that would block is retried, 50
          Casters,     \* accept threads that broadcast
          Main,        \* the main thread, as a sender
          Scripts,     \* what the connections may send: sequences of pieces, empty
                       \* for a connection that is not made
          MaxCasts     \* bound: broadcasts made by all accept threads

ASSUME IpcAssumption ==
    /\ Prompt \subseteq Clients /\ SystemUsers \subseteq Clients
    /\ NoFd \notin Clients
    /\ MaxClients \in Nat \ {0} /\ BufSize \in Nat \ {0}
    /\ MaxRetries \in Nat /\ MaxCasts \in Nat
    /\ Main \notin Casters

Slots == 0..MaxClients-1
Kinds == {"subscribe", "unsubscribe", "call", "shutdown", "nomethod", "malformed"}
Newline == "newline"

ASSUME ScriptAssumption ==
    \A lines \in Scripts, c \in Clients : lines[c] \in Seq(Kinds \cup {Newline})

VARIABLES
    clients,      \* ipc->clients: descriptor, unread pieces, subscribed_log
    clientCount,  \* ipc->client_count
    polled,       \* connections in the epoll set
    running,      \* ctx->running
    main,         \* where the main thread is: poll, lines, send, down
    cur,          \* the slot whose lines it is processing
    job,          \* per sender: the pf_ipc_send under way
    walk,         \* per accept thread: next slot of its walk, MaxClients at rest
    casts,        \* broadcasts made so far
    link,         \* per connection: none, open, closed by the daemon
    gone,         \* connections whose client has closed its end
    told,         \* per connection: the pieces its client sends
    got,          \* per connection: how many of them were read
    inherited,    \* history: clients given a slot a broadcast was sending to
    asked,        \* history, per connection: requests to be answered, in order
    out,          \* history, per connection and sender: what was written to it
    gaveUp        \* history: connections on which a message was cut short

server == <<clients, clientCount, polled, running>>
world == <<link, gone, told, got, inherited>>
vars == <<clients, clientCount, polled, running, main, cur, job, walk, casts,
          link, gone, told, got, inherited, asked, out, gaveUp>>

-----------------------------------------------------------------------------
FreeSlot == [fd |-> NoFd, buf |-> <<>>, log |-> FALSE]
Idle == [slot |-> 0, msg |-> 0, done |-> 2, retries |-> 0]
Sending(s) == job[s].done < 2

Used == {i \in Slots : clients[i].fd # NoFd}

\* Fault: the search stops one slot short.
SearchedShort == 0..clientCount-2

\* The slots the event loop looks at: the first client_count ones, used or not.
Searched == 0..clientCount-1

\* The send to slot i of message m: the number of the piece that asked for
\* it, 0 for a log event.
Send(i, m) == [slot |-> i, msg |-> m, done |-> 0, retries |-> 0]

\* The text before the first newline is the request when it is one piece;
\* a line put together from several pieces does not parse.
FirstNewline(buf) ==
    CHOOSE k \in DOMAIN buf : /\ buf[k].kind = Newline
                              /\ \A j \in 1..k-1 : buf[j].kind # Newline
HasLine(buf) == \E k \in DOMAIN buf : buf[k].kind = Newline
Line(buf) == IF FirstNewline(buf) = 2 THEN buf[1]
                                      ELSE [kind |-> "malformed", n |-> 0]
Rest(buf) == SubSeq(buf, FirstNewline(buf) + 1, Len(buf))

Init ==
    /\ clients = [i \in Slots |-> FreeSlot]
    /\ clientCount = 0 /\ polled = {}
    /\ running = TRUE /\ main = "poll" /\ cur = 0
    /\ job = [s \in Casters \cup {Main} |-> Idle]
    /\ walk = [t \in Casters |-> MaxClients] /\ casts = 0
    /\ link = [c \in Clients |-> "none"] /\ gone = {}
    /\ \E lines \in Scripts : told = [c \in Clients |->
          [k \in DOMAIN lines[c] |-> [kind |-> lines[c][k], n |-> k]]]
    /\ got = [c \in Clients |-> 0]
    /\ inherited = {}
    /\ asked = [c \in Clients |-> <<>>] /\ out = [c \in Clients |-> [s \in Casters \cup {Main} |-> <<>>]]
    /\ gaveUp = {}

-----------------------------------------------------------------------------
(* The clients. *)

\* What a client sends arrives bit by bit, which shows in the reads: each
\* takes some part of what is left.  The client may close its end at any time.
ClientLeaves(c) ==
    /\ link[c] = "open" /\ c \notin gone
    /\ gone' = gone \cup {c}
    /\ UNCHANGED <<server, main, cur, job, walk, casts, link, told, got, inherited, asked, out, gaveUp>>

-----------------------------------------------------------------------------
(* The event loop: a new client. *)

\* The daemon closes its end of the connection.
CloseLink(c) == /\ link' = [link EXCEPT ![c] = "closed"]
                /\ polled' = polled \ {c}

\* pf_ipc_accept turns a connection away: its user is a system user, or the
\* slots are used up.  (Making a socket non-blocking does not fail.)
Refuse(c) ==
    /\ c \in SystemUsers \/ clientCount >= MaxClients
    /\ CloseLink(c)
    /\ UNCHANGED <<clients, clientCount, inherited>>

\* The first free slot is taken; epoll_add may fail, which is only logged.
Admit(c) ==
    LET i == CHOOSE i \in Slots \ Used : \A j \in Slots \ Used : i <= j
    IN /\ c \notin SystemUsers /\ clientCount < MaxClients
       /\ clients' = [clients EXCEPT ![i] = [FreeSlot EXCEPT !.fd = c]]
       /\ clientCount' = clientCount + 1
       /\ link' = [link EXCEPT ![c] = "open"]
       /\ polled' \in {polled, polled \cup {c}}
       /\ inherited' = IF \E t \in Casters : Sending(t) /\ job[t].slot = i
                       THEN inherited \cup {c} ELSE inherited

Accept(c) ==
    /\ main = "poll" /\ link[c] = "none" /\ told[c] # <<>>
    /\ Refuse(c) \/ Admit(c)
    /\ UNCHANGED <<running, main, cur, job, walk, casts, gone, told, got, asked, out, gaveUp>>

-----------------------------------------------------------------------------
(* The event loop: data of a client, pf_ipc_process. *)

\* The client has sent more than was read.
Unread(c) == got[c] < Len(told[c])

\* The descriptor is ready and the loop finds it among the slots it looks at.
\* The events of one batch are all handled, also after running was cleared.
Event(c, i) ==
    /\ main = "poll"
    /\ c \in polled /\ (Unread(c) \/ c \in gone)
    /\ i \in Searched /\ clients[i].fd = c

\* Fault: client_remove does not lower the counter.
ClientRemoveUncounted(i) ==
    /\ CloseLink(clients[i].fd)
    /\ clients' = [clients EXCEPT ![i] = FreeSlot]
    /\ UNCHANGED clientCount

ClientRemove(i) ==
    /\ CloseLink(clients[i].fd)
    /\ clients' = [clients EXCEPT ![i] = FreeSlot]
    /\ clientCount' = clientCount - 1

\* A full buffer without a newline, the end of the stream, or an error.
Drop(c, i) ==
    /\ Event(c, i)
    /\ Len(clients[i].buf) = BufSize \/ c \in gone
    /\ Unread(c) => Len(clients[i].buf) = BufSize
    /\ ClientRemove(i)
    /\ UNCHANGED <<running, main, cur, job, walk, casts, gone, told, got, inherited, asked, out, gaveUp>>

\* read(2) returns what there is, or a part of it, up to the room left.
Read(c, i) ==
    /\ Event(c, i)
    /\ \E n \in 1..(Len(told[c]) - got[c]) :
          /\ Len(clients[i].buf) + n <= BufSize
          /\ clients' = [clients EXCEPT ![i].buf = @ \o SubSeq(told[c], got[c] + 1, got[c] + n)]
          /\ got' = [got EXCEPT ![c] = @ + n]
    /\ main' = "lines" /\ cur' = i
    /\ UNCHANGED <<clientCount, polled, running, job, walk, casts, link, gone, told, inherited, asked, out, gaveUp>>

\* Fault: what is left behind the last newline is forgotten.
NoMoreLinesForgets ==
    /\ main = "lines" /\ ~HasLine(clients[cur].buf)
    /\ clients' = [clients EXCEPT ![cur].buf = <<>>]
    /\ main' = "poll"
    /\ UNCHANGED <<clientCount, polled, running, cur, job, walk, casts, world, asked, out, gaveUp>>

\* The text behind the last newline stays for the next read.
NoMoreLines ==
    /\ main = "lines" /\ ~HasLine(clients[cur].buf)
    /\ main' = "poll"
    /\ UNCHANGED <<server, cur, job, walk, casts, world, asked, out, gaveUp>>

\* A line that does not parse is skipped without an answer.
SkipLine ==
    /\ main = "lines" /\ HasLine(clients[cur].buf)
    /\ Line(clients[cur].buf).kind = "malformed"
    /\ clients' = [clients EXCEPT ![cur].buf = Rest(@)]
    /\ UNCHANGED <<clientCount, polled, running, main, cur, job, walk, casts, world, asked, out, gaveUp>>

\* Every other line is a request, answered with a result or an error: the
\* subscriptions here, the rest by pf_handle_request, of whose effects only
\* the end of the event loop matters here.
HandleLine ==
    /\ main = "lines" /\ HasLine(clients[cur].buf)
    /\ LET r == Line(clients[cur].buf)
           c == clients[cur].fd
       IN /\ r.kind # "malformed"
          /\ clients' = [clients EXCEPT
                ![cur].buf = Rest(@),
                ![cur].log = CASE r.kind = "subscribe" -> TRUE
                               [] r.kind = "unsubscribe" -> FALSE
                               [] OTHER -> @]
          /\ running' = (running /\ r.kind # "shutdown")
          /\ job' = [job EXCEPT ![Main] = Send(cur, r.n)]
          /\ asked' = [asked EXCEPT ![c] = Append(@, r.n)]
    /\ main' = "send"
    /\ UNCHANGED <<clientCount, polled, cur, walk, casts, world, out, gaveUp>>

-----------------------------------------------------------------------------
(* pf_ipc_send, of the main thread and of the accept threads. *)

\* The send is over; the main thread goes on with the next line.
Ends(s) == /\ job' = [job EXCEPT ![s] = Idle]
           /\ main' = IF s = Main THEN "lines" ELSE main

\* write(2) takes one piece or both.  The descriptor is read from the slot
\* for every call, so it is that of the client who has the slot now.
Write(s) ==
    LET c == clients[job[s].slot].fd
    IN /\ Sending(s) /\ c # NoFd /\ c \notin gone
       /\ \E n \in 1..(2 - job[s].done) :
             /\ out' = [out EXCEPT ![c][s] = @ \o [k \in 1..n |->
                   [msg |-> job[s].msg, piece |-> job[s].done + k]]]
             /\ IF job[s].done + n = 2
                THEN Ends(s)
                ELSE /\ job' = [job EXCEPT ![s].done = @ + n, ![s].retries = 0]
                     /\ UNCHANGED main
       /\ UNCHANGED <<server, cur, walk, casts, world, asked, gaveUp>>

\* Fault: the count of retries starts again instead of ending them.
WouldBlockForEver(s) ==
    LET c == clients[job[s].slot].fd
    IN /\ Sending(s) /\ c # NoFd /\ c \notin Prompt /\ c \notin gone
       /\ job' = [job EXCEPT ![s].retries = (@ + 1) % (MaxRetries + 1)]
       /\ UNCHANGED <<server, main, cur, walk, casts, world, asked, out, gaveUp>>

\* The client's socket is full: try again, a limited number of times in a row.
WouldBlock(s) ==
    LET c == clients[job[s].slot].fd
    IN /\ Sending(s) /\ c # NoFd /\ c \notin Prompt /\ c \notin gone
       /\ job[s].retries < MaxRetries
       /\ job' = [job EXCEPT ![s].retries = @ + 1]
       /\ UNCHANGED <<server, main, cur, walk, casts, world, asked, out, gaveUp>>

\* The retries are used up, or the client has left, or the slot is free:
\* the rest of the message is not sent.
GiveUp(s) ==
    LET c == clients[job[s].slot].fd
    IN /\ Sending(s)
       /\ \/ c = NoFd
          \/ c \in gone
          \/ c \notin Prompt /\ job[s].retries = MaxRetries
       /\ Ends(s)
       /\ gaveUp' = gaveUp \cup ({c} \ {NoFd})
       /\ UNCHANGED <<server, cur, walk, casts, world, asked, out>>

-----------------------------------------------------------------------------
(* pf_ipc_broadcast_log, an accept thread. *)

StartBroadcast(t) ==
    /\ walk[t] = MaxClients /\ ~Sending(t) /\ casts < MaxCasts
    /\ walk' = [walk EXCEPT ![t] = 0]
    /\ casts' = casts + 1
    /\ UNCHANGED <<server, main, cur, job, world, asked, out, gaveUp>>

\* One slot of the walk: its client is tested once, before the send.
VisitSlot(t) ==
    LET i == walk[t]
    IN /\ i < MaxClients /\ ~Sending(t)
       /\ walk' = [walk EXCEPT ![t] = i + 1]
       /\ IF clients[i].fd # NoFd /\ clients[i].log
          THEN job' = [job EXCEPT ![t] = Send(i, 0)]
          ELSE UNCHANGED job
       /\ UNCHANGED <<server, main, cur, casts, world, asked, out, gaveUp>>

-----------------------------------------------------------------------------
(* Shutdown. *)

\* SIGTERM or SIGINT.  The flag is tested at the top of the loop only, so a
\* signal that comes earlier is one that comes there.
Signal ==
    /\ running /\ main = "poll"
    /\ running' = FALSE
    /\ UNCHANGED <<clients, clientCount, polled, main, cur, job, walk, casts, world, asked, out, gaveUp>>

\* pf_ipc_close, while accept threads may be sending.
IpcClose ==
    /\ main = "poll" /\ ~running
    /\ main' = "down"
    /\ clients' = [i \in Slots |-> [clients[i] EXCEPT !.fd = NoFd]]
    /\ clientCount' = 0 /\ polled' = {}
    /\ link' = [c \in Clients |-> IF link[c] = "open" THEN "closed" ELSE link[c]]
    /\ UNCHANGED <<running, cur, job, walk, casts, gone, told, got, inherited, asked, out, gaveUp>>

Next ==
    \/ \E c \in Clients : ClientLeaves(c) \/ Accept(c)
    \/ \E c \in Clients, i \in Slots : Drop(c, i) \/ Read(c, i)
    \/ NoMoreLines \/ SkipLine \/ HandleLine
    \/ \E s \in Casters \cup {Main} : Write(s) \/ WouldBlock(s) \/ GiveUp(s)
    \/ \E t \in Casters : StartBroadcast(t) \/ VisitSlot(t)
    \/ Signal \/ IpcClose

\* The main thread runs while it can.  epoll_wait reports every ready
\* descriptor, so none is passed over for ever although the loop is busy with
\* others in between, and ctx->running is tested after every batch of events,
\* however many follow: strong fairness.  Nothing is assumed of the clients.
Fairness ==
    /\ WF_vars(NoMoreLines \/ SkipLine \/ HandleLine)
    /\ WF_vars(Write(Main) \/ WouldBlock(Main) \/ GiveUp(Main))
    /\ \A c \in Clients : SF_vars(\E i \in Slots : Drop(c, i) \/ Read(c, i))
    /\ SF_vars(IpcClose)

Spec == Init /\ [][Next]_vars /\ Fairness

-----------------------------------------------------------------------------
(* Properties. *)

Piece == [kind : Kinds \cup {Newline}, n : Nat \ {0}]
OutPiece == [msg : Nat, piece : 1..2]

\* The types of the server's state (pf_ipc_t) and of the senders' loops.
TypeOK ==
    /\ clients \in [Slots -> [fd : Clients \cup {NoFd}, buf : Seq(Piece), log : BOOLEAN]]
    /\ \A i \in Slots : Len(clients[i].buf) <= BufSize
    /\ clientCount \in 0..MaxClients /\ polled \subseteq Clients
    /\ running \in BOOLEAN /\ main \in {"poll", "lines", "send", "down"}
    /\ cur \in Slots
    /\ job \in [Casters \cup {Main} ->
                  [slot : Slots, msg : Nat, done : 0..2, retries : 0..MaxRetries]]
    /\ walk \in [Casters -> 0..MaxClients] /\ casts \in 0..MaxCasts
    /\ link \in [Clients -> {"none", "open", "closed"}]
    /\ gone \subseteq Clients /\ told \in [Clients -> Seq(Piece)]
    /\ got \in [Clients -> Nat] /\ \A c \in Clients : got[c] <= Len(told[c])
    /\ asked \in [Clients -> Seq(Nat)] /\ out \in [Clients -> [Casters \cup {Main} -> Seq(OutPiece)]]
    /\ gaveUp \subseteq Clients /\ inherited \subseteq Clients

\* Whatever the order of arrivals, departures, overlong lines and refusals,
\* the slots hold exactly the connections the daemon has open, each once, and
\* client_count, the bound of the event loop's search, is their number
\* (pf_ipc_accept, client_remove, pf_ipc_close).
SlotsAreClients ==
    /\ {clients[i].fd : i \in Used} = {c \in Clients : link[c] = "open"}
    /\ Cardinality(Used) = Cardinality({c \in Clients : link[c] = "open"})
    /\ clientCount = Cardinality(Used)
    /\ polled \subseteq {clients[i].fd : i \in Used}

\* The requests in what a client sent: the pieces that are a line by
\* themselves and parse.
RequestAt(c, k) ==
    /\ told[c][k].kind \in Kinds \ {"malformed"}
    /\ k + 1 \in DOMAIN told[c] /\ told[c][k + 1].kind = Newline
    /\ k > 1 => told[c][k - 1].kind = Newline

\* The answers to a client, written whole and in the order of the requests.
Answers(c) == [k \in 1..2 * Len(asked[c]) |->
                  [msg |-> asked[c][(k + 1) \div 2], piece |-> 2 - (k % 2)]]

\* However the input is cut into reads and the output into writes: the
\* requests taken up are those the client made, all of them up to the end of
\* what was processed, in order (pf_ipc_process); unless a message to the
\* client was given up, each is answered once and in that order, and whatever
\* accept threads write in between, the pieces of each sender are in order;
\* and a log event reaches a client that never asked for one only when it was
\* given a slot while a broadcast was sending to its former owner
\* (pf_ipc_broadcast_log).
StreamsAreInOrder ==
    \A c \in Clients :
        /\ \A j \in DOMAIN asked[c] :
              /\ asked[c][j] \in DOMAIN told[c] /\ RequestAt(c, asked[c][j])
              /\ j > 1 => asked[c][j - 1] < asked[c][j]
        /\ \A k \in 1..got[c] - 1 :
              RequestAt(c, k) /\ main = "poll" => \E j \in DOMAIN asked[c] : asked[c][j] = k
        /\ c \notin gaveUp =>
              LET open == IF main = "send" /\ clients[cur].fd = c
                          THEN 2 - job[Main].done ELSE 0
              IN out[c][Main] = SubSeq(Answers(c), 1, 2 * Len(asked[c]) - open)
        /\ c \notin gaveUp \cup inherited =>
              \A t \in Casters :
                  /\ \A k \in DOMAIN out[c][t] : out[c][t][k].piece = 2 - (k % 2)
                  /\ out[c][t] # <<>> =>
                        \E j \in DOMAIN asked[c] : told[c][asked[c][j]].kind = "subscribe"

\* A client is stranded when it sits in a slot beyond the first client_count
\* ones, which happens after a client in a lower slot has left.
Stranded(c) == link[c] = "open" /\ \A i \in Slots : clients[i].fd = c => i >= clientCount

\* What a client in the epoll set sends is read, or its connection is closed,
\* or it is stranded (the search of the event loop over client_count slots).
WaitingIsServed ==
    \A c \in Clients : c \in polled /\ Unread(c) ~> ~Unread(c) \/ link[c] = "closed" \/ Stranded(c)

\* A termination signal or a system.shutdown request ends the event loop and
\* closes the server, even if a client does not read its answers
\* (the limit on retries in pf_ipc_send).
StopIsHeard == ~running ~> main = "down"
=============================================================================
