------------------------------- MODULE Relay --------------------------------
(***************************************************************************)
(* pf_tproxy_relay (tproxy.c): the bytes of one connection, from a client  *)
(* to its proxy (tx) and back (rx), relayed by the event loop, plain or    *)
(* through the two TLS sessions of an intercepted connection.              *)
(*                                                                         *)
(* The loop calls the relay when epoll reports one of the two descriptors  *)
(* readable; each call reads each side once and writes what it read.  TLS  *)
(* data arrive in records that are read from the socket as a whole: what   *)
(* the caller's buffer does not hold stays inside the TLS session, where   *)
(* epoll does not see it.  Bytes are numbered in the order they are sent.  *)
(***************************************************************************)
EXTENDS Integers, Sequences

CONSTANTS BufBytes,     \* PF_BUF_SIZE, 8192 in the code
          RecordBytes,  \* largest TLS record, 16384 in the protocol
          MaxBytes      \* bound: bytes sent in each direction

ASSUME RelayAssumption ==
    /\ BufBytes \in Nat \ {0} /\ RecordBytes >= BufBytes /\ RecordBytes \in Nat
    /\ MaxBytes \in Nat

Dirs == {"tx", "rx"}

VARIABLES
    tls,        \* conn->client_ssl and conn->server_ssl are there
    inspect,    \* conn->inspect
    socket,     \* per direction: sizes of what waits in the source's socket
    inside,     \* per direction: bytes read from the socket, inside the TLS session
    ended,      \* per direction: the source has closed
    sentBytes,  \* per direction: bytes sent by the source
    readBytes,  \* per direction: bytes read by the relay
    counted,    \* conn->bytes_tx, conn->bytes_rx
    delivered,  \* per direction: bytes written to the destination
    unsent,     \* per direction: the record a TLS session has not been able to write
    refused,    \* history, per direction: a write would have blocked
    captured,   \* history, per direction: bytes given to the inspect callback
    step        \* where the relay is: wait, tx, rx, closed

relayVars == <<tls, inspect, socket, inside, ended, sentBytes, readBytes, counted,
               delivered, unsent, refused, captured, step>>

Zero == [d \in Dirs |-> 0]
Nothing == [d \in Dirs |-> <<>>]
Never == [d \in Dirs |-> FALSE]

\* No record, and one made of the buffer from its start or from further on.
NoRecord == [bytes |-> <<>>, moved |-> FALSE]

\* TLS is intercepted only to be inspected; plain connections may be either.
RelayInit ==
    /\ tls \in BOOLEAN /\ inspect \in BOOLEAN /\ (tls => inspect)
    /\ socket = Nothing /\ inside = Zero /\ ended = Never
    /\ sentBytes = Zero /\ readBytes = Zero /\ counted = Zero
    /\ delivered = Nothing /\ unsent = [d \in Dirs |-> NoRecord] /\ refused = Never /\ captured = Nothing
    /\ step = "wait"

-----------------------------------------------------------------------------
(* The two ends. *)

\* A TLS record, or a stretch of plain bytes, each readable by itself.
SourceSends(d) ==
    /\ step # "closed" /\ ~ended[d]
    /\ \E n \in 1..(IF tls THEN RecordBytes ELSE 1) :
          /\ sentBytes[d] + n <= MaxBytes
          /\ sentBytes' = [sentBytes EXCEPT ![d] = @ + n]
          /\ socket' = [socket EXCEPT ![d] = Append(@, n)]
    /\ UNCHANGED <<tls, inspect, inside, ended, readBytes, counted, delivered, unsent, refused, captured, step>>

SourceEnds(d) ==
    /\ step # "closed" /\ ~ended[d]
    /\ ended' = [ended EXCEPT ![d] = TRUE]
    /\ UNCHANGED <<tls, inspect, socket, inside, sentBytes, readBytes, counted, delivered, unsent, refused, captured, step>>

-----------------------------------------------------------------------------
(* The relay. *)

\* Fault: readiness of the proxy's side does not start a relay.
RelayStartClientOnly ==
    /\ step = "wait"
    /\ socket["tx"] # <<>> \/ ended["tx"]
    /\ step' = "tx"
    /\ UNCHANGED <<tls, inspect, socket, inside, ended, sentBytes, readBytes, counted, delivered, unsent, refused, captured>>

\* epoll reports either descriptor: data in its socket, or its end.
RelayStart ==
    /\ step = "wait"
    /\ \E d \in Dirs : socket[d] # <<>> \/ ended[d]
    /\ step' = "tx"
    /\ UNCHANGED <<tls, inspect, socket, inside, ended, sentBytes, readBytes, counted, delivered, unsent, refused, captured>>

AfterDir(d) == IF d = "tx" THEN "rx" ELSE "wait"

\* How many bytes relay_read returns: what is inside the TLS session comes
\* first, then a record; plain bytes as many as there are.
Available(d) ==
    IF inside[d] > 0 THEN inside[d]
    ELSE IF socket[d] = <<>> THEN 0
    ELSE IF tls THEN Head(socket[d])
    ELSE Len(socket[d])

Got(d) == IF Available(d) < BufBytes THEN Available(d) ELSE BufBytes

\* The socket and the inside of the TLS session after such a read.
Consume(d) ==
    IF ~tls
    THEN /\ socket' = [socket EXCEPT ![d] = SubSeq(@, Got(d) + 1, Len(@))]
         /\ UNCHANGED inside
    ELSE /\ inside' = [inside EXCEPT ![d] = Available(d) - Got(d)]
         /\ socket' = IF inside[d] > 0 THEN socket ELSE [socket EXCEPT ![d] = Tail(@)]

\* The bytes of this read.
Chunk(d) == [k \in 1..Got(d) |-> readBytes[d] + k]

\* What comes of writing the chunk to a socket: a part is written, and if it
\* is not all of it the write was refused.
PlainWrites(d) ==
    {[out |-> SubSeq(Chunk(d), 1, w), left |-> NoRecord, short |-> w < Got(d)] : w \in 0..Got(d)}

\* And to a TLS session, which writes one record for the chunk or keeps it.
\* The next SSL_write stands for that record if it is given the same address
\* and no fewer bytes: the record goes out in the place of as many bytes of
\* the new chunk.  Otherwise it is an error, which an errno left at EAGAIN
\* makes the relay take for a refusal.
TlsWrites(d) ==
    LET c == Chunk(d)
        old == unsent[d]
        n == Len(old.bytes)
        rest == SubSeq(c, n + 1, Len(c))
    IN IF n = 0
       THEN { [out |-> c, left |-> NoRecord, short |-> FALSE],
              [out |-> <<>>, left |-> [bytes |-> c, moved |-> FALSE], short |-> TRUE] }
       ELSE { [out |-> <<>>, left |-> old, short |-> TRUE] } \cup
            IF old.moved \/ n > Len(c) THEN {}
            ELSE { [out |-> old.bytes \o rest, left |-> NoRecord, short |-> FALSE] } \cup
                 IF rest = <<>> THEN {}
                 ELSE { [out |-> old.bytes, left |-> [bytes |-> rest, moved |-> TRUE],
                         short |-> TRUE] }

Writes(d) == IF tls THEN TlsWrites(d) ELSE PlainWrites(d)

\* Fault: after a short write the chunk is written from its start again.
TransferRepeats(d) ==
    /\ step = d /\ Got(d) > 0 /\ Consume(d)
    /\ readBytes' = [readBytes EXCEPT ![d] = @ + Got(d)]
    /\ counted' = [counted EXCEPT ![d] = @ + Got(d)]
    /\ \E w \in Writes(d) :
          /\ delivered' = [delivered EXCEPT ![d] = @ \o w.out \o IF w.short THEN Chunk(d) ELSE <<>>]
          /\ unsent' = [unsent EXCEPT ![d] = w.left]
          /\ refused' = [refused EXCEPT ![d] = @ \/ w.short]
    /\ captured' = [captured EXCEPT ![d] = IF inspect THEN @ \o Chunk(d) ELSE @]
    /\ step' = AfterDir(d)
    /\ UNCHANGED <<tls, inspect, ended, sentBytes>>

\* Everything is written, or the destination refuses the rest, which is then
\* forgotten.  The whole chunk is counted and given to the inspector.
Transfer(d) ==
    /\ step = d /\ Got(d) > 0 /\ Consume(d)
    /\ readBytes' = [readBytes EXCEPT ![d] = @ + Got(d)]
    /\ counted' = [counted EXCEPT ![d] = @ + Got(d)]
    /\ \E w \in Writes(d) :
          /\ delivered' = [delivered EXCEPT ![d] = @ \o w.out]
          /\ unsent' = [unsent EXCEPT ![d] = w.left]
          /\ refused' = [refused EXCEPT ![d] = @ \/ w.short]
    /\ captured' = [captured EXCEPT ![d] = IF inspect THEN @ \o Chunk(d) ELSE @]
    /\ step' = AfterDir(d)
    /\ UNCHANGED <<tls, inspect, ended, sentBytes>>

\* A write fails for good part of the way: the connection is closed, with the
\* chunk neither counted nor captured.
WriteFails(d) ==
    /\ step = d /\ Got(d) > 0 /\ Consume(d)
    /\ readBytes' = [readBytes EXCEPT ![d] = @ + Got(d)]
    /\ \E w \in Writes(d) :
          w.short /\ delivered' = [delivered EXCEPT ![d] = @ \o w.out]
    /\ step' = "closed"
    /\ UNCHANGED <<tls, inspect, ended, sentBytes, counted, unsent, refused, captured>>

\* The read would block.
ReadNothing(d) ==
    /\ step = d /\ Got(d) = 0 /\ ~ended[d]
    /\ step' = AfterDir(d)
    /\ UNCHANGED <<tls, inspect, socket, inside, ended, sentBytes, readBytes, counted, delivered, unsent, refused, captured>>

\* The end of either source closes both sides at once.
ReadEnd(d) ==
    /\ step = d /\ Got(d) = 0 /\ ended[d]
    /\ step' = "closed"
    /\ UNCHANGED <<tls, inspect, socket, inside, ended, sentBytes, readBytes, counted, delivered, unsent, refused, captured>>

RelayDir(d) == Transfer(d) \/ WriteFails(d) \/ ReadNothing(d) \/ ReadEnd(d)

RelayNext ==
    \/ \E d \in Dirs : SourceSends(d) \/ SourceEnds(d) \/ RelayDir(d)
    \/ RelayStart

\* The event loop runs: a readable descriptor is reported, a relay goes on.
RelayFairness == WF_relayVars(RelayStart) /\ WF_relayVars(\E d \in Dirs : RelayDir(d))

-----------------------------------------------------------------------------
(* Properties. *)

RelayTypeOK ==
    /\ tls \in BOOLEAN /\ inspect \in BOOLEAN
    /\ socket \in [Dirs -> Seq(1..RecordBytes)] /\ inside \in [Dirs -> 0..RecordBytes]
    /\ ended \in [Dirs -> BOOLEAN] /\ refused \in [Dirs -> BOOLEAN]
    /\ sentBytes \in [Dirs -> 0..MaxBytes] /\ readBytes \in [Dirs -> 0..MaxBytes]
    /\ counted \in [Dirs -> 0..MaxBytes]
    /\ delivered \in [Dirs -> Seq(1..MaxBytes)] /\ captured \in [Dirs -> Seq(1..MaxBytes)]
    /\ unsent \in [Dirs -> [bytes : Seq(1..MaxBytes), moved : BOOLEAN]]
    /\ step \in {"wait", "tx", "rx", "closed"}

\* However the stream is cut into records, reads and writes: the destination
\* gets bytes in order and none twice, and while the connection lives it
\* misses none unless a write to it would have blocked; the counters and the
\* inspector are told of every byte read, the missing ones included
\* (pf_tproxy_relay).
RelayKeepsOrder ==
    \A d \in Dirs :
        /\ \A k \in 1..Len(delivered[d])-1 : delivered[d][k] < delivered[d][k + 1]
        /\ step # "closed" =>
              /\ ~refused[d] => delivered[d] = [k \in 1..readBytes[d] |-> k]
              /\ counted[d] = readBytes[d]
              /\ inspect => captured[d] = [k \in 1..counted[d] |-> k]

\* Bytes are stalled when they are inside the TLS session and nothing waits
\* in a socket that would make epoll report the connection.
Stalled(d) == inside[d] > 0 /\ \A e \in Dirs : socket[e] = <<>> /\ ~ended[e]

\* What a source sends is read, or the connection is closed, or it is stalled
\* behind a TLS record larger than the relay's buffer; a plain connection is
\* never stalled.
SentIsRead ==
    \A d \in Dirs : readBytes[d] < sentBytes[d] ~>
        readBytes[d] = sentBytes[d] \/ step = "closed" \/ (tls /\ Stalled(d))
=============================================================================
