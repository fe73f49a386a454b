---------------------------- MODULE ProxyConnect ----------------------------
(***************************************************************************)
(* Connecting through a proxy (proxy_socks.c, proxy_http.c) or through a   *)
(* chain of them (chain.c), as proxy_connect_for_tproxy does for a         *)
(* connection and proxy.test and chain.test do for the user, while         *)
(* chain.edit rewrites the chain statement by statement (config.c).        *)
(*                                                                         *)
(* A chain is one socket: the bytes written to it reach the endpoint of    *)
(* the tunnel built so far, so a message for hop i+1 reaches hop i when    *)
(* the client wrongly believes that hop i has connected.  path is the      *)
(* tunnel as it is, conn.at the hop the client believes it talks to.       *)
(*                                                                         *)
(* Replies are pieces: what the client reads with one recv_all, or, for    *)
(* HTTP, a part of the response that may come in a segment of its own.     *)
(* Proxies are honest (one that says it has connected has) but may refuse, *)
(* answer nonsense, be silent, or go away at any time.                     *)
(***************************************************************************)
EXTENDS Naturals, Sequences, FiniteSets, SequencesExt

CONSTANTS Proxies,
          Type,       \* proxy -> "socks5", "socks4", "http" or "ssh"
          HasAuth,    \* proxy -> whether a user name is configured
          Chains,     \* lists of hops that clients send
          Dst,        \* the destination
          BufSize,    \* RESP_BUF_SIZE, in pieces
          MaxAhead    \* bound: pieces under way

ASSUME ConnectAssumption ==
    /\ Type \in [Proxies -> {"socks5", "socks4", "http", "ssh"}]
    /\ HasAuth \in [Proxies -> BOOLEAN]
    /\ Chains \subseteq Seq(Proxies) /\ Dst \notin Proxies
    /\ BufSize \in Nat \ {0} /\ MaxAhead \in Nat \ {0}

VARIABLES
    proxies,  \* the proxies that are in the database
    chain,    \* one row of the chains table and its rows of chain_hops
    edit,     \* the main thread in chain.add or chain.edit: what is left to do
    conn,     \* the connecting thread
    path,     \* the hosts the socket's stream runs through; <<>>: no socket
    ask,      \* the request the endpoint has not answered yet
    stream,   \* pieces sent to the client and not read
    spoken    \* history: pieces the destination has sent

vars == <<proxies, chain, edit, conn, path, ask, stream, spoken>>
configVars == <<proxies, chain, edit>>
netVars == <<path, ask, stream, spoken>>

NoAsk == [kind |-> "none", target |-> Dst]
Idle == [pc |-> "idle", test |-> FALSE, hops |-> <<>>, at |-> 1, buf |-> <<>>]
NoEdit == [op |-> "none", hops |-> <<>>]

Init ==
    /\ proxies = Proxies
    /\ chain = [row |-> "none", hops |-> <<>>]
    /\ edit = NoEdit
    /\ conn = Idle
    /\ path = <<>> /\ ask = NoAsk /\ stream = <<>> /\ spoken = 0

-----------------------------------------------------------------------------
(* The main thread: configuration. *)

\* A test keeps the main thread for its whole duration.
MainIsFree == edit = NoEdit /\ ~conn.test

\* chain.add: the row, then its hops.  No rule can name it before it returns.
ChainAdd(hops) ==
    /\ MainIsFree /\ chain.row = "none"
    /\ chain' = [row |-> "on", hops |-> <<>>]
    /\ edit' = [op |-> "add", hops |-> hops]
    /\ UNCHANGED <<proxies, conn, netVars>>

\* chain.edit: the row first ...
ChainUpdate(hops, row) ==
    /\ MainIsFree /\ chain.row \in {"on", "off"}
    /\ chain' = [chain EXCEPT !.row = row]
    /\ edit' = [op |-> "clear", hops |-> hops]
    /\ UNCHANGED <<proxies, conn, netVars>>

\* ... then the hops: delete ...
ClearHops ==
    /\ edit.op = "clear"
    /\ \/ /\ chain' = [chain EXCEPT !.hops = <<>>]
          /\ edit' = [edit EXCEPT !.op = "insert"]
       \/ edit' = NoEdit /\ UNCHANGED chain
    /\ UNCHANGED <<proxies, conn, netVars>>

\* ... and insert one by one; a proxy that does not exist violates the foreign
\* key.  The handler ends after the last hop or with the first error, and the
\* hops inserted so far stay.
InsertHop ==
    /\ edit.op \in {"add", "insert"}
    /\ \/ /\ edit.hops # <<>> /\ Head(edit.hops) \in proxies
          /\ chain' = [chain EXCEPT !.hops = Append(@, Head(edit.hops))]
          /\ edit' = [edit EXCEPT !.hops = Tail(@)]
       \/ edit' = NoEdit /\ UNCHANGED chain
    /\ UNCHANGED <<proxies, conn, netVars>>

\* The hops go with the row.
ChainDelete ==
    /\ MainIsFree /\ chain.row \in {"on", "off"}
    /\ chain' = [row |-> "gone", hops |-> <<>>]
    /\ UNCHANGED <<proxies, edit, conn, netVars>>

\* Refused while a hop refers to the proxy.
ProxyDelete(p) ==
    /\ MainIsFree /\ p \notin Range(chain.hops)
    /\ proxies' = proxies \ {p}
    /\ UNCHANGED <<chain, edit, conn, netVars>>

-----------------------------------------------------------------------------
(* The connecting thread: from the rule to the first socket. *)

Fail ==
    /\ conn' = Idle
    /\ path' = <<>> /\ ask' = NoAsk /\ stream' = <<>> /\ spoken' = 0

\* A proxy by itself is a chain of one hop: the functions of proxy_socks.c and
\* proxy_http.c make the same exchange as chain.c on a socket of their own.
Alone(p, test) == [Idle EXCEPT !.pc = "connect", !.test = test, !.hops = <<p>>]
Socks4Connect(p, test) == Type[p] = "socks4" /\ conn' = Alone(p, test)
Socks5Connect(p, test) == Type[p] = "socks5" /\ conn' = Alone(p, test)
HttpConnect(p, test) == Type[p] = "http" /\ conn' = Alone(p, test)

\* A rule names the proxy, which is there (and enabled: that only decides
\* whether a connection is tried, and proxy.test does not look), or the user
\* tests it.  ssh proxies are refused (tested elsewhere).
UseProxy(p, test) ==
    /\ conn.pc = "idle" /\ p \in proxies
    /\ test => MainIsFree
    /\ Socks4Connect(p, test) \/ Socks5Connect(p, test) \/ HttpConnect(p, test)
    /\ UNCHANGED <<configVars, netVars>>

\* pf_config_chain_get, the row: a connection needs it enabled, chain.test
\* does not.
UseChain(test) ==
    /\ conn.pc = "idle" /\ edit.op # "add"
    /\ chain.row = "on" \/ (test /\ chain.row = "off")
    /\ test => MainIsFree
    /\ conn' = [Idle EXCEPT !.pc = "hops", !.test = test]
    /\ UNCHANGED <<configVars, netVars>>

\* load_chain_hops: one row of the cursor per step, in the order of hop_order.
\* The statement runs on the connection that chain.edit writes through, so it
\* sees what has been written so far.
ReadHop ==
    /\ conn.pc = "hops"
    /\ conn' = IF Len(conn.hops) < Len(chain.hops)
               THEN [conn EXCEPT !.hops = Append(@, chain.hops[Len(@) + 1])]
               ELSE [conn EXCEPT !.pc = "list"]
    /\ UNCHANGED <<configVars, netVars>>

\* pf_config_proxy_list, and the checks of pf_chain_connect before it opens a
\* socket: at least one hop, every hop known (enabled or not), no ssh first.
ReadProxies ==
    /\ conn.pc = "list"
    /\ IF /\ conn.hops # <<>>
          /\ Range(conn.hops) \subseteq proxies
          /\ Type[Head(conn.hops)] # "ssh"
       THEN conn' = [conn EXCEPT !.pc = "connect"] /\ UNCHANGED netVars
       ELSE Fail
    /\ UNCHANGED configVars

TcpConnect ==
    /\ conn.pc = "connect"
    /\ \/ /\ path' = <<Head(conn.hops)>>
          /\ conn' = [conn EXCEPT !.pc = "send"]
          /\ UNCHANGED <<ask, stream, spoken>>
       \/ Fail
    /\ UNCHANGED configVars

-----------------------------------------------------------------------------
(* Negotiation with hop conn.at on the open socket. *)

Hop == conn.hops[conn.at]
IsLast == conn.at = Len(conn.hops)
Target == IF IsLast THEN Dst ELSE conn.hops[conn.at + 1]

\* send_all, then wait in step pc.
Send(kind, pc) ==
    /\ ask' = [kind |-> kind, target |-> Target]
    /\ conn' = [conn EXCEPT !.pc = pc]
    /\ UNCHANGED <<configVars, path, stream, spoken>>

\* negotiate_hop_on_fd: the first message of each protocol; ssh is supported
\* nowhere in a chain.
SendFirst ==
    /\ conn.pc = "send"
    /\ \/ Type[Hop] = "socks5" /\ Send("greeting", "method")
       \/ Type[Hop] = "socks4" /\ Send("connect", "reply4")
       \/ Type[Hop] = "http" /\ Send("connect", "http")
       \/ Type[Hop] = "ssh" /\ Fail /\ UNCHANGED configVars

SendAuth == conn.pc = "auth" /\ Send("auth", "status")
SendRequest == conn.pc = "request" /\ Send("connect", "reply")

\* recv_all of the next piece.
Receive(pc) ==
    /\ conn.pc = pc /\ stream # <<>>
    /\ stream' = Tail(stream)
    /\ UNCHANGED <<configVars, path, ask, spoken>>
Piece == Head(stream)

Reject(pc, bad) ==
    /\ conn.pc = pc /\ stream # <<>> /\ Piece \in bad
    /\ Fail /\ UNCHANGED configVars

\* On to the next hop, or the socket is returned.
HopDone == [conn EXCEPT !.pc = IF IsLast THEN "done" ELSE "send",
                        !.at = IF IsLast THEN @ ELSE @ + 1, !.buf = <<>>]

\* The method the server chose: one that was not offered, other than 2 without
\* credentials, is taken for "no authentication".
ReadMethod ==
    \/ /\ Receive("method") /\ Piece \in {"none", "other"}
       /\ conn' = [conn EXCEPT !.pc = "request"]
    \/ /\ Receive("method") /\ Piece = "userpass" /\ HasAuth[Hop]
       /\ conn' = [conn EXCEPT !.pc = "auth"]
    \/ Reject("method", {"badversion", "refuse"} \cup IF HasAuth[Hop] THEN {} ELSE {"userpass"})

ReadStatus ==
    \/ Receive("status") /\ Piece = "ok" /\ conn' = [conn EXCEPT !.pc = "request"]
    \/ Reject("status", {"fail"})

\* VER, REP, RSV, ATYP.
ReadReply ==
    \/ Receive("reply") /\ Piece = "ok" /\ conn' = [conn EXCEPT !.pc = "bound"]
    \/ Reject("reply", {"fail", "oddtype"})

\* Fault: the bound address is left in the stream.
ReadBoundLeftUnread ==
    /\ conn.pc = "bound"
    /\ conn' = HopDone
    /\ UNCHANGED <<configVars, path, ask, stream, spoken>>

\* The bound address is drained to its last byte.
ReadBound == Receive("bound") /\ Piece = "bound" /\ conn' = HopDone

\* Fault: the reply's code is not looked at.
ReadReply4Unchecked == Receive("reply4") /\ conn' = HopDone

ReadReply4 ==
    \/ Receive("reply4") /\ Piece = "ok" /\ conn' = HopDone
    \/ Reject("reply4", {"fail"})

\* One recv of the HTTP response: some of what has arrived, up to the room in
\* the buffer.
HttpRecv(n) ==
    /\ conn.pc = "http"
    /\ n <= Len(stream) /\ n <= BufSize - Len(conn.buf)
    /\ stream' = SubSeq(stream, n + 1, Len(stream))
    /\ UNCHANGED <<configVars, path, ask, spoken>>

\* The status is that of the first line.  What was read beyond the end of the
\* headers is dropped with the buffer; a buffer that is full without the end
\* fails.
ReadHttp(n) ==
    LET buf == conn.buf \o SubSeq(stream, 1, n)
    IN \/ /\ HttpRecv(n) /\ "end" \notin Range(buf) /\ Len(buf) < BufSize
          /\ conn' = [conn EXCEPT !.buf = buf]
       \/ /\ HttpRecv(n) /\ "end" \in Range(buf) /\ Head(buf) = "ok"
          /\ conn' = HopDone
       \/ /\ conn.pc = "http" /\ n <= Len(stream) /\ n <= BufSize - Len(conn.buf)
          /\ IF "end" \in Range(buf) THEN Head(buf) # "ok" ELSE Len(buf) = BufSize
          /\ Fail /\ UNCHANGED configVars

Waiting == {"method", "status", "reply", "bound", "reply4", "http"}

\* Fault: no receive timeout is set, so that a silent peer is waited for.
IoFailsOnSendOnly ==
    /\ conn.pc \in {"send", "auth", "request"}
    /\ Fail /\ UNCHANGED configVars

\* send or recv fails: the peer closed, reset, or was silent for the
\* SOCK_TIMEOUT_SEC set on the socket.
IoFails ==
    /\ conn.pc \in Waiting \cup {"send", "auth", "request"}
    /\ Fail /\ UNCHANGED configVars

\* The caller takes the socket (and closes it some time); a test closes it.
Return ==
    /\ conn.pc = "done"
    /\ Fail /\ UNCHANGED configVars

-----------------------------------------------------------------------------
(* The other ends. *)

Endpoint == Last(path)

\* The endpoint answers with pieces; to: the host it has connected to, if any.
Answer(pieces, to) ==
    /\ Len(stream) + Len(pieces) <= MaxAhead
    /\ stream' = stream \o pieces
    /\ path' = path \o to
    /\ UNCHANGED <<configVars, conn, spoken>>

PeerGreets ==
    /\ ask.kind = "greeting" /\ ask' = NoAsk
    /\ \E m \in {"none", "userpass", "other", "refuse", "badversion"} : Answer(<<m>>, <<>>)

PeerAuthenticates ==
    /\ ask.kind = "auth" /\ ask' = NoAsk
    /\ \E s \in {"ok", "fail"} : Answer(<<s>>, <<>>)

\* An HTTP proxy goes on with its headers ("headers") after the status line.
PeerConnects ==
    /\ ask.kind = "connect" /\ Endpoint \in Proxies
    /\ ask' = IF Type[Endpoint] = "http" THEN [ask EXCEPT !.kind = "headers"] ELSE NoAsk
    /\ \E yes \in BOOLEAN :
          LET to == IF yes THEN <<ask.target>> ELSE <<>>
              code == IF yes THEN "ok" ELSE "fail"
          IN \/ Type[Endpoint] = "socks5" /\ Answer(<<code, "bound">>, to)
             \/ Type[Endpoint] = "socks5" /\ yes /\ Answer(<<"oddtype", "bound">>, to)
             \/ Type[Endpoint] \in {"socks4", "http"} /\ Answer(<<code>>, to)

PeerHeaders ==
    /\ ask.kind = "headers"
    /\ \/ Answer(<<"header">>, <<>>) /\ UNCHANGED ask
       \/ Answer(<<"end">>, <<>>) /\ ask' = NoAsk

\* The destination speaks first, as servers of many protocols do, once.
DstSpeaks ==
    /\ path # <<>> /\ Endpoint = Dst /\ ask = NoAsk /\ spoken = 0
    /\ Len(stream) < MaxAhead
    /\ stream' = Append(stream, "data") /\ spoken' = 1
    /\ UNCHANGED <<configVars, conn, path, ask>>

-----------------------------------------------------------------------------
ThreadStep == \/ ReadHop \/ ReadProxies \/ TcpConnect \/ SendFirst \/ SendAuth \/ SendRequest
              \/ ReadMethod \/ ReadStatus \/ ReadReply \/ ReadBound \/ ReadReply4
              \/ \E n \in 1..MaxAhead : ReadHttp(n)
              \/ IoFails \/ Return

ConfigNext == \/ \E hops \in Chains : ChainAdd(hops)
              \/ \E hops \in Chains, row \in {"on", "off"} : ChainUpdate(hops, row)
              \/ ClearHops \/ InsertHop \/ ChainDelete
              \/ \E p \in Proxies : ProxyDelete(p)

Next == \/ ConfigNext
        \/ \E p \in Proxies, test \in BOOLEAN : UseProxy(p, test)
        \/ \E test \in BOOLEAN : UseChain(test)
        \/ ThreadStep
        \/ PeerGreets \/ PeerAuthenticates \/ PeerConnects \/ PeerHeaders \/ DstSpeaks

Spec == Init /\ [][Next]_vars

\* The connecting thread keeps running: every blocking call returns within the
\* timeout set on the socket.  Nothing is asked of peers or of the user.
FairSpec == Spec /\ WF_vars(ThreadStep)

-----------------------------------------------------------------------------
Pieces == {"none", "userpass", "other", "refuse", "badversion", "ok", "fail", "oddtype",
           "bound", "header", "end", "data"}
Steps == {"idle", "hops", "list", "connect", "send", "auth", "request", "done"} \cup Waiting

TypeOK ==
    /\ proxies \subseteq Proxies
    /\ chain \in [row : {"none", "on", "off", "gone"}, hops : Seq(Proxies)]
    /\ edit \in [op : {"none", "add", "clear", "insert"}, hops : Seq(Proxies)]
    /\ conn \in [pc : Steps, test : BOOLEAN, hops : Seq(Proxies), at : Nat \ {0},
                buf : Seq(Pieces)]
    /\ conn.at = 1 \/ conn.at <= Len(conn.hops)
    /\ Len(conn.buf) < BufSize
    /\ path \in Seq(Proxies \cup {Dst}) /\ spoken \in 0..1
    /\ ask \in [kind : {"none", "greeting", "auth", "connect", "headers"},
               target : Proxies \cup {Dst}]
    /\ stream \in Seq(Pieces) /\ Len(stream) <= MaxAhead

\* The tunnel is what the client believes: whatever it sends to a hop, its
\* credentials and the name of the next host included, reaches that hop and no
\* other, a returned socket leads through all hops in their order to the
\* destination, and none is left open when connecting has failed.
TunnelIsAsBelieved ==
    /\ conn.pc \in {"idle", "hops", "list", "connect"} => path = <<>>
    /\ conn.pc \in {"send", "auth", "request"} => path = SubSeq(conn.hops, 1, conn.at)
    /\ conn.pc = "done" => path = Append(conn.hops, Dst)

\* Client and hops stay in step: when the client sends, everything sent to it
\* has been read, so that no remainder of one reply is taken for the next; and
\* a returned socket delivers bytes of the destination only, all of them
\* unless the last hop is an HTTP proxy, whose client reads past the response.
InStep ==
    /\ conn.pc \in {"send", "auth", "request"} => stream = <<>> /\ ask = NoAsk
    /\ conn.pc = "done" => ask = NoAsk /\ Range(stream) \subseteq {"data"}
    /\ conn.pc = "done" /\ Type[Last(conn.hops)] # "http" => Len(stream) = spoken

\* Connecting ends, whatever the peers do and however slowly they answer.
ConnectEnds == (conn.pc # "idle") ~> (conn.pc \in {"done", "idle"})

=============================================================================
