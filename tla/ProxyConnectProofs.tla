------------------------- MODULE ProxyConnectProofs -------------------------
(***************************************************************************)
(* Proofs about connecting through proxies, for any proxies and chains of  *)
(* any length: the tunnel is the one the client believes in, and client    *)
(* and hops stay in step.                                                  *)
(***************************************************************************)
EXTENDS ProxyConnect, SequenceTheorems, TLAPS

-----------------------------------------------------------------------------
(* The inductive invariant: for every step of the client, where the tunnel *)
(* ends and what is still to be read.                                      *)

Sending == {"send", "auth", "request"}
Early == {"idle", "hops", "list", "connect"}

\* The hop the client talks to is one of the chain.
AtHop == conn.at <= Len(conn.hops)

\* The tunnel ends at that hop ...
ToHop == path = SubSeq(conn.hops, 1, conn.at) /\ spoken = 0

\* ... or at the host the hop was asked to connect to.
ToTarget == path = Append(SubSeq(conn.hops, 1, conn.at), Target) /\ (spoken = 1 => IsLast)

\* Behind the first n pieces of s there is what the destination has sent.
OnlyDataBehind(s, n) ==
    Len(s) = n + spoken /\ \A k \in 1..Len(s) : k > n => s[k] = "data"

\* The hop has not answered yet.
Unanswered(kind) == ask.kind = kind /\ stream = <<>> /\ ToHop

\* The client will find that the hop has refused.
Refused(s) == ask = NoAsk /\ Len(s) > 0 /\ s[1] # "ok"

\* What is read and unread of an HTTP response.
Response == conn.buf \o stream

\* The response is coming in; or it has come, and its end is not read.
HeadersComing ==
    /\ ask.kind = "headers" /\ Len(Response) > 0
    /\ \A k \in 1..Len(Response) : Response[k] # "end"
    /\ Response[1] = "ok" => ToTarget /\ spoken = 0
ResponseComplete ==
    /\ ask = NoAsk /\ ToTarget /\ Response # <<>> /\ Response[1] = "ok"
    /\ \E e \in 1..Len(Response) :
          /\ Len(conn.buf) < e /\ Response[e] = "end"
          /\ OnlyDataBehind(Response, e)
          /\ \A k \in 1..(e - 1) : Response[k] # "end"

EarlyInv == conn.pc \in Early =>
    /\ path = <<>> /\ ask = NoAsk /\ stream = <<>> /\ spoken = 0 /\ conn.at = 1
    /\ conn.pc = "connect" => conn.hops # <<>>
    /\ conn.pc # "connect" => conn.pc \in {"hops", "list"} \/ conn = Idle

SendInv == conn.pc \in Sending =>
    /\ AtHop /\ ToHop /\ ask = NoAsk /\ stream = <<>>
    /\ conn.pc # "send" => Type[Hop] = "socks5"

GreetInv == conn.pc \in {"method", "status"} =>
    /\ AtHop /\ Type[Hop] = "socks5"
    /\ \/ Unanswered(IF conn.pc = "method" THEN "greeting" ELSE "auth")
       \/ ask = NoAsk /\ Len(stream) = 1 /\ ToHop

ReplyInv == conn.pc = "reply" =>
    /\ AtHop /\ Type[Hop] = "socks5"
    /\ \/ Unanswered("connect") /\ ask.target = Target
       \/ /\ ask = NoAsk /\ ToTarget
          /\ stream[1] = "ok" /\ stream[2] = "bound" /\ OnlyDataBehind(stream, 2)
       \/ Refused(stream)

BoundInv == conn.pc = "bound" =>
    /\ AtHop /\ Type[Hop] = "socks5"
    /\ ask = NoAsk /\ ToTarget
    /\ stream[1] = "bound" /\ OnlyDataBehind(stream, 1)

Reply4Inv == conn.pc = "reply4" =>
    /\ AtHop /\ Type[Hop] = "socks4"
    /\ \/ Unanswered("connect") /\ ask.target = Target
       \/ ask = NoAsk /\ ToTarget /\ stream[1] = "ok" /\ OnlyDataBehind(stream, 1)
       \/ Refused(stream)

HttpInv == conn.pc = "http" =>
    /\ AtHop /\ Type[Hop] = "http"
    /\ \/ Unanswered("connect") /\ ask.target = Target /\ conn.buf = <<>>
       \/ HeadersComing
       \/ ResponseComplete
       \/ Refused(Response)

DoneInv == conn.pc = "done" =>
    /\ AtHop /\ IsLast
    /\ ask = NoAsk /\ path = Append(conn.hops, Dst)
    /\ \A k \in 1..Len(stream) : stream[k] = "data"
    /\ Type[Hop] # "http" => Len(stream) = spoken

ClientInv ==
    /\ conn.pc # "http" => conn.buf = <<>>
    /\ EarlyInv /\ SendInv /\ GreetInv /\ ReplyInv /\ BoundInv /\ Reply4Inv
    /\ HttpInv /\ DoneInv

ConnectInv == TypeOK /\ ClientInv

ConnRecords == [pc : Steps, test : BOOLEAN, hops : Seq(Proxies), at : Nat \ {0}, buf : Seq(Pieces)]
Hosts == Proxies \cup {Dst}

\* A step that leaves the client and the network alone.
LEMMA ConfigStep ==
    ASSUME ConnectInv, UNCHANGED <<conn, netVars>>,
           proxies' \subseteq Proxies,
           chain' \in [row : {"none", "on", "off", "gone"}, hops : Seq(Proxies)],
           edit' \in [op : {"none", "add", "clear", "insert"}, hops : Seq(Proxies)]
    PROVE  ConnectInv'
<1>1. UNCHANGED <<conn, path, ask, stream, spoken>>  BY DEF netVars
<1>2. TypeOK'  BY <1>1 DEF ConnectInv, TypeOK
<1>3. UNCHANGED <<Hop, IsLast, Target, Response>>
  BY <1>1 DEF Hop, IsLast, Target, Response
<1>4. UNCHANGED <<AtHop, ToHop, ToTarget>>  BY <1>1, <1>3 DEF AtHop, ToHop, ToTarget
<1>5. ClientInv'
  BY <1>1, <1>3, <1>4
     DEF ConnectInv, ClientInv, EarlyInv, SendInv, GreetInv, ReplyInv, BoundInv, Reply4Inv,
         HttpInv, DoneInv, Unanswered, Refused, HeadersComing, ResponseComplete, OnlyDataBehind
<1> QED  BY <1>2, <1>5 DEF ConnectInv

LEMMA ConfigKeepsInv ==
    ASSUME ConnectInv, ConfigNext
    PROVE  ConnectInv'
<1>0. /\ proxies \subseteq Proxies
      /\ chain \in [row : {"none", "on", "off", "gone"}, hops : Seq(Proxies)]
      /\ edit \in [op : {"none", "add", "clear", "insert"}, hops : Seq(Proxies)]
      /\ \A h \in Chains : h \in Seq(Proxies)
      /\ <<>> \in Seq(Proxies)
  BY ConnectAssumption, EmptySeq DEF ConnectInv, TypeOK
<1>1. ASSUME NEW h \in Chains, ChainAdd(h) PROVE ConnectInv'
  <2>1. /\ chain' \in [row : {"none", "on", "off", "gone"}, hops : Seq(Proxies)]
        /\ edit' \in [op : {"none", "add", "clear", "insert"}, hops : Seq(Proxies)]
    BY <1>0, <1>1 DEF ChainAdd
  <2> QED  BY <1>0, <1>1, <2>1, ConfigStep DEF ChainAdd
<1>2. ASSUME NEW h \in Chains, NEW row \in {"on", "off"}, ChainUpdate(h, row) PROVE ConnectInv'
  <2>1. /\ chain' \in [row : {"none", "on", "off", "gone"}, hops : Seq(Proxies)]
        /\ edit' \in [op : {"none", "add", "clear", "insert"}, hops : Seq(Proxies)]
    BY <1>0, <1>2 DEF ChainUpdate
  <2> QED  BY <1>0, <1>2, <2>1, ConfigStep DEF ChainUpdate
<1>3. CASE ClearHops
  <2>1. /\ chain' \in [row : {"none", "on", "off", "gone"}, hops : Seq(Proxies)]
        /\ edit' \in [op : {"none", "add", "clear", "insert"}, hops : Seq(Proxies)]
    <3>1. NoEdit \in [op : {"none", "add", "clear", "insert"}, hops : Seq(Proxies)]
      BY <1>0 DEF NoEdit
    <3>2. CASE /\ chain' = [chain EXCEPT !.hops = <<>>]
               /\ edit' = [edit EXCEPT !.op = "insert"]
      BY <1>0, <3>2
    <3>3. CASE edit' = NoEdit /\ UNCHANGED chain
      BY <1>0, <3>1, <3>3
    <3> QED  BY <1>3, <3>2, <3>3 DEF ClearHops
  <2> QED  BY <1>0, <1>3, <2>1, ConfigStep DEF ClearHops
<1>4. CASE InsertHop
  <2>1. edit.hops # <<>> => /\ Tail(edit.hops) \in Seq(Proxies)
                            /\ Append(chain.hops, Head(edit.hops)) \in Seq(Proxies)
    <3> SUFFICES ASSUME edit.hops # <<>>
                 PROVE  /\ Tail(edit.hops) \in Seq(Proxies)
                        /\ Append(chain.hops, Head(edit.hops)) \in Seq(Proxies)
      OBVIOUS
    <3>1. edit.hops \in Seq(Proxies) /\ chain.hops \in Seq(Proxies)  BY <1>0
    <3>2. Tail(edit.hops) \in Seq(Proxies) /\ Head(edit.hops) \in Proxies
      BY <3>1, HeadTailProperties
    <3> QED  BY <3>1, <3>2
  <2>2. /\ chain' \in [row : {"none", "on", "off", "gone"}, hops : Seq(Proxies)]
        /\ edit' \in [op : {"none", "add", "clear", "insert"}, hops : Seq(Proxies)]
    <3>1. NoEdit \in [op : {"none", "add", "clear", "insert"}, hops : Seq(Proxies)]
      BY <1>0 DEF NoEdit
    <3>2. CASE /\ edit.hops # <<>>
               /\ chain' = [chain EXCEPT !.hops = Append(@, Head(edit.hops))]
               /\ edit' = [edit EXCEPT !.hops = Tail(@)]
      <4>1. chain' = [chain EXCEPT !.hops = Append(chain.hops, Head(edit.hops))]
        BY <1>0, <3>2
      <4>2. edit' = [edit EXCEPT !.hops = Tail(edit.hops)]  BY <1>0, <3>2
      <4> QED  BY <1>0, <2>1, <3>2, <4>1, <4>2
    <3>3. CASE edit' = NoEdit /\ UNCHANGED chain
      BY <1>0, <3>1, <3>3
    <3> QED  BY <1>4, <3>2, <3>3 DEF InsertHop
  <2> QED  BY <1>0, <1>4, <2>2, ConfigStep DEF InsertHop
<1>5. CASE ChainDelete
  <2>1. chain' \in [row : {"none", "on", "off", "gone"}, hops : Seq(Proxies)]
    BY <1>0, <1>5 DEF ChainDelete
  <2> QED  BY <1>0, <1>5, <2>1, ConfigStep DEF ChainDelete
<1>6. ASSUME NEW p \in Proxies, ProxyDelete(p) PROVE ConnectInv'
  BY <1>0, <1>6, ConfigStep DEF ProxyDelete
<1> QED  BY <1>1, <1>2, <1>3, <1>4, <1>5, <1>6 DEF ConfigNext

-----------------------------------------------------------------------------
(* Up to the first socket. *)

LEMMA IdleIsTyped ==
    /\ Idle \in ConnRecords /\ NoAsk \in [kind : {"none", "greeting", "auth", "connect", "headers"},
                                          target : Hosts]
    /\ Idle.pc = "idle" /\ Idle.at = 1 /\ Idle.buf = <<>> /\ Idle.hops = <<>>
    /\ NoAsk.kind = "none" /\ Len(<<>>) = 0 /\ <<>> \in Seq(Pieces) /\ <<>> \in Seq(Hosts)
<1>1. <<>> \in Seq(Proxies) /\ <<>> \in Seq(Pieces) /\ <<>> \in Seq(Hosts) /\ Len(<<>>) = 0
  BY EmptySeq
<1> QED  BY <1>1 DEF Idle, NoAsk, ConnRecords, Hosts, Steps

\* A failed attempt leaves nothing.
LEMMA FailStep ==
    ASSUME ConnectInv, Fail, UNCHANGED configVars
    PROVE  ConnectInv'
<1>1. TypeOK'
  BY IdleIsTyped, ConnectAssumption
     DEF Fail, ConnectInv, TypeOK, configVars, ConnRecords, Hosts
<1>2. conn'.pc = "idle" /\ conn' = Idle  BY IdleIsTyped DEF Fail
<1>3. ClientInv'
  BY <1>2, IdleIsTyped
     DEF Fail, ClientInv, EarlyInv, SendInv, GreetInv, ReplyInv, BoundInv, Reply4Inv,
         HttpInv, DoneInv, Early, Sending
<1> QED  BY <1>1, <1>3 DEF ConnectInv

\* A step of the client before there is a socket.
LEMMA EarlyStep ==
    ASSUME ConnectInv, conn.pc \in Early, UNCHANGED <<configVars, netVars>>,
           conn' \in ConnRecords, conn'.pc \in {"hops", "list", "connect"},
           conn'.at = 1, conn'.buf = <<>>, conn'.pc = "connect" => conn'.hops # <<>>
    PROVE  ConnectInv'
<1>1. TypeOK'
  BY ConnectAssumption, EmptySeq DEF ConnectInv, TypeOK, configVars, netVars, ConnRecords
<1>2. /\ path = <<>> /\ ask = NoAsk /\ stream = <<>> /\ spoken = 0
      /\ UNCHANGED <<path, ask, stream, spoken>>
  BY DEF ConnectInv, ClientInv, EarlyInv, netVars
<1>3. ClientInv'
  BY <1>2
     DEF ClientInv, EarlyInv, SendInv, GreetInv, ReplyInv, BoundInv, Reply4Inv,
         HttpInv, DoneInv, Early, Sending
<1> QED  BY <1>1, <1>3 DEF ConnectInv

LEMMA UseKeepsInv ==
    ASSUME ConnectInv,
           \/ \E p \in Proxies, test \in BOOLEAN : UseProxy(p, test)
           \/ \E test \in BOOLEAN : UseChain(test)
    PROVE  ConnectInv'
<1>1. ASSUME NEW p \in Proxies, NEW test \in BOOLEAN, UseProxy(p, test) PROVE ConnectInv'
  <2>1. conn' = Alone(p, test)
    BY <1>1 DEF UseProxy, Socks4Connect, Socks5Connect, HttpConnect
  <2>2. <<p>> \in Seq(Proxies) /\ <<p>> # <<>>  OBVIOUS
  <2>3. conn' \in ConnRecords /\ conn'.pc = "connect" /\ conn'.at = 1 /\ conn'.buf = <<>>
        /\ conn'.hops # <<>>
    BY <2>1, <2>2, IdleIsTyped DEF Alone, ConnRecords, Steps
  <2> QED  BY <1>1, <2>3, EarlyStep DEF UseProxy, Early
<1>2. ASSUME NEW test \in BOOLEAN, UseChain(test) PROVE ConnectInv'
  <2>1. conn' \in ConnRecords /\ conn'.pc = "hops" /\ conn'.at = 1 /\ conn'.buf = <<>>
    BY <1>2, IdleIsTyped DEF UseChain, ConnRecords, Steps
  <2> QED  BY <1>2, <2>1, EarlyStep DEF UseChain, Early
<1> QED  BY <1>1, <1>2

LEMMA LoadKeepsInv ==
    ASSUME ConnectInv, ReadHop \/ ReadProxies
    PROVE  ConnectInv'
<1>0. conn \in ConnRecords /\ chain.hops \in Seq(Proxies)
  BY DEF ConnectInv, TypeOK, ConnRecords
<1>1. CASE ReadHop
  <2>1. conn.at = 1 /\ conn.buf = <<>> /\ conn.pc = "hops"
    BY <1>1 DEF ReadHop, ConnectInv, ClientInv, EarlyInv, Early
  <2>2. Len(conn.hops) < Len(chain.hops) =>
           Append(conn.hops, chain.hops[Len(conn.hops) + 1]) \in Seq(Proxies)
    <3> SUFFICES ASSUME Len(conn.hops) < Len(chain.hops)
                 PROVE  Append(conn.hops, chain.hops[Len(conn.hops) + 1]) \in Seq(Proxies)
      OBVIOUS
    <3>1. conn.hops \in Seq(Proxies) /\ Len(conn.hops) \in Nat /\ Len(chain.hops) \in Nat
      BY <1>0, LenProperties DEF ConnRecords
    <3>2. chain.hops[Len(conn.hops) + 1] \in Proxies  BY <1>0, <3>1, ElementOfSeq
    <3> QED  BY <3>1, <3>2
  <2>3. conn' \in ConnRecords /\ conn'.pc \in {"hops", "list"} /\ conn'.at = 1 /\ conn'.buf = <<>>
    BY <1>0, <1>1, <2>1, <2>2 DEF ReadHop, ConnRecords, Steps
  <2> QED  BY <1>1, <2>1, <2>3, EarlyStep DEF ReadHop, Early
<1>2. CASE ReadProxies /\ ~Fail
  <2>1. conn.at = 1 /\ conn.buf = <<>> /\ conn.pc = "list"
    BY <1>2 DEF ReadProxies, ConnectInv, ClientInv, EarlyInv, Early
  <2>2. /\ conn' \in ConnRecords /\ conn'.pc = "connect" /\ conn'.at = 1 /\ conn'.buf = <<>>
        /\ conn'.hops # <<>> /\ UNCHANGED netVars
    BY <1>0, <1>2, <2>1 DEF ReadProxies, ConnRecords, Steps
  <2> QED  BY <1>2, <2>1, <2>2, EarlyStep DEF ReadProxies, Early
<1>3. CASE ReadProxies /\ Fail  BY <1>3, FailStep DEF ReadProxies
<1> QED  BY <1>1, <1>2, <1>3

\* The socket: its first end is the first hop.
LEMMA TcpKeepsInv ==
    ASSUME ConnectInv, TcpConnect
    PROVE  ConnectInv'
<1>0. /\ conn \in ConnRecords /\ conn.hops \in Seq(Proxies) /\ conn.pc = "connect"
      /\ conn.hops # <<>> /\ conn.at = 1 /\ conn.buf = <<>>
      /\ ask = NoAsk /\ stream = <<>> /\ spoken = 0
  BY DEF ConnectInv, TypeOK, ConnRecords, TcpConnect, ClientInv, EarlyInv, Early
<1>1. CASE Fail  BY <1>1, FailStep DEF TcpConnect
<1>2. CASE /\ path' = <<Head(conn.hops)>>
           /\ conn' = [conn EXCEPT !.pc = "send"]
           /\ UNCHANGED <<ask, stream, spoken>>
  <2>1. /\ conn' \in ConnRecords /\ conn'.pc = "send" /\ conn'.hops = conn.hops
        /\ conn'.at = 1 /\ conn'.buf = <<>> /\ conn'.test = conn.test
    BY <1>0, <1>2 DEF ConnRecords, Steps
  <2>2. Len(conn.hops) \in Nat /\ Len(conn.hops) >= 1 /\ Head(conn.hops) \in Proxies
    BY <1>0, EmptySeq, HeadTailProperties, LenProperties
  <2>3. path' = SubSeq(conn.hops, 1, 1)
    <3>1. conn.hops[1] = Head(conn.hops)  BY <1>0
    <3>2. \A i \in 1..1 : conn.hops[i] \in Proxies  BY <2>2, <3>1
    <3> DEFINE t == SubSeq(conn.hops, 1, 1)
    <3>3. t \in Seq(Proxies) /\ Len(t) = 1 /\ t[1] = conn.hops[1]
      BY <3>2, SubSeqProperties
    <3> HIDE DEF t
    <3>4. t = <<conn.hops[1]>>  BY <3>3
    <3>5. SubSeq(conn.hops, 1, 1) = <<conn.hops[1]>>  BY <3>4 DEF t
    <3> QED  BY <1>2, <3>1, <3>5
  <2>4. path' \in Seq(Proxies \cup {Dst})  BY <1>2, <2>2
  <2>5. TypeOK'
    BY <1>0, <1>2, <2>1, <2>4, ConnectAssumption, EmptySeq
       DEF ConnectInv, TypeOK, TcpConnect, configVars, ConnRecords
  <2>6. ClientInv'
    BY <1>0, <1>2, <2>1, <2>2, <2>3
       DEF ClientInv, EarlyInv, SendInv, GreetInv, ReplyInv, BoundInv, Reply4Inv,
           HttpInv, DoneInv, Early, Sending, AtHop, ToHop
  <2> QED  BY <2>5, <2>6 DEF ConnectInv
<1> QED  BY <1>1, <1>2 DEF TcpConnect

-----------------------------------------------------------------------------
(* The exchange with one hop. *)

\* Hop and target, and where the tunnel ends, do not depend on the step.
LEMMA SameHop ==
    ASSUME conn'.hops = conn.hops, conn'.at = conn.at
    PROVE  Hop' = Hop /\ IsLast' = IsLast /\ Target' = Target /\ AtHop' = AtHop
BY DEF Hop, IsLast, Target, AtHop

LEMMA HopIsTyped ==
    ASSUME ConnectInv, AtHop
    PROVE  /\ conn.at \in 1..Len(conn.hops) /\ Hop \in Proxies /\ Target \in Hosts
           /\ conn.hops \in Seq(Proxies) /\ Len(conn.hops) \in Nat /\ conn.at \in Nat \ {0}
           /\ conn.at < Len(conn.hops) => Target \in Proxies /\ Target = conn.hops[conn.at + 1]
           /\ IsLast \in BOOLEAN
<1>1. /\ conn.hops \in Seq(Proxies) /\ Len(conn.hops) \in Nat /\ conn.at \in Nat \ {0}
  BY LenProperties DEF ConnectInv, TypeOK
<1>2. conn.at \in 1..Len(conn.hops)  BY <1>1 DEF AtHop
<1>3. Hop \in Proxies  BY <1>1, <1>2, ElementOfSeq DEF Hop
<1>4. conn.at < Len(conn.hops) => /\ conn.hops[conn.at + 1] \in Proxies
                                  /\ Target = conn.hops[conn.at + 1]
  BY <1>1, <1>2, ElementOfSeq DEF Target, IsLast
<1>5. Target \in Hosts  BY <1>1, <1>2, <1>4 DEF Target, IsLast, Hosts
<1> QED  BY <1>1, <1>2, <1>3, <1>4, <1>5 DEF IsLast

\* A request is sent.
LEMMA SendStep ==
    ASSUME ConnectInv, conn.pc \in Sending,
           NEW kind \in {"greeting", "auth", "connect"}, NEW pc, Send(kind, pc),
           \/ kind = "greeting" /\ pc = "method" /\ Type[Hop] = "socks5"
           \/ kind = "auth" /\ pc = "status" /\ Type[Hop] = "socks5"
           \/ kind = "connect" /\ pc = "reply" /\ Type[Hop] = "socks5"
           \/ kind = "connect" /\ pc = "reply4" /\ Type[Hop] = "socks4"
           \/ kind = "connect" /\ pc = "http" /\ Type[Hop] = "http"
    PROVE  ConnectInv'
<1>0. /\ AtHop /\ ToHop /\ ask = NoAsk /\ stream = <<>> /\ conn.buf = <<>>
      /\ conn \in ConnRecords
  BY DEF ConnectInv, TypeOK, ConnRecords, ClientInv, SendInv, Sending
<1>1. /\ conn' \in ConnRecords /\ conn'.pc = pc /\ conn'.hops = conn.hops
      /\ conn'.at = conn.at /\ conn'.buf = <<>>
  BY <1>0 DEF Send, ConnRecords, Steps, Waiting
<1>2. /\ Hop' = Hop /\ IsLast' = IsLast /\ Target' = Target /\ AtHop'
  BY <1>0, <1>1, SameHop
<1>3. ask'.kind = kind /\ ask'.target = Target /\ stream' = <<>>  BY <1>0 DEF Send
<1>4. ask' \in [kind : {"none", "greeting", "auth", "connect", "headers"}, target : Hosts]
  BY <1>0, HopIsTyped DEF Send
<1>5. TypeOK'
  BY <1>0, <1>1, <1>4, HopIsTyped, ConnectAssumption, EmptySeq
     DEF ConnectInv, TypeOK, Send, configVars, ConnRecords, Hosts, AtHop
<1>6. ToHop'  BY <1>0, <1>1 DEF ToHop, Send
<1>7. ClientInv'
  BY <1>1, <1>2, <1>3, <1>6
     DEF ClientInv, EarlyInv, SendInv, GreetInv, ReplyInv, BoundInv, Reply4Inv,
         HttpInv, DoneInv, Early, Sending, Unanswered
<1> QED  BY <1>5, <1>7 DEF ConnectInv

LEMMA SendKeepsInv ==
    ASSUME ConnectInv, SendFirst \/ SendAuth \/ SendRequest
    PROVE  ConnectInv'
<1>1. CASE SendFirst /\ ~Fail
  BY <1>1, SendStep DEF SendFirst, Sending
<1>2. CASE SendFirst /\ Fail
  <2>1. UNCHANGED configVars  BY <1>2 DEF SendFirst, Send
  <2> QED  BY <1>2, <2>1, FailStep
<1>3. CASE SendAuth \/ SendRequest
  <2>1. conn.pc \in Sending /\ Type[Hop] = "socks5"
    BY <1>3 DEF SendAuth, SendRequest, Sending, ConnectInv, ClientInv, SendInv
  <2> QED  BY <1>3, <2>1, SendStep DEF SendAuth, SendRequest
<1> QED  BY <1>1, <1>2, <1>3

\* The tunnel to the target is the tunnel to the next hop, or the whole chain
\* with the destination.
LEMMA OneHopFurther ==
    ASSUME ConnectInv, AtHop
    PROVE  Append(SubSeq(conn.hops, 1, conn.at), Target)
             = IF IsLast THEN Append(conn.hops, Dst) ELSE SubSeq(conn.hops, 1, conn.at + 1)
<1> DEFINE n == Len(conn.hops)
           a == conn.at
           h == conn.hops
<1>1. h \in Seq(Proxies) /\ n \in Nat /\ a \in 1..n /\ h \in Seq(Hosts) /\ Target \in Hosts
  BY HopIsTyped, SeqMonotonic DEF Hosts
<1>2. CASE IsLast
  <2>1. SubSeq(h, 1, n) = h  BY <1>1, SubSeqFull
  <2> QED  BY <1>2, <2>1 DEF IsLast, Target
<1>3. CASE ~IsLast
  <2>1. a < n /\ Target = h[a + 1]  BY <1>1, <1>3, HopIsTyped DEF IsLast
  <2>2. \A i \in 1..(a + 1) : h[i] \in Hosts  BY <1>1, <2>1, ElementOfSeq
  <2> DEFINE s == SubSeq(h, 1, a)
             t == SubSeq(h, 1, a + 1)
             u == Append(s, Target)
  <2>3. s \in Seq(Hosts) /\ Len(s) = a /\ \A i \in 1..a : s[i] = h[i]
    BY <1>1, <2>2, SubSeqProperties
  <2>4. t \in Seq(Hosts) /\ Len(t) = a + 1 /\ \A i \in 1..(a + 1) : t[i] = h[i]
    BY <1>1, <2>2, SubSeqProperties
  <2> HIDE DEF s, t
  <2>5. u \in Seq(Hosts) /\ Len(u) = a + 1 /\ u[a + 1] = Target /\ \A i \in 1..a : u[i] = s[i]
    BY <1>1, <2>3
  <2> HIDE DEF u
  <2>6. \A i \in 1..(a + 1) : u[i] = t[i]
    <3> SUFFICES ASSUME NEW i \in 1..(a + 1) PROVE u[i] = t[i]  OBVIOUS
    <3>1. CASE i = a + 1  BY <1>1, <2>1, <2>4, <2>5, <3>1
    <3>2. CASE i # a + 1
      <4>1. i \in 1..a  BY <1>1, <3>2
      <4> QED  BY <2>3, <2>4, <2>5, <4>1
    <3> QED  BY <3>1, <3>2
  <2>7. u = t  BY <2>4, <2>5, <2>6, SeqEqual
  <2> QED  BY <1>3, <2>7 DEF s, t, u
<1> QED  BY <1>2, <1>3

\* A hop has said that it is connected, and its reply is read.
LEMMA HopDoneStep ==
    ASSUME ConnectInv, conn.pc \in Waiting, AtHop, ToTarget, conn' = HopDone,
           ask = NoAsk, UNCHANGED <<configVars, path, ask, spoken>>,
           stream' \in Seq(Pieces), Len(stream') <= spoken, Len(stream') <= MaxAhead,
           \A k \in 1..Len(stream') : stream'[k] = "data",
           Type[Hop] # "http" => Len(stream') = spoken
    PROVE  ConnectInv'
<1>0. conn \in ConnRecords /\ spoken \in 0..1  BY DEF ConnectInv, TypeOK, ConnRecords
<1>1. /\ conn.at \in 1..Len(conn.hops) /\ Len(conn.hops) \in Nat /\ conn.at \in Nat \ {0}
  BY HopIsTyped
<1>2. CASE IsLast
  <2>1. /\ conn' \in ConnRecords /\ conn'.pc = "done" /\ conn'.hops = conn.hops
        /\ conn'.at = conn.at /\ conn'.buf = <<>>
    BY <1>0, <1>2, EmptySeq DEF HopDone, ConnRecords, Steps
  <2>2. Hop' = Hop /\ IsLast' /\ AtHop'  BY <1>2, <2>1, SameHop
  <2>3. path' = Append(conn'.hops, Dst)  BY <1>2, <2>1, OneHopFurther DEF ToTarget
  <2>4. TypeOK'
    BY <2>1, <2>2, ConnectAssumption, EmptySeq
       DEF ConnectInv, TypeOK, configVars, ConnRecords, AtHop
  <2>5. ClientInv'
    BY <2>1, <2>2, <2>3
       DEF ClientInv, EarlyInv, SendInv, GreetInv, ReplyInv, BoundInv, Reply4Inv,
           HttpInv, DoneInv, Early, Sending
  <2> QED  BY <2>4, <2>5 DEF ConnectInv
<1>3. CASE ~IsLast
  <2>1. /\ conn' \in ConnRecords /\ conn'.pc = "send" /\ conn'.hops = conn.hops
        /\ conn'.at = conn.at + 1 /\ conn'.buf = <<>>
    <3>1. conn' = [conn EXCEPT !.pc = "send", !.at = conn.at + 1, !.buf = <<>>]
      BY <1>0, <1>3 DEF HopDone
    <3>2. conn.at + 1 \in Nat \ {0} /\ <<>> \in Seq(Pieces) /\ "send" \in Steps
      BY <1>1, EmptySeq DEF Steps
    <3> DEFINE next == conn.at + 1
               none == <<>>
               send == "send"
    <3>3. next \in Nat \ {0} /\ none \in Seq(Pieces) /\ send \in Steps  BY <3>2
    <3>4. conn' = [conn EXCEPT !.pc = send, !.at = next, !.buf = none]  BY <3>1
    <3> HIDE DEF next, none, send
    <3>5. /\ conn' \in ConnRecords /\ conn'.pc = send /\ conn'.hops = conn.hops
          /\ conn'.at = next /\ conn'.buf = none
      <4> DEFINE d == [conn EXCEPT !.pc = send, !.at = next, !.buf = none]
      <4>1. /\ d \in ConnRecords /\ d.pc = send /\ d.at = next /\ d.buf = none
            /\ d.hops = conn.hops
        BY <1>0, <3>3 DEF ConnRecords
      <4> HIDE DEF d
      <4>2. conn' = d  BY <3>4, Zenon DEF d
      <4> QED  BY <4>1, <4>2, Zenon
    <3> QED  BY <3>5 DEF next, none, send
  <2>2. AtHop'  BY <1>1, <1>3, <2>1 DEF AtHop, IsLast
  <2>3. spoken = 0 /\ Len(stream') = 0 /\ stream' = <<>>
    BY <1>0, <1>3, LenProperties, EmptySeq DEF ToTarget
  <2>4. ToHop'  BY <1>3, <2>1, <2>3, OneHopFurther DEF ToTarget, ToHop
  <2>5. TypeOK'
    BY <2>1, <2>2, ConnectAssumption, EmptySeq
       DEF ConnectInv, TypeOK, configVars, ConnRecords, AtHop
  <2>6. ClientInv'
    BY <2>1, <2>2, <2>3, <2>4
       DEF ClientInv, EarlyInv, SendInv, GreetInv, ReplyInv, BoundInv, Reply4Inv,
           HttpInv, DoneInv, Early, Sending
  <2> QED  BY <2>5, <2>6 DEF ConnectInv
<1> QED  BY <1>2, <1>3

\* What is left when one piece is read.
LEMMA ReceiveFacts ==
    ASSUME ConnectInv, NEW pc, Receive(pc)
    PROVE  /\ stream' \in Seq(Pieces) /\ Len(stream) \in Nat \ {0}
           /\ Len(stream') = Len(stream) - 1 /\ Len(stream') <= MaxAhead
           /\ \A k \in 1..Len(stream') : stream'[k] = stream[k + 1]
           /\ Piece = stream[1] /\ conn.pc = pc /\ conn \in ConnRecords
           /\ UNCHANGED <<configVars, path, ask, spoken>>
<1>1. stream \in Seq(Pieces) /\ stream # <<>> /\ stream' = Tail(stream)
      /\ Len(stream) <= MaxAhead
  BY DEF ConnectInv, TypeOK, Receive
<1>2. /\ Tail(stream) \in Seq(Pieces) /\ Len(stream) \in Nat \ {0}
      /\ Len(Tail(stream)) = Len(stream) - 1
      /\ \A k \in 1..Len(Tail(stream)) : Tail(stream)[k] = stream[k + 1]
  BY <1>1, HeadTailProperties, EmptySeq
<1>3. Head(stream) = stream[1]  BY <1>1
<1> QED
  BY <1>1, <1>2, <1>3, ConnectAssumption DEF Receive, Piece, ConnectInv, TypeOK, ConnRecords

\* A step within the exchange that only changes the client's position.
LEMMA OnwardStep ==
    ASSUME ConnectInv, NEW pc, Receive(pc), AtHop, Type[Hop] = "socks5",
           NEW next \in {"request", "auth", "bound"}, conn' = [conn EXCEPT !.pc = next],
           next \in {"request", "auth"} => ToHop /\ ask = NoAsk /\ Len(stream) = 1,
           next = "bound" => /\ ToTarget /\ ask = NoAsk /\ stream[2] = "bound"
                             /\ OnlyDataBehind(stream, 2),
           conn.buf = <<>>
    PROVE  ConnectInv'
<1>0. conn \in ConnRecords /\ UNCHANGED <<configVars, path, ask, spoken>>
  BY ReceiveFacts
<1>1. /\ conn' \in ConnRecords /\ conn'.pc = next /\ conn'.hops = conn.hops
      /\ conn'.at = conn.at /\ conn'.buf = <<>>
  BY <1>0 DEF ConnRecords, Steps, Waiting
<1>2. Hop' = Hop /\ IsLast' = IsLast /\ Target' = Target /\ AtHop'  BY <1>1, SameHop
<1>3. TypeOK'
  BY <1>0, <1>1, <1>2, ReceiveFacts, ConnectAssumption, EmptySeq
     DEF ConnectInv, TypeOK, configVars, ConnRecords, AtHop
<1>4. CASE next \in {"request", "auth"}
  <2>1. stream' = <<>> /\ ToHop'
    BY <1>0, <1>1, <1>4, ReceiveFacts, EmptySeq DEF ToHop
  <2> QED
    BY <1>0, <1>1, <1>2, <1>3, <1>4, <2>1
       DEF ConnectInv, ClientInv, EarlyInv, SendInv, GreetInv, ReplyInv, BoundInv, Reply4Inv,
           HttpInv, DoneInv, Early, Sending
<1>5. CASE next = "bound"
  <2>1. ToTarget'  BY <1>0, <1>1, <1>2, <1>5 DEF ToTarget
  <2>2. Len(stream) = 2 + spoken /\ spoken \in 0..1
    BY <1>5 DEF OnlyDataBehind, ConnectInv, TypeOK
  <2>3. stream'[1] = "bound"  BY <1>5, <2>2, ReceiveFacts
  <2>4. OnlyDataBehind(stream, 1)'
    <3>1. Len(stream') = 1 + spoken'  BY <1>0, <2>2, ReceiveFacts
    <3>2. ASSUME NEW k \in 1..Len(stream'), k > 1 PROVE stream'[k] = "data"
      <4>1. stream'[k] = stream[k + 1] /\ k + 1 \in 1..Len(stream) /\ k + 1 > 2
        BY <3>2, ReceiveFacts
      <4> QED  BY <1>5, <4>1 DEF OnlyDataBehind
    <3> QED  BY <3>1, <3>2 DEF OnlyDataBehind
  <2> QED
    BY <1>0, <1>1, <1>2, <1>3, <1>5, <2>1, <2>3, <2>4
       DEF ConnectInv, ClientInv, EarlyInv, SendInv, GreetInv, ReplyInv, BoundInv, Reply4Inv,
           HttpInv, DoneInv, Early, Sending
<1> QED  BY <1>4, <1>5

LEMMA SocksKeepsInv ==
    ASSUME ConnectInv, ReadMethod \/ ReadStatus \/ ReadReply \/ ReadBound \/ ReadReply4
    PROVE  ConnectInv'
<1>1. ASSUME NEW pc, NEW bad, Reject(pc, bad) PROVE ConnectInv'
  BY <1>1, FailStep DEF Reject
<1>2. CASE Receive("method") /\ conn' = [conn EXCEPT !.pc = "request"]
  BY <1>2, ReceiveFacts, OnwardStep
     DEF ConnectInv, ClientInv, GreetInv, Unanswered, Receive
<1>3. CASE Receive("method") /\ conn' = [conn EXCEPT !.pc = "auth"]
  BY <1>3, ReceiveFacts, OnwardStep
     DEF ConnectInv, ClientInv, GreetInv, Unanswered, Receive
<1>4. CASE Receive("status") /\ conn' = [conn EXCEPT !.pc = "request"]
  BY <1>4, ReceiveFacts, OnwardStep
     DEF ConnectInv, ClientInv, GreetInv, Unanswered, Receive
<1>5. CASE Receive("reply") /\ Piece = "ok" /\ conn' = [conn EXCEPT !.pc = "bound"]
  BY <1>5, ReceiveFacts, OnwardStep
     DEF ConnectInv, ClientInv, ReplyInv, Unanswered, Refused, Receive
<1>6. CASE ReadBound
  <2>1. /\ AtHop /\ ToTarget /\ ask = NoAsk /\ OnlyDataBehind(stream, 1) /\ Type[Hop] = "socks5"
        /\ conn.pc = "bound" /\ conn' = HopDone /\ Receive("bound")
    BY <1>6 DEF ReadBound, Receive, ConnectInv, ClientInv, BoundInv
  <2>2. spoken \in 0..1  BY DEF ConnectInv, TypeOK
  <2>3. Len(stream') = spoken /\ \A k \in 1..Len(stream') : stream'[k] = "data"
    BY <2>1, <2>2, ReceiveFacts DEF OnlyDataBehind
  <2> QED  BY <2>1, <2>2, <2>3, ReceiveFacts, HopDoneStep DEF Waiting
<1>7. CASE Receive("reply4") /\ Piece = "ok" /\ conn' = HopDone
  <2>1. /\ AtHop /\ ToTarget /\ ask = NoAsk /\ OnlyDataBehind(stream, 1) /\ Type[Hop] = "socks4"
        /\ conn.pc = "reply4"
    BY <1>7, ReceiveFacts
       DEF Receive, ConnectInv, ClientInv, Reply4Inv, Unanswered, Refused
  <2>2. spoken \in 0..1  BY DEF ConnectInv, TypeOK
  <2>3. Len(stream') = spoken /\ \A k \in 1..Len(stream') : stream'[k] = "data"
    BY <1>7, <2>1, <2>2, ReceiveFacts DEF OnlyDataBehind
  <2> QED  BY <1>7, <2>1, <2>2, <2>3, ReceiveFacts, HopDoneStep DEF Waiting
<1> QED
  BY <1>1, <1>2, <1>3, <1>4, <1>5, <1>6, <1>7 DEF ReadMethod, ReadStatus, ReadReply, ReadReply4

\* How one recv moves pieces of the response from the stream to the buffer.
LEMMA RecvMovesPieces ==
    ASSUME NEW b \in Seq(Pieces), NEW st \in Seq(Pieces), NEW n \in 1..Len(st)
    PROVE  LET b2 == b \o SubSeq(st, 1, n)
               st2 == SubSeq(st, n + 1, Len(st))
               w == b \o st
           IN /\ b2 \in Seq(Pieces) /\ st2 \in Seq(Pieces) /\ w \in Seq(Pieces)
              /\ Len(b2) = Len(b) + n /\ Len(st2) = Len(st) - n
              /\ Len(w) = Len(b) + Len(st)
              /\ \A k \in 1..(Len(b) + n) : b2[k] = w[k]
              /\ \A k \in 1..(Len(st) - n) : st2[k] = w[Len(b) + n + k]
              /\ b2 \o st2 = w
<1> DEFINE m == Len(st)
           a == SubSeq(st, 1, n)
           b2 == b \o a
           st2 == SubSeq(st, n + 1, m)
           w == b \o st
<1>0. m \in Nat /\ n \in 1..m /\ n \in Nat /\ Len(b) \in Nat  BY LenProperties
<1>1. a \in Seq(Pieces) /\ Len(a) = n /\ \A k \in 1..n : a[k] = st[k]
  <2>1. \A i \in 1..n : st[i] \in Pieces  BY <1>0, ElementOfSeq
  <2> QED  BY <1>0, <2>1, SubSeqProperties
<1>2. st2 \in Seq(Pieces) /\ Len(st2) = m - n /\ \A k \in 1..(m - n) : st2[k] = st[n + k]
  <2>1. \A i \in (n + 1)..m : st[i] \in Pieces  BY <1>0, ElementOfSeq
  <2>2. /\ st2 \in Seq(Pieces) /\ Len(st2) = IF n + 1 <= m THEN m - (n + 1) + 1 ELSE 0
        /\ \A i \in 1..(m - (n + 1) + 1) : st2[i] = st[(n + 1) + i - 1]
    <3>1. n + 1 \in Int /\ m \in Int  BY <1>0
    <3>2. \A p, q \in Int : (\A i \in p..q : st[i] \in Pieces) =>
             /\ SubSeq(st, p, q) \in Seq(Pieces)
             /\ Len(SubSeq(st, p, q)) = IF p <= q THEN q - p + 1 ELSE 0
             /\ \A i \in 1..(q - p + 1) : SubSeq(st, p, q)[i] = st[p + i - 1]
      BY SubSeqProperties, SMTT(30)
    <3> QED  BY <2>1, <3>1, <3>2, Zenon
  <2> HIDE DEF st2
  <2> QED  BY <1>0, <2>2
<1> HIDE DEF a, st2
<1>4. /\ b2 \in Seq(Pieces) /\ Len(b2) = Len(b) + n
      /\ \A k \in 1..(Len(b) + n) : b2[k] = IF k <= Len(b) THEN b[k] ELSE a[k - Len(b)]
  BY <1>1, ConcatProperties
<1>5. /\ w \in Seq(Pieces) /\ Len(w) = Len(b) + m
      /\ \A k \in 1..(Len(b) + m) : w[k] = IF k <= Len(b) THEN b[k] ELSE st[k - Len(b)]
  BY ConcatProperties
<1>6. b2 \o st2 = w
  <2> DEFINE v == b2 \o st2
  <2>1. /\ v \in Seq(Pieces) /\ Len(v) = Len(b2) + Len(st2)
        /\ \A k \in 1..(Len(b2) + Len(st2)) :
              v[k] = IF k <= Len(b2) THEN b2[k] ELSE st2[k - Len(b2)]
    BY ZenonT(30), <1>2, <1>4, ConcatProperties
  <2> HIDE DEF v, w, b2
  <2>2. Len(v) = Len(w)  BY <1>0, <1>2, <1>4, <1>5, <2>1
  <2>3. ASSUME NEW k \in 1..Len(v) PROVE v[k] = w[k]
    <3>1. CASE k <= Len(b)
      <4>1. v[k] = b2[k]  BY <1>0, <1>2, <1>4, <2>1, <2>3, <3>1, SMTT(30)
      <4>2. k \in 1..(Len(b) + n) /\ k \in 1..(Len(b) + m)  BY <1>0, <3>1
      <4>3. b2[k] = b[k] /\ w[k] = b[k]  BY <1>4, <1>5, <3>1, <4>2
      <4> QED  BY <4>1, <4>3
    <3>2. CASE k > Len(b) /\ k <= Len(b) + n
      <4>1. /\ v[k] = b2[k] /\ b2[k] = a[k - Len(b)] /\ w[k] = st[k - Len(b)]
            /\ k - Len(b) \in 1..n
        BY <1>0, <1>2, <1>4, <1>5, <2>1, <2>3, <3>2, SMTT(30)
      <4> QED  BY <1>1, <4>1
    <3>3. CASE k > Len(b) + n
      <4>1. /\ v[k] = st2[k - (Len(b) + n)] /\ w[k] = st[k - Len(b)]
            /\ k - (Len(b) + n) \in 1..(m - n) /\ n + (k - (Len(b) + n)) = k - Len(b)
        BY <1>0, <1>2, <1>4, <1>5, <2>1, <2>3, <3>3, SMTT(30)
      <4> QED  BY <1>2, <4>1
    <3> QED  BY <1>0, <1>2, <1>4, <2>1, <3>1, <3>2, <3>3, SMTT(30)
  <2>4. v = w  BY <1>5, <2>1, <2>2, <2>3, SeqEqual
  <2> QED  BY <2>4 DEF v
<1>7. \A k \in 1..(Len(b) + n) : b2[k] = w[k]
  BY <1>0, <1>1, <1>4, <1>5
<1>8. \A k \in 1..(m - n) : st2[k] = w[Len(b) + n + k]
  <2> SUFFICES ASSUME NEW k \in 1..(m - n) PROVE st2[k] = w[Len(b) + n + k]  OBVIOUS
  <2>1. Len(b) + n + k \in 1..(Len(b) + m) /\ Len(b) + n + k > Len(b)
        /\ Len(b) + n + k - Len(b) = n + k
    BY <1>0
  <2>2. w[Len(b) + n + k] = st[n + k]  BY <1>5, <2>1
  <2> QED  BY <1>2, <2>2
<1> HIDE DEF b2, w
<1>9. /\ b2 \in Seq(Pieces) /\ st2 \in Seq(Pieces) /\ w \in Seq(Pieces)
      /\ Len(b2) = Len(b) + n /\ Len(st2) = Len(st) - n
      /\ Len(w) = Len(b) + Len(st)
      /\ \A k \in 1..(Len(b) + n) : b2[k] = w[k]
      /\ \A k \in 1..(Len(st) - n) : st2[k] = w[Len(b) + n + k]
      /\ b2 \o st2 = w
  BY <1>2, <1>4, <1>5, <1>6, <1>7, <1>8
<1> QED  BY <1>9 DEF a, b2, st2, w

\* The response is read piece by piece; what is read beyond its end is data.
LEMMA HttpKeepsInv ==
    ASSUME ConnectInv, NEW n \in 1..MaxAhead, ReadHttp(n)
    PROVE  ConnectInv'
<1>0. /\ conn \in ConnRecords /\ conn.buf \in Seq(Pieces) /\ stream \in Seq(Pieces)
      /\ Len(conn.buf) \in Nat /\ Len(stream) \in Nat /\ Len(stream) <= MaxAhead
      /\ spoken \in 0..1 /\ MaxAhead \in Nat
  BY ConnectAssumption, LenProperties DEF ConnectInv, TypeOK, ConnRecords
<1> DEFINE b2 == conn.buf \o SubSeq(stream, 1, n)
           st2 == SubSeq(stream, n + 1, Len(stream))
           L == Len(conn.buf)
<1>1. CASE Fail  BY <1>1, FailStep DEF ReadHttp, HttpRecv
<1>2. CASE ~Fail
  <2>1. /\ HttpRecv(n)
        /\ \/ /\ "end" \notin Range(b2) /\ Len(b2) < BufSize
              /\ conn' = [conn EXCEPT !.buf = b2]
           \/ /\ "end" \in Range(b2) /\ Head(b2) = "ok"
              /\ conn' = HopDone
    BY <1>2 DEF ReadHttp
  <2>2. /\ conn.pc = "http" /\ n <= Len(stream) /\ stream' = st2
        /\ UNCHANGED <<configVars, path, ask, spoken>>
    BY <2>1 DEF HttpRecv
  <2>3. /\ b2 \in Seq(Pieces) /\ st2 \in Seq(Pieces) /\ Response \in Seq(Pieces)
        /\ Len(b2) = L + n /\ Len(st2) = Len(stream) - n /\ Len(Response) = L + Len(stream)
        /\ \A k \in 1..(L + n) : b2[k] = Response[k]
        /\ \A k \in 1..(Len(stream) - n) : st2[k] = Response[L + n + k]
        /\ b2 \o st2 = Response
    <3>1. n \in 1..Len(stream)  BY <1>0, <2>2
    <3> QED  BY ZenonT(60), <1>0, <3>1, RecvMovesPieces DEF Response
  <2>4. /\ AtHop /\ Type[Hop] = "http"
        /\ HeadersComing \/ ResponseComplete \/ Refused(Response)
    <3>1. stream # <<>>  BY <1>0, <2>2, EmptySeq
    <3> QED  BY <2>2, <3>1 DEF ConnectInv, ClientInv, HttpInv, Unanswered
  <2> HIDE DEF b2, st2
  <2>5. DOMAIN b2 = 1..(L + n)  BY <2>3, LenProperties
  <2>6. Len(stream') <= MaxAhead  BY <1>0, <2>2, <2>3
  <2>7. CASE "end" \notin Range(b2) /\ Len(b2) < BufSize /\ conn' = [conn EXCEPT !.buf = b2]
    <3>1. /\ conn' \in ConnRecords /\ conn'.pc = "http" /\ conn'.hops = conn.hops
          /\ conn'.at = conn.at /\ conn'.buf = b2
      BY <1>0, <2>2, <2>3, <2>7 DEF ConnRecords
    <3>2. Hop' = Hop /\ IsLast' = IsLast /\ Target' = Target /\ AtHop'  BY <2>4, <3>1, SameHop
    <3>3. Response' = Response  BY <2>2, <2>3, <3>1 DEF Response
    <3>4. ToTarget' = ToTarget  BY <2>2, <3>1, <3>2 DEF ToTarget
    <3>5. TypeOK'
      BY ZenonT(30), <2>2, <2>3, <2>6, <2>7, <3>1, <3>2
         DEF ConnectInv, TypeOK, configVars, ConnRecords, AtHop
    <3>6. CASE HeadersComing
      <4>1. HeadersComing'  BY <2>2, <3>3, <3>4, <3>6 DEF HeadersComing
      <4>2. HttpInv'  BY <2>4, <3>2, <4>1 DEF HttpInv
      <4> QED
        BY <3>1, <3>5, <4>2
           DEF ConnectInv, ClientInv, EarlyInv, SendInv, GreetInv, ReplyInv, BoundInv, Reply4Inv,
               DoneInv, Early, Sending
    <3>7. CASE ResponseComplete
      <4>1. PICK e \in 1..Len(Response) :
                    /\ L < e /\ Response[e] = "end" /\ OnlyDataBehind(Response, e)
                    /\ \A k \in 1..(e - 1) : Response[k] # "end"
        BY <3>7 DEF ResponseComplete
      <4>2. Len(b2) < e
        <5>1. ASSUME e <= L + n PROVE FALSE
          <6>1. e \in DOMAIN b2 /\ b2[e] = "end"  BY <1>0, <2>3, <2>5, <4>1, <5>1, SMTT(30)
          <6> QED  BY <2>7, <6>1 DEF Range
        <5> QED  BY <1>0, <2>3, <5>1
      <4>3. OnlyDataBehind(Response, e)'
        BY <2>2, <3>3, <4>1 DEF OnlyDataBehind
      <4>4. ResponseComplete'
        <5>1. ask' = NoAsk /\ ToTarget' /\ Response' # <<>> /\ Response'[1] = "ok"
          BY <2>2, <3>3, <3>4, <3>7 DEF ResponseComplete
        <5>2. /\ e \in 1..Len(Response') /\ Len(conn'.buf) < e /\ Response'[e] = "end"
              /\ \A k \in 1..(e - 1) : Response'[k] # "end"
          BY <3>1, <3>3, <4>1, <4>2
        <5>3. Len(Response') = e + spoken' /\ \A k \in 1..Len(Response') : k > e => Response'[k] = "data"
          BY <4>3 DEF OnlyDataBehind
        <5> QED  BY <5>1, <5>2, <5>3 DEF ResponseComplete, OnlyDataBehind
      <4>5. HttpInv'  BY <2>4, <3>2, <4>4 DEF HttpInv
      <4> QED
        BY <3>1, <3>5, <4>5
           DEF ConnectInv, ClientInv, EarlyInv, SendInv, GreetInv, ReplyInv, BoundInv, Reply4Inv,
               DoneInv, Early, Sending
    <3>8. CASE Refused(Response)
      <4>1. Refused(Response)'  BY <2>2, <3>3, <3>8 DEF Refused
      <4>2. HttpInv'  BY <2>4, <3>2, <4>1 DEF HttpInv
      <4> QED
        BY <3>1, <3>5, <4>2
           DEF ConnectInv, ClientInv, EarlyInv, SendInv, GreetInv, ReplyInv, BoundInv, Reply4Inv,
               DoneInv, Early, Sending
    <3> QED  BY <2>4, <3>6, <3>7, <3>8
  <2>8. CASE "end" \in Range(b2) /\ Head(b2) = "ok" /\ conn' = HopDone
    <3>1. PICK j \in 1..(L + n) : b2[j] = "end"  BY <2>5, <2>8 DEF Range
    <3>2. Response[j] = "end" /\ j \in 1..Len(Response)  BY <1>0, <2>2, <2>3, <3>1, SMTT(30)
    <3>3. Response[1] = "ok"
      <4>1. b2 # <<>> /\ Head(b2) = b2[1]  BY <1>0, <2>3, EmptySeq
      <4>2. b2[1] = Response[1]  BY <1>0, <2>3
      <4> QED  BY <2>8, <4>1, <4>2
    <3>4. ResponseComplete  BY <2>4, <3>2, <3>3 DEF HeadersComing, Refused
    <3>5. PICK e \in 1..Len(Response) :
                  /\ L < e /\ Response[e] = "end" /\ OnlyDataBehind(Response, e)
                  /\ \A k \in 1..(e - 1) : Response[k] # "end"
      BY <3>4 DEF ResponseComplete
    <3>6. e <= L + n
      <4>1. ~(j < e)
        <5>1. j < e => j \in 1..(e - 1)  BY <1>0, <2>3, <3>2, <3>5
        <5> QED  BY <3>2, <3>5, <5>1
      <4> QED  BY <1>0, <2>3, <3>1, <3>5, <4>1
    <3>7. Len(Response) = e + spoken  BY <3>5 DEF OnlyDataBehind
    <3>8. Len(stream') <= spoken  BY <1>0, <2>2, <2>3, <3>6, <3>7, SMTT(30)
    <3>9. ASSUME NEW k \in 1..Len(stream') PROVE stream'[k] = "data"
      <4>1. stream'[k] = Response[L + n + k]  BY <2>2, <2>3
      <4>2. L + n + k \in 1..Len(Response) /\ L + n + k > e  BY <1>0, <2>2, <2>3, <3>6, SMTT(30)
      <4> QED  BY <3>5, <4>1, <4>2 DEF OnlyDataBehind
    <3>10. ToTarget /\ ask = NoAsk  BY <3>4 DEF ResponseComplete
    <3> QED
      BY <2>2, <2>3, <2>4, <2>6, <2>8, <3>8, <3>9, <3>10, HopDoneStep DEF Waiting
  <2> QED  BY <2>1, <2>7, <2>8 DEF b2
<1> QED  BY <1>1, <1>2

-----------------------------------------------------------------------------
(* The other ends. *)

\* A request that is waiting tells where the client is.
LEMMA WhoAsked ==
    ASSUME ConnectInv
    PROVE  /\ ask.kind = "greeting" => conn.pc = "method" /\ stream = <<>> /\ ToHop
           /\ ask.kind = "auth" => conn.pc = "status" /\ stream = <<>> /\ ToHop
           /\ ask.kind = "connect" => /\ conn.pc \in {"reply", "reply4", "http"}
                                      /\ stream = <<>> /\ ToHop /\ ask.target = Target
                                      /\ conn.pc = "http" => conn.buf = <<>>
           /\ ask.kind = "headers" => conn.pc = "http" /\ HeadersComing
           /\ ask.kind # "none" => AtHop
<1>1. conn.pc \in Steps  BY DEF ConnectInv, TypeOK
<1>2. NoAsk.kind = "none"  BY DEF NoAsk
<1>3. ask.kind # "none" => conn.pc \in Waiting \ {"bound"}
  BY <1>1, <1>2
     DEF ConnectInv, ClientInv, EarlyInv, SendInv, BoundInv, DoneInv, Early, Sending, Steps
<1> QED
  BY <1>2, <1>3
     DEF ConnectInv, ClientInv, GreetInv, ReplyInv, Reply4Inv, HttpInv, Waiting, Unanswered,
         Refused, HeadersComing, ResponseComplete

\* The end of the tunnel.
LEMMA WhereItEnds ==
    ASSUME ConnectInv, AtHop
    PROVE  /\ ToHop => path # <<>> /\ Endpoint = Hop /\ Hop \in Proxies
           /\ ToTarget => path # <<>> /\ Endpoint = Target
<1> DEFINE s == SubSeq(conn.hops, 1, conn.at)
<1>1. /\ conn.at \in 1..Len(conn.hops) /\ Len(conn.hops) \in Nat /\ conn.at \in Nat \ {0}
      /\ conn.hops \in Seq(Proxies) /\ Hop \in Proxies /\ Target \in Hosts
  BY HopIsTyped
<1>2. /\ s \in Seq(Proxies) /\ Len(s) = conn.at /\ s[conn.at] = conn.hops[conn.at]
  <2>1. \A i \in 1..conn.at : conn.hops[i] \in Proxies  BY <1>1, ElementOfSeq
  <2> QED  BY <1>1, <2>1, SubSeqProperties
<1>3. s \in Seq(Hosts)  BY <1>2, SeqMonotonic DEF Hosts
<1> HIDE DEF s
<1>4. s # <<>>  BY <1>1, <1>2, EmptySeq
<1>5. Last(s) = Hop  BY <1>1, <1>2 DEF Last, Hop
<1> DEFINE t == Append(s, Target)
<1>6. t # <<>> /\ Len(t) = Len(s) + 1 /\ t[Len(s) + 1] = Target
  BY <1>1, <1>2, <1>3
<1> HIDE DEF t
<1>7. Last(t) = Target  BY <1>2, <1>6 DEF Last
<1> QED  BY <1>1, <1>4, <1>5, <1>6, <1>7 DEF ToHop, ToTarget, Endpoint, s, t

\* A reply to a greeting or to credentials.
LEMMA GreetKeepsInv ==
    ASSUME ConnectInv, PeerGreets \/ PeerAuthenticates
    PROVE  ConnectInv'
<1>1. PICK m \in Pieces : Answer(<<m>>, <<>>)
  BY DEF PeerGreets, PeerAuthenticates, Pieces
<1>2. ask' = NoAsk /\ ask.kind \in {"greeting", "auth"}
  BY DEF PeerGreets, PeerAuthenticates
<1>3. conn.pc \in {"method", "status"} /\ stream = <<>> /\ ToHop /\ AtHop
  BY <1>2, WhoAsked
<1>4. /\ conn' = conn /\ UNCHANGED configVars /\ spoken' = spoken
      /\ stream' = stream \o <<m>> /\ path' = path \o <<>> /\ Len(stream) + Len(<<m>>) <= MaxAhead
  BY <1>1 DEF Answer
<1>5. stream' = <<m>> /\ path' = path /\ Len(stream') = 1 /\ stream' \in Seq(Pieces)
      /\ Len(stream') <= MaxAhead
  <2>1. path \in Seq(Hosts) /\ <<m>> \in Seq(Pieces)  BY DEF ConnectInv, TypeOK, Hosts
  <2>2. path \o <<>> = path  BY <2>1, ConcatEmptySeq
  <2>3. <<>> \o <<m>> = <<m>>  BY <2>1, ConcatEmptySeq
  <2>4. Len(<<>>) = 0 /\ Len(<<m>>) = 1  OBVIOUS
  <2> QED  BY <1>3, <1>4, <2>1, <2>2, <2>3, <2>4
<1>6. TypeOK'
  BY <1>2, <1>4, <1>5, IdleIsTyped DEF ConnectInv, TypeOK, configVars, Hosts
<1>7. Hop' = Hop /\ AtHop'  BY <1>3, <1>4 DEF Hop, AtHop
<1>8. ToHop'  BY <1>3, <1>4, <1>5 DEF ToHop
<1>9. ClientInv'
  BY <1>2, <1>3, <1>4, <1>5, <1>7, <1>8
     DEF ConnectInv, ClientInv, EarlyInv, SendInv, GreetInv, ReplyInv, BoundInv, Reply4Inv,
         HttpInv, DoneInv, Early, Sending
<1> QED  BY <1>6, <1>9 DEF ConnectInv

\* Concatenating short sequences.
LEMMA ShortSeqs ==
    ASSUME NEW x \in Pieces, NEW y \in Pieces
    PROVE  /\ <<x>> \in Seq(Pieces) /\ Len(<<x>>) = 1 /\ <<x>>[1] = x
           /\ <<x, y>> \in Seq(Pieces) /\ Len(<<x, y>>) = 2
           /\ <<x, y>>[1] = x /\ <<x, y>>[2] = y
           /\ <<>> \o <<x>> = <<x>> /\ <<>> \o <<x, y>> = <<x, y>>
<1>1. <<x>> \in Seq(Pieces) /\ <<x, y>> \in Seq(Pieces)  OBVIOUS
<1>2. <<>> \o <<x>> = <<x>> /\ <<>> \o <<x, y>> = <<x, y>>  BY <1>1, ConcatEmptySeq
<1> QED  BY <1>1, <1>2

\* The hop answers the request to connect.
LEMMA ConnectAnswered ==
    ASSUME ConnectInv, PeerConnects
    PROVE  ConnectInv'
<1>0. /\ ask.kind = "connect" /\ conn.pc \in {"reply", "reply4", "http"} /\ stream = <<>>
      /\ ToHop /\ AtHop /\ ask.target = Target /\ conn.buf = <<>>
  BY WhoAsked DEF PeerConnects, ConnectInv, ClientInv
<1>1. Endpoint = Hop /\ Hop \in Proxies  BY <1>0, WhereItEnds
<1>2. PICK yes \in BOOLEAN :
          LET to == IF yes THEN <<ask.target>> ELSE <<>>
              code == IF yes THEN "ok" ELSE "fail"
          IN \/ Type[Endpoint] = "socks5" /\ Answer(<<code, "bound">>, to)
             \/ Type[Endpoint] = "socks5" /\ yes /\ Answer(<<"oddtype", "bound">>, to)
             \/ Type[Endpoint] \in {"socks4", "http"} /\ Answer(<<code>>, to)
  BY DEF PeerConnects
<1> DEFINE to == IF yes THEN <<Target>> ELSE <<>>
<1>3. PICK x \in {"ok", "fail", "oddtype"} :
          /\ x = "ok" => yes
          /\ \/ Type[Hop] = "socks5" /\ Answer(<<x, "bound">>, to)
             \/ Type[Hop] \in {"socks4", "http"} /\ Answer(<<x>>, to)
  BY <1>0, <1>1, <1>2
<1>4. conn' = conn /\ UNCHANGED configVars /\ spoken' = spoken /\ path' = path \o to
  BY <1>3 DEF Answer
<1>5. Target \in Hosts /\ path \in Seq(Hosts)
  BY <1>0, HopIsTyped DEF ConnectInv, TypeOK, Hosts
<1>6. /\ path' \in Seq(Hosts)
      /\ yes => path' = Append(path, Target)
      /\ ~yes => path' = path
  <2>1. CASE yes
    <3>1. path \o <<Target>> = Append(path, Target) /\ Append(path, Target) \in Seq(Hosts)
      BY <1>5
    <3> QED  BY <1>4, <2>1, <3>1
  <2>2. CASE ~yes
    <3>1. path \o <<>> = path  BY <1>5, ConcatEmptySeq
    <3> QED  BY <1>4, <1>5, <2>2, <3>1
  <2> QED  BY <2>1, <2>2
<1>7. Hop' = Hop /\ AtHop' /\ IsLast' = IsLast /\ Target' = Target
  BY <1>0, <1>4, SameHop
<1>8. x = "ok" => ToTarget' /\ spoken' = 0
  BY <1>0, <1>3, <1>4, <1>6, <1>7 DEF ToHop, ToTarget
<1>9. spoken = 0 /\ x \in Pieces /\ "bound" \in Pieces  BY <1>0 DEF ToHop, Pieces
<1>10. CASE Type[Hop] = "socks5" /\ Answer(<<x, "bound">>, to)
  <2>1. stream' = <<x, "bound">> /\ Len(stream') <= MaxAhead
    BY <1>0, <1>9, <1>10, ShortSeqs DEF Answer
  <2>2. /\ stream' \in Seq(Pieces) /\ Len(stream') = 2 /\ stream'[1] = x /\ stream'[2] = "bound"
    BY <1>9, <2>1, ShortSeqs
  <2>3. ask' = NoAsk  BY <1>1, <1>10 DEF PeerConnects
  <2>4. conn.pc = "reply"
    BY <1>0, <1>10 DEF ConnectInv, ClientInv, Reply4Inv, HttpInv
  <2>5. TypeOK'
    BY <1>4, <1>6, <2>1, <2>2, <2>3, IdleIsTyped DEF ConnectInv, TypeOK, configVars, Hosts
  <2>6. OnlyDataBehind(stream, 2)' \/ x # "ok"
    BY <1>8, <2>2 DEF OnlyDataBehind
  <2>7. ReplyInv'
    BY <1>7, <1>8, <1>10, <2>2, <2>3, <2>6 DEF ReplyInv, Refused
  <2> QED
    BY <1>4, <2>4, <2>5, <2>7
       DEF ConnectInv, ClientInv, EarlyInv, SendInv, GreetInv, BoundInv, Reply4Inv,
           HttpInv, DoneInv, Early, Sending
<1>11. CASE Type[Hop] \in {"socks4", "http"} /\ Answer(<<x>>, to)
  <2>1. stream' = <<x>> /\ Len(stream') <= MaxAhead
    BY <1>0, <1>9, <1>11, ShortSeqs DEF Answer
  <2>2. /\ stream' \in Seq(Pieces) /\ Len(stream') = 1 /\ stream'[1] = x
    BY <1>9, <2>1, ShortSeqs
  <2>3. CASE Type[Hop] = "socks4"
    <3>1. ask' = NoAsk  BY <1>1, <2>3 DEF PeerConnects
    <3>2. conn.pc = "reply4"
      BY <1>0, <2>3 DEF ConnectInv, ClientInv, ReplyInv, HttpInv
    <3>3. TypeOK'
      BY <1>4, <1>6, <2>1, <2>2, <3>1, IdleIsTyped DEF ConnectInv, TypeOK, configVars, Hosts
    <3>4. OnlyDataBehind(stream, 1)' \/ x # "ok"
      BY <1>8, <2>2 DEF OnlyDataBehind
    <3>5. Reply4Inv'
      BY <1>7, <1>8, <2>2, <2>3, <3>1, <3>4 DEF Reply4Inv, Refused
    <3> QED
      BY <1>4, <3>2, <3>3, <3>5
         DEF ConnectInv, ClientInv, EarlyInv, SendInv, GreetInv, ReplyInv, BoundInv,
             HttpInv, DoneInv, Early, Sending
  <2>4. CASE Type[Hop] = "http"
    <3>1. ask' = [ask EXCEPT !.kind = "headers"]  BY <1>1, <2>4 DEF PeerConnects
    <3>2. ask'.kind = "headers"
          /\ ask' \in [kind : {"none", "greeting", "auth", "connect", "headers"}, target : Hosts]
      BY <3>1 DEF ConnectInv, TypeOK, Hosts
    <3>3. conn.pc = "http"
      BY <1>0, <2>4 DEF ConnectInv, ClientInv, ReplyInv, Reply4Inv
    <3>4. TypeOK'
      BY <1>4, <1>6, <2>1, <2>2, <3>2 DEF ConnectInv, TypeOK, configVars, Hosts
    <3>5. Response' = <<x>>
      BY ZenonT(30), <1>0, <1>4, <1>9, <2>1, ShortSeqs DEF Response
    <3>6. Len(Response') = 1 /\ Response'[1] = x /\ x # "end"
      BY <1>9, <3>5, ShortSeqs
    <3>7. HeadersComing'
      BY <1>8, <3>2, <3>6 DEF HeadersComing
    <3>8. HttpInv'  BY <1>7, <2>4, <3>7 DEF HttpInv
    <3> QED
      BY <1>4, <3>3, <3>4, <3>8
         DEF ConnectInv, ClientInv, EarlyInv, SendInv, GreetInv, ReplyInv, BoundInv, Reply4Inv,
             DoneInv, Early, Sending
  <2> QED  BY <1>11, <2>3, <2>4
<1> QED  BY <1>3, <1>10, <1>11

\* One more piece in the stream is one more piece in the response.
LEMMA OnePieceMore ==
    ASSUME NEW b \in Seq(Pieces), NEW st \in Seq(Pieces), NEW x \in Pieces,
           NEW t, t = Append(st, x), NEW w, w = b \o st, NEW v, v = b \o t
    PROVE  /\ t \in Seq(Pieces) /\ Len(t) = Len(st) + 1 /\ t[Len(st) + 1] = x
           /\ \A k \in 1..Len(st) : t[k] = st[k]
           /\ w \in Seq(Pieces) /\ Len(w) = Len(b) + Len(st)
           /\ v \in Seq(Pieces) /\ Len(v) = Len(w) + 1
           /\ v[Len(w) + 1] = x
           /\ \A k \in 1..Len(w) : v[k] = w[k]
           /\ st \o <<x>> = t
<1>0. Len(b) \in Nat /\ Len(st) \in Nat  BY LenProperties
<1>1. /\ t \in Seq(Pieces) /\ Len(t) = Len(st) + 1 /\ t[Len(st) + 1] = x
      /\ \A k \in 1..Len(st) : t[k] = st[k]
      /\ st \o <<x>> = t
  BY <1>0
<1>2. /\ w \in Seq(Pieces) /\ Len(w) = Len(b) + Len(st)
      /\ \A k \in 1..(Len(b) + Len(st)) : w[k] = IF k <= Len(b) THEN b[k] ELSE st[k - Len(b)]
  BY ConcatProperties
<1>3. /\ v \in Seq(Pieces) /\ Len(v) = Len(b) + Len(t)
      /\ \A k \in 1..(Len(b) + Len(t)) : v[k] = IF k <= Len(b) THEN b[k] ELSE t[k - Len(b)]
  BY ZenonT(30), <1>1, ConcatProperties
<1>4. v[Len(w) + 1] = x
  <2>1. /\ Len(w) + 1 \in 1..(Len(b) + Len(t)) /\ ~(Len(w) + 1 <= Len(b))
        /\ Len(w) + 1 - Len(b) = Len(st) + 1
    BY <1>0, <1>1, <1>2
  <2> QED  BY <1>1, <1>3, <2>1
<1>5. ASSUME NEW k \in 1..Len(w) PROVE v[k] = w[k]
  <2>1. k \in 1..(Len(b) + Len(t)) /\ k \in 1..(Len(b) + Len(st))  BY <1>0, <1>1, <1>2
  <2>2. CASE k <= Len(b)  BY <1>2, <1>3, <2>1, <2>2
  <2>3. CASE ~(k <= Len(b))
    <3>1. k - Len(b) \in 1..Len(st)  BY <1>0, <2>1, <2>3
    <3> QED  BY <1>1, <1>2, <1>3, <2>1, <2>3, <3>1
  <2> QED  BY <2>2, <2>3
<1>6. Len(v) = Len(w) + 1  BY <1>0, <1>1, <1>2, <1>3
<1> QED  BY <1>1, <1>2, <1>3, <1>4, <1>5, <1>6

\* What is true of a response when a piece is added at its end.
LEMMA ResponseGrows ==
    ASSUME ConnectInv, NEW x \in Pieces, stream' = Append(stream, x), conn' = conn
    PROVE  /\ Len(stream) \in Nat /\ Len(Response) \in Nat /\ Len(conn.buf) \in Nat
           /\ stream' \in Seq(Pieces) /\ Len(stream') = Len(stream) + 1
           /\ stream'[Len(stream) + 1] = x
           /\ \A k \in 1..Len(stream) : stream'[k] = stream[k]
           /\ Len(Response) = Len(conn.buf) + Len(stream)
           /\ Len(Response') = Len(Response) + 1 /\ Response'[Len(Response) + 1] = x
           /\ \A k \in 1..Len(Response) : Response'[k] = Response[k]
           /\ Response' # <<>>
<1>1. conn.buf \in Seq(Pieces) /\ stream \in Seq(Pieces)  BY DEF ConnectInv, TypeOK
<1>2. Response' = conn.buf \o Append(stream, x)  BY DEF Response
<1>3. Len(stream) \in Nat /\ Len(conn.buf) \in Nat  BY <1>1, LenProperties
<1>4. /\ Append(stream, x) \in Seq(Pieces) /\ Len(Append(stream, x)) = Len(stream) + 1
      /\ Append(stream, x)[Len(stream) + 1] = x
      /\ \A k \in 1..Len(stream) : Append(stream, x)[k] = stream[k]
      /\ Len(Response) = Len(conn.buf) + Len(stream)
      /\ Response' \in Seq(Pieces)
      /\ Len(Response') = Len(Response) + 1 /\ Response'[Len(Response) + 1] = x
      /\ \A k \in 1..Len(Response) : Response'[k] = Response[k]
  <2> DEFINE b == conn.buf
             t == Append(stream, x)
             w == b \o stream
             v == b \o t
  <2>0. t = Append(stream, x) /\ w = b \o stream /\ v = b \o t  OBVIOUS
  <2>2. Response = w /\ Response' = v  BY <1>2 DEF Response
  <2>3. b \in Seq(Pieces) /\ stream \in Seq(Pieces)  BY <1>1
  <2> HIDE DEF b, t, v, w
  <2>1. /\ t \in Seq(Pieces) /\ Len(t) = Len(stream) + 1 /\ t[Len(stream) + 1] = x
        /\ \A k \in 1..Len(stream) : t[k] = stream[k]
        /\ Len(w) = Len(b) + Len(stream)
        /\ v \in Seq(Pieces) /\ Len(v) = Len(w) + 1 /\ v[Len(w) + 1] = x
        /\ \A k \in 1..Len(w) : v[k] = w[k]
    BY <2>0, <2>3, OnePieceMore
  <2> QED  BY <2>1, <2>2 DEF b, t
<1>5. Response' # <<>>
  <2>1. Len(Response') > 0 /\ Len(<<>>) = 0  BY <1>3, <1>4
  <2> QED  BY <2>1
<1> QED  BY <1>3, <1>4, <1>5

\* An HTTP proxy goes on with its response.
LEMMA HeadersKeepInv ==
    ASSUME ConnectInv, PeerHeaders
    PROVE  ConnectInv'
<1>0. ask.kind = "headers" /\ conn.pc = "http" /\ HeadersComing /\ AtHop
  BY WhoAsked DEF PeerHeaders
<1>1. PICK x \in {"header", "end"} :
          /\ Answer(<<x>>, <<>>)
          /\ x = "header" => ask' = ask
          /\ x = "end" => ask' = NoAsk
  BY DEF PeerHeaders
<1>2. /\ x \in Pieces /\ conn' = conn /\ UNCHANGED configVars /\ spoken' = spoken
      /\ stream' = stream \o <<x>> /\ path' = path \o <<>>
      /\ Len(stream) + Len(<<x>>) <= MaxAhead
  BY <1>1 DEF Answer, Pieces
<1>3. path' = path
  <2>1. path \in Seq(Hosts)  BY DEF ConnectInv, TypeOK, Hosts
  <2> QED  BY <1>2, <2>1, ConcatEmptySeq
<1>4. stream' = Append(stream, x)
  BY <1>2, OnePieceMore DEF ConnectInv, TypeOK
<1>5. /\ Len(stream) \in Nat /\ Len(Response) \in Nat /\ Len(conn.buf) \in Nat
      /\ stream' \in Seq(Pieces) /\ Len(stream') = Len(stream) + 1
      /\ Len(Response) = Len(conn.buf) + Len(stream)
      /\ Len(Response') = Len(Response) + 1 /\ Response'[Len(Response) + 1] = x
      /\ \A k \in 1..Len(Response) : Response'[k] = Response[k]
      /\ Response' # <<>>
  BY <1>2, <1>4, ResponseGrows
<1>6. Len(stream') <= MaxAhead  BY <1>2, <1>5, ShortSeqs
<1>7. TypeOK'
  BY <1>1, <1>2, <1>3, <1>5, <1>6, IdleIsTyped DEF ConnectInv, TypeOK, configVars, Hosts
<1>8. Hop' = Hop /\ AtHop' /\ IsLast' = IsLast /\ Target' = Target
  BY <1>0, <1>2, SameHop
<1>9. ToTarget' = ToTarget  BY <1>2, <1>3, <1>8 DEF ToTarget
<1>10. Len(Response) > 0 /\ Response'[1] = Response[1]
  BY <1>0, <1>5 DEF HeadersComing
<1>11. CASE x = "header"
  <2>1. HeadersComing'
    <3>1. ASSUME NEW k \in 1..Len(Response') PROVE Response'[k] # "end"
      <4>1. CASE k = Len(Response) + 1  BY <1>5, <1>11, <4>1
      <4>2. CASE k # Len(Response) + 1
        <5>1. k \in 1..Len(Response)  BY <1>5, <4>2
        <5> QED  BY <1>0, <1>5, <5>1 DEF HeadersComing
      <4> QED  BY <4>1, <4>2
    <3>2. ask'.kind = "headers" /\ Len(Response') > 0  BY <1>0, <1>1, <1>5, <1>11
    <3>3. Response'[1] = "ok" => ToTarget' /\ spoken' = 0
      BY <1>0, <1>2, <1>9, <1>10 DEF HeadersComing
    <3> QED  BY <3>1, <3>2, <3>3 DEF HeadersComing
  <2>2. HttpInv'  BY <1>0, <1>8, <2>1 DEF HttpInv, ConnectInv, ClientInv
  <2> QED
    BY <1>0, <1>2, <1>7, <2>2
       DEF ConnectInv, ClientInv, EarlyInv, SendInv, GreetInv, ReplyInv, BoundInv, Reply4Inv,
           DoneInv, Early, Sending
<1>12. CASE x = "end"
  <2>1. ask' = NoAsk /\ Len(Response') > 0  BY <1>1, <1>5, <1>12
  <2>2. CASE Response[1] # "ok"
    <3>1. Refused(Response)'  BY <1>10, <2>1, <2>2 DEF Refused
    <3>2. HttpInv'  BY <1>0, <1>8, <3>1 DEF HttpInv, ConnectInv, ClientInv
    <3> QED
      BY <1>0, <1>2, <1>7, <3>2
         DEF ConnectInv, ClientInv, EarlyInv, SendInv, GreetInv, ReplyInv, BoundInv, Reply4Inv,
             DoneInv, Early, Sending
  <2>3. CASE Response[1] = "ok"
    <3> DEFINE e == Len(Response) + 1
    <3>1. ToTarget' /\ spoken' = 0
      BY <1>0, <1>2, <1>9, <2>3 DEF HeadersComing
    <3>2. /\ e \in 1..Len(Response') /\ Len(conn'.buf) < e /\ Response'[e] = "end"
          /\ Len(Response') = e + spoken'
      BY <1>2, <1>5, <1>12, <3>1
    <3>3. \A k \in 1..Len(Response') : k > e => Response'[k] = "data"
      BY <1>5, <3>2
    <3>4. \A k \in 1..(e - 1) : Response'[k] # "end"
      <4>1. ASSUME NEW k \in 1..(e - 1) PROVE Response'[k] # "end"
        <5>1. k \in 1..Len(Response)  BY <1>5
        <5> QED  BY <1>0, <1>5, <5>1 DEF HeadersComing
      <4> QED  BY <4>1
    <3> HIDE DEF e
    <3>5. ResponseComplete'
      BY <1>5, <1>10, <2>1, <2>3, <3>1, <3>2, <3>3, <3>4 DEF ResponseComplete, OnlyDataBehind
    <3>6. HttpInv'  BY <1>0, <1>8, <3>5 DEF HttpInv, ConnectInv, ClientInv
    <3> QED
      BY <1>0, <1>2, <1>7, <3>6
         DEF ConnectInv, ClientInv, EarlyInv, SendInv, GreetInv, ReplyInv, BoundInv, Reply4Inv,
             DoneInv, Early, Sending
  <2> QED  BY <2>2, <2>3
<1> QED  BY <1>11, <1>12

\* The destination speaks before the client has read the last hop's reply.
LEMMA DstKeepsInv ==
    ASSUME ConnectInv, DstSpeaks
    PROVE  ConnectInv'
<1>0. /\ path # <<>> /\ Endpoint = Dst /\ ask = NoAsk /\ spoken = 0 /\ spoken' = 1
      /\ stream' = Append(stream, "data") /\ conn' = conn /\ path' = path /\ ask' = ask
      /\ UNCHANGED configVars /\ Len(stream) < MaxAhead /\ "data" \in Pieces
  BY DEF DstSpeaks, Pieces
<1>1. /\ Len(stream) \in Nat /\ Len(Response) \in Nat /\ Len(conn.buf) \in Nat
      /\ stream' \in Seq(Pieces) /\ Len(stream') = Len(stream) + 1
      /\ stream'[Len(stream) + 1] = "data"
      /\ \A k \in 1..Len(stream) : stream'[k] = stream[k]
      /\ Len(Response) = Len(conn.buf) + Len(stream)
      /\ Len(Response') = Len(Response) + 1 /\ Response'[Len(Response) + 1] = "data"
      /\ \A k \in 1..Len(Response) : Response'[k] = Response[k]
      /\ Response' # <<>>
  BY <1>0, ResponseGrows
<1>2. TypeOK'
  <2>1. Len(stream') <= MaxAhead  BY <1>0, <1>1, ConnectAssumption
  <2> QED  BY <1>0, <1>1, <2>1 DEF ConnectInv, TypeOK, configVars
<1>3. Hop' = Hop /\ AtHop' = AtHop /\ IsLast' = IsLast /\ Target' = Target
  BY <1>0, SameHop
<1>4. AtHop => ~ToHop
  BY <1>0, WhereItEnds, ConnectAssumption
<1>5. AtHop /\ ToTarget => ToTarget'
  <2> SUFFICES ASSUME AtHop, ToTarget PROVE ToTarget'  OBVIOUS
  <2>1. Target = Dst  BY <1>0, WhereItEnds
  <2>2. IsLast  BY <2>1, HopIsTyped, ConnectAssumption DEF IsLast
  <2> QED  BY <1>0, <1>3, <2>2 DEF ToTarget
<1>6. NoAsk.kind = "none" /\ conn.pc \in Steps  BY DEF NoAsk, ConnectInv, TypeOK
<1>7. conn.pc \in {"reply", "bound", "reply4", "http", "done"}
  BY <1>0, <1>4, <1>6
     DEF ConnectInv, ClientInv, EarlyInv, SendInv, GreetInv, Early, Sending, Steps, Waiting,
         Unanswered
<1>8. CASE conn.pc = "reply"
  <2>1. /\ AtHop /\ Type[Hop] = "socks5"
        /\ \/ ToTarget /\ stream[1] = "ok" /\ stream[2] = "bound" /\ OnlyDataBehind(stream, 2)
           \/ Refused(stream)
    BY <1>0, <1>4, <1>8 DEF ConnectInv, ClientInv, ReplyInv, Unanswered
  <2>2. CASE ToTarget /\ stream[1] = "ok" /\ stream[2] = "bound" /\ OnlyDataBehind(stream, 2)
    <3>1. OnlyDataBehind(stream, 2)'
      BY <1>0, <1>1, <2>2 DEF OnlyDataBehind
    <3>2. stream'[1] = "ok" /\ stream'[2] = "bound"
      BY <1>0, <1>1, <2>2 DEF OnlyDataBehind
    <3>3. ReplyInv'  BY <1>0, <1>3, <1>5, <2>1, <2>2, <3>1, <3>2 DEF ReplyInv
    <3> QED
      BY <1>0, <1>2, <1>8, <3>3
         DEF ConnectInv, ClientInv, EarlyInv, SendInv, GreetInv, BoundInv, Reply4Inv, HttpInv,
             DoneInv, Early, Sending
  <2>3. CASE Refused(stream)
    <3>1. Refused(stream)'  BY <1>0, <1>1, <2>3 DEF Refused
    <3>2. ReplyInv'  BY <1>3, <2>1, <3>1 DEF ReplyInv
    <3> QED
      BY <1>0, <1>2, <1>8, <3>2
         DEF ConnectInv, ClientInv, EarlyInv, SendInv, GreetInv, BoundInv, Reply4Inv, HttpInv,
             DoneInv, Early, Sending
  <2> QED  BY <2>1, <2>2, <2>3
<1>9. CASE conn.pc = "bound"
  <2>1. /\ AtHop /\ Type[Hop] = "socks5" /\ ToTarget
        /\ stream[1] = "bound" /\ OnlyDataBehind(stream, 1)
    BY <1>9 DEF ConnectInv, ClientInv, BoundInv
  <2>2. OnlyDataBehind(stream, 1)' /\ stream'[1] = "bound"
    BY <1>0, <1>1, <2>1 DEF OnlyDataBehind
  <2>3. BoundInv'  BY <1>0, <1>3, <1>5, <2>1, <2>2 DEF BoundInv
  <2> QED
    BY <1>0, <1>2, <1>9, <2>3
       DEF ConnectInv, ClientInv, EarlyInv, SendInv, GreetInv, ReplyInv, Reply4Inv, HttpInv,
           DoneInv, Early, Sending
<1>10. CASE conn.pc = "reply4"
  <2>1. /\ AtHop /\ Type[Hop] = "socks4"
        /\ \/ ToTarget /\ stream[1] = "ok" /\ OnlyDataBehind(stream, 1)
           \/ Refused(stream)
    BY <1>0, <1>4, <1>10 DEF ConnectInv, ClientInv, Reply4Inv, Unanswered
  <2>2. CASE ToTarget /\ stream[1] = "ok" /\ OnlyDataBehind(stream, 1)
    <3>1. OnlyDataBehind(stream, 1)' /\ stream'[1] = "ok"
      BY <1>0, <1>1, <2>2 DEF OnlyDataBehind
    <3>2. Reply4Inv'  BY <1>0, <1>3, <1>5, <2>1, <2>2, <3>1 DEF Reply4Inv
    <3> QED
      BY <1>0, <1>2, <1>10, <3>2
         DEF ConnectInv, ClientInv, EarlyInv, SendInv, GreetInv, ReplyInv, BoundInv, HttpInv,
             DoneInv, Early, Sending
  <2>3. CASE Refused(stream)
    <3>1. Refused(stream)'  BY <1>0, <1>1, <2>3 DEF Refused
    <3>2. Reply4Inv'  BY <1>3, <2>1, <3>1 DEF Reply4Inv
    <3> QED
      BY <1>0, <1>2, <1>10, <3>2
         DEF ConnectInv, ClientInv, EarlyInv, SendInv, GreetInv, ReplyInv, BoundInv, HttpInv,
             DoneInv, Early, Sending
  <2> QED  BY <2>1, <2>2, <2>3
<1>11. CASE conn.pc = "http"
  <2>1. /\ AtHop /\ Type[Hop] = "http"
        /\ ResponseComplete \/ Refused(Response)
    BY <1>0, <1>4, <1>6, <1>11 DEF ConnectInv, ClientInv, HttpInv, Unanswered, HeadersComing
  <2>2. HttpInv'
    <3>1. CASE ResponseComplete
      <4>1. PICK e \in 1..Len(Response) :
                    /\ Len(conn.buf) < e /\ Response[e] = "end" /\ OnlyDataBehind(Response, e)
                    /\ \A k \in 1..(e - 1) : Response[k] # "end"
        BY <3>1 DEF ResponseComplete
      <4>2. OnlyDataBehind(Response, e)'
        BY <1>0, <1>1, <4>1 DEF OnlyDataBehind
      <4>3. Len(Response') = e + spoken' /\ \A k \in 1..Len(Response') : k > e => Response'[k] = "data"
        BY <4>2 DEF OnlyDataBehind
      <4>4. /\ e \in 1..Len(Response') /\ Len(conn'.buf) < e /\ Response'[e] = "end"
            /\ \A k \in 1..(e - 1) : Response'[k] # "end"
        <5>1. e \in 1..Len(Response') /\ \A k \in 1..(e - 1) : k \in 1..Len(Response)
          BY <1>1
        <5> QED  BY <1>0, <1>1, <4>1, <5>1
      <4>5. Response'[1] = "ok"  BY <1>1, <3>1, <4>1, SMTT(30) DEF ResponseComplete
      <4>6. ResponseComplete'
        BY <1>0, <1>1, <1>5, <2>1, <3>1, <4>3, <4>4, <4>5 DEF ResponseComplete, OnlyDataBehind
      <4> QED  BY <1>3, <2>1, <4>6 DEF HttpInv
    <3>2. CASE Refused(Response)
      <4>1. Refused(Response)'  BY <1>0, <1>1, <3>2 DEF Refused
      <4> QED  BY <1>3, <2>1, <4>1 DEF HttpInv
    <3> QED  BY <2>1, <3>1, <3>2
  <2> QED
    BY <1>0, <1>2, <1>11, <2>2
       DEF ConnectInv, ClientInv, EarlyInv, SendInv, GreetInv, ReplyInv, BoundInv, Reply4Inv,
           DoneInv, Early, Sending
<1>12. CASE conn.pc = "done"
  <2>1. /\ AtHop /\ IsLast /\ path = Append(conn.hops, Dst)
        /\ \A k \in 1..Len(stream) : stream[k] = "data"
        /\ Type[Hop] # "http" => Len(stream) = spoken
    BY <1>12 DEF ConnectInv, ClientInv, DoneInv
  <2>2. ASSUME NEW k \in 1..Len(stream') PROVE stream'[k] = "data"
    <3>1. CASE k = Len(stream) + 1  BY <1>1, <3>1
    <3>2. CASE k # Len(stream) + 1
      <4>1. k \in 1..Len(stream)  BY <1>1, <3>2
      <4> QED  BY <1>1, <2>1, <4>1
    <3> QED  BY <3>1, <3>2
  <2>3. Type[Hop] # "http" => Len(stream') = spoken'  BY <1>0, <1>1, <2>1
  <2>4. DoneInv'  BY <1>0, <1>3, <2>1, <2>2, <2>3 DEF DoneInv
  <2> QED
    BY <1>0, <1>2, <1>12, <2>4
       DEF ConnectInv, ClientInv, EarlyInv, SendInv, GreetInv, ReplyInv, BoundInv, Reply4Inv,
           HttpInv, Early, Sending
<1> QED  BY <1>7, <1>8, <1>9, <1>10, <1>11, <1>12

-----------------------------------------------------------------------------
(* The theorems. *)

\* Every step keeps the invariant.
LEMMA ConnectStep ==
    ASSUME ConnectInv, [Next]_vars
    PROVE  ConnectInv'
<1>1. CASE ThreadStep
  <2>1. CASE IoFails \/ Return  BY <2>1, FailStep DEF IoFails, Return
  <2> QED
    BY <1>1, <2>1, LoadKeepsInv, TcpKeepsInv, SendKeepsInv, SocksKeepsInv, HttpKeepsInv
       DEF ThreadStep
<1>2. CASE UNCHANGED vars
  BY <1>2, ConfigStep DEF vars, netVars, ConnectInv, TypeOK
<1> QED
  BY <1>1, <1>2, ConfigKeepsInv, UseKeepsInv, GreetKeepsInv, ConnectAnswered, HeadersKeepInv,
     DstKeepsInv
     DEF Next

LEMMA ConnectInvHolds == Spec => []ConnectInv
<1>1. Init => ConnectInv
  <2> SUFFICES ASSUME Init PROVE ConnectInv  OBVIOUS
  <2>1. TypeOK
    BY IdleIsTyped, EmptySeq, ConnectAssumption DEF Init, TypeOK, ConnRecords, Hosts, NoEdit
  <2>2. ClientInv
    BY IdleIsTyped
       DEF Init, ClientInv, EarlyInv, SendInv, GreetInv, ReplyInv, BoundInv, Reply4Inv,
           HttpInv, DoneInv, Early, Sending
  <2> QED  BY <2>1, <2>2 DEF ConnectInv
<1> QED  BY <1>1, ConnectStep, PTL DEF Spec

\* The types of the configuration, the client and the network
\* (proxy_socks.c, proxy_http.c, chain.c).
THEOREM ConnectTypeCorrect == Spec => []TypeOK
<1>1. ConnectInv => TypeOK  BY DEF ConnectInv
<1> QED  BY <1>1, ConnectInvHolds, PTL

\* For chains of any length and whatever the hops answer: what the client sends
\* to a hop reaches that hop, a returned socket leads through all hops to the
\* destination, and a failed attempt leaves no socket (pf_chain_connect,
\* negotiate_hop_on_fd).
THEOREM TunnelIsRight == Spec => []TunnelIsAsBelieved
<1>1. ConnectInv => TunnelIsAsBelieved
  BY DEF ConnectInv, ClientInv, EarlyInv, SendInv, DoneInv, Early, Sending, ToHop,
         TunnelIsAsBelieved
<1> QED  BY <1>1, ConnectInvHolds, PTL

\* No remainder of one reply is taken for the next, and a returned socket
\* delivers only bytes of the destination (recv_all, the drained bound address
\* of SOCKS5, the response buffer of HTTP).
THEOREM ClientAndHopsInStep == Spec => []InStep
<1>1. ConnectInv => InStep
  <2> SUFFICES ASSUME ConnectInv PROVE InStep  OBVIOUS
  <2>1. conn.pc \in {"send", "auth", "request"} => stream = <<>> /\ ask = NoAsk
    BY DEF ConnectInv, ClientInv, SendInv, Sending
  <2>2. ASSUME conn.pc = "done"
        PROVE  /\ ask = NoAsk /\ Range(stream) \subseteq {"data"}
               /\ Type[Last(conn.hops)] # "http" => Len(stream) = spoken
    <3>1. /\ AtHop /\ IsLast /\ ask = NoAsk
          /\ \A k \in 1..Len(stream) : stream[k] = "data"
          /\ Type[Hop] # "http" => Len(stream) = spoken
      BY <2>2 DEF ConnectInv, ClientInv, DoneInv
    <3>2. stream \in Seq(Pieces) /\ DOMAIN stream = 1..Len(stream)
      BY LenProperties DEF ConnectInv, TypeOK
    <3>3. Range(stream) \subseteq {"data"}  BY <3>1, <3>2 DEF Range
    <3>4. Last(conn.hops) = Hop  BY <3>1 DEF Last, Hop, IsLast
    <3> QED  BY <3>1, <3>3, <3>4
  <2> QED  BY <2>1, <2>2 DEF InStep
<1> QED  BY <1>1, ConnectInvHolds, PTL

=============================================================================
