--------------------------- MODULE IpcServerProofs --------------------------
(***************************************************************************)
(* Proofs about the IPC server, for any number of clients, slots and       *)
(* accept threads, any input, and however reads and writes cut it up.      *)
(***************************************************************************)
EXTENDS IpcServer, FiniteSetTheorems, FunctionTheorems, SequenceTheorems,
        WellFoundedInduction, TLAPS

-----------------------------------------------------------------------------
(* The inductive invariant: the slots. *)

Senders == Casters \cup {Main}
Open(c) == link[c] = "open"

\* A connection has a slot exactly while it is open, and only one; what is
\* polled is open; the count is that of the slots in use.
SlotInv ==
    /\ \A i, j \in Slots : clients[i].fd = clients[j].fd /\ clients[i].fd # NoFd => i = j
    /\ \A c \in Clients : Open(c) <=> \E i \in Slots : clients[i].fd = c
    /\ \A c \in polled : Open(c)
    /\ clientCount = Cardinality(Used)

\* The main thread is in the lines of a client, who stays in its slot, and
\* sends the answer to that client's last request.
Busy(i) == main \in {"lines", "send"} /\ i = cur
MainInv ==
    /\ main \in {"lines", "send"} => clients[cur].fd # NoFd
    /\ main = "send" <=> Sending(Main)
    /\ main = "send" =>
          LET q == asked[clients[cur].fd]
          IN job[Main].slot = cur /\ Len(q) > 0 /\ job[Main].msg = q[Len(q)]

-----------------------------------------------------------------------------
(* Input. *)

\* Piece k of what a client sends, t, is a request.
Request(t, k) ==
    /\ t[k].kind \in Kinds \ {"malformed"}
    /\ k + 1 \in 1..Len(t) /\ t[k + 1].kind = Newline
    /\ k > 1 => t[k - 1].kind = Newline
IsIn(q, k) == \E j \in 1..Len(q) : q[j] = k
NoNewline(b) == \A k \in 1..Len(b) : b[k].kind # Newline

\* Of the pieces t of a client the first p are processed, and b is read but
\* not processed: it begins at the beginning of a line, and the requests before
\* it, and no others, are those in q, the ones taken up.
BufOK(t, q, b, p) ==
    /\ \A k \in 1..Len(b) : b[k] = t[p + k]
    /\ p > 0 => t[p].kind = Newline
    /\ \A j \in 1..Len(q) : q[j] < p
    /\ \A k \in 1..(p - 1) : Request(t, k) => IsIn(q, k)

\* What was taken up are requests, in order.
AskOK(t, q) ==
    \A j \in 1..Len(q) : /\ q[j] \in 1..Len(t) /\ Request(t, q[j])
                         /\ j > 1 => q[j - 1] < q[j]

\* Only while the main thread works on it may a buffer hold a newline.
BufferInv ==
    \A i \in Slots : clients[i].fd # NoFd =>
        LET c == clients[i].fd
            b == clients[i].buf
        IN /\ Len(b) <= got[c] /\ BufOK(told[c], asked[c], b, got[c] - Len(b))
           /\ Busy(i) \/ NoNewline(b)

AskedInv ==
    \A c \in Clients :
        /\ AskOK(told[c], asked[c])
        /\ \A k \in 1..Len(told[c]) : told[c][k].n = k
        /\ ~Open(c) => \A k \in 1..(got[c] - 1) : Request(told[c], k) => IsIn(asked[c], k)

\* Nothing has happened on a connection that is not made.
FreshInv ==
    \A c \in Clients : link[c] = "none" =>
        got[c] = 0 /\ asked[c] = <<>> /\ \A s \in Senders : out[c][s] = <<>>

InputInv == BufferInv /\ AskedInv /\ FreshInv

-----------------------------------------------------------------------------
(* Output. *)

\* Piece k of the answers to the requests q, and the answers in o but for m
\* pieces.
Half(m, p) == [msg |-> m, piece |-> p]
Answer(q, k) == Half(q[(k + 1) \div 2], 2 - (k % 2))
AnsOK(o, q, m) ==
    /\ Len(o) = 2 * Len(q) - m
    /\ \A k \in 1..Len(o) : o[k] = Answer(q, k)

\* Pieces of the answer under way to c that are not written.
Missing(c) == IF main = "send" /\ clients[cur].fd = c THEN 2 - job[Main].done ELSE 0

AnswerInv ==
    \A c \in Clients : c \notin gaveUp => AnsOK(out[c][Main], asked[c], Missing(c))

Subscribed(c) == \E j \in 1..Len(asked[c]) : told[c][asked[c][j]].kind = "subscribe"
SendsTo(t, i) == Sending(t) /\ job[t].slot = i
Whole(o) == \A k \in 1..Len(o) : o[k].piece = 2 - (k % 2)

\* Log events are whole but for the one under way, and go to clients that
\* have subscribed.
LogInv == \A i \in Slots : clients[i].fd # NoFd /\ clients[i].log => Subscribed(clients[i].fd)
EventOK(c, t) ==
    /\ Whole(out[c][t])
    /\ Len(out[c][t]) > 0 => Subscribed(c)
    /\ \A i \in Slots : clients[i].fd = c =>
          /\ SendsTo(t, i) => Len(out[c][t]) % 2 = job[t].done /\ Subscribed(c)
          /\ ~SendsTo(t, i) => Len(out[c][t]) % 2 = 0
EventInv == \A c \in Clients, t \in Casters : c \notin gaveUp \cup inherited => EventOK(c, t)

\* The parts together: the server's own state, and the streams.
ServerInv == TypeOK /\ SlotInv /\ MainInv
StreamInv == InputInv /\ AnswerInv /\ LogInv /\ EventInv
IpcInv == ServerInv /\ StreamInv

-----------------------------------------------------------------------------
(* Sets and sequences. *)

\* A nonempty set of naturals has a least element.
LEMMA HasLeast ==
    ASSUME NEW S, S \subseteq Nat, S # {}
    PROVE  \E x \in S : \A y \in S : x <= y
<1> DEFINE R == OpToRel(<, Nat)
<1>1. IsWellFoundedOn(R, Nat)  BY NatLessThanWellFounded, Zenon
<1>2. \A x, y \in Nat : x < y => <<x, y>> \in R  BY DEF OpToRel
<1> HIDE DEF R
<1>3. PICK x \in S : \A y \in S : ~ (<<y, x>> \in R)  BY <1>1, WFMin
<1>4. ASSUME NEW y \in S PROVE x <= y
  <2>1. ~(y < x)  BY <1>2, <1>3
  <2> QED  BY <2>1
<1> QED  BY <1>4

\* The number of slots.
LEMMA SlotCount == IsFiniteSet(Slots) /\ Cardinality(Slots) = MaxClients
  <1>1. 0 \in Int /\ MaxClients - 1 \in Int
    BY IpcAssumption
  <1>2. IsFiniteSet(Slots) /\ Cardinality(Slots) = IF 0 > MaxClients - 1 THEN 0 ELSE (MaxClients - 1) - 0 + 1
    BY <1>1, FS_Interval DEF Slots
  <1>. QED
    BY <1>2, IpcAssumption

\* While fewer clients than slots are counted there is a free slot, and the
\* search finds the first.
LEMMA FreeSlotIsFound ==
    ASSUME TypeOK, SlotInv, clientCount < MaxClients
    PROVE  LET i == CHOOSE i \in Slots \ Used : \A j \in Slots \ Used : i <= j
           IN  i \in Slots /\ i \notin Used
  <1>1. Used \subseteq Slots
    BY DEF Used
  <1>2. Slots \ Used # {}
    <2>. SUFFICES ASSUME Slots \ Used = {} PROVE FALSE
      OBVIOUS
    <2>1. Used = Slots
      BY <1>1
    <2>2. clientCount = MaxClients
      BY <2>1, SlotCount DEF SlotInv
    <2>. QED
      BY <2>2, IpcAssumption
  <1>3. Slots \ Used \subseteq Nat
    BY IpcAssumption DEF Slots
  <1>4. \E i \in Slots \ Used : \A j \in Slots \ Used : i <= j
    BY <1>2, <1>3, HasLeast
  <1>. QED
    BY <1>4, Zenon

\* The n elements of s behind the first m.
LEMMA PartIs ==
    ASSUME NEW S, NEW s \in Seq(S), NEW m \in Nat, NEW n \in Nat, m + n <= Len(s)
    PROVE  /\ SubSeq(s, m + 1, m + n) \in Seq(S)
           /\ Len(SubSeq(s, m + 1, m + n)) = n
           /\ \A k \in 1..n : SubSeq(s, m + 1, m + n)[k] = s[m + k]
<1> DEFINE a == m + 1
           b == m + n
<1>1. a \in Int /\ b \in Int /\ (\A i \in a..b : s[i] \in S) /\ b - a + 1 = n /\ (a <= b <=> n > 0)
  OBVIOUS
<1>2. \A k \in 1..n : a + k - 1 = m + k  OBVIOUS
<1> HIDE DEF a, b
<1>3. /\ SubSeq(s, a, b) \in Seq(S)
      /\ Len(SubSeq(s, a, b)) = IF a <= b THEN b - a + 1 ELSE 0
      /\ \A i \in 1..(b - a + 1) : SubSeq(s, a, b)[i] = s[a + i - 1]
  BY <1>1, SubSeqProperties
<1>4. Len(SubSeq(s, a, b)) = n /\ \A k \in 1..n : SubSeq(s, a, b)[k] = s[m + k]
  BY <1>1, <1>2, <1>3
<1> QED  BY <1>3, <1>4 DEF a, b

\* One sequence behind another.
LEMMA JoinIs ==
    ASSUME NEW S, NEW s \in Seq(S), NEW t \in Seq(S)
    PROVE  /\ s \o t \in Seq(S) /\ Len(s \o t) = Len(s) + Len(t)
           /\ \A k \in 1..Len(s) : (s \o t)[k] = s[k]
           /\ \A k \in 1..Len(t) : (s \o t)[Len(s) + k] = t[k]
<1>1. /\ s \o t \in Seq(S) /\ Len(s \o t) = Len(s) + Len(t)
      /\ \A i \in 1..(Len(s) + Len(t)) : (s \o t)[i] = IF i <= Len(s) THEN s[i] ELSE t[i - Len(s)]
  BY ConcatProperties
<1>2. Len(s) \in Nat /\ Len(t) \in Nat  OBVIOUS
<1>3. \A k \in 1..Len(s) : (s \o t)[k] = s[k]  BY <1>1, <1>2
<1>4. ASSUME NEW k \in 1..Len(t) PROVE (s \o t)[Len(s) + k] = t[k]
  <2>1. Len(s) + k \in 1..(Len(s) + Len(t)) /\ ~(Len(s) + k <= Len(s)) /\ (Len(s) + k) - Len(s) = k
    BY <1>2
  <2> QED  BY <1>1, <2>1
<1> QED  BY <1>1, <1>3, <1>4

\* The first newline of a buffer that has one.
LEMMA FirstNewlineIs ==
    ASSUME NEW b \in Seq(Piece), HasLine(b)
    PROVE  /\ FirstNewline(b) \in 1..Len(b)
           /\ b[FirstNewline(b)].kind = Newline
           /\ \A j \in 1..(FirstNewline(b) - 1) : b[j].kind # Newline
<1> DEFINE S == {k \in DOMAIN b : b[k].kind = Newline}
<1>1. S \subseteq Nat /\ S # {}  BY DEF HasLine
<1>2. PICK k \in S : \A j \in S : k <= j  BY <1>1, HasLeast
<1>3. \A j \in 1..(k - 1) : b[j].kind # Newline  BY <1>2
<1>4. FirstNewline(b) \in DOMAIN b /\ b[FirstNewline(b)].kind = Newline
      /\ \A j \in 1..(FirstNewline(b) - 1) : b[j].kind # Newline
  BY <1>2, <1>3 DEF FirstNewline
<1> QED  BY <1>4

\* What is left of the buffer behind it.
LEMMA RestIs ==
    ASSUME NEW b \in Seq(Piece), HasLine(b)
    PROVE  /\ Rest(b) \in Seq(Piece) /\ Len(Rest(b)) = Len(b) - FirstNewline(b)
           /\ \A k \in 1..Len(Rest(b)) : Rest(b)[k] = b[FirstNewline(b) + k]
<1> DEFINE f == FirstNewline(b)
<1>1. f \in 1..Len(b)  BY FirstNewlineIs
<1> HIDE DEF f
<1>2. SubSeq(b, f + 1, Len(b)) \in Seq(Piece)  BY <1>1, SubSeqProperties
<1>3. Len(SubSeq(b, f + 1, Len(b))) = Len(b) - f  BY <1>1, SubSeqProperties
<1>4. \A k \in 1..(Len(b) - f) : SubSeq(b, f + 1, Len(b))[k] = b[f + k]  BY <1>1, <1>3, SubSeqProperties
<1> QED  BY <1>2, <1>3, <1>4 DEF Rest, f

-----------------------------------------------------------------------------
(* Types. *)

LEMMA TypeInit == Init => TypeOK
<1> SUFFICES ASSUME Init PROVE TypeOK
  OBVIOUS
<1>1. PICK lines \in Scripts : told = [c \in Clients |->
          [k \in DOMAIN lines[c] |-> [kind |-> lines[c][k], n |-> k]]]  BY DEF Init
<1>2. \A c \in Clients : lines[c] \in Seq(Kinds \cup {Newline})  BY ScriptAssumption
<1>3. \A c \in Clients : told[c] \in Seq(Piece)
  <2> SUFFICES ASSUME NEW c \in Clients PROVE told[c] \in Seq(Piece)
    OBVIOUS
  <2>1. told[c] = [k \in 1..Len(lines[c]) |-> [kind |-> lines[c][k], n |-> k]]  BY <1>1, <1>2
  <2>2. \A k \in 1..Len(lines[c]) : [kind |-> lines[c][k], n |-> k] \in Piece  BY <1>2 DEF Piece
  <2>3. Len(lines[c]) \in Nat  BY <1>2
  <2> QED  BY <2>1, <2>2, <2>3
<1>4. told \in [Clients -> Seq(Piece)]  BY <1>1, <1>3
<1>5. FreeSlot \in [fd : Clients \cup {NoFd}, buf : Seq(Piece), log : BOOLEAN] /\ Len(FreeSlot.buf) = 0
  BY DEF FreeSlot
<1>6. clients \in [Slots -> [fd : Clients \cup {NoFd}, buf : Seq(Piece), log : BOOLEAN]]
      /\ \A i \in Slots : Len(clients[i].buf) <= BufSize
  BY <1>5, IpcAssumption DEF Init
<1>7. 0 \in Slots  BY IpcAssumption DEF Slots
<1>8. job \in [Casters \cup {Main} -> [slot : Slots, msg : Nat, done : 0..2, retries : 0..MaxRetries]]
  BY <1>7, IpcAssumption DEF Init, Idle
<1>9. asked \in [Clients -> Seq(Nat)] /\ out \in [Clients -> [Casters \cup {Main} -> Seq(OutPiece)]]
  BY DEF Init
<1>10. /\ clientCount \in 0..MaxClients /\ polled \subseteq Clients
       /\ running \in BOOLEAN /\ main \in {"poll", "lines", "send", "down"}
       /\ cur \in Slots
       /\ walk \in [Casters -> 0..MaxClients] /\ casts \in 0..MaxCasts
       /\ link \in [Clients -> {"none", "open", "closed"}]
       /\ gone \subseteq Clients
       /\ got \in [Clients -> Nat] /\ \A c \in Clients : got[c] <= Len(told[c])
       /\ gaveUp \subseteq Clients /\ inherited \subseteq Clients
  BY <1>3, <1>7, IpcAssumption DEF Init
<1> QED  BY <1>4, <1>6, <1>8, <1>9, <1>10 DEF TypeOK

\* What each action does, slot by slot and connection by connection.
OthersKeep(i) == \A j \in Slots : j # i => clients'[j] = clients[j]

LeaveFacts ==
    /\ gone \subseteq gone'
    /\ UNCHANGED <<server, main, cur, job, walk, casts, link, told, got, inherited, asked, out, gaveUp>>

LEMMA LeaveStep ==
    ASSUME TypeOK, NEW c \in Clients, ClientLeaves(c)
    PROVE  TypeOK' /\ LeaveFacts
<1>1. LeaveFacts /\ gone' \subseteq Clients  BY DEF ClientLeaves, LeaveFacts, TypeOK
<1> QED  BY <1>1 DEF LeaveFacts, TypeOK, server

RefuseFacts(c) ==
    /\ main = "poll" /\ link[c] = "none"
    /\ link'[c] = "closed" /\ \A d \in Clients : d # c => link'[d] = link[d]
    /\ polled' \subseteq polled \ {c}
    /\ UNCHANGED <<clients, clientCount, inherited, running, main, cur, job, walk, casts,
                   gone, told, got, asked, out, gaveUp>>

AdmitFacts(c, i) ==
    /\ main = "poll" /\ link[c] = "none"
    /\ i \in Slots /\ clients[i].fd = NoFd /\ OthersKeep(i)
    /\ clients'[i].fd = c /\ clients'[i].buf = <<>> /\ clients'[i].log = FALSE
    /\ clientCount' = clientCount + 1
    /\ link'[c] = "open" /\ \A d \in Clients : d # c => link'[d] = link[d]
    /\ polled' \subseteq polled \cup {c}
    /\ inherited \subseteq inherited'
    /\ \A t \in Casters : SendsTo(t, i) => c \in inherited'
    /\ UNCHANGED <<running, main, cur, job, walk, casts, gone, told, got, asked, out, gaveUp>>

LEMMA AcceptStep ==
    ASSUME TypeOK, SlotInv, NEW c \in Clients, Accept(c)
    PROVE  TypeOK' /\ (RefuseFacts(c) \/ \E i \in Slots : AdmitFacts(c, i))
<1>0. UNCHANGED <<running, main, cur, job, walk, casts, gone, told, got, asked, out, gaveUp>>
      /\ main = "poll" /\ link[c] = "none"
  BY DEF Accept
<1>1. CASE Refuse(c)
  <2>1. link' = [link EXCEPT ![c] = "closed"] /\ polled' = polled \ {c}
        /\ UNCHANGED <<clients, clientCount, inherited>>
    BY <1>1 DEF Refuse, CloseLink
  <2>2. RefuseFacts(c)  BY <1>0, <2>1 DEF RefuseFacts, TypeOK
  <2>3. TypeOK'  BY <1>0, <2>1 DEF TypeOK
  <2> QED  BY <2>2, <2>3
<1>2. CASE Admit(c)
  <2> DEFINE i == CHOOSE i \in Slots \ Used : \A j \in Slots \ Used : i <= j
  <2>1. i \in Slots /\ i \notin Used  BY <1>2, FreeSlotIsFound DEF Admit
  <2>2. /\ clients' = [clients EXCEPT ![i] = [FreeSlot EXCEPT !.fd = c]]
        /\ clientCount < MaxClients
        /\ clientCount' = clientCount + 1
        /\ link' = [link EXCEPT ![c] = "open"]
        /\ polled' \in {polled, polled \cup {c}}
        /\ inherited' = IF \E t \in Casters : Sending(t) /\ job[t].slot = i
                        THEN inherited \cup {c} ELSE inherited
    BY <1>2 DEF Admit
  <2> HIDE DEF i
  <2>3. clients[i].fd = NoFd  BY <2>1 DEF Used
  <2> DEFINE new == [FreeSlot EXCEPT !.fd = c]
  <2>24. FreeSlot \in [fd : Clients \cup {NoFd}, buf : Seq(Piece), log : BOOLEAN]
         /\ FreeSlot.buf = <<>> /\ FreeSlot.log = FALSE
    BY DEF FreeSlot
  <2>25. /\ new.fd = c /\ new.buf = FreeSlot.buf /\ new.log = FreeSlot.log
         /\ new \in [fd : Clients \cup {NoFd}, buf : Seq(Piece), log : BOOLEAN]
    BY <2>24
  <2>4. new.fd = c /\ new.buf = <<>> /\ new.log = FALSE
        /\ new \in [fd : Clients \cup {NoFd}, buf : Seq(Piece), log : BOOLEAN] /\ Len(new.buf) = 0
    BY <2>24, <2>25
  <2>20. clients' = [clients EXCEPT ![i] = new]  BY <2>2
  <2> HIDE DEF new
  <2>5. AdmitFacts(c, i)
    BY ZenonT(30), <1>0, <2>1, <2>2, <2>3, <2>4, <2>20 DEF AdmitFacts, OthersKeep, TypeOK, SendsTo
  <2>6. clients' \in [Slots -> [fd : Clients \cup {NoFd}, buf : Seq(Piece), log : BOOLEAN]]
        /\ \A k \in Slots : Len(clients'[k].buf) <= BufSize
    BY <2>1, <2>4, <2>20, IpcAssumption DEF TypeOK
  <2>21. clientCount' \in 0..MaxClients  BY SMTT(30), <2>2, IpcAssumption DEF TypeOK
  <2>22. polled' \subseteq Clients /\ inherited' \subseteq Clients  BY <2>2 DEF TypeOK
  <2>23. link' \in [Clients -> {"none", "open", "closed"}]  BY <2>2 DEF TypeOK
  <2>8. TypeOK'  BY <1>0, <2>6, <2>21, <2>22, <2>23 DEF TypeOK
  <2> QED  BY <2>1, <2>5, <2>8
<1> QED  BY <1>1, <1>2 DEF Accept

DropFacts(c, i) ==
    /\ main = "poll" /\ i \in Slots /\ clients[i].fd = c /\ OthersKeep(i)
    /\ clients'[i].fd = NoFd
    /\ clientCount' = clientCount - 1
    /\ link'[c] = "closed" /\ \A d \in Clients : d # c => link'[d] = link[d]
    /\ polled' \subseteq polled \ {c}
    /\ UNCHANGED <<running, main, cur, job, walk, casts, gone, told, got, inherited, asked, out, gaveUp>>

LEMMA DropStep ==
    ASSUME TypeOK, NEW c \in Clients, NEW i \in Slots, Drop(c, i)
    PROVE  TypeOK' /\ DropFacts(c, i)
<1>1. /\ main = "poll" /\ clients[i].fd = c /\ i \in 0..clientCount-1
      /\ link' = [link EXCEPT ![c] = "closed"] /\ polled' = polled \ {c}
      /\ clients' = [clients EXCEPT ![i] = FreeSlot]
      /\ clientCount' = clientCount - 1
      /\ UNCHANGED <<running, main, cur, job, walk, casts, gone, told, got, inherited, asked, out, gaveUp>>
  BY DEF Drop, Event, ClientRemove, CloseLink, Searched
<1>2. DropFacts(c, i)  BY <1>1 DEF DropFacts, OthersKeep, TypeOK, FreeSlot
<1>3. clients' \in [Slots -> [fd : Clients \cup {NoFd}, buf : Seq(Piece), log : BOOLEAN]]
      /\ \A k \in Slots : Len(clients'[k].buf) <= BufSize
  BY <1>1, IpcAssumption DEF TypeOK, FreeSlot
<1>4. clientCount' \in 0..MaxClients /\ polled' \subseteq Clients
      /\ link' \in [Clients -> {"none", "open", "closed"}]
  BY <1>1, IpcAssumption DEF TypeOK
<1> QED  BY <1>1, <1>2, <1>3, <1>4 DEF TypeOK

ReadFacts(c, i, n) ==
    /\ main = "poll" /\ i \in Slots /\ clients[i].fd = c /\ OthersKeep(i)
    /\ n \in Nat \ {0} /\ got[c] + n <= Len(told[c])
    /\ clients'[i].fd = c /\ clients'[i].log = clients[i].log
    /\ Len(clients'[i].buf) = Len(clients[i].buf) + n
    /\ \A k \in 1..Len(clients[i].buf) : clients'[i].buf[k] = clients[i].buf[k]
    /\ \A k \in 1..n : clients'[i].buf[Len(clients[i].buf) + k] = told[c][got[c] + k]
    /\ got'[c] = got[c] + n /\ \A d \in Clients : d # c => got'[d] = got[d]
    /\ main' = "lines" /\ cur' = i
    /\ UNCHANGED <<clientCount, polled, running, job, walk, casts, link, gone, told, inherited,
                   asked, out, gaveUp>>

LEMMA ReadStep ==
    ASSUME TypeOK, NEW c \in Clients, NEW i \in Slots, Read(c, i)
    PROVE  TypeOK' /\ \E n \in Nat : ReadFacts(c, i, n)
<1>1. PICK n \in 1..(Len(told[c]) - got[c]) :
          /\ Len(clients[i].buf) + n <= BufSize
          /\ clients' = [clients EXCEPT ![i].buf = @ \o SubSeq(told[c], got[c] + 1, got[c] + n)]
          /\ got' = [got EXCEPT ![c] = @ + n]
  BY DEF Read
<1>2. /\ main = "poll" /\ clients[i].fd = c
      /\ main' = "lines" /\ cur' = i
      /\ UNCHANGED <<clientCount, polled, running, job, walk, casts, link, gone, told, inherited,
                     asked, out, gaveUp>>
  BY DEF Read, Event
<1> DEFINE new == SubSeq(told[c], got[c] + 1, got[c] + n)
           b == clients[i].buf
<1>3. told[c] \in Seq(Piece) /\ got[c] \in Nat /\ b \in Seq(Piece) /\ got[c] <= Len(told[c])
      /\ Len(told[c]) \in Nat
  BY DEF TypeOK
<1>4. new \in Seq(Piece) /\ Len(new) = n /\ \A k \in 1..n : new[k] = told[c][got[c] + k]
  <2>1. n \in Nat /\ got[c] + n <= Len(told[c])  BY <1>3
  <2> DEFINE q == told[c]
             m == got[c]
  <2>2. q \in Seq(Piece) /\ m \in Nat /\ m + n <= Len(q)  BY <1>3, <2>1
  <2>3. new = SubSeq(q, m + 1, m + n)  OBVIOUS
  <2> HIDE DEF q, m, new
  <2>4. new \in Seq(Piece) /\ Len(new) = n /\ \A k \in 1..n : new[k] = q[m + k]
    BY <2>1, <2>2, <2>3, PartIs
  <2> QED  BY <2>4 DEF q, m
<1>5. clients' = [clients EXCEPT ![i].buf = b \o new]  BY <1>1
<1>50. clients[i] \in [fd : Clients \cup {NoFd}, buf : Seq(Piece), log : BOOLEAN] /\ b = clients[i].buf
  BY DEF TypeOK
<1> HIDE DEF new, b
<1>6. b \o new \in Seq(Piece) /\ Len(b \o new) = Len(b) + n
      /\ (\A k \in 1..Len(b) : (b \o new)[k] = b[k])
      /\ (\A k \in 1..n : (b \o new)[Len(b) + k] = new[k])
  <2>1. b \in Seq(Piece) /\ new \in Seq(Piece) /\ Len(new) = n  BY <1>3, <1>4
  <2>3. \A s, t \in Seq(Piece) :
           /\ s \o t \in Seq(Piece) /\ Len(s \o t) = Len(s) + Len(t)
           /\ \A k \in 1..Len(s) : (s \o t)[k] = s[k]
           /\ \A k \in 1..Len(t) : (s \o t)[Len(s) + k] = t[k]
    BY JoinIs
  <2>2. /\ b \o new \in Seq(Piece) /\ Len(b \o new) = Len(b) + Len(new)
        /\ \A k \in 1..Len(b) : (b \o new)[k] = b[k]
        /\ \A k \in 1..Len(new) : (b \o new)[Len(b) + k] = new[k]
    BY <2>1, <2>3, Zenon
  <2> QED  BY <2>1, <2>2, Zenon
<1>7. clients'[i].buf = b \o new /\ clients'[i].fd = c /\ clients'[i].log = clients[i].log
      /\ OthersKeep(i)
      /\ clients' \in [Slots -> [fd : Clients \cup {NoFd}, buf : Seq(Piece), log : BOOLEAN]]
  BY <1>2, <1>5, <1>50, <1>6 DEF TypeOK, OthersKeep
<1>8. \A k \in Slots : Len(clients'[k].buf) <= BufSize
  BY ZenonT(30), <1>1, <1>50, <1>6, <1>7 DEF TypeOK, OthersKeep
<1>9. got' \in [Clients -> Nat] /\ (\A d \in Clients : got'[d] <= Len(told[d]))
      /\ got'[c] = got[c] + n /\ (\A d \in Clients : d # c => got'[d] = got[d])
      /\ got[c] + n <= Len(told[c])
  <2>1. got' = [got EXCEPT ![c] = got[c] + n] /\ got \in [Clients -> Nat]
        /\ \A d \in Clients : got[d] <= Len(told[d])
    BY <1>1 DEF TypeOK
  <2>2. got[c] + n <= Len(told[c]) /\ got[c] + n \in Nat  BY <1>1, <1>3
  <2>3. got'[c] = got[c] + n /\ (\A d \in Clients : d # c => got'[d] = got[d])  BY <2>1
  <2>4. got' \in [Clients -> Nat]  BY <2>1, <2>2
  <2>5. \A d \in Clients : got'[d] <= Len(told[d])  BY <2>1, <2>2, <2>3
  <2> QED  BY <2>2, <2>3, <2>4, <2>5
<1>10. ReadFacts(c, i, n)  BY <1>50, <1>2, <1>4, <1>6, <1>7, <1>9 DEF ReadFacts
<1>11. TypeOK'  BY <1>2, <1>7, <1>8, <1>9 DEF TypeOK
<1> QED  BY <1>10, <1>11

NoMoreFacts ==
    /\ main = "lines" /\ \A k \in 1..Len(clients[cur].buf) : clients[cur].buf[k].kind # Newline
    /\ main' = "poll"
    /\ UNCHANGED <<clients, clientCount, polled, running, cur, job, walk, casts,
                   link, gone, told, got, inherited, asked, out, gaveUp>>

LEMMA NoMoreStep ==
    ASSUME TypeOK, NoMoreLines
    PROVE  TypeOK' /\ NoMoreFacts
<1>1. UNCHANGED <<clients, clientCount, polled, running, cur, job, walk, casts,
                  link, gone, told, got, inherited, asked, out, gaveUp>>
      /\ main = "lines" /\ main' = "poll"
  BY DEF NoMoreLines, server, world
<1>2. NoMoreFacts  BY <1>1 DEF NoMoreLines, NoMoreFacts, HasLine, TypeOK
<1> QED  BY <1>1, <1>2 DEF TypeOK

\* A line of f pieces, the newline included, leaves the buffer.
TakeFacts(f) ==
    /\ main = "lines" /\ f \in 1..Len(clients[cur].buf)
    /\ clients[cur].buf[f].kind = Newline
    /\ \A j \in 1..(f - 1) : clients[cur].buf[j].kind # Newline
    /\ clients'[cur].fd = clients[cur].fd
    /\ Len(clients'[cur].buf) = Len(clients[cur].buf) - f
    /\ \A k \in 1..Len(clients'[cur].buf) : clients'[cur].buf[k] = clients[cur].buf[f + k]
    /\ OthersKeep(cur)
    /\ UNCHANGED <<clientCount, polled, cur, walk, casts,
                   link, gone, told, got, inherited, out, gaveUp>>

SkipFacts(f) ==
    /\ TakeFacts(f)
    /\ f = 2 => clients[cur].buf[1].kind = "malformed"
    /\ clients'[cur].log = clients[cur].log
    /\ UNCHANGED <<running, main, job, asked>>

LEMMA SkipStep ==
    ASSUME TypeOK, SkipLine
    PROVE  TypeOK' /\ \E f \in Nat : SkipFacts(f)
<1> DEFINE b == clients[cur].buf
           f == FirstNewline(b)
           r == Rest(b)
<1>1. /\ main = "lines" /\ HasLine(b) /\ Line(b).kind = "malformed"
      /\ clients' = [clients EXCEPT ![cur].buf = r]
      /\ UNCHANGED <<clientCount, polled, running, main, cur, job, walk, casts,
                     link, gone, told, got, inherited, asked, out, gaveUp>>
  BY DEF SkipLine, world
<1>2. b \in Seq(Piece) /\ cur \in Slots /\ Len(b) <= BufSize
      /\ clients[cur] \in [fd : Clients \cup {NoFd}, buf : Seq(Piece), log : BOOLEAN]
  BY DEF TypeOK
<1>3. /\ f \in 1..Len(b) /\ b[f].kind = Newline /\ \A j \in 1..(f - 1) : b[j].kind # Newline
  BY <1>1, <1>2, FirstNewlineIs
<1>4. /\ r \in Seq(Piece) /\ Len(r) = Len(b) - f /\ \A k \in 1..Len(r) : r[k] = b[f + k]
  BY <1>1, <1>2, RestIs
<1>5. f = 2 => b[1].kind = "malformed"  BY <1>1 DEF Line
<1> HIDE DEF r, f
<1>6. clients'[cur].fd = clients[cur].fd /\ clients'[cur].buf = r /\ clients'[cur].log = clients[cur].log
      /\ OthersKeep(cur)
      /\ clients' \in [Slots -> [fd : Clients \cup {NoFd}, buf : Seq(Piece), log : BOOLEAN]]
  BY <1>1, <1>2, <1>4 DEF TypeOK, OthersKeep
<1>7. SkipFacts(f)  BY <1>1, <1>3, <1>4, <1>5, <1>6 DEF SkipFacts, TakeFacts
<1>8. Len(r) <= BufSize  BY <1>2, <1>3, <1>4, IpcAssumption
<1>9. \A k \in Slots : Len(clients'[k].buf) <= BufSize  BY <1>6, <1>8 DEF TypeOK, OthersKeep
<1>10. TypeOK'  BY <1>1, <1>6, <1>9 DEF TypeOK
<1>11. f \in Nat  BY <1>2, <1>3
<1> QED  BY <1>7, <1>10, <1>11

HandleFacts ==
    LET c == clients[cur].fd
        r == clients[cur].buf[1]
    IN /\ TakeFacts(2)
       /\ r.kind # "malformed"
       /\ clients'[cur].log => clients[cur].log \/ r.kind = "subscribe"
       /\ job'[Main].slot = cur /\ job'[Main].msg = r.n /\ job'[Main].done = 0
       /\ \A t \in Casters : job'[t] = job[t]
       /\ Len(asked'[c]) = Len(asked[c]) + 1 /\ asked'[c][Len(asked[c]) + 1] = r.n
       /\ \A j \in 1..Len(asked[c]) : asked'[c][j] = asked[c][j]
       /\ \A d \in Clients : d # c => asked'[d] = asked[d]
       /\ main' = "send"

LEMMA HandleStep ==
    ASSUME TypeOK, MainInv, HandleLine
    PROVE  TypeOK' /\ HandleFacts
<1> DEFINE b == clients[cur].buf
           c == clients[cur].fd
           f == FirstNewline(b)
           rest == Rest(b)
           r == Line(b)
           log == CASE r.kind = "subscribe" -> TRUE
                    [] r.kind = "unsubscribe" -> FALSE
                    [] OTHER -> clients[cur].log
<1>0. clients' = [clients EXCEPT ![cur].buf = rest, ![cur].log = log]
  BY DEF HandleLine
<1>1. /\ main = "lines" /\ HasLine(b) /\ r.kind # "malformed"
      /\ running' = (running /\ r.kind # "shutdown")
      /\ job' = [job EXCEPT ![Main] = Send(cur, r.n)]
      /\ asked' = [asked EXCEPT ![c] = Append(asked[c], r.n)]
      /\ main' = "send"
      /\ UNCHANGED <<clientCount, polled, cur, walk, casts,
                     link, gone, told, got, inherited, out, gaveUp>>
  BY DEF HandleLine, world
<1>2. b \in Seq(Piece) /\ cur \in Slots /\ Len(b) <= BufSize /\ c \in Clients
      /\ clients[cur] \in [fd : Clients \cup {NoFd}, buf : Seq(Piece), log : BOOLEAN]
      /\ asked[c] \in Seq(Nat)
  BY <1>1 DEF TypeOK, MainInv
<1>3. /\ f \in 1..Len(b) /\ b[f].kind = Newline /\ \A j \in 1..(f - 1) : b[j].kind # Newline
  BY <1>1, <1>2, FirstNewlineIs
<1>4. /\ rest \in Seq(Piece) /\ Len(rest) = Len(b) - f /\ \A k \in 1..Len(rest) : rest[k] = b[f + k]
  BY <1>1, <1>2, RestIs
<1>5. f = 2 /\ r = b[1]  BY <1>1 DEF Line
<1>6. r \in Piece  BY <1>2, <1>3, <1>5
<1>7. r.n \in Nat /\ log \in BOOLEAN /\ (log => clients[cur].log \/ r.kind = "subscribe")
  <2>1. r.n \in Nat  BY <1>6 DEF Piece
  <2>2. clients[cur].log \in BOOLEAN  BY <1>2
  <2>3. log \in BOOLEAN  BY <2>2
  <2>4. log => clients[cur].log \/ r.kind = "subscribe"  OBVIOUS
  <2> QED  BY <2>1, <2>3, <2>4
<1> HIDE DEF rest, f, log, r
<1>8. clients'[cur].fd = clients[cur].fd /\ clients'[cur].buf = rest /\ clients'[cur].log = log
      /\ OthersKeep(cur)
      /\ clients' \in [Slots -> [fd : Clients \cup {NoFd}, buf : Seq(Piece), log : BOOLEAN]]
  BY <1>0, <1>2, <1>4, <1>7 DEF TypeOK, OthersKeep
<1>9. /\ job'[Main].slot = cur /\ job'[Main].msg = r.n /\ job'[Main].done = 0
      /\ \A t \in Casters : job'[t] = job[t]
      /\ job' \in [Casters \cup {Main} ->
                    [slot : Slots, msg : Nat, done : 0..2, retries : 0..MaxRetries]]
  BY <1>1, <1>2, <1>7, IpcAssumption DEF TypeOK, Send
<1>10. /\ Append(asked[c], r.n) \in Seq(Nat) /\ Len(Append(asked[c], r.n)) = Len(asked[c]) + 1
       /\ Append(asked[c], r.n)[Len(asked[c]) + 1] = r.n
       /\ \A j \in 1..Len(asked[c]) : Append(asked[c], r.n)[j] = asked[c][j]
  BY <1>2, <1>7, AppendProperties
<1> HIDE DEF c
<1>11. /\ asked'[c] = Append(asked[c], r.n) /\ \A d \in Clients : d # c => asked'[d] = asked[d]
       /\ asked' \in [Clients -> Seq(Nat)]
  BY <1>1, <1>2, <1>10 DEF TypeOK
<1>12. TakeFacts(2)  BY <1>1, <1>3, <1>4, <1>5, <1>8 DEF TakeFacts
<1>13. HandleFacts
  BY <1>1, <1>5, <1>7, <1>8, <1>9, <1>10, <1>11, <1>12, Zenon DEF HandleFacts, c
<1>14. Len(rest) <= BufSize  BY <1>2, <1>3, <1>4, IpcAssumption
<1>15. \A k \in Slots : Len(clients'[k].buf) <= BufSize  BY <1>8, <1>14 DEF TypeOK, OthersKeep
<1>16. TypeOK'  BY <1>1, <1>8, <1>9, <1>11, <1>15, Zenon DEF TypeOK
<1> QED  BY <1>13, <1>16

\* The fields the sends leave alone.
SendKeeps == UNCHANGED <<clients, clientCount, polled, running, cur, walk, casts,
                         link, gone, told, got, inherited, asked>>

WriteFacts(s, c, n) ==
    /\ Sending(s) /\ c = clients[job[s].slot].fd /\ c \in Clients
    /\ n \in 1..(2 - job[s].done)
    /\ Len(out'[c][s]) = Len(out[c][s]) + n
    /\ \A k \in 1..Len(out[c][s]) : out'[c][s][k] = out[c][s][k]
    /\ \A k \in 1..n : out'[c][s][Len(out[c][s]) + k] = Half(job[s].msg, job[s].done + k)
    /\ \A d \in Clients, u \in Senders : d # c \/ u # s => out'[d][u] = out[d][u]
    /\ job'[s].done = job[s].done + n
    /\ job'[s].done < 2 => /\ job'[s].slot = job[s].slot /\ job'[s].msg = job[s].msg
                           /\ main' = main
    /\ job'[s].done = 2 => main' = IF s = Main THEN "lines" ELSE main
    /\ \A u \in Senders : u # s => job'[u] = job[u]
    /\ gaveUp' = gaveUp
    /\ SendKeeps

LEMMA IdleIsJob ==
    /\ Idle \in [slot : Slots, msg : Nat, done : 0..2, retries : 0..MaxRetries]
    /\ Idle.done = 2
<1>1. 0 \in Slots  BY IpcAssumption DEF Slots
<1> QED  BY <1>1, IpcAssumption DEF Idle

LEMMA WriteStep ==
    ASSUME TypeOK, NEW s \in Senders, Write(s)
    PROVE  TypeOK' /\ \E c \in Clients, n \in Nat : WriteFacts(s, c, n)
<1> DEFINE c == clients[job[s].slot].fd
           o == out[c][s]
<1>1. PICK n \in 1..(2 - job[s].done) :
          /\ out' = [out EXCEPT ![c][s] = @ \o [k \in 1..n |->
                [msg |-> job[s].msg, piece |-> job[s].done + k]]]
          /\ IF job[s].done + n = 2
             THEN Ends(s)
             ELSE /\ job' = [job EXCEPT ![s].done = @ + n, ![s].retries = 0]
                  /\ UNCHANGED main
  BY Zenon DEF Write
<1>2. Sending(s) /\ c # NoFd /\ SendKeeps /\ gaveUp' = gaveUp
  BY Zenon DEF Write, SendKeeps, server, world
<1>3. job[s] \in [slot : Slots, msg : Nat, done : 0..2, retries : 0..MaxRetries] /\ s \in Casters \cup {Main}
  BY DEF TypeOK, Senders
<1>4. c \in Clients  BY <1>2, <1>3 DEF TypeOK
<1>5. o \in Seq(OutPiece)  BY <1>3, <1>4 DEF TypeOK
<1> DEFINE new == [k \in 1..n |-> [msg |-> job[s].msg, piece |-> job[s].done + k]]
<1>6. new \in Seq(OutPiece) /\ Len(new) = n
      /\ \A k \in 1..n : new[k] = [msg |-> job[s].msg, piece |-> job[s].done + k]
  <2>1. \A k \in 1..n : [msg |-> job[s].msg, piece |-> job[s].done + k] \in OutPiece
    BY <1>3 DEF OutPiece
  <2>2. n \in Nat  BY <1>3
  <2> QED  BY <2>1, <2>2
<1>7. out' = [out EXCEPT ![c][s] = o \o new]  BY <1>1, Zenon
<1> HIDE DEF new, o
<1>8. o \o new \in Seq(OutPiece) /\ Len(o \o new) = Len(o) + n
      /\ (\A k \in 1..Len(o) : (o \o new)[k] = o[k])
      /\ (\A k \in 1..n : (o \o new)[Len(o) + k] = new[k])
  <2>1. \A x, y \in Seq(OutPiece) :
           /\ x \o y \in Seq(OutPiece) /\ Len(x \o y) = Len(x) + Len(y)
           /\ \A k \in 1..Len(x) : (x \o y)[k] = x[k]
           /\ \A k \in 1..Len(y) : (x \o y)[Len(x) + k] = y[k]
    BY JoinIs
  <2>2. /\ o \o new \in Seq(OutPiece) /\ Len(o \o new) = Len(o) + Len(new)
        /\ \A k \in 1..Len(o) : (o \o new)[k] = o[k]
        /\ \A k \in 1..Len(new) : (o \o new)[Len(o) + k] = new[k]
    BY <1>5, <1>6, <2>1, Zenon
  <2> QED  BY <1>6, <2>2, Zenon
<1> DEFINE all == o \o new
<1>9. out' = [out EXCEPT ![c][s] = all]  BY <1>7
<1>10. all \in Seq(OutPiece)  BY <1>8
<1> HIDE DEF all, c
<1>11. /\ out'[c][s] = all
       /\ \A d \in Clients, u \in Senders : d # c \/ u # s => out'[d][u] = out[d][u]
       /\ out' \in [Clients -> [Casters \cup {Main} -> Seq(OutPiece)]]
  BY <1>3, <1>4, <1>9, <1>10 DEF TypeOK, Senders
<1>12. /\ job'[s].done = job[s].done + n
       /\ job'[s].done < 2 => /\ job'[s].slot = job[s].slot /\ job'[s].msg = job[s].msg
                              /\ main' = main
       /\ job'[s].done = 2 => main' = IF s = Main THEN "lines" ELSE main
       /\ \A u \in Senders : u # s => job'[u] = job[u]
       /\ job' \in [Casters \cup {Main} ->
                     [slot : Slots, msg : Nat, done : 0..2, retries : 0..MaxRetries]]
       /\ main' \in {"poll", "lines", "send", "down"}
  <2>1. CASE job[s].done + n = 2
    <3>1. job' = [job EXCEPT ![s] = Idle] /\ main' = IF s = Main THEN "lines" ELSE main
      BY <1>1, <2>1 DEF Ends
    <3> QED  BY SMTT(30), <1>3, <2>1, <3>1, IdleIsJob DEF TypeOK, Senders
  <2>2. CASE job[s].done + n # 2
    <3>1. job' = [job EXCEPT ![s].done = @ + n, ![s].retries = 0] /\ main' = main
      BY <1>1, <2>2
    <3>2. job[s].done + n \in 0..1 /\ 0 \in 0..MaxRetries  BY <1>3, <2>2, IpcAssumption
    <3> DEFINE done == job[s].done + n
    <3>3. job' = [job EXCEPT ![s].done = done, ![s].retries = 0]  BY <3>1
    <3>4. done \in 0..2 /\ done < 2 /\ done # 2  BY <3>2
    <3> HIDE DEF done
    <3>5. job'[s].done = done /\ job'[s].slot = job[s].slot /\ job'[s].msg = job[s].msg
      BY <1>3, <3>3 DEF TypeOK
    <3>6. \A u \in Senders : u # s => job'[u] = job[u]
      BY <1>3, <3>3 DEF TypeOK, Senders
    <3>7. job' \in [Casters \cup {Main} ->
                    [slot : Slots, msg : Nat, done : 0..2, retries : 0..MaxRetries]]
      BY <1>3, <3>2, <3>3, <3>4 DEF TypeOK
    <3>8. job'[s].done = job[s].done + n  BY <3>5 DEF done
    <3>9. job'[s].done < 2 /\ job'[s].done # 2  BY <3>4, <3>5
    <3>10. main' \in {"poll", "lines", "send", "down"}  BY <3>1 DEF TypeOK
    <3> QED  BY <3>1, <3>5, <3>6, <3>7, <3>8, <3>9, <3>10
  <2> QED  BY <2>1, <2>2
<1>13. WriteFacts(s, c, n)
  <2>1. c = clients[job[s].slot].fd  BY DEF c
  <2>2. o = out[c][s]  BY DEF o
  <2>3. out'[c][s] = o \o new  BY <1>11 DEF all
  <2>4. /\ Len(out'[c][s]) = Len(out[c][s]) + n
        /\ \A k \in 1..Len(out[c][s]) : out'[c][s][k] = out[c][s][k]
        /\ \A k \in 1..n : out'[c][s][Len(out[c][s]) + k] = new[k]
    BY <1>8, <2>2, <2>3
  <2>5. \A k \in 1..n : out'[c][s][Len(out[c][s]) + k] = Half(job[s].msg, job[s].done + k)
    BY <1>6, <2>4 DEF Half
  <2> QED  BY <1>1, <1>2, <1>4, <1>11, <1>12, <2>1, <2>4, <2>5, Zenon DEF WriteFacts
<1>14. TypeOK'  BY <1>2, <1>11, <1>12 DEF TypeOK, SendKeeps
<1>15. n \in Nat  BY <1>3
<1> QED  BY <1>4, <1>13, <1>14, <1>15

BlockFacts(s) ==
    /\ Sending(s)
    /\ job'[s].done = job[s].done /\ job'[s].slot = job[s].slot /\ job'[s].msg = job[s].msg
    /\ \A u \in Senders : u # s => job'[u] = job[u]
    /\ UNCHANGED <<main, out, gaveUp>> /\ SendKeeps

LEMMA BlockStep ==
    ASSUME TypeOK, NEW s \in Senders, WouldBlock(s)
    PROVE  TypeOK' /\ BlockFacts(s)
<1>1. /\ Sending(s) /\ UNCHANGED <<main, out, gaveUp>> /\ SendKeeps
      /\ job[s].retries < MaxRetries
      /\ job' = [job EXCEPT ![s].retries = @ + 1]
  BY DEF WouldBlock, SendKeeps, server, world
<1>2. job[s] \in [slot : Slots, msg : Nat, done : 0..2, retries : 0..MaxRetries] /\ s \in Casters \cup {Main}
      /\ job[s].retries + 1 \in 0..MaxRetries
  BY SMTT(30), <1>1, IpcAssumption DEF TypeOK, Senders
<1>3. /\ job'[s].done = job[s].done /\ job'[s].slot = job[s].slot /\ job'[s].msg = job[s].msg
      /\ \A u \in Senders : u # s => job'[u] = job[u]
      /\ job' \in [Casters \cup {Main} ->
                    [slot : Slots, msg : Nat, done : 0..2, retries : 0..MaxRetries]]
  BY <1>1, <1>2 DEF TypeOK, Senders
<1> QED  BY <1>1, <1>3 DEF TypeOK, SendKeeps, BlockFacts

GiveUpFacts(s) ==
    /\ Sending(s)
    /\ job'[s].done = 2
    /\ \A u \in Senders : u # s => job'[u] = job[u]
    /\ main' = IF s = Main THEN "lines" ELSE main
    /\ gaveUp \subseteq gaveUp'
    /\ clients[job[s].slot].fd # NoFd => clients[job[s].slot].fd \in gaveUp'
    /\ UNCHANGED out /\ SendKeeps

LEMMA GiveUpStep ==
    ASSUME TypeOK, NEW s \in Senders, GiveUp(s)
    PROVE  TypeOK' /\ GiveUpFacts(s)
<1> DEFINE c == clients[job[s].slot].fd
<1>1. /\ Sending(s) /\ UNCHANGED out /\ SendKeeps
      /\ job' = [job EXCEPT ![s] = Idle] /\ main' = IF s = Main THEN "lines" ELSE main
      /\ gaveUp' = gaveUp \cup ({c} \ {NoFd})
  BY DEF GiveUp, Ends, SendKeeps, server, world
<1>2. job[s] \in [slot : Slots, msg : Nat, done : 0..2, retries : 0..MaxRetries] /\ s \in Casters \cup {Main}
  BY DEF TypeOK, Senders
<1>3. c \in Clients \cup {NoFd}  BY <1>2 DEF TypeOK
<1>4. gaveUp' \subseteq Clients /\ gaveUp \subseteq gaveUp' /\ (c # NoFd => c \in gaveUp')
  BY <1>1, <1>3 DEF TypeOK
<1>5. /\ job'[s].done = 2 /\ \A u \in Senders : u # s => job'[u] = job[u]
      /\ job' \in [Casters \cup {Main} ->
                    [slot : Slots, msg : Nat, done : 0..2, retries : 0..MaxRetries]]
  BY <1>1, <1>2, IdleIsJob DEF TypeOK, Senders
<1>6. main' \in {"poll", "lines", "send", "down"}  BY <1>1 DEF TypeOK
<1>7. GiveUpFacts(s)  BY <1>1, <1>4, <1>5 DEF GiveUpFacts
<1> QED  BY <1>1, <1>4, <1>5, <1>6, <1>7 DEF TypeOK, SendKeeps

\* A broadcast: the other fields, and the start of a send.
CastKeeps == UNCHANGED <<clients, clientCount, polled, running, main, cur,
                         link, gone, told, got, inherited, asked, out, gaveUp>>

VisitFacts(t) ==
    /\ CastKeeps
    /\ \A u \in Senders : u # t => job'[u] = job[u]
    /\ \/ job'[t] = job[t]
       \/ /\ ~Sending(t) /\ job'[t].done = 0
          /\ clients[job'[t].slot].fd # NoFd /\ clients[job'[t].slot].log

LEMMA StartStep ==
    ASSUME TypeOK, NEW t \in Casters, StartBroadcast(t)
    PROVE  TypeOK' /\ VisitFacts(t)
<1>1. /\ CastKeeps /\ job' = job /\ casts < MaxCasts /\ casts' = casts + 1
      /\ walk' = [walk EXCEPT ![t] = 0]
  BY DEF StartBroadcast, CastKeeps, server, world
<1>2. walk' \in [Casters -> 0..MaxClients] /\ casts' \in 0..MaxCasts
  BY <1>1, IpcAssumption DEF TypeOK
<1> QED  BY <1>1, <1>2 DEF TypeOK, CastKeeps, VisitFacts

LEMMA VisitStep ==
    ASSUME TypeOK, NEW t \in Casters, VisitSlot(t)
    PROVE  TypeOK' /\ VisitFacts(t)
<1> DEFINE i == walk[t]
<1>1. /\ CastKeeps /\ i < MaxClients /\ ~Sending(t) /\ walk' = [walk EXCEPT ![t] = i + 1] /\ casts' = casts
      /\ IF clients[i].fd # NoFd /\ clients[i].log
         THEN job' = [job EXCEPT ![t] = Send(i, 0)] ELSE UNCHANGED job
  BY DEF VisitSlot, CastKeeps, server, world
<1>2. i \in Slots /\ i + 1 \in 0..MaxClients  BY SMTT(30), <1>1, IpcAssumption DEF TypeOK, Slots
<1>3. walk' \in [Casters -> 0..MaxClients]  BY <1>1, <1>2 DEF TypeOK
<1>4. CASE job' = job
  BY <1>1, <1>3, <1>4 DEF TypeOK, CastKeeps, VisitFacts
<1>5. CASE job' # job
  <2>1. job' = [job EXCEPT ![t] = Send(i, 0)] /\ clients[i].fd # NoFd /\ clients[i].log
    BY <1>1, <1>5
  <2>2. Send(i, 0) \in [slot : Slots, msg : Nat, done : 0..2, retries : 0..MaxRetries]
        /\ Send(i, 0).done = 0 /\ Send(i, 0).slot = i
    BY <1>2, IpcAssumption DEF Send
  <2>3. job' \in [Casters \cup {Main} ->
                  [slot : Slots, msg : Nat, done : 0..2, retries : 0..MaxRetries]]
        /\ job'[t] = Send(i, 0) /\ \A u \in Senders : u # t => job'[u] = job[u]
    BY <2>1, <2>2 DEF TypeOK, Senders
  <2>4. VisitFacts(t)  BY <1>1, <2>1, <2>2, <2>3 DEF VisitFacts
  <2> QED  BY <1>1, <1>3, <2>3, <2>4 DEF TypeOK, CastKeeps
<1> QED  BY <1>4, <1>5

SignalFacts == UNCHANGED <<clients, clientCount, polled, main, cur, job,
                           link, gone, told, got, inherited, asked, out, gaveUp>>

LEMMA SignalStep ==
    ASSUME TypeOK, Signal
    PROVE  TypeOK' /\ SignalFacts
BY DEF Signal, TypeOK, world, SignalFacts

CloseFacts ==
    /\ main = "poll" /\ main' = "down"
    /\ \A i \in Slots : clients'[i].fd = NoFd
    /\ clientCount' = 0 /\ polled' = {}
    /\ \A c \in Clients : link'[c] = IF link[c] = "open" THEN "closed" ELSE link[c]
    /\ UNCHANGED <<running, cur, job, walk, casts, gone, told, got, inherited, asked, out, gaveUp>>

LEMMA CloseStep ==
    ASSUME TypeOK, IpcClose
    PROVE  TypeOK' /\ CloseFacts
<1>1. /\ main = "poll" /\ main' = "down"
      /\ clients' = [i \in Slots |-> [clients[i] EXCEPT !.fd = NoFd]]
      /\ clientCount' = 0 /\ polled' = {}
      /\ link' = [c \in Clients |-> IF link[c] = "open" THEN "closed" ELSE link[c]]
      /\ UNCHANGED <<running, cur, job, walk, casts, gone, told, got, inherited, asked, out, gaveUp>>
  BY DEF IpcClose
<1>2. \A i \in Slots : clients'[i].fd = NoFd /\ clients'[i].buf = clients[i].buf
                        /\ clients'[i] \in [fd : Clients \cup {NoFd}, buf : Seq(Piece), log : BOOLEAN]
  <2> TAKE i \in Slots
  <2>1. clients[i] \in [fd : Clients \cup {NoFd}, buf : Seq(Piece), log : BOOLEAN]
    BY DEF TypeOK
  <2>2. clients'[i] = [clients[i] EXCEPT !.fd = NoFd]  BY <1>1
  <2> QED  BY <2>1, <2>2
<1>3. clients' \in [Slots -> [fd : Clients \cup {NoFd}, buf : Seq(Piece), log : BOOLEAN]]
      /\ \A i \in Slots : Len(clients'[i].buf) <= BufSize
  BY <1>1, <1>2 DEF TypeOK
<1>4. link' \in [Clients -> {"none", "open", "closed"}] /\ clientCount' \in 0..MaxClients
  BY <1>1, IpcAssumption DEF TypeOK
<1>5. CloseFacts  BY <1>1, <1>2 DEF CloseFacts
<1> QED  BY <1>1, <1>3, <1>4, <1>5 DEF TypeOK

-----------------------------------------------------------------------------
(* The slots. *)

LEMMA SlotInit == Init => SlotInv
<1> SUFFICES ASSUME Init PROVE SlotInv
  OBVIOUS
<1>1. \A i \in Slots : clients[i].fd = NoFd  BY DEF Init, FreeSlot
<1>2. Used = {}  BY <1>1 DEF Used
<1>3. clientCount = Cardinality(Used)  BY <1>2, FS_EmptySet DEF Init
<1>4. \A c \in Clients : link[c] = "none"  BY DEF Init
<1> QED  BY <1>1, <1>3, <1>4, IpcAssumption DEF Init, SlotInv, Open

\* Connections keep their slots and their state.
SlotsKeep ==
    /\ \A i \in Slots : clients'[i].fd = clients[i].fd
    /\ UNCHANGED <<link, clientCount>> /\ polled' \subseteq polled

LEMMA SlotKeepStep ==
    ASSUME SlotInv, SlotsKeep
    PROVE  SlotInv'
<1>1. Used' = Used  BY DEF SlotsKeep, Used
<1>2. clientCount' = Cardinality(Used')  BY <1>1 DEF SlotInv, SlotsKeep
<1> QED  BY <1>2 DEF SlotInv, SlotsKeep, Open

LEMMA SlotRefuse ==
    ASSUME TypeOK, SlotInv, NEW c \in Clients, RefuseFacts(c)
    PROVE  SlotInv'
<1>1. Used' = Used  BY DEF RefuseFacts, Used
<1>2. clientCount' = Cardinality(Used')  BY <1>1 DEF SlotInv, RefuseFacts
<1>3. \A i \in Slots : clients[i].fd # c  BY DEF SlotInv, RefuseFacts, Open
<1>4. \A d \in Clients : Open(d)' <=> d # c /\ Open(d)  BY DEF RefuseFacts, Open
<1>5. \A d \in Clients : Open(d)' <=> \E i \in Slots : clients'[i].fd = d
  BY <1>3, <1>4 DEF SlotInv, RefuseFacts
<1>6. \A d \in polled' : Open(d)'  BY <1>4 DEF SlotInv, RefuseFacts, TypeOK
<1>7. \A i, j \in Slots : clients'[i].fd = clients'[j].fd /\ clients'[i].fd # NoFd => i = j
  BY DEF SlotInv, RefuseFacts
<1> QED  BY <1>2, <1>5, <1>6, <1>7 DEF SlotInv

LEMMA UsedIsFinite == IsFiniteSet(Used)
BY SlotCount, FS_Subset DEF Used

LEMMA SlotAdmit ==
    ASSUME TypeOK, TypeOK', SlotInv, NEW c \in Clients, NEW i \in Slots, AdmitFacts(c, i)
    PROVE  SlotInv'
<1>0. c # NoFd  BY IpcAssumption
<1>1. Used' = Used \cup {i} /\ i \notin Used  BY <1>0 DEF AdmitFacts, Used, OthersKeep
<1>2. Cardinality(Used \cup {i}) = Cardinality(Used) + 1  BY <1>1, UsedIsFinite, FS_AddElement
<1>3. clientCount' = Cardinality(Used')  BY <1>1, <1>2 DEF SlotInv, AdmitFacts
<1>4. \A j \in Slots : clients[j].fd # c  BY DEF SlotInv, AdmitFacts, Open
<1>5. \A d \in Clients : Open(d)' <=> d = c \/ Open(d)  BY DEF AdmitFacts, Open
<1>6. \A d \in Clients : Open(d)' <=> \E j \in Slots : clients'[j].fd = d
  <2> SUFFICES ASSUME NEW d \in Clients
               PROVE  Open(d)' <=> \E j \in Slots : clients'[j].fd = d
    OBVIOUS
  <2>1. CASE d = c  BY <1>5, <2>1 DEF AdmitFacts
  <2>2. CASE d # c
    <3>1. d # NoFd /\ clients[i].fd = NoFd /\ clients'[i].fd = c  BY IpcAssumption DEF AdmitFacts
    <3>2. \A j \in Slots : clients'[j].fd = d <=> clients[j].fd = d
      BY <2>2, <3>1 DEF AdmitFacts, OthersKeep
    <3> QED  BY <1>5, <2>2, <3>2 DEF SlotInv
  <2> QED  BY <2>1, <2>2
<1>7. \A d \in polled' : Open(d)'  BY <1>5 DEF SlotInv, AdmitFacts, TypeOK
<1>8. \A j, k \in Slots : clients'[j].fd = clients'[k].fd /\ clients'[j].fd # NoFd => j = k
  BY <1>4 DEF SlotInv, AdmitFacts, OthersKeep
<1> QED  BY <1>3, <1>6, <1>7, <1>8 DEF SlotInv

LEMMA SlotDrop ==
    ASSUME TypeOK, SlotInv, NEW c \in Clients, NEW i \in Slots, DropFacts(c, i)
    PROVE  SlotInv'
<1>0. c # NoFd  BY IpcAssumption
<1>1. Used' = Used \ {i} /\ i \in Used  BY <1>0 DEF DropFacts, Used, OthersKeep
<1>2. Cardinality(Used \ {i}) = Cardinality(Used) - 1  BY <1>1, UsedIsFinite, FS_RemoveElement
<1>3. clientCount' = Cardinality(Used')  BY <1>1, <1>2 DEF SlotInv, DropFacts
<1>4. \A d \in Clients : Open(d)' <=> d # c /\ Open(d)  BY DEF DropFacts, Open
<1>5. \A j \in Slots : j # i => clients[j].fd # c  BY <1>0 DEF SlotInv, DropFacts
<1>6. \A d \in Clients : Open(d)' <=> \E j \in Slots : clients'[j].fd = d
  BY <1>4, <1>5, IpcAssumption DEF SlotInv, DropFacts, OthersKeep
<1>7. \A d \in polled' : Open(d)'  BY <1>4 DEF SlotInv, DropFacts, TypeOK
<1>8. \A j, k \in Slots : clients'[j].fd = clients'[k].fd /\ clients'[j].fd # NoFd => j = k
  BY DEF SlotInv, DropFacts, OthersKeep
<1> QED  BY <1>3, <1>6, <1>7, <1>8 DEF SlotInv

LEMMA SlotClose ==
    ASSUME TypeOK, SlotInv, CloseFacts
    PROVE  SlotInv'
<1>1. Used' = {}  BY DEF CloseFacts, Used
<1>2. clientCount' = Cardinality(Used')  BY <1>1, FS_EmptySet DEF CloseFacts
<1>3. \A d \in Clients : ~Open(d)'  BY DEF CloseFacts, Open
<1>4. \A d \in Clients : \A j \in Slots : clients'[j].fd # d  BY IpcAssumption DEF CloseFacts
<1> QED  BY <1>2, <1>3, <1>4 DEF SlotInv, CloseFacts

-----------------------------------------------------------------------------
(* The main thread. *)

\* What the invariant of the main thread reads stays.
MainKeeps ==
    /\ UNCHANGED <<main, cur, asked>> /\ job'[Main] = job[Main]
    /\ main \in {"lines", "send"} => clients'[cur].fd = clients[cur].fd

LEMMA MainKeepStep ==
    ASSUME MainInv, MainKeeps
    PROVE  MainInv'
BY DEF MainInv, MainKeeps, Sending

LEMMA MainRead ==
    ASSUME TypeOK, MainInv, NEW c \in Clients, NEW i \in Slots, NEW n \in Nat, ReadFacts(c, i, n)
    PROVE  MainInv'
BY IpcAssumption DEF MainInv, ReadFacts, Sending

LEMMA MainHandle ==
    ASSUME TypeOK, MainInv, HandleFacts
    PROVE  MainInv'
<1> DEFINE c == clients[cur].fd
<1>1. /\ main' = "send" /\ cur' = cur /\ clients'[cur].fd = c /\ main = "lines"
      /\ job'[Main].slot = cur /\ job'[Main].done = 0
      /\ Len(asked'[c]) = Len(asked[c]) + 1
      /\ job'[Main].msg = asked'[c][Len(asked[c]) + 1]
  BY DEF HandleFacts, TakeFacts
<1>2. c # NoFd /\ c \in Clients /\ Len(asked[c]) \in Nat  BY <1>1 DEF MainInv, TypeOK
<1> HIDE DEF c
<1>3. (main' = "send" <=> Sending(Main)')  BY <1>1 DEF Sending
<1>4. Len(asked'[c]) > 0 /\ job'[Main].msg = asked'[c][Len(asked'[c])]  BY <1>1, <1>2
<1> QED  BY <1>1, <1>2, <1>3, <1>4 DEF MainInv

LEMMA MainSend ==
    ASSUME TypeOK, MainInv, NEW s \in Senders, SendKeeps,
           \A u \in Senders : u # s => job'[u] = job[u],
           Sending(s), job'[s].done \in 0..2,
           job'[s].done < 2 => /\ job'[s].slot = job[s].slot /\ job'[s].msg = job[s].msg
                               /\ main' = main,
           job'[s].done = 2 => main' = IF s = Main THEN "lines" ELSE main
    PROVE  MainInv'
<1>1. CASE s = Main
  <2>1. main = "send"  BY <1>1 DEF MainInv
  <2>2. CASE job'[s].done = 2  BY <1>1, <2>1, <2>2 DEF MainInv, SendKeeps, Sending
  <2>3. CASE job'[s].done < 2  BY <1>1, <2>1, <2>3 DEF MainInv, SendKeeps, Sending
  <2> QED  BY <2>2, <2>3
<1>2. CASE s # Main
  <2>1. main' = main  BY <1>2
  <2>2. job'[Main] = job[Main]  BY <1>2 DEF Senders
  <2> QED  BY <2>1, <2>2 DEF MainInv, SendKeeps, Sending
<1> QED  BY <1>1, <1>2

LEMMA MainClose ==
    ASSUME MainInv, CloseFacts
    PROVE  MainInv'
BY DEF MainInv, CloseFacts, Sending

-----------------------------------------------------------------------------
(* Both, step by step. *)

LEMMA ServerInit == Init => ServerInv
<1> SUFFICES ASSUME Init PROVE MainInv
  BY TypeInit, SlotInit DEF ServerInv
<1> QED  BY IpcAssumption DEF Init, MainInv, Sending, Idle

\* Every step is one of those whose facts are stated above.
Facts ==
    \/ LeaveFacts \/ SignalFacts \/ NoMoreFacts \/ HandleFacts \/ CloseFacts
    \/ \E c \in Clients : RefuseFacts(c)
    \/ \E c \in Clients, i \in Slots : AdmitFacts(c, i) \/ DropFacts(c, i)
    \/ \E c \in Clients, i \in Slots, n \in Nat : ReadFacts(c, i, n)
    \/ \E f \in Nat : SkipFacts(f)
    \/ \E s \in Senders, c \in Clients, n \in Nat : WriteFacts(s, c, n)
    \/ \E s \in Senders : BlockFacts(s) \/ GiveUpFacts(s)
    \/ \E t \in Casters : VisitFacts(t)
    \/ UNCHANGED vars

LEMMA StepFacts ==
    ASSUME ServerInv, [Next]_vars
    PROVE  TypeOK' /\ Facts
<1> USE DEF ServerInv
<1>1. CASE UNCHANGED vars  BY <1>1 DEF TypeOK, vars, Facts
<1>2. ASSUME NEW c \in Clients, ClientLeaves(c) PROVE TypeOK' /\ Facts  BY <1>2, LeaveStep DEF Facts
<1>3. ASSUME NEW c \in Clients, Accept(c) PROVE TypeOK' /\ Facts  BY <1>3, AcceptStep DEF Facts
<1>4. ASSUME NEW c \in Clients, NEW i \in Slots, Drop(c, i) PROVE TypeOK' /\ Facts
  BY <1>4, DropStep DEF Facts
<1>5. ASSUME NEW c \in Clients, NEW i \in Slots, Read(c, i) PROVE TypeOK' /\ Facts
  BY <1>5, ReadStep DEF Facts
<1>6. CASE NoMoreLines  BY <1>6, NoMoreStep DEF Facts
<1>7. CASE SkipLine  BY <1>7, SkipStep DEF Facts
<1>8. CASE HandleLine  BY <1>8, HandleStep DEF Facts
<1>9. ASSUME NEW s \in Senders, Write(s) PROVE TypeOK' /\ Facts  BY <1>9, WriteStep DEF Facts
<1>10. ASSUME NEW s \in Senders, WouldBlock(s) PROVE TypeOK' /\ Facts  BY <1>10, BlockStep DEF Facts
<1>11. ASSUME NEW s \in Senders, GiveUp(s) PROVE TypeOK' /\ Facts  BY <1>11, GiveUpStep DEF Facts
<1>12. ASSUME NEW t \in Casters, StartBroadcast(t) PROVE TypeOK' /\ Facts  BY <1>12, StartStep DEF Facts
<1>13. ASSUME NEW t \in Casters, VisitSlot(t) PROVE TypeOK' /\ Facts  BY <1>13, VisitStep DEF Facts
<1>14. CASE Signal  BY <1>14, SignalStep DEF Facts
<1>15. CASE IpcClose  BY <1>15, CloseStep DEF Facts
<1> QED
  BY <1>1, <1>2, <1>3, <1>4, <1>5, <1>6, <1>7, <1>8, <1>9, <1>10, <1>11, <1>12, <1>13, <1>14, <1>15
  DEF Next, Senders

LEMMA ServerStep == ServerInv /\ [Next]_vars => ServerInv'
<1> SUFFICES ASSUME ServerInv, [Next]_vars PROVE ServerInv'
  OBVIOUS
<1> USE DEF ServerInv
<1>0. TypeOK' /\ Facts  BY StepFacts
<1>1. CASE LeaveFacts
  <2>1. SlotsKeep /\ MainKeeps  BY <1>1 DEF LeaveFacts, SlotsKeep, MainKeeps, server
  <2> QED  BY <1>0, <2>1, SlotKeepStep, MainKeepStep
<1>2. CASE SignalFacts
  <2>1. SlotsKeep /\ MainKeeps  BY <1>2 DEF SignalFacts, SlotsKeep, MainKeeps
  <2> QED  BY <1>0, <2>1, SlotKeepStep, MainKeepStep
<1>3. CASE NoMoreFacts
  <2>1. SlotsKeep  BY <1>3 DEF NoMoreFacts, SlotsKeep
  <2>2. MainInv'  BY <1>3 DEF NoMoreFacts, MainInv, Sending
  <2> QED  BY <1>0, <2>1, <2>2, SlotKeepStep
<1>4. CASE HandleFacts
  <2>1. SlotsKeep  BY <1>4 DEF HandleFacts, TakeFacts, SlotsKeep, OthersKeep
  <2> QED  BY <1>0, <1>4, <2>1, SlotKeepStep, MainHandle
<1>5. CASE CloseFacts  BY <1>0, <1>5, SlotClose, MainClose
<1>6. ASSUME NEW c \in Clients, RefuseFacts(c) PROVE ServerInv'
  <2>1. MainKeeps  BY <1>6 DEF RefuseFacts, MainKeeps
  <2> QED  BY <1>0, <1>6, <2>1, SlotRefuse, MainKeepStep
<1>7. ASSUME NEW c \in Clients, NEW i \in Slots, AdmitFacts(c, i) PROVE ServerInv'
  <2>1. MainKeeps  BY <1>7 DEF AdmitFacts, MainKeeps
  <2> QED  BY <1>0, <1>7, <2>1, SlotAdmit, MainKeepStep
<1>8. ASSUME NEW c \in Clients, NEW i \in Slots, DropFacts(c, i) PROVE ServerInv'
  <2>1. MainKeeps  BY <1>8 DEF DropFacts, MainKeeps
  <2> QED  BY <1>0, <1>8, <2>1, SlotDrop, MainKeepStep
<1>9. ASSUME NEW c \in Clients, NEW i \in Slots, NEW n \in Nat, ReadFacts(c, i, n) PROVE ServerInv'
  <2>1. SlotsKeep  BY <1>9 DEF ReadFacts, SlotsKeep, OthersKeep
  <2> QED  BY <1>0, <1>9, <2>1, SlotKeepStep, MainRead
<1>10. ASSUME NEW f \in Nat, SkipFacts(f) PROVE ServerInv'
  <2>1. SlotsKeep /\ MainKeeps
    BY <1>10 DEF SkipFacts, TakeFacts, SlotsKeep, MainKeeps, OthersKeep
  <2> QED  BY <1>0, <2>1, SlotKeepStep, MainKeepStep
<1>11. ASSUME NEW s \in Senders, NEW c \in Clients, NEW n \in Nat, WriteFacts(s, c, n) PROVE ServerInv'
  <2>1. SlotsKeep  BY <1>11, Zenon DEF WriteFacts, SendKeeps, SlotsKeep
  <2>2. job'[s].done \in 0..2  BY <1>0 DEF TypeOK, Senders
  <2>3. MainInv'  BY <1>11, <2>2, MainSend, Zenon DEF WriteFacts
  <2> QED  BY <1>0, <2>1, <2>3, SlotKeepStep
<1>12. ASSUME NEW s \in Senders, BlockFacts(s) PROVE ServerInv'
  <2>1. SlotsKeep  BY <1>12 DEF BlockFacts, SendKeeps, SlotsKeep
  <2>2. job'[s].done \in 0..2 /\ job'[s].done < 2  BY <1>0, <1>12 DEF TypeOK, Senders, BlockFacts, Sending
  <2>3. MainInv'  BY <1>12, <2>2, MainSend DEF BlockFacts
  <2> QED  BY <1>0, <2>1, <2>3, SlotKeepStep
<1>13. ASSUME NEW s \in Senders, GiveUpFacts(s) PROVE ServerInv'
  <2>1. SlotsKeep  BY <1>13 DEF GiveUpFacts, SendKeeps, SlotsKeep
  <2>2. MainInv'  BY <1>13, MainSend DEF GiveUpFacts
  <2> QED  BY <1>0, <2>1, <2>2, SlotKeepStep
<1>14. ASSUME NEW t \in Casters, VisitFacts(t) PROVE ServerInv'
  <2>1. t # Main /\ Main \in Senders  BY IpcAssumption DEF Senders
  <2>2. SlotsKeep /\ MainKeeps  BY <1>14, <2>1 DEF VisitFacts, CastKeeps, SlotsKeep, MainKeeps
  <2> QED  BY <1>0, <2>2, SlotKeepStep, MainKeepStep
<1>15. CASE UNCHANGED vars
  <2>1. SlotsKeep /\ MainKeeps  BY <1>15 DEF vars, SlotsKeep, MainKeeps
  <2> QED  BY <1>0, <2>1, SlotKeepStep, MainKeepStep
<1> QED
  BY <1>0, <1>1, <1>2, <1>3, <1>4, <1>5, <1>6, <1>7, <1>8, <1>9, <1>10, <1>11, <1>12, <1>13,
     <1>14, <1>15 DEF Facts

\* The slots in use and the open connections are equally many.
LEMMA SlotsCountClients ==
    ASSUME ServerInv
    PROVE  SlotsAreClients
<1> DEFINE O == {c \in Clients : link[c] = "open"}
           g == [i \in Used |-> clients[i].fd]
<1>1. \A i \in Used : i \in Slots /\ clients[i].fd \in Clients /\ clients[i].fd # NoFd
  BY DEF ServerInv, TypeOK, Used
<1>2. {clients[i].fd : i \in Used} = O
  <2>1. \A i \in Used : clients[i].fd \in O  BY <1>1 DEF ServerInv, SlotInv, Open
  <2>2. \A c \in O : \E i \in Used : clients[i].fd = c
    BY IpcAssumption DEF ServerInv, SlotInv, Open, Used
  <2> QED  BY <2>1, <2>2
<1>3. g \in Bijection(Used, O)
  <2>1. g \in [Used -> O]  BY <1>2
  <2>2. \A i, j \in Used : g[i] = g[j] => i = j  BY <1>1 DEF ServerInv, SlotInv
  <2>3. \A c \in O : \E i \in Used : g[i] = c  BY <1>2
  <2> QED  BY <2>1, <2>2, <2>3 DEF Bijection, Injection, Surjection, IsInjective
<1>4. ExistsBijection(Used, O)  BY <1>3 DEF ExistsBijection
<1>5. Cardinality(Used) = Cardinality(O)  BY <1>4, UsedIsFinite, FS_Bijection
<1>6. polled \subseteq O  BY DEF ServerInv, SlotInv, TypeOK, Open
<1>7. clientCount = Cardinality(Used)  BY DEF ServerInv, SlotInv
<1> QED  BY <1>2, <1>5, <1>6, <1>7 DEF SlotsAreClients

-----------------------------------------------------------------------------
(* The lines of a client. *)

\* A newline is no request.
LEMMA NewlineIsNoRequest ==
    ASSUME NEW t, NEW k, t[k].kind = Newline
    PROVE  ~Request(t, k)
BY DEF Request, Kinds, Newline

\* With no newline in the buffer, every request read is taken up.
LEMMA AllTaken ==
    ASSUME NEW t \in Seq(Piece), NEW q \in Seq(Nat), NEW b \in Seq(Piece), NEW p \in Nat,
           BufOK(t, q, b, p), NoNewline(b)
    PROVE  \A k \in 1..(p + Len(b) - 1) : Request(t, k) => IsIn(q, k)
<1> SUFFICES ASSUME NEW k \in 1..(p + Len(b) - 1), Request(t, k) PROVE IsIn(q, k)
  OBVIOUS
<1>0. Len(b) \in Nat  OBVIOUS
<1>1. CASE k < p
  <2>1. k \in 1..(p - 1)  BY <1>1
  <2> QED  BY <2>1 DEF BufOK
<1>2. CASE k = p  BY <1>2, NewlineIsNoRequest DEF BufOK
<1>3. CASE k > p
  <2>1. (k + 1) - p \in 1..Len(b) /\ p + ((k + 1) - p) = k + 1  BY <1>0, <1>3
  <2>2. b[(k + 1) - p] = t[k + 1]  BY <2>1 DEF BufOK
  <2>3. t[k + 1].kind = Newline  BY DEF Request
  <2> QED  BY <2>1, <2>2, <2>3 DEF NoNewline
<1> QED  BY <1>1, <1>2, <1>3

\* More is read behind the buffer.
LEMMA BufGrows ==
    ASSUME NEW t \in Seq(Piece), NEW q \in Seq(Nat), NEW b \in Seq(Piece), NEW p \in Nat,
           BufOK(t, q, b, p), NEW n \in Nat, NEW e \in Seq(Piece), Len(e) = Len(b) + n,
           \A k \in 1..Len(b) : e[k] = b[k],
           \A k \in 1..n : e[Len(b) + k] = t[p + Len(b) + k]
    PROVE  BufOK(t, q, e, p)
<1>0. Len(b) \in Nat  OBVIOUS
<1>1. ASSUME NEW k \in 1..Len(e) PROVE e[k] = t[p + k]
  <2>1. CASE k <= Len(b)
    <3>1. k \in 1..Len(b)  BY <1>0, <2>1
    <3> QED  BY <3>1 DEF BufOK
  <2>2. CASE k > Len(b)
    <3>0. k - Len(b) \in Nat  BY <1>0, <1>1, <2>2
    <3>1. PICK m \in Nat : m = k - Len(b)  BY <3>0
    <3>2. m \in 1..n /\ Len(b) + m = k /\ p + Len(b) + m = p + k  BY <1>0, <2>2, <3>1
    <3> QED  BY <3>2
  <2> QED  BY <1>0, <2>1, <2>2
<1> QED  BY <1>1 DEF BufOK

\* A line of f pieces is taken off the buffer.
LEMMA BufTakes ==
    ASSUME NEW t \in Seq(Piece), NEW q \in Seq(Nat), NEW b \in Seq(Piece), NEW p \in Nat,
           BufOK(t, q, b, p), NEW f \in 1..Len(b), b[f].kind = Newline,
           \A j \in 1..(f - 1) : b[j].kind # Newline,
           NEW e \in Seq(Piece), Len(e) = Len(b) - f, \A k \in 1..Len(e) : e[k] = b[f + k],
           NEW r \in Seq(Nat), \A k \in Nat : IsIn(q, k) => IsIn(r, k),
           \A j \in 1..Len(r) : r[j] < p + f,
           f = 2 /\ b[1].kind # "malformed" => IsIn(r, p + 1)
    PROVE  BufOK(t, r, e, p + f)
<1>0. Len(b) \in Nat /\ Len(e) \in Nat /\ f \in Nat /\ p + f \in Nat  OBVIOUS
<1>1. ASSUME NEW k \in 1..Len(e) PROVE e[k] = t[(p + f) + k]
  <2>0. k \in Nat /\ k >= 1 /\ k <= Len(b) - f  BY <1>0
  <2>1. f + k \in 1..Len(b) /\ p + (f + k) = (p + f) + k  BY <1>0, <2>0
  <2> QED  BY <2>1 DEF BufOK
<1>2. t[p + f].kind = Newline  BY DEF BufOK
<1>3. ASSUME NEW k \in 1..((p + f) - 1), Request(t, k) PROVE IsIn(r, k)
  <2>1. CASE k < p
    <3>1. k \in 1..(p - 1) /\ k \in Nat  BY <2>1
    <3> QED  BY <1>3, <3>1 DEF BufOK
  <2>2. CASE k = p  BY <1>3, <2>2, NewlineIsNoRequest DEF BufOK
  <2>3. CASE k > p
    <3>1. PICK m \in Nat : m = k - p  BY <2>3
    <3>2. m \in 1..(f - 1) /\ k = p + m /\ m + 1 \in 1..Len(b) /\ m \in 1..Len(b)
          /\ p + (m + 1) = k + 1
      BY <1>0, <2>3, <3>1
    <3>3. b[m + 1] = t[k + 1] /\ b[m] = t[k]  BY <3>2 DEF BufOK
    <3>4. b[m + 1].kind = Newline  BY <1>3, <3>3 DEF Request
    <3>5. m + 1 = f  BY <1>0, <3>2, <3>4
    <3>6. CASE m > 1
      <4>1. k > 1 /\ m - 1 \in 1..(f - 1) /\ m - 1 \in 1..Len(b) /\ p + (m - 1) = k - 1
        BY <1>0, <3>2, <3>6
      <4>2. b[m - 1] = t[k - 1]  BY <4>1 DEF BufOK
      <4>3. t[k - 1].kind = Newline  BY <1>3, <4>1 DEF Request
      <4> QED  BY <4>1, <4>2, <4>3
    <3>7. CASE m = 1
      <4>1. f = 2 /\ k = p + 1  BY <3>2, <3>5, <3>7
      <4>2. b[1].kind # "malformed"  BY <1>3, <3>3, <3>7 DEF Request
      <4> QED  BY <4>1, <4>2
    <3> QED  BY <3>2, <3>6, <3>7
  <2> QED  BY <1>0, <2>1, <2>2, <2>3
<1> QED  BY <1>1, <1>2, <1>3 DEF BufOK

\* A piece by itself on a line that parses is a request.
LEMMA LineIsRequest ==
    ASSUME NEW t \in Seq(Piece), NEW q \in Seq(Nat), NEW b \in Seq(Piece), NEW p \in Nat,
           BufOK(t, q, b, p), p + Len(b) <= Len(t), Len(b) >= 2,
           b[1].kind # Newline, b[1].kind # "malformed", b[2].kind = Newline
    PROVE  p + 1 \in 1..Len(t) /\ Request(t, p + 1)
<1>0. Len(b) \in Nat /\ Len(t) \in Nat /\ 1 \in 1..Len(b) /\ 2 \in 1..Len(b)  OBVIOUS
<1>1. b[1] = t[p + 1] /\ b[2] = t[p + 2] /\ b[1] \in Piece  BY <1>0 DEF BufOK
<1>2. t[p + 1].kind \in Kinds \ {"malformed"}  BY <1>1 DEF Piece
<1>3. p + 1 \in 1..Len(t) /\ (p + 1) + 1 \in 1..Len(t) /\ (p + 1) + 1 = p + 2 /\ (p + 1) - 1 = p
      /\ (p + 1 > 1 => p > 0)
  BY <1>0
<1>4. p > 0 => t[p].kind = Newline  BY DEF BufOK
<1> QED  BY <1>1, <1>2, <1>3, <1>4 DEF Request

-----------------------------------------------------------------------------
(* The input of all clients. *)

LEMMA InputInit == Init => InputInv
<1> SUFFICES ASSUME Init PROVE InputInv
  OBVIOUS
<1>0. TypeOK  BY TypeInit
<1>1. \A i \in Slots : clients[i].fd = NoFd  BY DEF Init, FreeSlot
<1>2. \A c \in Clients : /\ got[c] = 0 /\ asked[c] = <<>> /\ Len(asked[c]) = 0
                          /\ \A s \in Senders : out[c][s] = <<>>
  BY DEF Init, Senders
<1>3. \A c \in Clients : \A k \in 1..Len(told[c]) : told[c][k].n = k
  <2>1. PICK lines \in Scripts : told = [c \in Clients |->
          [k \in DOMAIN lines[c] |-> [kind |-> lines[c][k], n |-> k]]]  BY DEF Init
  <2>2. \A c \in Clients : lines[c] \in Seq(Kinds \cup {Newline})  BY ScriptAssumption
  <2> SUFFICES ASSUME NEW c \in Clients, NEW k \in 1..Len(told[c]) PROVE told[c][k].n = k
    OBVIOUS
  <2>3. told[c] = [j \in 1..Len(lines[c]) |-> [kind |-> lines[c][j], n |-> j]]  BY <2>1, <2>2
  <2>4. told[c] \in Seq(Piece)  BY <1>0 DEF TypeOK
  <2>5. DOMAIN told[c] = 1..Len(told[c]) /\ DOMAIN told[c] = 1..Len(lines[c])  BY <2>3, <2>4
  <2>6. k \in 1..Len(lines[c])  BY <2>5
  <2> QED  BY <2>3, <2>6
<1>4. AskedInv  BY <1>2, <1>3 DEF AskedInv, AskOK
<1> QED  BY <1>1, <1>2, <1>4 DEF InputInv, BufferInv, FreshInv

LEMMA InputKeep ==
    ASSUME InputInv, FreshInv', UNCHANGED <<got, asked, told, link>>,
           \A i \in Slots : clients'[i].fd = clients[i].fd /\ clients'[i].buf = clients[i].buf,
           \A i \in Slots : clients[i].fd # NoFd /\ ~Busy(i)' => NoNewline(clients[i].buf)
    PROVE  InputInv'
<1>1. AskedInv'  BY DEF InputInv, AskedInv, Open
<1>2. BufferInv'  BY DEF InputInv, BufferInv
<1> QED  BY <1>1, <1>2 DEF InputInv

LEMMA InputRefuse ==
    ASSUME TypeOK, SlotInv, InputInv, NEW c \in Clients, RefuseFacts(c)
    PROVE  InputInv'
<1>0. UNCHANGED <<clients, main, cur, got, asked, told, out>>  BY DEF RefuseFacts
<1>1. BufferInv'  BY <1>0 DEF InputInv, BufferInv, Busy
<1>2. \A d \in Clients : d # c => (link'[d] = link[d])  BY DEF RefuseFacts
<1>3. link'[c] = "closed" /\ link[c] = "none"  BY DEF RefuseFacts
<1>4. FreshInv'  BY <1>0, <1>2, <1>3 DEF InputInv, FreshInv
<1>5. got[c] = 0  BY <1>3 DEF InputInv, FreshInv
<1>6. AskedInv'  BY <1>0, <1>2, <1>3, <1>5 DEF InputInv, AskedInv, Open
<1> QED  BY <1>1, <1>4, <1>6 DEF InputInv

LEMMA InputAdmit ==
    ASSUME TypeOK, SlotInv, InputInv, NEW c \in Clients, NEW i \in Slots, AdmitFacts(c, i)
    PROVE  InputInv'
<1>0. UNCHANGED <<main, cur, got, asked, told, out>>  BY DEF AdmitFacts
<1>1. got[c] = 0 /\ asked[c] = <<>>  BY DEF AdmitFacts, InputInv, FreshInv
<1>2. BufferInv'
  <2> SUFFICES ASSUME NEW j \in Slots, clients'[j].fd # NoFd
               PROVE  LET d == clients'[j].fd
                          b == clients'[j].buf
                      IN /\ Len(b) <= got'[d] /\ BufOK(told'[d], asked'[d], b, got'[d] - Len(b))
                         /\ Busy(j)' \/ NoNewline(b)
    BY DEF BufferInv
  <2>1. CASE j = i
    <3>1. clients'[j].fd = c /\ clients'[j].buf = <<>>  BY <2>1 DEF AdmitFacts
    <3>2. Len(<<>>) = 0 /\ 0 - 0 = 0  OBVIOUS
    <3>3. BufOK(told[c], <<>>, <<>>, 0)  BY <3>2 DEF BufOK
    <3>4. NoNewline(<<>>)  BY <3>2 DEF NoNewline
    <3> QED  BY <1>0, <1>1, <3>1, <3>2, <3>3, <3>4
  <2>2. CASE j # i
    <3>1. clients'[j] = clients[j]  BY <2>2 DEF AdmitFacts, OthersKeep
    <3> QED  BY <1>0, <3>1 DEF InputInv, BufferInv, Busy
  <2> QED  BY <2>1, <2>2
<1>3. \A d \in Clients : d # c => (link'[d] = link[d])  BY DEF AdmitFacts
<1>4. link'[c] = "open"  BY DEF AdmitFacts
<1>5. FreshInv'  BY <1>0, <1>3, <1>4 DEF InputInv, FreshInv
<1>6. AskedInv'  BY <1>0, <1>3, <1>4 DEF InputInv, AskedInv, Open
<1> QED  BY <1>2, <1>5, <1>6 DEF InputInv

\* A connection whose lines are done has had all its requests taken up.
LEMMA DoneIsTaken ==
    ASSUME TypeOK, InputInv, NEW i \in Slots, clients[i].fd \in Clients, ~Busy(i)
    PROVE  LET c == clients[i].fd
           IN \A k \in 1..(got[c] - 1) : Request(told[c], k) => IsIn(asked[c], k)
<1> DEFINE c == clients[i].fd
           b == clients[i].buf
           t == told[c]
           q == asked[c]
           p == got[c] - Len(b)
<1>1. t \in Seq(Piece) /\ q \in Seq(Nat) /\ b \in Seq(Piece) /\ got[c] \in Nat /\ Len(b) \in Nat
  BY DEF TypeOK
<1>2. Len(b) <= got[c] /\ BufOK(t, q, b, p) /\ NoNewline(b)
  BY IpcAssumption DEF InputInv, BufferInv
<1>3. p \in Nat /\ p + Len(b) - 1 = got[c] - 1  BY <1>1, <1>2
<1> HIDE DEF b, t, q, p
<1>4. \A k \in 1..(p + Len(b) - 1) : Request(t, k) => IsIn(q, k)  BY <1>1, <1>2, <1>3, AllTaken
<1>5. \A k \in 1..(got[c] - 1) : Request(t, k) => IsIn(q, k)  BY <1>3, <1>4
<1> QED  BY <1>5 DEF t, q

LEMMA InputDrop ==
    ASSUME TypeOK, SlotInv, InputInv, NEW c \in Clients, NEW i \in Slots, DropFacts(c, i)
    PROVE  InputInv'
<1>0. UNCHANGED <<main, cur, got, asked, told, out>> /\ clients[i].fd = c /\ main = "poll"
  BY DEF DropFacts
<1>1. \A k \in 1..(got[c] - 1) : Request(told[c], k) => IsIn(asked[c], k)
  BY <1>0, DoneIsTaken DEF Busy
<1>2. BufferInv'
  <2>1. \A j \in Slots : clients'[j].fd # NoFd => clients'[j] = clients[j]
    BY DEF DropFacts, OthersKeep
  <2> QED  BY <1>0, <2>1 DEF InputInv, BufferInv, Busy
<1>3. \A d \in Clients : d # c => (link'[d] = link[d])  BY DEF DropFacts
<1>4. link'[c] = "closed"  BY DEF DropFacts
<1>5. FreshInv'  BY <1>0, <1>3, <1>4 DEF InputInv, FreshInv
<1>6. AskedInv'  BY <1>0, <1>1, <1>3, <1>4 DEF InputInv, AskedInv, Open
<1> QED  BY <1>2, <1>5, <1>6 DEF InputInv

LEMMA InputClose ==
    ASSUME TypeOK, SlotInv, InputInv, CloseFacts
    PROVE  InputInv'
<1>0. UNCHANGED <<cur, got, asked, told, out>> /\ main = "poll"  BY DEF CloseFacts
<1>1. ASSUME NEW c \in Clients
      PROVE  \A k \in 1..(got[c] - 1) : Request(told[c], k) => IsIn(asked[c], k)
  <2>1. CASE Open(c)
    <3>1. PICK i \in Slots : clients[i].fd = c  BY <2>1 DEF SlotInv
    <3> QED  BY <1>0, <3>1, DoneIsTaken DEF Busy
  <2>2. CASE ~Open(c)  BY <2>2 DEF InputInv, AskedInv
  <2> QED  BY <2>1, <2>2
<1>2. BufferInv'  BY DEF CloseFacts, BufferInv
<1>3. \A c \in Clients : link'[c] = "none" => link[c] = "none"  BY DEF CloseFacts
<1>4. FreshInv'  BY <1>0, <1>3 DEF InputInv, FreshInv
<1>5. AskedInv'  BY <1>0, <1>1 DEF InputInv, AskedInv
<1> QED  BY <1>2, <1>4, <1>5 DEF InputInv

LEMMA InputRead ==
    ASSUME TypeOK, TypeOK', SlotInv, InputInv, NEW c \in Clients, NEW i \in Slots, NEW n \in Nat,
           ReadFacts(c, i, n)
    PROVE  InputInv'
<1>0. UNCHANGED <<link, asked, told, out>> /\ clients[i].fd = c /\ clients'[i].fd = c /\ main = "poll"
      /\ main' = "lines" /\ cur' = i
  BY DEF ReadFacts
<1>1. \A j \in Slots : j # i => clients[j].fd # c  BY <1>0, IpcAssumption DEF SlotInv
<1> DEFINE b == clients[i].buf
           e == clients'[i].buf
           t == told[c]
           q == asked[c]
           p == got[c] - Len(b)
<1>2. t \in Seq(Piece) /\ q \in Seq(Nat) /\ b \in Seq(Piece) /\ e \in Seq(Piece) /\ got[c] \in Nat
      /\ Len(b) \in Nat
  BY SMTT(30) DEF TypeOK
<1>3. Len(b) <= got[c] /\ BufOK(t, q, b, p)  BY <1>0, IpcAssumption DEF InputInv, BufferInv
<1>4. p \in Nat /\ p + Len(b) = got[c]  BY <1>2, <1>3
<1>5. Len(e) = Len(b) + n /\ (\A k \in 1..Len(b) : e[k] = b[k])
      /\ (\A k \in 1..n : e[Len(b) + k] = t[got[c] + k]) /\ got'[c] = got[c] + n
  BY DEF ReadFacts
<1>6. Len(e) <= got'[c] /\ got'[c] - Len(e) = p  BY <1>2, <1>3, <1>5
<1>7. BufOK(t, q, e, p)
  <2> HIDE DEF b, e, t, q, p
  <2>1. \A k \in 1..n : e[Len(b) + k] = t[p + Len(b) + k]  BY <1>4, <1>5
  <2> QED  BY <1>2, <1>3, <1>4, <1>5, <2>1, BufGrows
<1>8. BufferInv'
  <2> SUFFICES ASSUME NEW j \in Slots, clients'[j].fd # NoFd
               PROVE  LET d == clients'[j].fd
                          x == clients'[j].buf
                      IN /\ Len(x) <= got'[d] /\ BufOK(told'[d], asked'[d], x, got'[d] - Len(x))
                         /\ Busy(j)' \/ NoNewline(x)
    BY DEF BufferInv
  <2>1. CASE j = i
    <3>1. Busy(j)'  BY <1>0, <2>1 DEF Busy
    <3>2. BufOK(told'[c], asked'[c], e, got'[c] - Len(e))  BY <1>0, <1>6, <1>7
    <3> QED  BY <1>0, <1>6, <2>1, <3>1, <3>2
  <2>2. CASE j # i
    <3>1. clients'[j] = clients[j] /\ clients[j].fd # c  BY <1>1, <2>2 DEF ReadFacts, OthersKeep
    <3>2. clients[j].fd \in Clients  BY <3>1 DEF TypeOK
    <3>3. got'[clients[j].fd] = got[clients[j].fd]  BY <3>1, <3>2 DEF ReadFacts
    <3>4. ~Busy(j)  BY <1>0 DEF Busy
    <3> QED  BY <1>0, <3>1, <3>3, <3>4 DEF InputInv, BufferInv
  <2> QED  BY <2>1, <2>2
<1>9. Open(c) /\ \A d \in Clients : d # c => got'[d] = got[d]  BY <1>0 DEF SlotInv, ReadFacts
<1>10. FreshInv'  BY <1>0, <1>9 DEF InputInv, FreshInv, Open
<1>11. AskedInv'  BY <1>0, <1>9 DEF InputInv, AskedInv, Open
<1> QED  BY <1>8, <1>10, <1>11 DEF InputInv

\* A line is taken off the buffer of the client served.
LEMMA BufferTake ==
    ASSUME TypeOK, TypeOK', SlotInv, MainInv, BufferInv, NEW f \in Nat, TakeFacts(f),
           main' \in {"lines", "send"}, NEW c \in Clients, c = clients[cur].fd,
           \A d \in Clients : d # c => asked'[d] = asked[d],
           \A k \in Nat : IsIn(asked[c], k) => IsIn(asked'[c], k),
           \A j \in 1..Len(asked'[c]) : asked'[c][j] < (got[c] - Len(clients[cur].buf)) + f,
           f = 2 /\ clients[cur].buf[1].kind # "malformed" =>
               IsIn(asked'[c], (got[c] - Len(clients[cur].buf)) + 1)
    PROVE  BufferInv'
<1> DEFINE b == clients[cur].buf
           e == clients'[cur].buf
           t == told[c]
           q == asked[c]
           r == asked'[c]
           p == got[c] - Len(b)
<1>0. /\ UNCHANGED <<cur, got, told>> /\ main = "lines" /\ clients'[cur].fd = c /\ cur \in Slots
      /\ c # NoFd
  BY IpcAssumption DEF TakeFacts, TypeOK
<1>1. t \in Seq(Piece) /\ q \in Seq(Nat) /\ r \in Seq(Nat) /\ b \in Seq(Piece) /\ e \in Seq(Piece)
      /\ got[c] \in Nat /\ Len(b) \in Nat
  BY <1>0 DEF TypeOK
<1>2. Len(b) <= got[c] /\ BufOK(t, q, b, p)  BY <1>0 DEF BufferInv
<1>3. p \in Nat  BY <1>1, <1>2
<1>4. /\ f \in 1..Len(b) /\ b[f].kind = Newline /\ (\A j \in 1..(f - 1) : b[j].kind # Newline)
      /\ Len(e) = Len(b) - f /\ (\A k \in 1..Len(e) : e[k] = b[f + k])
  BY DEF TakeFacts
<1>5. /\ \A k \in Nat : IsIn(q, k) => IsIn(r, k)
      /\ \A j \in 1..Len(r) : r[j] < p + f
      /\ f = 2 /\ b[1].kind # "malformed" => IsIn(r, p + 1)
  OBVIOUS
<1>6. BufOK(t, r, e, p + f)
  <2> HIDE DEF b, e, t, q, r, p
  <2> QED  BY ZenonT(30), <1>1, <1>2, <1>3, <1>4, <1>5, BufTakes
<1>7. got[c] - Len(e) = p + f /\ Len(e) <= got[c]  BY SMTT(30), <1>1, <1>2, <1>4
<1> SUFFICES ASSUME NEW j \in Slots, clients'[j].fd # NoFd
             PROVE  LET d == clients'[j].fd
                        x == clients'[j].buf
                    IN /\ Len(x) <= got'[d] /\ BufOK(told'[d], asked'[d], x, got'[d] - Len(x))
                       /\ Busy(j)' \/ NoNewline(x)
  BY DEF BufferInv
<1>8. CASE j = cur
  <2>1. Busy(j)'  BY <1>0, <1>8 DEF Busy
  <2>2. BufOK(told'[c], asked'[c], e, got'[c] - Len(e))  BY <1>0, <1>6, <1>7
  <2> QED  BY <1>0, <1>7, <1>8, <2>1, <2>2
<1>9. CASE j # cur
  <2>1. clients'[j] = clients[j]  BY <1>9 DEF TakeFacts, OthersKeep
  <2>2. clients[j].fd # c /\ clients[j].fd \in Clients  BY <1>0, <1>9, <2>1 DEF SlotInv, TypeOK
  <2>3. asked'[clients[j].fd] = asked[clients[j].fd]  BY <2>2
  <2>4. ~Busy(j)  BY <1>9 DEF Busy
  <2> QED  BY <1>0, <2>1, <2>3, <2>4 DEF BufferInv
<1> QED  BY <1>8, <1>9

LEMMA InputSkip ==
    ASSUME TypeOK, TypeOK', SlotInv, MainInv, InputInv, NEW f \in Nat, SkipFacts(f)
    PROVE  InputInv'
<1> DEFINE c == clients[cur].fd
           b == clients[cur].buf
<1>0. /\ UNCHANGED <<main, link, got, told, asked, out>> /\ main = "lines" /\ TakeFacts(f)
      /\ (f = 2 => b[1].kind = "malformed") /\ f \in 1..Len(b)
  BY DEF SkipFacts, TakeFacts
<1>1. c \in Clients /\ cur \in Slots /\ c # NoFd  BY <1>0 DEF MainInv, TypeOK
<1>2. got[c] \in Nat /\ b \in Seq(Piece) /\ asked[c] \in Seq(Nat)  BY <1>1 DEF TypeOK
<1>3. Len(b) <= got[c] /\ \A j \in 1..Len(asked[c]) : asked[c][j] < got[c] - Len(b)
  BY <1>1 DEF InputInv, BufferInv, BufOK
<1>4. \A j \in 1..Len(asked'[c]) : asked'[c][j] < (got[c] - Len(b)) + f
  <2> SUFFICES ASSUME NEW j \in 1..Len(asked[c]) PROVE asked[c][j] < (got[c] - Len(b)) + f
    BY <1>0
  <2> HIDE DEF b, c
  <2>1. asked[c][j] \in Nat /\ asked[c][j] < got[c] - Len(b) /\ Len(b) \in Nat
    <3>1. asked[c][j] \in Nat  BY <1>2
    <3>2. asked[c][j] < got[c] - Len(b)  BY <1>3
    <3> QED  BY <1>2, <3>1, <3>2
  <2> QED  BY <1>2, <2>1
<1>5. BufferInv'
  <2> HIDE DEF b
  <2>1. main' \in {"lines", "send"}  BY <1>0
  <2>2. /\ \A d \in Clients : d # c => asked'[d] = asked[d]
        /\ \A k \in Nat : IsIn(asked[c], k) => IsIn(asked'[c], k)
    BY <1>0
  <2>3. ~(f = 2 /\ b[1].kind # "malformed")  BY <1>0
  <2>4. BufferInv  BY DEF InputInv
  <2> QED  BY <1>0, <1>1, <1>4, <2>1, <2>2, <2>3, <2>4, BufferTake DEF b
<1>6. AskedInv' /\ FreshInv'  BY <1>0 DEF InputInv, AskedInv, FreshInv, Open
<1> QED  BY <1>5, <1>6 DEF InputInv

\* What a request adds to those taken up.
LEMMA HandleAsks ==
    ASSUME TypeOK, TypeOK', SlotInv, MainInv, InputInv, HandleFacts
    PROVE  LET c == clients[cur].fd
               p == got[c] - Len(clients[cur].buf)
           IN /\ c \in Clients /\ c # NoFd /\ p \in Nat
              /\ Len(asked'[c]) = Len(asked[c]) + 1 /\ asked'[c][Len(asked[c]) + 1] = p + 1
              /\ \A j \in 1..Len(asked[c]) : asked'[c][j] = asked[c][j] /\ asked[c][j] < p
              /\ p + 1 \in 1..Len(told[c]) /\ Request(told[c], p + 1)
              /\ clients[cur].buf[1] = told[c][p + 1]
<1> DEFINE c == clients[cur].fd
           b == clients[cur].buf
           t == told[c]
           q == asked[c]
           p == got[c] - Len(b)
<1>0. main = "lines" /\ TakeFacts(2) /\ b[1].kind # "malformed"  BY DEF HandleFacts, TakeFacts
<1>1. c \in Clients /\ cur \in Slots /\ c # NoFd  BY <1>0 DEF MainInv, TypeOK
<1>2. t \in Seq(Piece) /\ q \in Seq(Nat) /\ b \in Seq(Piece) /\ got[c] \in Nat /\ Len(b) \in Nat
      /\ got[c] <= Len(t) /\ Len(t) \in Nat
  BY SMTT(30), <1>1 DEF TypeOK
<1>3. Len(b) <= got[c] /\ BufOK(t, q, b, p)  BY <1>1 DEF InputInv, BufferInv
<1>4. p \in Nat /\ p + Len(b) <= Len(t)  BY <1>2, <1>3
<1>5. 2 \in 1..Len(b) /\ b[2].kind = Newline /\ b[1].kind # Newline
  BY <1>0 DEF TakeFacts
<1>6. p + 1 \in 1..Len(t) /\ Request(t, p + 1)
  <2> HIDE DEF b, t, q, p
  <2>1. Len(b) >= 2  BY <1>2, <1>5
  <2> QED  BY <1>0, <1>2, <1>3, <1>4, <1>5, <2>1, LineIsRequest
<1>7. b[1] = t[p + 1]
  <2> HIDE DEF b, t, q, p
  <2>1. 1 \in 1..Len(b)  BY <1>2, <1>5
  <2> QED  BY <1>3, <2>1 DEF BufOK
<1>8. t[p + 1].n = p + 1  BY <1>1, <1>6 DEF InputInv, AskedInv
<1>9. Len(asked'[c]) = Len(q) + 1 /\ asked'[c][Len(q) + 1] = b[1].n
      /\ \A j \in 1..Len(q) : asked'[c][j] = q[j]
  BY DEF HandleFacts
<1>10. \A j \in 1..Len(q) : q[j] < p  BY <1>3 DEF BufOK
<1> QED  BY ZenonT(30), <1>1, <1>4, <1>6, <1>7, <1>8, <1>9, <1>10

LEMMA InputHandle ==
    ASSUME TypeOK, TypeOK', SlotInv, MainInv, InputInv, HandleFacts
    PROVE  InputInv'
<1> DEFINE c == clients[cur].fd
           t == told[c]
           q == asked[c]
           r == asked'[c]
           p == got[c] - Len(clients[cur].buf)
<1>0. /\ c \in Clients /\ c # NoFd /\ p \in Nat
      /\ Len(r) = Len(q) + 1 /\ r[Len(q) + 1] = p + 1
      /\ (\A j \in 1..Len(q) : r[j] = q[j] /\ q[j] < p)
      /\ p + 1 \in 1..Len(t) /\ Request(t, p + 1)
  BY SMTT(30), HandleAsks
<1>1. /\ UNCHANGED <<link, got, told, out>> /\ main' = "send" /\ main = "lines" /\ TakeFacts(2)
      /\ \A d \in Clients : d # c => asked'[d] = asked[d]
  BY DEF HandleFacts, TakeFacts
<1>2. q \in Seq(Nat) /\ r \in Seq(Nat) /\ Len(q) \in Nat /\ Len(r) \in Nat
  <2>1. asked \in [Clients -> Seq(Nat)] /\ asked' \in [Clients -> Seq(Nat)]  BY DEF TypeOK
  <2>2. q \in Seq(Nat) /\ r \in Seq(Nat)
    <3> HIDE DEF c
    <3> QED  BY <1>0, <2>1
  <2> HIDE DEF q, r
  <2> QED  BY <2>2
<1>3. BufferInv /\ AskOK(t, q)  BY <1>0 DEF InputInv, AskedInv
<1>4. /\ \A k \in Nat : IsIn(q, k) => IsIn(r, k)
      /\ \A j \in 1..Len(r) : r[j] < p + 2
      /\ IsIn(r, p + 1)
  <2> HIDE DEF q, r, p, c, t
  <2>1. ASSUME NEW k \in Nat, IsIn(q, k) PROVE IsIn(r, k)
    <3>1. PICK j \in 1..Len(q) : q[j] = k  BY <2>1 DEF IsIn
    <3>2. j \in 1..Len(r) /\ r[j] = k  BY <1>0, <1>2, <3>1
    <3> QED  BY <3>2 DEF IsIn
  <2>2. ASSUME NEW j \in 1..Len(r) PROVE r[j] < p + 2
    <3>1. CASE j \in 1..Len(q)
      <4>1. r[j] \in Nat  BY <1>2
      <4>2. r[j] < p  BY <1>0, <3>1
      <4> QED  BY <1>0, <4>1, <4>2
    <3>2. CASE j = Len(q) + 1  BY <1>0, <3>2
    <3> QED  BY <1>0, <1>2, <3>1, <3>2
  <2>3. Len(q) + 1 \in 1..Len(r)  BY <1>0, <1>2
  <2>4. IsIn(r, p + 1)  BY <1>0, <2>3 DEF IsIn
  <2> QED  BY <2>1, <2>2, <2>4
<1>5. BufferInv'
  <2>1. main' \in {"lines", "send"}  BY <1>1
  <2> QED  BY ZenonT(30), <1>0, <1>1, <1>3, <1>4, <2>1, BufferTake
<1>6. AskOK(t, r)
  <2> HIDE DEF q, r, p, c, t
  <2> SUFFICES ASSUME NEW j \in 1..Len(r)
               PROVE  /\ r[j] \in 1..Len(t) /\ Request(t, r[j])
                      /\ j > 1 => r[j - 1] < r[j]
    BY DEF AskOK
  <2>1. CASE j \in 1..Len(q)
    <3>1. r[j] = q[j] /\ (j > 1 => r[j - 1] = q[j - 1])
      <4>1. j > 1 => j - 1 \in 1..Len(q)  BY <1>2, <2>1
      <4> QED  BY <1>0, <2>1, <4>1
    <3> QED  BY <1>3, <2>1, <3>1 DEF AskOK
  <2>2. CASE j = Len(q) + 1
    <3>1. j > 1 => (j - 1 \in 1..Len(q) /\ j - 1 \in 1..Len(r))  BY <1>0, <1>2, <2>2
    <3>4. \A k \in 1..Len(r) : r[k] \in Nat  BY <1>2
    <3>5. \A k \in 1..Len(q) : r[k] < p  BY <1>0
    <3>2. j > 1 => (r[j - 1] < p /\ r[j - 1] \in Nat)  BY <3>1, <3>4, <3>5
    <3>3. j > 1 => r[j - 1] < p + 1  BY <1>0, <3>2
    <3> QED  BY <1>0, <2>2, <3>3
  <2> QED  BY <1>0, <1>2, <2>1, <2>2
<1>7. Open(c) /\ link' = link /\ clients[cur].fd = c /\ cur \in Slots
  BY <1>0, <1>1 DEF SlotInv, TypeOK
<1>8. AskedInv'
  <2> SUFFICES ASSUME NEW d \in Clients
               PROVE  /\ AskOK(told'[d], asked'[d])
                      /\ \A k \in 1..Len(told'[d]) : told'[d][k].n = k
                      /\ ~Open(d)' => \A k \in 1..(got'[d] - 1) :
                                         Request(told'[d], k) => IsIn(asked'[d], k)
    BY DEF AskedInv
  <2>1. CASE d = c  BY <1>1, <1>6, <1>7, <2>1 DEF InputInv, AskedInv, Open
  <2>2. CASE d # c  BY <1>1, <1>7, <2>2 DEF InputInv, AskedInv, Open
  <2> QED  BY <2>1, <2>2
<1>9. FreshInv'  BY <1>1, <1>7 DEF InputInv, FreshInv, Open
<1> QED  BY <1>5, <1>8, <1>9 DEF InputInv

-----------------------------------------------------------------------------
(* Answers. *)

\* The two pieces of message m, and the message of a piece.
LEMMA PairOf ==
    ASSUME NEW m \in Nat \ {0}
    PROVE  /\ ((2 * m - 1) + 1) \div 2 = m /\ (2 * m - 1) % 2 = 1
           /\ (2 * m + 1) \div 2 = m /\ (2 * m) % 2 = 0
           /\ \A k \in 1..(2 * m) : (k + 1) \div 2 \in 1..m
OBVIOUS

LEMMA ParityStep ==
    ASSUME NEW x \in Nat, NEW d \in 0..1, x % 2 = d, NEW n \in 1..(2 - d)
    PROVE  /\ d + n < 2 => (x + n) % 2 = d + n
           /\ d + n = 2 => (x + n) % 2 = 0
           /\ \A k \in 1..n : 2 - ((x + k) % 2) = d + k
OBVIOUS

\* The next request is taken up.
LEMMA AnswerAsked ==
    ASSUME NEW o \in Seq(OutPiece), NEW q \in Seq(Nat), NEW r \in Seq(Nat), AnsOK(o, q, 0),
           Len(r) = Len(q) + 1, \A j \in 1..Len(q) : r[j] = q[j]
    PROVE  AnsOK(o, r, 2)
<1>1. Len(q) \in Nat /\ Len(o) = 2 * Len(q)  BY DEF AnsOK
<1>2. Len(o) = 2 * Len(r) - 2  BY <1>1
<1>3. ASSUME NEW k \in 1..Len(o) PROVE o[k] = Answer(r, k)
  <2>1. Len(q) \in Nat \ {0} /\ k \in 1..(2 * Len(q))  BY <1>1
  <2>2. (k + 1) \div 2 \in 1..Len(q)  BY <2>1, PairOf
  <2>3. r[(k + 1) \div 2] = q[(k + 1) \div 2]  BY <2>2
  <2>4. o[k] = Answer(q, k)  BY DEF AnsOK
  <2> QED  BY <2>3, <2>4 DEF Answer
<1> QED  BY <1>2, <1>3 DEF AnsOK

\* The next n pieces of the last answer are written.
LEMMA AnswerWritten ==
    ASSUME NEW q \in Seq(Nat), Len(q) > 0, NEW d \in 0..1, NEW n \in 1..(2 - d),
           NEW o \in Seq(OutPiece), AnsOK(o, q, 2 - d),
           NEW w \in Seq(OutPiece), Len(w) = Len(o) + n,
           \A k \in 1..Len(o) : w[k] = o[k],
           \A k \in 1..n : w[Len(o) + k] = Half(q[Len(q)], d + k)
    PROVE  AnsOK(w, q, 2 - (d + n))
<1>1. PICK m \in Nat \ {0} : m = Len(q)  OBVIOUS
<1>2. Len(o) \in Nat /\ Len(o) = 2 * m - (2 - d)  BY <1>1 DEF AnsOK
<1>3. Len(w) = 2 * Len(q) - (2 - (d + n))  BY <1>1, <1>2
<1>4. ASSUME NEW k \in 1..Len(w) PROVE w[k] = Answer(q, k)
  <2>1. CASE k <= Len(o)
    <3>1. k \in 1..Len(o)  BY <1>2, <2>1
    <3> QED  BY <3>1 DEF AnsOK
  <2>2. CASE k > Len(o)
    <3>0. k - Len(o) \in Nat  BY <1>2, <1>4, <2>2
    <3>1. PICK x \in Nat : x = k - Len(o)  BY <3>0
    <3>2. x \in 1..n /\ k = Len(o) + x  BY <1>2, <2>2, <3>1
    <3>3. w[k] = Half(q[m], d + x)  BY <1>1, <3>2
    <3>4. k = 2 * m - 2 + (d + x) /\ d + x \in 1..2  BY <1>2, <3>2
    <3>5. CASE d + x = 1
      <4>1. k = 2 * m - 1  BY <3>4, <3>5
      <4>2. (k + 1) \div 2 = m /\ k % 2 = 1  BY <4>1, PairOf
      <4>3. 2 - (k % 2) = d + x /\ q[(k + 1) \div 2] = q[m]  BY SMTT(30), <3>5, <4>2
      <4> QED  BY <3>3, <4>3 DEF Answer
    <3>6. CASE d + x = 2
      <4>1. k = 2 * m  BY <3>4, <3>6
      <4>2. (k + 1) \div 2 = m /\ k % 2 = 0  BY <4>1, PairOf
      <4>3. 2 - (k % 2) = d + x /\ q[(k + 1) \div 2] = q[m]  BY SMTT(30), <3>6, <4>2
      <4> QED  BY <3>3, <4>3 DEF Answer
    <3> QED  BY <3>4, <3>5, <3>6
  <2> QED  BY <1>2, <2>1, <2>2
<1> QED  BY <1>3, <1>4 DEF AnsOK

LEMMA AnswerInit == Init => AnswerInv
<1> SUFFICES ASSUME Init, NEW c \in Clients PROVE AnsOK(out[c][Main], asked[c], Missing(c))
  BY DEF AnswerInv
<1>1. out[c][Main] = <<>> /\ asked[c] = <<>> /\ main = "poll"  BY DEF Init
<1>2. Missing(c) = 0  BY <1>1 DEF Missing
<1>3. Len(<<>>) = 2 * Len(<<>>) - 0  OBVIOUS
<1> QED  BY <1>1, <1>2, <1>3 DEF AnsOK

\* Neither the answers nor the number of missing pieces change.
LEMMA AnswerKeep ==
    ASSUME AnswerInv, gaveUp \subseteq gaveUp', UNCHANGED asked,
           \A c \in Clients : out'[c][Main] = out[c][Main],
           \A c \in Clients : c \notin gaveUp' => Missing(c)' = Missing(c)
    PROVE  AnswerInv'
BY DEF AnswerInv

LEMMA AnswerHandle ==
    ASSUME TypeOK, TypeOK', MainInv, AnswerInv, HandleFacts
    PROVE  AnswerInv'
<1>0. /\ main = "lines" /\ main' = "send" /\ UNCHANGED <<cur, out, gaveUp>> /\ clients'[cur].fd = clients[cur].fd
      /\ job'[Main].done = 0 /\ \A d \in Clients : d # clients[cur].fd => asked'[d] = asked[d]
  BY DEF HandleFacts, TakeFacts
<1> SUFFICES ASSUME NEW c \in Clients, c \notin gaveUp
             PROVE  AnsOK(out[c][Main], asked'[c], Missing(c)')
  BY <1>0 DEF AnswerInv
<1>1. AnsOK(out[c][Main], asked[c], 0)  BY <1>0 DEF AnswerInv, Missing
<1>2. CASE c = clients[cur].fd
  <2> DEFINE o == out[c][Main]
             q == asked[c]
             r == asked'[c]
  <2>1. o \in Seq(OutPiece) /\ q \in Seq(Nat) /\ r \in Seq(Nat)
    <3>1. out \in [Clients -> [Casters \cup {Main} -> Seq(OutPiece)]]
          /\ asked \in [Clients -> Seq(Nat)] /\ asked' \in [Clients -> Seq(Nat)]  BY DEF TypeOK
    <3> QED  BY <3>1
  <2>2. Len(r) = Len(q) + 1 /\ \A j \in 1..Len(q) : r[j] = q[j]  BY <1>2 DEF HandleFacts
  <2>3. AnsOK(o, q, 0)  BY <1>1
  <2>4. Missing(c)' = 2  BY <1>0, <1>2 DEF Missing
  <2> HIDE DEF o, q, r
  <2>5. AnsOK(o, r, 2)  BY <2>1, <2>2, <2>3, AnswerAsked
  <2> QED  BY <2>4, <2>5 DEF o, r
<1>3. CASE c # clients[cur].fd
  <2>1. Missing(c)' = 0  BY <1>0, <1>3 DEF Missing
  <2> QED  BY <1>0, <1>1, <1>3, <2>1
<1> QED  BY <1>2, <1>3

LEMMA AnswerWrite ==
    ASSUME TypeOK, TypeOK', MainInv, AnswerInv, NEW s \in Senders, NEW c \in Clients, NEW n \in Nat,
           WriteFacts(s, c, n)
    PROVE  AnswerInv'
<1>0. UNCHANGED <<clients, cur, asked, gaveUp>> /\ Main \in Senders
  BY Zenon DEF WriteFacts, SendKeeps, Senders
<1>1. CASE s # Main
  <2>1. main' = main /\ job'[Main] = job[Main]
    <3>1. job'[s].done \in 0..2  BY DEF TypeOK, Senders
    <3>3. job'[s].done < 2 \/ job'[s].done = 2  BY <3>1
    <3>2. main' = main  BY <1>1, <3>3, Zenon DEF WriteFacts
    <3> QED  BY <1>0, <1>1, <3>2, Zenon DEF WriteFacts
  <2>2. \A d \in Clients : out'[d][Main] = out[d][Main]  BY <1>0, <1>1, Zenon DEF WriteFacts
  <2>3. \A d \in Clients : Missing(d)' = Missing(d)  BY <1>0, <2>1 DEF Missing
  <2> QED  BY <1>0, <2>2, <2>3, AnswerKeep
<1>2. CASE s = Main
  <2>1. main = "send" /\ job[Main].slot = cur /\ c = clients[cur].fd
        /\ Len(asked[c]) > 0 /\ job[Main].msg = asked[c][Len(asked[c])]
    BY <1>2, Zenon DEF WriteFacts, MainInv
  <2> SUFFICES ASSUME NEW d \in Clients, d \notin gaveUp
               PROVE  AnsOK(out'[d][Main], asked[d], Missing(d)')
    BY <1>0 DEF AnswerInv
  <2>2. CASE d # c
    <3>1. Missing(d) = 0 /\ Missing(d)' = 0  BY <1>0, <2>1, <2>2 DEF Missing
    <3>2. out'[d][Main] = out[d][Main]  BY <1>0, <2>2, Zenon DEF WriteFacts
    <3> QED  BY <3>1, <3>2 DEF AnswerInv
  <2>3. CASE d = c
    <3> DEFINE x == job[Main].done
               o == out[c][Main]
               w == out'[c][Main]
               q == asked[c]
    <3>1. x \in 0..1 /\ n \in 1..(2 - x)
      <4>1. job[Main].done \in 0..2  BY <1>0 DEF TypeOK, Senders
      <4>2. job[Main].done < 2 /\ n \in 1..(2 - job[Main].done)  BY <1>2, Zenon DEF WriteFacts, Sending
      <4> QED  BY <4>1, <4>2
    <3>2. job'[Main].done = x + n /\ (x + n < 2 => main' = "send") /\ (x + n = 2 => main' = "lines")
      BY <1>2, <2>1 DEF WriteFacts
    <3>3. Missing(d) = 2 - x  BY <2>1, <2>3 DEF Missing
    <3>4. Missing(d)' = 2 - (x + n)
      <4>1. CASE x + n = 2
        <5>1. main' # "send"  BY <3>2, <4>1
        <5>2. Missing(d)' = 0  BY <5>1 DEF Missing
        <5> QED  BY <4>1, <5>2
      <4>2. CASE x + n < 2
        <5>1. main' = "send" /\ clients'[cur'].fd = d  BY <1>0, <2>1, <2>3, <3>2, <4>2
        <5> QED  BY <3>2, <5>1 DEF Missing
      <4> QED  BY <3>1, <4>1, <4>2
    <3>5. o \in Seq(OutPiece) /\ w \in Seq(OutPiece) /\ q \in Seq(Nat)
      <4>1. out \in [Clients -> [Casters \cup {Main} -> Seq(OutPiece)]]
            /\ out' \in [Clients -> [Casters \cup {Main} -> Seq(OutPiece)]]
            /\ asked \in [Clients -> Seq(Nat)]  BY Zenon DEF TypeOK
      <4> QED  BY <4>1
    <3>6. Len(w) = Len(o) + n /\ (\A k \in 1..Len(o) : w[k] = o[k])
          /\ (\A k \in 1..n : w[Len(o) + k] = Half(job[Main].msg, x + k))
      BY <1>2, Zenon DEF WriteFacts
    <3>7. AnsOK(o, q, 2 - x)  BY <2>3, <3>3 DEF AnswerInv
    <3>8. Len(q) > 0 /\ job[Main].msg = q[Len(q)]  BY <2>1
    <3> HIDE DEF x, o, w, q
    <3>9. \A k \in 1..n : w[Len(o) + k] = Half(q[Len(q)], x + k)  BY <3>6, <3>8
    <3>10. AnsOK(w, q, 2 - (x + n))  BY <3>1, <3>5, <3>6, <3>7, <3>8, <3>9, AnswerWritten
    <3> QED  BY <2>3, <3>4, <3>10 DEF w, q
  <2> QED  BY <2>2, <2>3
<1> QED  BY <1>1, <1>2

-----------------------------------------------------------------------------
(* Log events. *)

\* A client that has subscribed has done so for good.
AskedGrows ==
    /\ told' = told
    /\ \A c \in Clients : /\ Len(asked[c]) <= Len(asked'[c])
                           /\ \A j \in 1..Len(asked[c]) : asked'[c][j] = asked[c][j]

LEMMA StaysSubscribed ==
    ASSUME TypeOK, TypeOK', AskedGrows
    PROVE  \A c \in Clients : Subscribed(c) => Subscribed(c)'
<1> SUFFICES ASSUME NEW c \in Clients, Subscribed(c) PROVE Subscribed(c)'
  OBVIOUS
<1>1. PICK j \in 1..Len(asked[c]) : told[c][asked[c][j]].kind = "subscribe"  BY DEF Subscribed
<1>2. Len(asked[c]) \in Nat /\ Len(asked'[c]) \in Nat
  <2>1. asked[c] \in Seq(Nat) /\ asked'[c] \in Seq(Nat)  BY DEF TypeOK
  <2> QED  BY <2>1
<1>3. j \in 1..Len(asked'[c]) /\ asked'[c][j] = asked[c][j]  BY <1>1, <1>2 DEF AskedGrows
<1> QED  BY <1>1, <1>3 DEF Subscribed, AskedGrows

LEMMA AskedSameGrows ==
    ASSUME TypeOK, UNCHANGED <<told, asked>>
    PROVE  AskedGrows
<1>1. \A c \in Clients : Len(asked[c]) \in Nat
  <2>1. \A c \in Clients : asked[c] \in Seq(Nat)  BY DEF TypeOK
  <2> QED  BY <2>1
<1> QED  BY <1>1 DEF AskedGrows

LEMMA AskedHandleGrows ==
    ASSUME TypeOK, MainInv, HandleFacts
    PROVE  AskedGrows
<1> SUFFICES ASSUME NEW c \in Clients
             PROVE  /\ Len(asked[c]) <= Len(asked'[c])
                    /\ \A j \in 1..Len(asked[c]) : asked'[c][j] = asked[c][j]
  BY DEF AskedGrows, HandleFacts, TakeFacts
<1>1. Len(asked[c]) \in Nat
  <2>1. asked[c] \in Seq(Nat)  BY DEF TypeOK
  <2> QED  BY <2>1
<1>2. CASE c = clients[cur].fd  BY <1>1, <1>2 DEF HandleFacts
<1>3. CASE c # clients[cur].fd  BY <1>1, <1>3 DEF HandleFacts
<1> QED  BY <1>2, <1>3

\* Slots are given up or stay as they are.
LEMMA EventKeep ==
    ASSUME TypeOK, TypeOK', AskedGrows, EventInv,
           gaveUp \subseteq gaveUp', inherited \subseteq inherited',
           \A c \in Clients, t \in Casters : out'[c][t] = out[c][t],
           \A t \in Casters : job'[t].done = job[t].done /\ (job[t].done < 2 => job'[t].slot = job[t].slot),
           \A i \in Slots : clients'[i].fd # NoFd => clients'[i].fd = clients[i].fd
    PROVE  EventInv'
<1> SUFFICES ASSUME NEW c \in Clients, NEW t \in Casters, c \notin gaveUp' \cup inherited'
             PROVE  EventOK(c, t)'
  BY DEF EventInv
<1>1. EventOK(c, t)  BY DEF EventInv
<1>2. Subscribed(c) => Subscribed(c)'  BY StaysSubscribed
<1>3. \A i \in Slots : SendsTo(t, i)' <=> SendsTo(t, i)  BY DEF SendsTo, Sending
<1>4. \A i \in Slots : clients'[i].fd = c => clients[i].fd = c  BY IpcAssumption
<1>5. out'[c][t] = out[c][t] /\ job'[t].done = job[t].done  OBVIOUS
<1> QED  BY <1>1, <1>2, <1>3, <1>4, <1>5 DEF EventOK

LEMMA LogKeep ==
    ASSUME TypeOK, TypeOK', AskedGrows, LogInv,
           \A i \in Slots : clients'[i].fd # NoFd /\ clients'[i].log =>
               clients'[i].fd = clients[i].fd /\ clients[i].log
    PROVE  LogInv'
<1> SUFFICES ASSUME NEW i \in Slots, clients'[i].fd # NoFd, clients'[i].log
             PROVE  Subscribed(clients[i].fd)'
  BY DEF LogInv
<1>1. PICK c \in Clients : c = clients'[i].fd  BY DEF TypeOK
<1>2. clients[i].fd = c /\ clients[i].log /\ c # NoFd  BY <1>1
<1>3. Subscribed(c)  BY <1>2 DEF LogInv
<1>4. Subscribed(c)'  BY <1>3, StaysSubscribed
<1> QED  BY <1>1, <1>4 DEF Subscribed

LEMMA LogHandle ==
    ASSUME TypeOK, TypeOK', SlotInv, MainInv, InputInv, LogInv, HandleFacts
    PROVE  LogInv'
<1> SUFFICES ASSUME NEW i \in Slots, clients'[i].fd # NoFd, clients'[i].log
             PROVE  Subscribed(clients[i].fd)'
  BY DEF LogInv
<1>0. AskedGrows  BY AskedHandleGrows
<1>1. PICK c \in Clients : c = clients'[i].fd  BY DEF TypeOK
<1>2. clients[i].fd = c  BY <1>1 DEF HandleFacts, TakeFacts, OthersKeep
<1>3. CASE clients[i].log
  <2>1. Subscribed(c)  BY <1>1, <1>2, <1>3 DEF LogInv
  <2>2. Subscribed(c)'  BY <1>0, <2>1, StaysSubscribed
  <2> QED  BY <1>1, <2>2 DEF Subscribed
<1>4. CASE ~clients[i].log
  <2>1. i = cur /\ clients[cur].buf[1].kind = "subscribe"
    BY <1>4 DEF HandleFacts, TakeFacts, OthersKeep
  <2> DEFINE p == got[c] - Len(clients[cur].buf)
  <2>2. /\ Len(asked'[c]) = Len(asked[c]) + 1 /\ asked'[c][Len(asked[c]) + 1] = p + 1
        /\ clients[cur].buf[1] = told[c][p + 1]
    BY <1>2, <2>1, HandleAsks
  <2>3. told' = told  BY <1>0 DEF AskedGrows
  <2>4. Len(asked[c]) \in Nat
    <3>1. asked[c] \in Seq(Nat)  BY DEF TypeOK
    <3> QED  BY <3>1
  <2> HIDE DEF p
  <2>5. Len(asked[c]) + 1 \in 1..Len(asked'[c])
        /\ told'[c][asked'[c][Len(asked[c]) + 1]].kind = "subscribe"
    BY <2>1, <2>2, <2>3, <2>4
  <2>6. Subscribed(c)'  BY <2>5 DEF Subscribed
  <2> QED  BY <1>1, <2>6 DEF Subscribed
<1> QED  BY <1>3, <1>4

LEMMA EventAdmit ==
    ASSUME TypeOK, TypeOK', SlotInv, InputInv, EventInv,
           NEW c \in Clients, NEW i \in Slots, AdmitFacts(c, i)
    PROVE  EventInv'
<1>0. UNCHANGED <<job, told, asked, out, gaveUp>> /\ inherited \subseteq inherited'  BY DEF AdmitFacts
<1> SUFFICES ASSUME NEW d \in Clients, NEW t \in Casters, d \notin gaveUp' \cup inherited'
             PROVE  EventOK(d, t)'
  BY DEF EventInv
<1>1. EventOK(d, t)  BY <1>0 DEF EventInv
<1>2. Subscribed(d)' <=> Subscribed(d)  BY <1>0 DEF Subscribed
<1>3. \A j \in Slots : SendsTo(t, j)' <=> SendsTo(t, j)  BY <1>0 DEF SendsTo, Sending
<1>4. CASE d = c
  <2>1. out[c][t] = <<>>  BY DEF AdmitFacts, InputInv, FreshInv, Senders
  <2>2. Len(out'[d][t]) = 0  BY <1>0, <1>4, <2>1
  <2>3. \A j \in Slots : clients'[j].fd = c => j = i
    BY IpcAssumption DEF AdmitFacts, OthersKeep, SlotInv, Open
  <2>4. ~SendsTo(t, i)'  BY <1>3, <1>4 DEF AdmitFacts
  <2>5. 0 % 2 = 0  OBVIOUS
  <2>6. Whole(out'[d][t])  BY <2>2 DEF Whole
  <2> QED  BY <1>4, <2>2, <2>3, <2>4, <2>5, <2>6 DEF EventOK
<1>5. CASE d # c
  <2>1. \A j \in Slots : clients'[j].fd = d => clients[j].fd = d
    BY <1>5 DEF AdmitFacts, OthersKeep
  <2> QED  BY <1>0, <1>1, <1>2, <1>3, <2>1, Zenon DEF EventOK
<1> QED  BY <1>4, <1>5

\* A sender's event is written on, to the client who has the slot.
LEMMA EventWrite ==
    ASSUME TypeOK, TypeOK', SlotInv, EventInv, NEW s \in Casters, NEW c \in Clients, NEW n \in Nat,
           WriteFacts(s, c, n)
    PROVE  EventInv'
<1>0. UNCHANGED <<clients, told, asked, gaveUp, inherited>> /\ s \in Senders
      /\ Casters \subseteq Senders
  BY Zenon DEF WriteFacts, SendKeeps, Senders
<1> SUFFICES ASSUME NEW d \in Clients, NEW t \in Casters, d \notin gaveUp \cup inherited
             PROVE  EventOK(d, t)'
  BY <1>0 DEF EventInv
<1>1. EventOK(d, t)  BY DEF EventInv
<1>2. Subscribed(d)' <=> Subscribed(d)  BY <1>0 DEF Subscribed
<1>3. CASE t # s
  <2>1. job'[t] = job[t] /\ out'[d][t] = out[d][t]  BY <1>0, <1>3, Zenon DEF WriteFacts
  <2>2. \A j \in Slots : SendsTo(t, j)' <=> SendsTo(t, j)  BY <2>1 DEF SendsTo, Sending
  <2> QED  BY <1>0, <1>1, <1>2, <2>1, <2>2, Zenon DEF EventOK
<1>4. CASE t = s /\ d # c
  <2>1. out'[d][t] = out[d][t]  BY <1>0, <1>4, Zenon DEF WriteFacts
  <2>2. ASSUME NEW j \in Slots, clients[j].fd = d PROVE ~SendsTo(t, j) /\ ~SendsTo(t, j)'
    <3>1. job[s].slot # j  BY <1>4, <2>2, Zenon DEF WriteFacts
    <3>2. Sending(s)' => job'[s].slot # j  BY <3>1, Zenon DEF WriteFacts, Sending
    <3> QED  BY <1>4, <3>1, <3>2 DEF SendsTo
  <2> QED  BY <1>0, <1>1, <1>2, <2>1, <2>2, Zenon DEF EventOK
<1>5. CASE t = s /\ d = c
  <2>0. PICK i \in Slots : i = job[s].slot  BY <1>0, Zenon DEF TypeOK, Senders
  <2> DEFINE x == job[s].done
             o == out[c][s]
             w == out'[c][s]
             m == Len(o)
  <2>1. clients[i].fd = c /\ SendsTo(s, i)  BY <2>0, Zenon DEF WriteFacts, SendsTo
  <2>2. m % 2 = x /\ Subscribed(c)  BY <1>1, <1>5, <2>1 DEF EventOK
  <2>3. x \in 0..1 /\ n \in 1..(2 - x)
    <3>1. x \in 0..2  BY <1>0 DEF TypeOK, Senders
    <3>2. x < 2 /\ n \in 1..(2 - x)  BY Zenon DEF WriteFacts, Sending
    <3> QED  BY <3>1, <3>2
  <2>4. o \in Seq(OutPiece) /\ w \in Seq(OutPiece) /\ m \in Nat
    <3>1. out \in [Clients -> [Casters \cup {Main} -> Seq(OutPiece)]]
          /\ out' \in [Clients -> [Casters \cup {Main} -> Seq(OutPiece)]]  BY DEF TypeOK
    <3>2. o \in Seq(OutPiece) /\ w \in Seq(OutPiece)  BY <3>1
    <3> HIDE DEF o, w
    <3> QED  BY <3>2
  <2>5. Len(w) = m + n /\ (\A k \in 1..m : w[k] = o[k])
        /\ (\A k \in 1..n : w[m + k].piece = x + k)
    <3>1. \A k \in 1..n : w[m + k] = Half(job[s].msg, x + k)  BY Zenon DEF WriteFacts
    <3>2. Len(w) = m + n /\ (\A k \in 1..m : w[k] = o[k])  BY Zenon DEF WriteFacts
    <3> HIDE DEF w, m, x, o
    <3>3. ASSUME NEW k \in 1..n PROVE w[m + k].piece = x + k
      <4>1. w[m + k] = Half(job[s].msg, x + k)  BY <3>1
      <4> QED  BY <4>1 DEF Half
    <3> QED  BY <3>2, <3>3
  <2>6. Whole(o)  BY <1>1, <1>5 DEF EventOK
  <2>7. job'[s].done = x + n /\ (x + n < 2 => job'[s].slot = i)  BY <2>0, Zenon DEF WriteFacts
  <2>8. \A j \in Slots : clients[j].fd = c => j = i  BY <2>1, IpcAssumption DEF SlotInv
  <2> HIDE DEF o, w, x, m
  <2>9. /\ x + n < 2 => (m + n) % 2 = x + n
        /\ x + n = 2 => (m + n) % 2 = 0
        /\ \A k \in 1..n : 2 - ((m + k) % 2) = x + k
    BY <2>2, <2>3, <2>4, ParityStep
  <2>10. Whole(w)
    <3> SUFFICES ASSUME NEW k \in 1..Len(w) PROVE w[k].piece = 2 - (k % 2)
      BY DEF Whole
    <3>1. CASE k <= m
      <4>1. k \in 1..m  BY <2>4, <3>1
      <4> QED  BY <2>5, <2>6, <4>1 DEF Whole, m
    <3>2. CASE k > m
      <4>1. k - m \in 1..n /\ m + (k - m) = k  BY <2>3, <2>4, <2>5, <3>2
      <4>2. w[m + (k - m)].piece = x + (k - m) /\ 2 - ((m + (k - m)) % 2) = x + (k - m)
        BY <2>5, <2>9, <4>1
      <4> QED  BY <4>1, <4>2
    <3> QED  BY <2>4, <3>1, <3>2
  <2>11. CASE x + n < 2
    <3>1. Sending(s)' /\ SendsTo(s, i)'  BY <2>7, <2>11 DEF Sending, SendsTo
    <3>2. Len(w) % 2 = job'[s].done  BY <2>5, <2>7, <2>9, <2>11
    <3>3. \A j \in Slots : clients'[j].fd = c => j = i  BY <1>0, <2>8
    <3> QED  BY <1>2, <1>5, <2>2, <2>10, <3>1, <3>2, <3>3 DEF EventOK, w
  <2>12. CASE x + n = 2
    <3>1. \A j \in Slots : ~SendsTo(s, j)'  BY <2>7, <2>12 DEF Sending, SendsTo
    <3>2. Len(w) % 2 = 0  BY <2>5, <2>9, <2>12
    <3> QED  BY <1>2, <1>5, <2>2, <2>10, <3>1, <3>2 DEF EventOK, w
  <2> QED  BY <2>3, <2>11, <2>12
<1> QED  BY <1>3, <1>4, <1>5

LEMMA EventGiveUp ==
    ASSUME TypeOK, TypeOK', EventInv, NEW s \in Casters, GiveUpFacts(s)
    PROVE  EventInv'
<1>0. UNCHANGED <<clients, told, asked, out, inherited>> /\ s \in Senders /\ gaveUp \subseteq gaveUp'
      /\ Casters \subseteq Senders
  BY DEF GiveUpFacts, SendKeeps, Senders
<1> SUFFICES ASSUME NEW d \in Clients, NEW t \in Casters, d \notin gaveUp' \cup inherited
             PROVE  EventOK(d, t)'
  BY <1>0 DEF EventInv
<1>1. EventOK(d, t)  BY <1>0 DEF EventInv
<1>2. Subscribed(d)' <=> Subscribed(d)  BY <1>0 DEF Subscribed
<1>3. ASSUME NEW j \in Slots, clients[j].fd = d
      PROVE  (SendsTo(t, j)' <=> SendsTo(t, j)) /\ (SendsTo(t, j) => job'[t].done = job[t].done)
  <2>1. CASE t # s
    <3>1. job'[t] = job[t]  BY <1>0, <2>1 DEF GiveUpFacts
    <3> QED  BY <3>1 DEF SendsTo, Sending
  <2>2. CASE t = s
    <3>1. job[s].slot # j  BY <1>3, IpcAssumption DEF GiveUpFacts
    <3>2. ~Sending(s)'  BY DEF GiveUpFacts, Sending
    <3> QED  BY <2>2, <3>1, <3>2 DEF SendsTo
  <2> QED  BY <2>1, <2>2
<1> QED  BY <1>0, <1>1, <1>2, <1>3 DEF EventOK

LEMMA EventVisit ==
    ASSUME TypeOK, TypeOK', LogInv, EventInv, NEW s \in Casters, VisitFacts(s)
    PROVE  EventInv'
<1>0. UNCHANGED <<clients, told, asked, out, gaveUp, inherited>> /\ Casters \subseteq Senders
  BY DEF VisitFacts, CastKeeps, Senders
<1> SUFFICES ASSUME NEW d \in Clients, NEW t \in Casters, d \notin gaveUp \cup inherited
             PROVE  EventOK(d, t)'
  BY <1>0 DEF EventInv
<1>1. EventOK(d, t)  BY DEF EventInv
<1>2. Subscribed(d)' <=> Subscribed(d)  BY <1>0 DEF Subscribed
<1>3. CASE job'[t] = job[t]
  <2>1. \A j \in Slots : SendsTo(t, j)' <=> SendsTo(t, j)  BY <1>3 DEF SendsTo, Sending
  <2> QED  BY <1>0, <1>1, <1>2, <1>3, <2>1 DEF EventOK
<1>4. CASE job'[t] # job[t]
  <2>1. t = s  BY <1>0, <1>4 DEF VisitFacts
  <2>2. ~Sending(t) /\ job'[t].done = 0 /\ clients[job'[t].slot].fd # NoFd /\ clients[job'[t].slot].log
    BY <1>4, <2>1 DEF VisitFacts
  <2>3. job'[t].slot \in Slots  BY DEF TypeOK
  <2>4. Subscribed(clients[job'[t].slot].fd)  BY <2>2, <2>3 DEF LogInv
  <2>5. ASSUME NEW j \in Slots, clients'[j].fd = d
        PROVE  /\ SendsTo(t, j)' => Len(out'[d][t]) % 2 = job'[t].done /\ Subscribed(d)'
               /\ ~SendsTo(t, j)' => Len(out'[d][t]) % 2 = 0
    <3>1. Len(out'[d][t]) % 2 = 0  BY <1>0, <1>1, <2>2, <2>5 DEF EventOK, SendsTo
    <3>2. SendsTo(t, j)' => clients[job'[t].slot].fd = d  BY <1>0, <2>5 DEF SendsTo
    <3>3. SendsTo(t, j)' => Subscribed(d)  BY <2>4, <3>2
    <3> QED  BY <1>2, <2>2, <3>1, <3>3
  <2> QED  BY <1>0, <1>1, <1>2, <2>5 DEF EventOK
<1> QED  BY <1>3, <1>4

-----------------------------------------------------------------------------
(* Everything, step by step. *)

LEMMA StreamInit == Init => StreamInv
<1> SUFFICES ASSUME Init PROVE StreamInv
  OBVIOUS
<1>1. LogInv  BY DEF Init, FreeSlot, LogInv
<1>2. EventInv
  <2> SUFFICES ASSUME NEW c \in Clients, NEW t \in Casters PROVE EventOK(c, t)
    BY DEF EventInv
  <2>1. out[c][t] = <<>>  BY DEF Init
  <2>2. Len(out[c][t]) = 0  BY <2>1
  <2>3. \A i \in Slots : clients[i].fd # c  BY IpcAssumption DEF Init, FreeSlot
  <2>4. Whole(out[c][t])  BY <2>2 DEF Whole
  <2> QED  BY <2>2, <2>3, <2>4 DEF EventOK
<1> QED  BY <1>1, <1>2, InputInit, AnswerInit DEF StreamInv

\* Steps that touch neither slots nor input nor output.
LEMMA StreamKeep ==
    ASSUME ServerInv, ServerInv', StreamInv, SlotsKeep,
           UNCHANGED <<main, cur, told, got, asked, out, gaveUp, inherited, clients>>,
           \A s \in Senders : /\ job'[s].done = job[s].done
                              /\ job[s].done < 2 => job'[s].slot = job[s].slot
    PROVE  StreamInv'
<1> USE DEF ServerInv, StreamInv
<1>1. link' = link  BY DEF SlotsKeep
<1>2. Main \in Senders /\ Casters \subseteq Senders  BY DEF Senders
<1>3. InputInv'
  <2>1. FreshInv'  BY <1>1 DEF InputInv, FreshInv
  <2>2. \A i \in Slots : clients[i].fd # NoFd /\ ~Busy(i)' => NoNewline(clients[i].buf)
    BY DEF InputInv, BufferInv, Busy
  <2> QED  BY <1>1, <2>1, <2>2, InputKeep
<1>4. AnswerInv'
  <2>1. \A c \in Clients : Missing(c)' = Missing(c)  BY <1>2 DEF Missing
  <2> QED  BY <2>1, AnswerKeep
<1>5. AskedGrows  BY AskedSameGrows
<1>6. LogInv'  BY <1>5, LogKeep
<1>7. EventInv'  BY <1>2, <1>5, EventKeep
<1> QED  BY <1>3, <1>4, <1>6, <1>7

\* Steps of the main thread between messages that leave the output alone.
LEMMA QuietKeep ==
    ASSUME ServerInv, ServerInv', StreamInv, InputInv',
           UNCHANGED <<job, told, asked, out, gaveUp, inherited>>,
           main # "send", main' # "send",
           \A i \in Slots : clients'[i].fd # NoFd =>
               clients'[i].fd = clients[i].fd /\ clients'[i].log = clients[i].log
    PROVE  StreamInv'
<1> USE DEF ServerInv, StreamInv
<1>1. AskedGrows  BY AskedSameGrows
<1>2. \A c \in Clients : Missing(c) = 0 /\ Missing(c)' = 0  BY DEF Missing
<1>3. AnswerInv'  BY <1>2, AnswerKeep
<1>4. LogInv'  BY <1>1, LogKeep
<1>5. EventInv'  BY <1>1, EventKeep
<1> QED  BY <1>3, <1>4, <1>5

\* Steps of a send.
LEMMA StreamWrite ==
    ASSUME ServerInv, ServerInv', StreamInv, NEW s \in Senders, NEW c \in Clients, NEW n \in Nat,
           WriteFacts(s, c, n)
    PROVE  StreamInv'
<1> USE DEF ServerInv, StreamInv
<1>0. UNCHANGED <<clients, cur, link, got, told, asked, gaveUp, inherited>>
  BY Zenon DEF WriteFacts, SendKeeps
<1>1. AskedGrows  BY <1>0, AskedSameGrows
<1>2. main \in {"lines", "send"} => main' \in {"lines", "send"}
  <2>1. job'[s].done < 2 \/ job'[s].done = 2
    <3>1. job'[s].done \in 0..2  BY DEF TypeOK, Senders
    <3> QED  BY <3>1
  <2> QED  BY <2>1, Zenon DEF WriteFacts
<1>3. InputInv'
  <2>1. job[s].slot \in Slots  BY DEF TypeOK, Senders
  <2>2. Open(c)  BY <2>1, Zenon DEF WriteFacts, SlotInv
  <2>3. \A d \in Clients : link[d] = "none" => \A u \in Senders : out'[d][u] = out[d][u]
    BY <2>2, Zenon DEF WriteFacts, Open
  <2>4. FreshInv'  BY <1>0, <2>3 DEF InputInv, FreshInv
  <2>5. \A i \in Slots : clients[i].fd # NoFd /\ ~Busy(i)' => NoNewline(clients[i].buf)
    BY <1>0, <1>2 DEF InputInv, BufferInv, Busy
  <2> QED  BY <1>0, <2>4, <2>5, InputKeep
<1>4. AnswerInv'  BY AnswerWrite
<1>5. LogInv'  BY <1>0, <1>1, LogKeep
<1>6. CASE s \in Casters
  <2>1. EventInv'  BY <1>6, EventWrite
  <2> QED  BY <1>3, <1>4, <1>5, <2>1
<1>7. CASE s = Main
  <2>1. \A t \in Casters : t # s /\ t \in Senders  BY <1>7, IpcAssumption DEF Senders
  <2>2. \A d \in Clients, t \in Casters : out'[d][t] = out[d][t]  BY <2>1, Zenon DEF WriteFacts
  <2>3. \A t \in Casters : job'[t] = job[t]  BY <2>1, Zenon DEF WriteFacts
  <2>4. EventInv'  BY <1>0, <1>1, <2>2, <2>3, EventKeep
  <2> QED  BY <1>3, <1>4, <1>5, <2>4
<1> QED  BY <1>6, <1>7 DEF Senders

LEMMA StreamGiveUp ==
    ASSUME ServerInv, ServerInv', StreamInv, NEW s \in Senders, GiveUpFacts(s)
    PROVE  StreamInv'
<1> USE DEF ServerInv, StreamInv
<1>0. UNCHANGED <<clients, cur, link, got, told, asked, out, inherited>> /\ gaveUp \subseteq gaveUp'
  BY DEF GiveUpFacts, SendKeeps
<1>1. AskedGrows  BY <1>0, AskedSameGrows
<1>2. main \in {"lines", "send"} => main' \in {"lines", "send"}  BY DEF GiveUpFacts
<1>3. InputInv'
  <2>1. FreshInv'  BY <1>0 DEF InputInv, FreshInv
  <2>2. \A i \in Slots : clients[i].fd # NoFd /\ ~Busy(i)' => NoNewline(clients[i].buf)
    BY <1>0, <1>2 DEF InputInv, BufferInv, Busy
  <2> QED  BY <1>0, <2>1, <2>2, InputKeep
<1>4. LogInv'  BY <1>0, <1>1, LogKeep
<1>5. CASE s \in Casters
  <2>1. s # Main /\ Main \in Senders  BY <1>5, IpcAssumption DEF Senders
  <2>2. main' = main /\ job'[Main] = job[Main]  BY <2>1 DEF GiveUpFacts
  <2>3. \A c \in Clients : Missing(c)' = Missing(c)  BY <1>0, <2>2 DEF Missing
  <2>4. AnswerInv'  BY <1>0, <2>3, AnswerKeep
  <2>5. EventInv'  BY <1>5, EventGiveUp
  <2> QED  BY <1>3, <1>4, <2>4, <2>5
<1>6. CASE s = Main
  <2>1. main = "send" /\ main' = "lines" /\ job[Main].slot = cur /\ clients[cur].fd # NoFd
    BY <1>6 DEF GiveUpFacts, MainInv
  <2>2. clients[cur].fd \in gaveUp'  BY <1>6, <2>1 DEF GiveUpFacts
  <2>3. \A c \in Clients : c \notin gaveUp' => Missing(c)' = Missing(c)  BY <2>1, <2>2 DEF Missing
  <2>4. AnswerInv'  BY <1>0, <2>3, AnswerKeep
  <2>5. \A t \in Casters : t # s /\ t \in Senders  BY <1>6, IpcAssumption DEF Senders
  <2>6. \A t \in Casters : job'[t] = job[t]  BY <2>5 DEF GiveUpFacts
  <2>7. EventInv'  BY <1>0, <1>1, <2>6, EventKeep
  <2> QED  BY <1>3, <1>4, <2>4, <2>7
<1> QED  BY <1>5, <1>6 DEF Senders

LEMMA StreamStep == ServerInv /\ StreamInv /\ [Next]_vars => StreamInv'
<1> SUFFICES ASSUME ServerInv, StreamInv, [Next]_vars PROVE StreamInv'
  OBVIOUS
<1>0. ServerInv' /\ Facts  BY ServerStep, StepFacts
<1> USE DEF ServerInv, StreamInv
<1>1. CASE LeaveFacts
  <2>1. SlotsKeep /\ UNCHANGED <<clients, main, cur, job, told, got, asked, out, gaveUp, inherited>>
    BY <1>1 DEF LeaveFacts, SlotsKeep, server
  <2> QED  BY <1>0, <2>1, StreamKeep
<1>2. CASE SignalFacts
  <2>1. SlotsKeep /\ UNCHANGED <<clients, main, cur, job, told, got, asked, out, gaveUp, inherited>>
    BY <1>2 DEF SignalFacts, SlotsKeep
  <2> QED  BY <1>0, <2>1, StreamKeep
<1>3. CASE UNCHANGED vars
  <2>1. SlotsKeep /\ UNCHANGED <<clients, main, cur, job, told, got, asked, out, gaveUp, inherited>>
    BY <1>3 DEF vars, SlotsKeep
  <2> QED  BY <1>0, <2>1, StreamKeep
<1>4. CASE NoMoreFacts
  <2>1. UNCHANGED <<clients, cur, job, link, told, got, asked, out, gaveUp, inherited>>
        /\ main = "lines" /\ main' = "poll" /\ NoNewline(clients[cur].buf)
    BY <1>4 DEF NoMoreFacts, NoNewline
  <2>2. FreshInv'  BY <2>1 DEF InputInv, FreshInv
  <2>3. \A i \in Slots : clients[i].fd # NoFd /\ ~Busy(i)' => NoNewline(clients[i].buf)
    BY <2>1 DEF InputInv, BufferInv, Busy
  <2>4. InputInv'  BY <2>1, <2>2, <2>3, InputKeep
  <2> QED  BY <1>0, <2>1, <2>4, QuietKeep
<1>5. CASE HandleFacts
  <2>1. AskedGrows  BY <1>5, AskedHandleGrows
  <2>2. UNCHANGED <<out, gaveUp, inherited>> /\ \A t \in Casters : job'[t] = job[t]
    BY <1>5 DEF HandleFacts, TakeFacts
  <2>3. \A i \in Slots : clients'[i].fd = clients[i].fd  BY <1>5 DEF HandleFacts, TakeFacts, OthersKeep
  <2>4. EventInv'  BY <1>0, <2>1, <2>2, <2>3, EventKeep
  <2> QED  BY <1>0, <1>5, <2>4, InputHandle, AnswerHandle, LogHandle
<1>6. CASE CloseFacts
  <2>1. InputInv'  BY <1>6, InputClose
  <2>2. UNCHANGED <<job, told, asked, out, gaveUp, inherited>> /\ main # "send" /\ main' # "send"
        /\ \A i \in Slots : clients'[i].fd = NoFd
    BY <1>6 DEF CloseFacts
  <2> QED  BY <1>0, <2>1, <2>2, QuietKeep
<1>7. ASSUME NEW c \in Clients, RefuseFacts(c) PROVE StreamInv'
  <2>1. InputInv'  BY <1>7, InputRefuse
  <2>2. UNCHANGED <<clients, job, told, asked, out, gaveUp, inherited>> /\ main # "send" /\ main' # "send"
    BY <1>7 DEF RefuseFacts
  <2> QED  BY <1>0, <2>1, <2>2, QuietKeep
<1>8. ASSUME NEW c \in Clients, NEW i \in Slots, AdmitFacts(c, i) PROVE StreamInv'
  <2>1. InputInv'  BY <1>8, InputAdmit
  <2>2. UNCHANGED <<told, asked, out, gaveUp>> /\ main # "send" /\ main' # "send"
    BY <1>8 DEF AdmitFacts
  <2>3. \A d \in Clients : Missing(d) = 0 /\ Missing(d)' = 0  BY <2>2 DEF Missing
  <2>4. AnswerInv'  BY <2>2, <2>3, AnswerKeep
  <2>5. AskedGrows  BY <2>2, AskedSameGrows
  <2>6. \A j \in Slots : clients'[j].log => clients'[j] = clients[j]
    BY <1>8 DEF AdmitFacts, OthersKeep
  <2>7. LogInv'  BY <1>0, <2>5, <2>6, LogKeep
  <2>8. EventInv'  BY <1>0, <1>8, EventAdmit
  <2> QED  BY <2>1, <2>4, <2>7, <2>8
<1>9. ASSUME NEW c \in Clients, NEW i \in Slots, DropFacts(c, i) PROVE StreamInv'
  <2>1. InputInv'  BY <1>9, InputDrop
  <2>2. UNCHANGED <<job, told, asked, out, gaveUp, inherited>> /\ main # "send" /\ main' # "send"
        /\ \A j \in Slots : clients'[j].fd # NoFd => clients'[j] = clients[j]
    BY <1>9 DEF DropFacts, OthersKeep
  <2> QED  BY <1>0, <2>1, <2>2, QuietKeep
<1>10. ASSUME NEW c \in Clients, NEW i \in Slots, NEW n \in Nat, ReadFacts(c, i, n) PROVE StreamInv'
  <2>1. InputInv'  BY <1>0, <1>10, InputRead
  <2>2. UNCHANGED <<job, told, asked, out, gaveUp, inherited>> /\ main # "send" /\ main' # "send"
        /\ \A j \in Slots : clients'[j].fd = clients[j].fd /\ clients'[j].log = clients[j].log
    BY <1>10 DEF ReadFacts, OthersKeep
  <2> QED  BY <1>0, <2>1, <2>2, QuietKeep
<1>11. ASSUME NEW f \in Nat, SkipFacts(f) PROVE StreamInv'
  <2>1. InputInv'  BY <1>0, <1>11, InputSkip
  <2>2. UNCHANGED <<job, told, asked, out, gaveUp, inherited>> /\ main # "send" /\ main' # "send"
        /\ \A j \in Slots : clients'[j].fd = clients[j].fd /\ clients'[j].log = clients[j].log
    BY <1>11 DEF SkipFacts, TakeFacts, OthersKeep
  <2> QED  BY <1>0, <2>1, <2>2, QuietKeep
<1>12. ASSUME NEW s \in Senders, NEW c \in Clients, NEW n \in Nat, WriteFacts(s, c, n) PROVE StreamInv'
  BY <1>0, <1>12, StreamWrite
<1>13. ASSUME NEW s \in Senders, BlockFacts(s) PROVE StreamInv'
  <2>1. UNCHANGED <<clients, main, cur, told, got, asked, out, gaveUp, inherited>> /\ SlotsKeep
    BY <1>13 DEF BlockFacts, SendKeeps, SlotsKeep
  <2>2. \A u \in Senders : job'[u].done = job[u].done /\ job'[u].slot = job[u].slot
    BY <1>13 DEF BlockFacts
  <2> QED  BY <1>0, <2>1, <2>2, StreamKeep
<1>14. ASSUME NEW s \in Senders, GiveUpFacts(s) PROVE StreamInv'
  BY <1>0, <1>14, StreamGiveUp
<1>15. ASSUME NEW t \in Casters, VisitFacts(t) PROVE StreamInv'
  <2>1. UNCHANGED <<clients, main, cur, link, told, got, asked, out, gaveUp, inherited>>
    BY <1>15 DEF VisitFacts, CastKeeps
  <2>2. t # Main /\ Main \in Senders  BY IpcAssumption DEF Senders
  <2>3. job'[Main] = job[Main]  BY <1>15, <2>2 DEF VisitFacts
  <2>4. \A c \in Clients : Missing(c)' = Missing(c)  BY <2>1, <2>3 DEF Missing
  <2>5. AnswerInv'  BY <2>1, <2>4, AnswerKeep
  <2>6. FreshInv'  BY <2>1 DEF InputInv, FreshInv
  <2>7. \A i \in Slots : clients[i].fd # NoFd /\ ~Busy(i)' => NoNewline(clients[i].buf)
    BY <2>1 DEF InputInv, BufferInv, Busy
  <2>8. InputInv'  BY <2>1, <2>6, <2>7, InputKeep
  <2>9. AskedGrows  BY <2>1, AskedSameGrows
  <2>10. LogInv'  BY <1>0, <2>1, <2>9, LogKeep
  <2>11. EventInv'  BY <1>0, <1>15, EventVisit
  <2> QED  BY <2>5, <2>8, <2>10, <2>11
<1> QED
  BY <1>0, <1>1, <1>2, <1>3, <1>4, <1>5, <1>6, <1>7, <1>8, <1>9, <1>10, <1>11, <1>12, <1>13,
     <1>14, <1>15 DEF Facts

-----------------------------------------------------------------------------
(* What the invariant says of the streams. *)

\* The answers that the property lists are those of the invariant.
LEMMA AnswersWritten ==
    ASSUME TypeOK, NEW c \in Clients, NEW m \in Nat, m <= 2 * Len(asked[c]),
           AnsOK(out[c][Main], asked[c], m)
    PROVE  out[c][Main] = SubSeq(Answers(c), 1, 2 * Len(asked[c]) - m)
<1> DEFINE q == asked[c]
           o == out[c][Main]
           a == Answers(c)
           n == 2 * Len(q) - m
<1>1. q \in Seq(Nat) /\ o \in Seq(OutPiece)  BY DEF TypeOK
<1>2. Len(q) \in Nat /\ n \in Nat /\ n <= 2 * Len(q)  BY <1>1
<1>3. \A k \in 1..(2 * Len(q)) : a[k] = Answer(q, k)  BY DEF Answers, Answer, Half
<1>4. Len(o) = n /\ \A k \in 1..Len(o) : o[k] = Answer(q, k)  BY DEF AnsOK
<1>5. \A k \in 1..n : a[k] \in OutPiece /\ a[k] = o[k]
  <2> HIDE DEF q, o, a, n
  <2> SUFFICES ASSUME NEW k \in 1..n PROVE a[k] \in OutPiece /\ a[k] = o[k]
    OBVIOUS
  <2>1. k \in 1..(2 * Len(q)) /\ k \in 1..Len(o)  BY <1>2, <1>4
  <2>2. a[k] = o[k]  BY <1>3, <1>4, <2>1
  <2>3. o[k] \in OutPiece  BY <1>1, <2>1
  <2> QED  BY <2>2, <2>3
<1> HIDE DEF q, o, a, n
<1>6. /\ SubSeq(a, 1, n) \in Seq(OutPiece)
      /\ Len(SubSeq(a, 1, n)) = IF 1 <= n THEN n - 1 + 1 ELSE 0
      /\ \A k \in 1..(n - 1 + 1) : SubSeq(a, 1, n)[k] = a[1 + k - 1]
  BY <1>2, <1>5, SubSeqProperties
<1>7. n - 1 + 1 = n /\ (\A k \in 1..n : 1 + k - 1 = k) /\ (~(1 <= n) => n = 0)  BY <1>2
<1>8. Len(SubSeq(a, 1, n)) = n /\ \A k \in 1..n : SubSeq(a, 1, n)[k] = a[k]  BY <1>6, <1>7
<1>9. \A k \in 1..Len(o) : o[k] = SubSeq(a, 1, n)[k]  BY <1>4, <1>5, <1>8
<1>10. o = SubSeq(a, 1, n)  BY <1>1, <1>4, <1>6, <1>8, <1>9, SeqEqual
<1> QED  BY <1>10 DEF o, a, n, q

LEMMA StreamsFollow ==
    ASSUME IpcInv
    PROVE  StreamsAreInOrder
<1> USE DEF IpcInv, ServerInv, StreamInv
<1> SUFFICES ASSUME NEW c \in Clients
    PROVE
        /\ \A j \in DOMAIN asked[c] :
              /\ asked[c][j] \in DOMAIN told[c] /\ RequestAt(c, asked[c][j])
              /\ j > 1 => asked[c][j - 1] < asked[c][j]
        /\ \A k \in 1..got[c] - 1 :
              RequestAt(c, k) /\ main = "poll" => \E j \in DOMAIN asked[c] : asked[c][j] = k
        /\ c \notin gaveUp =>
              LET open == IF main = "send" /\ clients[cur].fd = c
                          THEN 2 - job[Main].done ELSE 0
              IN out[c][Main] = SubSeq(Answers(c), 1, 2 * Len(asked[c]) - open)
        /\ c \notin gaveUp \cup inherited =>
              \A t \in Casters :
                  /\ \A k \in DOMAIN out[c][t] : out[c][t][k].piece = 2 - (k % 2)
                  /\ out[c][t] # <<>> =>
                        \E j \in DOMAIN asked[c] : told[c][asked[c][j]].kind = "subscribe"
  BY DEF StreamsAreInOrder
<1>1. told[c] \in Seq(Piece) /\ asked[c] \in Seq(Nat) /\ \A s \in Senders : out[c][s] \in Seq(OutPiece)
  BY DEF TypeOK, Senders
<1>2. DOMAIN asked[c] = 1..Len(asked[c]) /\ DOMAIN told[c] = 1..Len(told[c]) /\ Len(asked[c]) \in Nat
  BY <1>1
<1>3. \A k : RequestAt(c, k) <=> Request(told[c], k)  BY <1>2 DEF RequestAt, Request
<1>4. AskOK(told[c], asked[c])  BY DEF InputInv, AskedInv
<1>5. \A j \in DOMAIN asked[c] :
         /\ asked[c][j] \in DOMAIN told[c] /\ RequestAt(c, asked[c][j])
         /\ j > 1 => asked[c][j - 1] < asked[c][j]
  BY <1>2, <1>3, <1>4 DEF AskOK
<1>6. ASSUME main = "poll"
      PROVE  \A k \in 1..(got[c] - 1) : Request(told[c], k) => IsIn(asked[c], k)
  <2>1. CASE Open(c)
    <3>1. PICK i \in Slots : clients[i].fd = c  BY <2>1 DEF SlotInv
    <3> QED  BY <1>6, <3>1, DoneIsTaken DEF Busy
  <2>2. CASE ~Open(c)  BY <2>2 DEF InputInv, AskedInv
  <2> QED  BY <2>1, <2>2
<1>7. \A k \in 1..got[c] - 1 :
         RequestAt(c, k) /\ main = "poll" => \E j \in DOMAIN asked[c] : asked[c][j] = k
  BY <1>2, <1>3, <1>6 DEF IsIn
<1>8. ASSUME c \notin gaveUp
      PROVE  out[c][Main] = SubSeq(Answers(c), 1, 2 * Len(asked[c]) - Missing(c))
  <2>1. AnsOK(out[c][Main], asked[c], Missing(c))  BY <1>8 DEF AnswerInv
  <2>2. Missing(c) \in Nat /\ Missing(c) <= 2 * Len(asked[c])
    <3>1. CASE main = "send" /\ clients[cur].fd = c
      <4>1. Len(asked[c]) > 0  BY <3>1 DEF MainInv
      <4>2. job[Main].done \in 0..2  BY DEF TypeOK
      <4>3. Missing(c) = 2 - job[Main].done  BY <3>1 DEF Missing
      <4> QED  BY <1>2, <4>1, <4>2, <4>3
    <3>2. CASE ~(main = "send" /\ clients[cur].fd = c)
      <4>1. Missing(c) = 0  BY <3>2 DEF Missing
      <4> QED  BY <1>2, <4>1
    <3> QED  BY <3>1, <3>2
  <2> QED  BY <2>1, <2>2, AnswersWritten
<1>9. ASSUME c \notin gaveUp \cup inherited, NEW t \in Casters
      PROVE  /\ \A k \in DOMAIN out[c][t] : out[c][t][k].piece = 2 - (k % 2)
             /\ out[c][t] # <<>> =>
                   \E j \in DOMAIN asked[c] : told[c][asked[c][j]].kind = "subscribe"
  <2>1. Whole(out[c][t]) /\ (Len(out[c][t]) > 0 => Subscribed(c))  BY <1>9 DEF EventInv, EventOK
  <2>2. out[c][t] \in Seq(OutPiece)  BY <1>1 DEF Senders
  <2>3. DOMAIN out[c][t] = 1..Len(out[c][t]) /\ (out[c][t] # <<>> => Len(out[c][t]) > 0)  BY <2>2
  <2> QED  BY <1>2, <2>1, <2>3 DEF Whole, Subscribed
<1> QED  BY <1>5, <1>7, <1>8, <1>9 DEF Missing

-----------------------------------------------------------------------------
(* The theorems. *)

\* The invariant holds of every reachable state, however clients, reads,
\* writes and broadcasts interleave.
LEMMA IpcInvariant == Spec => []IpcInv
<1>1. Init => IpcInv  BY ServerInit, StreamInit DEF IpcInv
<1>2. IpcInv /\ [Next]_vars => IpcInv'  BY ServerStep, StreamStep DEF IpcInv
<1> QED  BY <1>1, <1>2, PTL DEF Spec

\* The server's tables, the senders' jobs and the histories keep their types
\* (pf_ipc_t, pf_ipc_send).
THEOREM IpcTypeCorrect == Spec => []TypeOK
<1>1. IpcInv => TypeOK  BY DEF IpcInv, ServerInv
<1> QED  BY <1>1, IpcInvariant, PTL

\* pf_ipc_accept, client_remove and pf_ipc_close keep the slots equal to the
\* open connections and client_count equal to their number, for any number of
\* clients and slots.
THEOREM SlotsHoldClients == Spec => []SlotsAreClients
<1>1. IpcInv => SlotsAreClients  BY SlotsCountClients DEF IpcInv
<1> QED  BY <1>1, IpcInvariant, PTL

\* pf_ipc_process takes up exactly the requests a client made, in order;
\* pf_ipc_send answers each once and in that order unless it gives up; and
\* pf_ipc_broadcast_log writes whole events to clients that subscribed, unless
\* they inherited the slot of one: for every script and every way of cutting
\* input and output into pieces.
THEOREM RequestsAnsweredInOrder == Spec => []StreamsAreInOrder
<1>1. IpcInv => StreamsAreInOrder  BY StreamsFollow
<1> QED  BY <1>1, IpcInvariant, PTL
=============================================================================
