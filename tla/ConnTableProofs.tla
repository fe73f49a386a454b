-------------------------- MODULE ConnTableProofs ---------------------------
(***************************************************************************)
(* TLAPS proofs about ConnTable, for any number of connections, slots,     *)
(* descriptors and events per batch.  The four invariants the run checks   *)
(* follow from one inductive invariant: who holds which descriptor, thread *)
(* by thread and slot by slot, and how far a tear-down has got.  Its       *)
(* preservation is proved for the four shapes a step can have (quiet, of   *)
(* an accept thread before its claim, a claim, of the main thread on a     *)
(* slot) and every action is shown to have one of them.                    *)
(***************************************************************************)
EXTENDS ConnTable, WellFoundedInduction, TLAPS

-----------------------------------------------------------------------------
(* The inductive invariant. *)

\* The accept thread is past the table: it has claimed a slot or given up.
Past(c) == thread[c].pc \notin Routing \cup {"none"}

\* The steps of pf_tproxy_close_conn without the lock.
TearSteps == {"close1", "close2", "close3"}
TearingDown(s) == main.slot = s /\ main.pc \in TearSteps

\* An accept thread owns what it has opened, and nothing else.
ThreadHolds(c) ==
    /\ thread[c].pc \in Routing => thread[c].cfd \in Fds /\ files[thread[c].cfd] = c
    /\ thread[c].pc \in {"none", "route", "direct"} => thread[c].pfd = NoFd
    /\ thread[c].pc \in {"connect", "dconnect"} =>
          /\ thread[c].pfd \in Fds /\ files[thread[c].pfd] = c
          /\ thread[c].cfd # thread[c].pfd
    /\ thread[c].pc \in {"server", "client", "reg1", "reg2"} =>
          thread[c].cfd \in Fds /\ thread[c].pfd \in Fds

\* An active slot has an owner whose thread is past claiming; its descriptors
\* are two open sockets of the owner, unless the slot is being torn down.
SlotHolds(s) ==
    conns[s].active =>
        /\ conns[s].owner \in Conns /\ Past(conns[s].owner)
        /\ conns[s].cfd # NoFd => files[conns[s].cfd] = conns[s].owner
        /\ conns[s].pfd # NoFd => files[conns[s].pfd] = conns[s].owner
        /\ conns[s].cfd = NoFd => TearingDown(s) /\ main.pc # "close1"
        /\ conns[s].pfd = NoFd => TearingDown(s) /\ main.pc = "close3"
        /\ conns[s].cfd = conns[s].pfd => conns[s].cfd = NoFd

\* Who holds an open descriptor of connection c.
ThreadHas(c, f) == thread[c].pc \in Routing /\ (f = thread[c].cfd \/ f = thread[c].pfd)
SlotHas(s, c, f) ==
    conns[s].active /\ conns[s].owner = c /\ (f = conns[s].cfd \/ f = conns[s].pfd)
Held(f) == files[f] # None => \/ ThreadHas(files[f], f)
                              \/ \E s \in Slots : SlotHas(s, files[f], f)

\* A connection has at most one slot.
OneSlotEach ==
    \A s, t \in Slots :
        conns[s].active /\ conns[t].active /\ conns[s].owner = conns[t].owner => s = t

\* The slot the main thread works on is still the one it looked up.
MainHolds ==
    /\ main.pc \in TearSteps \cup {"relay"} =>
          conns[main.slot].active /\ conns[main.slot].owner = main.conn
    /\ main.pc \in {"relay", "close1"} =>
          conns[main.slot].cfd = main.cfd /\ conns[main.slot].pfd = main.pfd
    /\ main.pc \in {"close2", "close3"} => conns[main.slot].cfd = NoFd
    /\ main.pc = "close3" => conns[main.slot].pfd = NoFd

\* Nothing is left of connection c.
Gone(c) == /\ \A f \in Fds : files[f] # c
           /\ \A s \in Slots : ~(conns[s].active /\ conns[s].owner = c)

\* A connection whose relay failed is gone, unless it is the one being torn down.
FailedGone ==
    \A c \in failed :
        /\ Past(c)
        /\ \/ main.pc \in TearSteps /\ main.conn = c
           \/ Gone(c)

IndInv ==
    /\ TypeOK
    /\ \A c \in Conns : ThreadHolds(c)
    /\ \A s \in Slots : SlotHolds(s)
    /\ \A f \in Fds : Held(f)
    /\ OneSlotEach /\ MainHolds /\ FailedGone

-----------------------------------------------------------------------------
(* What the kernel's and the table's scans return. *)

\* A non-empty set of numbers has a least element.
LEMMA HasLeast ==
    ASSUME NEW S, S \subseteq Nat, S # {}
    PROVE  \E x \in S : \A y \in S : x <= y
<1> DEFINE R == OpToRel(<, Nat)
<1>1. IsWellFoundedOn(R, Nat)  BY NatLessThanWellFounded
<1>2. \A x, y \in Nat : x < y => <<x, y>> \in R  BY DEF OpToRel
<1> HIDE DEF R
<1>3. PICK x \in S : \A y \in S : ~ (<<y, x>> \in R)  BY <1>1, WFMin
<1>4. ASSUME NEW y \in S PROVE x <= y
  <2>1. ~(y < x)  BY <1>2, <1>3
  <2> QED  BY <2>1
<1> QED  BY <1>4

\* open(2) returns a descriptor that was closed.
LEMMA LowestIsFree ==
    ASSUME FreeFds # {}
    PROVE  LowestFreeFd \in Fds /\ files[LowestFreeFd] = None
<1>1. FreeFds \subseteq Nat  BY TableAssumption DEF FreeFds, Fds
<1>2. \E f \in FreeFds : \A g \in FreeFds : f <= g  BY <1>1, HasLeast
<1>3. LowestFreeFd \in FreeFds  BY <1>2 DEF LowestFreeFd
<1> QED  BY <1>3 DEF FreeFds

\* The scan of the table returns an inactive slot.
LEMMA FirstIsFree ==
    ASSUME FreeSlots # {}
    PROVE  FirstFreeSlot \in Slots /\ ~conns[FirstFreeSlot].active
<1>1. FreeSlots \subseteq Nat  BY TableAssumption DEF FreeSlots, Slots
<1>2. \E s \in FreeSlots : \A t \in FreeSlots : s <= t  BY <1>1, HasLeast
<1>3. FirstFreeSlot \in FreeSlots  BY <1>2 DEF FirstFreeSlot
<1> QED  BY <1>3 DEF FreeSlots

\* Descriptor numbers, and the one that is none.
LEMMA FdFacts ==
    /\ NoFd \notin Fds /\ 0..MaxFd = Fds \cup {NoFd} /\ NoFd \in 0..MaxFd
    /\ 1 \in Slots /\ None \notin Conns
BY TableAssumption DEF NoFd, Fds, Slots

MainRecords == [pc : MainSteps, batch : Seq(Fds \cup {Listen}), slot : Slots,
                cfd : 0..MaxFd, pfd : 0..MaxFd, conn : Conns \cup {None}]
ThreadRecords == [pc : ThreadSteps, cfd : 0..MaxFd, pfd : 0..MaxFd, slot : Slots]

\* What is left of a batch of events.
LEMMA NextEventType ==
    ASSUME TypeOK
    PROVE  NextEvent \in MainRecords /\ NextEvent.pc \in {"wait", "event"}
<1> USE DEF MainRecords
<1>1. main.batch \in Seq(Fds \cup {Listen})  BY DEF TypeOK
<1>2. Len(main.batch) > 1 => Tail(main.batch) \in Seq(Fds \cup {Listen})  BY <1>1
<1>3. Idle \in MainRecords  BY FdFacts DEF Idle, MainSteps
<1>4. CASE Len(main.batch) <= 1  BY <1>3, <1>4 DEF NextEvent, Idle
<1>5. CASE ~(Len(main.batch) <= 1)
  <2>1. NextEvent = [Idle EXCEPT !.pc = "event", !.batch = Tail(main.batch)]
    BY <1>5 DEF NextEvent
  <2>2. Tail(main.batch) \in Seq(Fds \cup {Listen})  BY <1>1, <1>2, <1>5
  <2> QED  BY <1>3, <2>1, <2>2 DEF Idle, MainSteps
<1> QED  BY <1>4, <1>5

-----------------------------------------------------------------------------
(* The shapes of a step. *)

\* The main thread is neither relaying nor tearing down.
Elsewhere == main.pc \notin TearSteps \cup {"relay"}

\* A quiet step: no descriptor is opened or closed, no slot changes hands, and
\* the only threads that move are past the table.
LEMMA Quiet ==
    ASSUME IndInv, TypeOK', MainHolds',
           files' = files, failed' = failed,
           \A s \in Slots : /\ conns'[s].active = conns[s].active
                            /\ conns'[s].owner = conns[s].owner
                            /\ conns'[s].cfd = conns[s].cfd
                            /\ conns'[s].pfd = conns[s].pfd,
           \A c \in Conns : \/ thread'[c] = thread[c]
                            \/ Past(c) /\ Past(c)' /\ ThreadHolds(c)',
           main' = main \/ (main.pc \notin TearSteps /\ main'.pc \notin TearSteps)
    PROVE  IndInv'
<1> USE DEF IndInv
<1>1. \A c \in Conns : Past(c)' = Past(c)  BY DEF Past
<1>2. \A c \in Conns : ThreadHolds(c)'  BY DEF ThreadHolds, Past, Routing
<1>3. \A s \in Slots : TearingDown(s)' = TearingDown(s)  BY DEF TearingDown
<1>4. \A s \in Slots : SlotHolds(s)'
  BY <1>1, <1>3 DEF SlotHolds, TearingDown
<1>5. \A f \in Fds : Held(f)'
  <2> SUFFICES ASSUME NEW f \in Fds, files[f] # None
               PROVE  ThreadHas(files[f], f)' \/ \E s \in Slots : SlotHas(s, files[f], f)'
    BY DEF Held
  <2>1. files[f] \in Conns  BY DEF TypeOK
  <2>2. ThreadHas(files[f], f) \/ \E s \in Slots : SlotHas(s, files[f], f)  BY DEF Held
  <2>3. ThreadHas(files[f], f) => ThreadHas(files[f], f)'  BY <2>1 DEF ThreadHas, Past
  <2>4. \A s \in Slots : SlotHas(s, files[f], f) => SlotHas(s, files[f], f)'
    BY DEF SlotHas
  <2> QED  BY <2>2, <2>3, <2>4
<1>6. OneSlotEach'  BY DEF OneSlotEach
<1>7. FailedGone'
  <2>1. \A c \in failed : c \in Conns  BY DEF TypeOK
  <2>2. \A c \in failed : Gone(c) => Gone(c)'  BY DEF Gone
  <2> QED  BY <1>1, <2>1, <2>2 DEF FailedGone
<1> QED  BY <1>2, <1>4, <1>5, <1>6, <1>7

\* A step of an accept thread that has not claimed a slot: it opens and closes
\* descriptors of its own only.
LEMMA ThreadMoves ==
    ASSUME IndInv, TypeOK', NEW c \in Conns, ~Past(c),
           \A d \in Conns \ {c} : thread'[d] = thread[d],
           conns' = conns, failed' = failed,
           main' = main \/ (Elsewhere /\ Elsewhere'),
           \A f \in Fds : files'[f] = files[f] \/ {files[f], files'[f]} \subseteq {None, c},
           ThreadHolds(c)', \A f \in Fds : files'[f] = c => ThreadHas(c, f)'
    PROVE  IndInv'
<1> USE FdFacts DEF IndInv
<1>1. \A s \in Slots : conns[s].active => conns[s].owner # c  BY DEF SlotHolds
<1>2. c \notin failed  BY DEF FailedGone
<1>3. \A d \in Conns \ {c} : Past(d)' = Past(d)  BY DEF Past
<1>4. \A d \in Conns : ThreadHolds(d)'
  <2> SUFFICES ASSUME NEW d \in Conns \ {c} PROVE ThreadHolds(d)'  OBVIOUS
  <2>1. \A f \in Fds : files[f] = d => files'[f] = d  OBVIOUS
  <2> QED  BY <2>1 DEF ThreadHolds
<1>5. \A s \in Slots : SlotHolds(s)'
  <2> SUFFICES ASSUME NEW s \in Slots, conns[s].active PROVE SlotHolds(s)'
    BY DEF SlotHolds
  <2> DEFINE o == conns[s].owner
  <2>1. o \in Conns \ {c} /\ Past(o) /\ Past(o)'  BY <1>1, <1>3 DEF SlotHolds
  <2>2. \A f \in Fds : files[f] = o => files'[f] = o  BY <2>1
  <2>3. conns[s].cfd \in Fds \cup {NoFd} /\ conns[s].pfd \in Fds \cup {NoFd}
    BY DEF TypeOK, SlotRecords
  <2>4. TearingDown(s)' = TearingDown(s) /\ (TearingDown(s) => main' = main)
    BY DEF TearingDown, Elsewhere
  <2> QED  BY <2>1, <2>2, <2>3, <2>4 DEF SlotHolds
<1>6. \A f \in Fds : Held(f)'
  <2> SUFFICES ASSUME NEW f \in Fds, files'[f] # None, files'[f] # c PROVE Held(f)'
    BY DEF Held
  <2>1. files'[f] = files[f] /\ files[f] \in Conns \ {c}  BY DEF TypeOK
  <2>2. ThreadHas(files[f], f) \/ \E s \in Slots : SlotHas(s, files[f], f)
    BY <2>1 DEF Held
  <2>3. \A d \in Conns \ {c} : ThreadHas(d, f) => ThreadHas(d, f)'  BY DEF ThreadHas
  <2>4. \A s \in Slots, d \in Conns : SlotHas(s, d, f) => SlotHas(s, d, f)'  BY DEF SlotHas
  <2> QED  BY <2>1, <2>2, <2>3, <2>4 DEF Held
<1>7. OneSlotEach'  BY DEF OneSlotEach
<1>8. MainHolds'  BY DEF MainHolds, Elsewhere, TearSteps
<1>9. FailedGone'
  <2> SUFFICES ASSUME NEW d \in failed
               PROVE  Past(d)' /\ ((main'.pc \in TearSteps /\ main'.conn = d) \/ Gone(d)')
    BY DEF FailedGone
  <2>1. d \in Conns \ {c}  BY <1>2 DEF TypeOK
  <2>2. Past(d)'  BY <1>3, <2>1 DEF FailedGone
  <2>3. Gone(d) => Gone(d)'  BY <2>1 DEF Gone
  <2>4. Elsewhere => Gone(d)  BY DEF FailedGone, Elsewhere
  <2> QED  BY <2>2, <2>3, <2>4 DEF FailedGone
<1> QED  BY <1>4, <1>5, <1>6, <1>7, <1>8, <1>9

\* A step of the main thread on the active slot s of connection o: it closes
\* descriptors of that connection only.
LEMMA SlotCloses ==
    ASSUME IndInv, TypeOK', MainHolds', NEW s \in Slots, NEW o \in Conns,
           conns[s].active, conns[s].owner = o,
           thread' = thread, failed' = failed,
           \A t \in Slots \ {s} : conns'[t] = conns[t],
           \A f \in Fds : files'[f] = files[f] \/ (files[f] = o /\ files'[f] = None),
           conns'[s].active => conns'[s].owner = o, SlotHolds(s)',
           \A f \in Fds : files'[f] = o => SlotHas(s, o, f)',
           \/ main.pc \notin TearSteps /\ main'.pc \notin TearSteps
           \/ /\ TearingDown(s)
              /\ \/ TearingDown(s)' /\ main'.conn = main.conn
                 \/ ~conns'[s].active
    PROVE  IndInv'
<1> USE FdFacts DEF IndInv
<1>1. \A c \in Conns : Past(c)' = Past(c)  BY DEF Past
<1>2. \A t \in Slots \ {s} : conns[t].active => conns[t].owner # o  BY DEF OneSlotEach
<1>3. Past(o)  BY DEF SlotHolds
<1>4. \A c \in Conns : ThreadHolds(c)'
  <2> SUFFICES ASSUME NEW c \in Conns PROVE ThreadHolds(c)'  OBVIOUS
  <2>1. CASE c = o  BY <1>3, <2>1 DEF ThreadHolds, Past, Routing
  <2>2. CASE c # o
    <3>1. \A f \in Fds : files[f] = c => files'[f] = c  BY <2>2
    <3> QED  BY <3>1 DEF ThreadHolds
  <2> QED  BY <2>1, <2>2
<1>5. \A t \in Slots : SlotHolds(t)'
  <2> SUFFICES ASSUME NEW t \in Slots \ {s}, conns[t].active PROVE SlotHolds(t)'
    BY DEF SlotHolds
  <2> DEFINE p == conns[t].owner
  <2>1. p \in Conns \ {o} /\ Past(p)'  BY <1>1, <1>2 DEF SlotHolds
  <2>2. \A f \in Fds : files[f] = p => files'[f] = p  BY <2>1
  <2>3. conns[t].cfd \in Fds \cup {NoFd} /\ conns[t].pfd \in Fds \cup {NoFd}
    BY DEF TypeOK, SlotRecords
  <2>4. ~TearingDown(t)  BY DEF TearingDown
  <2>5. conns[t].cfd # NoFd /\ conns[t].pfd # NoFd  BY <2>4 DEF SlotHolds
  <2> QED  BY <2>1, <2>2, <2>3, <2>5 DEF SlotHolds
<1>6. \A f \in Fds : Held(f)'
  <2> SUFFICES ASSUME NEW f \in Fds, files'[f] # None PROVE Held(f)'  BY DEF Held
  <2>1. CASE files'[f] = o  BY <2>1 DEF Held
  <2>2. CASE files'[f] # o
    <3>1. files'[f] = files[f] /\ files[f] \in Conns \ {o}  BY <2>2 DEF TypeOK
    <3>2. ThreadHas(files[f], f) => ThreadHas(files[f], f)'  BY <3>1 DEF ThreadHas
    <3>3. ASSUME NEW t \in Slots, SlotHas(t, files[f], f) PROVE SlotHas(t, files[f], f)'
      <4>1. t # s  BY <3>1, <3>3 DEF SlotHas
      <4> QED  BY <3>1, <3>3, <4>1 DEF SlotHas
    <3> QED  BY <3>1, <3>2, <3>3 DEF Held
  <2> QED  BY <2>1, <2>2
<1>7. OneSlotEach'  BY <1>2 DEF OneSlotEach
<1>8. FailedGone'
  <2> SUFFICES ASSUME NEW c \in failed
               PROVE  (main'.pc \in TearSteps /\ main'.conn = c) \/ Gone(c)'
    BY <1>1 DEF FailedGone, TypeOK
  <2>1. c \in Conns  BY DEF TypeOK
  <2>2. Gone(c) => Gone(c)'
    <3>1. Gone(c) => c # o  BY DEF Gone
    <3>2. \A f \in Fds : files'[f] = c => files[f] = c  BY <2>1
    <3> QED  BY <3>1, <3>2 DEF Gone
  <2>3. CASE ~Gone(c)
    <3>1. main.pc \in TearSteps /\ main.conn = c  BY <2>3 DEF FailedGone
    <3>2. main.slot = s /\ c = o  BY <3>1 DEF TearingDown, MainHolds
    <3>3. CASE TearingDown(s)' /\ main'.conn = main.conn  BY <3>1, <3>3 DEF TearingDown
    <3>4. CASE ~conns'[s].active
      <4>1. \A f \in Fds : files'[f] # c  BY <3>2, <3>4 DEF SlotHas
      <4>2. \A t \in Slots : ~(conns'[t].active /\ conns'[t].owner = c)
        BY <1>2, <3>2, <3>4
      <4> QED  BY <4>1, <4>2 DEF Gone
    <3> QED  BY <3>1, <3>3, <3>4
  <2> QED  BY <2>2, <2>3
<1> QED  BY <1>4, <1>5, <1>6, <1>7, <1>8

-----------------------------------------------------------------------------
(* Assignments to fields of a thread's locals and of a slot. *)

LEMMA ThreadSetSlot ==
    ASSUME TypeOK, NEW c \in Conns, NEW pc \in ThreadSteps, NEW s \in Slots,
           thread' = [thread EXCEPT ![c].pc = pc, ![c].slot = s]
    PROVE  /\ thread' \in [Conns -> ThreadRecords]
           /\ thread'[c].pc = pc
           /\ thread'[c].cfd = thread[c].cfd /\ thread'[c].pfd = thread[c].pfd
           /\ \A d \in Conns \ {c} : thread'[d] = thread[d]
<1>1. thread \in [Conns -> ThreadRecords]  BY DEF TypeOK, ThreadRecords
<1>2. thread'[c] = [[thread[c] EXCEPT !.pc = pc] EXCEPT !.slot = s]  BY <1>1
<1>3. thread[c] \in ThreadRecords  BY <1>1
<1>4. /\ thread'[c] \in ThreadRecords /\ thread'[c].pc = pc
      /\ thread'[c].cfd = thread[c].cfd /\ thread'[c].pfd = thread[c].pfd
  <2> DEFINE r == [thread[c] EXCEPT !.pc = pc]
  <2>1. /\ r \in ThreadRecords /\ r.pc = pc
        /\ r.cfd = thread[c].cfd /\ r.pfd = thread[c].pfd
    BY <1>3 DEF ThreadRecords
  <2>2. thread'[c] = [r EXCEPT !.slot = s]  BY <1>2
  <2> HIDE DEF r
  <2>3. [r EXCEPT !.slot = s] \in ThreadRecords  BY <2>1 DEF ThreadRecords
  <2>4. /\ [r EXCEPT !.slot = s].pc = r.pc /\ [r EXCEPT !.slot = s].cfd = r.cfd
        /\ [r EXCEPT !.slot = s].pfd = r.pfd
    BY <2>1 DEF ThreadRecords
  <2> QED  BY <2>1, <2>2, <2>3, <2>4
<1>5. \A d \in Conns \ {c} : thread'[d] = thread[d]  BY <1>1
<1> QED  BY <1>1, <1>4, <1>5

LEMMA ThreadSetPc ==
    ASSUME TypeOK, NEW c \in Conns, NEW pc \in ThreadSteps,
           thread' = [thread EXCEPT ![c].pc = pc]
    PROVE  /\ thread' \in [Conns -> ThreadRecords] /\ thread'[c].pc = pc
           /\ thread'[c].cfd = thread[c].cfd /\ thread'[c].pfd = thread[c].pfd
           /\ \A d \in Conns \ {c} : thread'[d] = thread[d]
<1>1. thread \in [Conns -> ThreadRecords]  BY DEF TypeOK, ThreadRecords
<1>2. thread'[c] = [thread[c] EXCEPT !.pc = pc] /\ thread[c] \in ThreadRecords  BY <1>1
<1>3. /\ thread'[c] \in ThreadRecords /\ thread'[c].pc = pc
      /\ thread'[c].cfd = thread[c].cfd /\ thread'[c].pfd = thread[c].pfd
  BY <1>2 DEF ThreadRecords
<1>4. \A d \in Conns \ {c} : thread'[d] = thread[d]  BY <1>1
<1> QED  BY <1>1, <1>3, <1>4

\* The session of a slot is nothing the invariant depends on.
LEMMA SlotSetTls ==
    ASSUME TypeOK, NEW s \in Slots, NEW made \in Conns \cup {None},
           conns' = [conns EXCEPT ![s].tls = made]
    PROVE  /\ conns' \in [Slots -> SlotRecords]
           /\ \A t \in Slots : /\ conns'[t].active = conns[t].active
                               /\ conns'[t].owner = conns[t].owner
                               /\ conns'[t].cfd = conns[t].cfd
                               /\ conns'[t].pfd = conns[t].pfd
<1>1. conns \in [Slots -> SlotRecords]  BY DEF TypeOK
<1>2. conns'[s] = [conns[s] EXCEPT !.tls = made] /\ conns[s] \in SlotRecords  BY <1>1
<1>3. /\ conns'[s] \in SlotRecords /\ conns'[s].active = conns[s].active
      /\ conns'[s].owner = conns[s].owner
      /\ conns'[s].cfd = conns[s].cfd /\ conns'[s].pfd = conns[s].pfd
  BY <1>2 DEF SlotRecords
<1>4. \A t \in Slots \ {s} : conns'[t] = conns[t]  BY <1>1
<1> QED  BY <1>1, <1>3, <1>4

-----------------------------------------------------------------------------
(* One lemma per action. *)

LEMMA InitInv == Init => IndInv
<1> SUFFICES ASSUME Init PROVE IndInv  OBVIOUS
<1>1. TypeOK
  BY FdFacts DEF Init, TypeOK, Idle, EmptySlot, SlotRecords, Ended, ThreadSteps, MainSteps
<1>2. \A s \in Slots : ~conns[s].active  BY DEF Init, EmptySlot
<1>3. \A c \in Conns : thread[c].pc = "none"  BY DEF Init, Ended
<1>4. \A c \in Conns : ThreadHolds(c)
  <2>1. \A c \in Conns : thread[c].pfd = NoFd  BY DEF Init, Ended
  <2> QED  BY <1>3, <2>1 DEF ThreadHolds, Routing
<1>5. \A s \in Slots : SlotHolds(s)  BY <1>2 DEF SlotHolds
<1>6. \A f \in Fds : Held(f)  BY DEF Init, Held
<1>7. OneSlotEach /\ MainHolds /\ FailedGone
  BY <1>2 DEF Init, Idle, OneSlotEach, MainHolds, FailedGone, TearSteps
<1> QED  BY <1>1, <1>4, <1>5, <1>6, <1>7 DEF IndInv

\* The accept thread, up to its claim: what it closes is its own.
LEMMA RouteRefusesStep ==
    ASSUME IndInv, NEW c \in Conns, RouteRefuses(c) PROVE IndInv'
<1> USE FdFacts DEF IndInv
<1>1. /\ thread[c].pc \in {"route", "direct"} /\ thread' = [thread EXCEPT ![c] = Ended]
      /\ files' = [f \in Fds |-> IF f \in {thread[c].cfd} THEN None ELSE files[f]]
      /\ epoll' = epoll \ {thread[c].cfd} /\ UNCHANGED <<conns, main, failed>>
  BY DEF RouteRefuses, Close
<1>2. Ended \in ThreadRecords  BY DEF Ended, ThreadRecords, ThreadSteps
<1>3. TypeOK'  BY <1>1, <1>2 DEF TypeOK, ThreadRecords
<1>4. thread'[c].pc = "end" /\ \A d \in Conns \ {c} : thread'[d] = thread[d]
  BY <1>1 DEF TypeOK, Ended
<1>5. thread[c].cfd \in Fds /\ files[thread[c].cfd] = c /\ thread[c].pfd = NoFd
  BY <1>1 DEF ThreadHolds, Routing
<1>6. ~Past(c) /\ \A s \in Slots : ~(conns[s].active /\ conns[s].owner = c)
  BY <1>1 DEF Past, Routing, SlotHolds
<1>7. ASSUME NEW f \in Fds, files[f] = c PROVE f = thread[c].cfd
  BY <1>5, <1>6, <1>7 DEF Held, ThreadHas, SlotHas
<1>8. \A f \in Fds : files'[f] = files[f] \/ {files[f], files'[f]} \subseteq {None, c}
  BY <1>1, <1>5
<1>9. \A f \in Fds : files'[f] # c  BY <1>1, <1>7
<1>10. ThreadHolds(c)'  BY <1>4 DEF ThreadHolds, Routing
<1> QED  BY <1>1, <1>3, <1>4, <1>6, <1>8, <1>9, <1>10, ThreadMoves

LEMMA OpenSocketStep ==
    ASSUME IndInv, NEW c \in Conns, OpenSocket(c) PROVE IndInv'
<1> USE FdFacts DEF IndInv
<1> DEFINE fd == LowestFreeFd
<1>1. fd \in Fds /\ files[fd] = None  BY LowestIsFree DEF OpenSocket
<1>2. /\ thread[c].pc \in {"route", "direct"} /\ files' = [files EXCEPT ![fd] = c]
      /\ \E pc \in {"connect", "dconnect"} :
            thread' = [thread EXCEPT ![c].pc = pc, ![c].pfd = fd]
      /\ UNCHANGED <<epoll, conns, main, failed>>
  BY DEF OpenSocket
<1> HIDE DEF fd
<1>3. /\ thread'[c].pc \in {"connect", "dconnect"} /\ thread'[c].pfd = fd
      /\ thread'[c].cfd = thread[c].cfd /\ \A d \in Conns \ {c} : thread'[d] = thread[d]
      /\ thread' \in [Conns -> ThreadRecords]
  <2>1. PICK pc \in {"connect", "dconnect"} :
           thread' = [thread EXCEPT ![c].pc = pc, ![c].pfd = fd]
    BY <1>2
  <2>2. pc \in ThreadSteps /\ fd \in 0..MaxFd  BY <1>1 DEF ThreadSteps
  <2>3. thread \in [Conns -> ThreadRecords]  BY DEF TypeOK, ThreadRecords
  <2>4. thread'[c] = [[thread[c] EXCEPT !.pc = pc] EXCEPT !.pfd = fd]  BY <2>1, <2>3
  <2>5. /\ thread'[c] \in ThreadRecords /\ thread'[c].pc = pc
        /\ thread'[c].pfd = fd /\ thread'[c].cfd = thread[c].cfd
    BY ZenonT(30), <2>2, <2>3, <2>4 DEF ThreadRecords
  <2>6. \A d \in Conns \ {c} : thread'[d] = thread[d]  BY <2>1, <2>3
  <2> QED  BY <2>1, <2>3, <2>5, <2>6
<1>4. TypeOK'  BY <1>1, <1>2, <1>3 DEF TypeOK, ThreadRecords
<1>5. thread[c].cfd \in Fds /\ files[thread[c].cfd] = c /\ thread[c].pfd = NoFd
  BY <1>2 DEF ThreadHolds, Routing
<1>6. ~Past(c) /\ \A s \in Slots : ~(conns[s].active /\ conns[s].owner = c)
  BY <1>2 DEF Past, Routing, SlotHolds
<1>7. ASSUME NEW f \in Fds, files[f] = c PROVE f = thread[c].cfd
  BY <1>5, <1>6, <1>7 DEF Held, ThreadHas, SlotHas
<1>8. \A f \in Fds : files'[f] = IF f = fd THEN c ELSE files[f]  BY <1>2 DEF TypeOK
<1>9. \A f \in Fds : files'[f] = files[f] \/ {files[f], files'[f]} \subseteq {None, c}
  BY <1>1, <1>8
<1>10. ThreadHolds(c)'  BY <1>1, <1>3, <1>5, <1>8 DEF ThreadHolds, Routing
<1>11. \A f \in Fds : files'[f] = c => ThreadHas(c, f)'
  BY <1>3, <1>7, <1>8 DEF ThreadHas, Routing
<1> QED  BY <1>2, <1>3, <1>4, <1>6, <1>9, <1>10, <1>11, ThreadMoves

\* An accept thread in a connect holds two descriptors and nothing else is its own.
LEMMA Connecting ==
    ASSUME IndInv, NEW c \in Conns, thread[c].pc \in {"connect", "dconnect"}
    PROVE  /\ ~Past(c) /\ \A s \in Slots : ~(conns[s].active /\ conns[s].owner = c)
           /\ thread[c].cfd \in Fds /\ files[thread[c].cfd] = c
           /\ thread[c].pfd \in Fds /\ files[thread[c].pfd] = c
           /\ thread[c].cfd # thread[c].pfd
           /\ \A f \in Fds : files[f] = c => f \in {thread[c].cfd, thread[c].pfd}
<1> USE FdFacts DEF IndInv
<1>1. ~Past(c) /\ \A s \in Slots : ~(conns[s].active /\ conns[s].owner = c)
  BY DEF Past, Routing, SlotHolds
<1>2. \A f \in Fds : files[f] = c => f \in {thread[c].cfd, thread[c].pfd}
  BY <1>1 DEF Held, ThreadHas, SlotHas
<1> QED  BY <1>1, <1>2 DEF ThreadHolds, Routing

\* It gives up: both descriptors are closed and the thread ends.
LEMMA GivesUp ==
    ASSUME IndInv, NEW c \in Conns, thread[c].pc \in {"connect", "dconnect"},
           Close({thread[c].pfd, thread[c].cfd}),
           thread' = [thread EXCEPT ![c] = Ended], UNCHANGED <<conns, main, failed>>
    PROVE  IndInv'
<1> USE FdFacts DEF IndInv
<1>1. Ended \in ThreadRecords  BY DEF Ended, ThreadRecords, ThreadSteps
<1>2. TypeOK'  BY <1>1 DEF TypeOK, ThreadRecords, Close
<1>3. thread'[c].pc = "end" /\ \A d \in Conns \ {c} : thread'[d] = thread[d]
  BY DEF TypeOK, Ended
<1>4. \A f \in Fds : files'[f] = IF f \in {thread[c].pfd, thread[c].cfd} THEN None ELSE files[f]
  BY DEF Close
<1>5. \A f \in Fds : files'[f] = files[f] \/ {files[f], files'[f]} \subseteq {None, c}
  BY <1>4, Connecting
<1>6. \A f \in Fds : files'[f] # c  BY <1>4, Connecting
<1>7. ThreadHolds(c)'  BY <1>3 DEF ThreadHolds, Routing
<1>8. ~Past(c)  BY Connecting
<1> QED  BY <1>2, <1>3, <1>5, <1>6, <1>7, <1>8, ThreadMoves

LEMMA ConnectFailsStep ==
    ASSUME IndInv, NEW c \in Conns, ConnectFails(c) PROVE IndInv'
<1> USE FdFacts DEF IndInv
<1>1. CASE thread[c].pc = "dconnect"  BY <1>1, GivesUp DEF ConnectFails
<1>2. CASE thread[c].pc = "connect"
  <2>1. /\ files' = [f \in Fds |-> IF f \in {thread[c].pfd} THEN None ELSE files[f]]
        /\ epoll' = epoll \ {thread[c].pfd} /\ UNCHANGED <<conns, main, failed>>
        /\ thread' = [thread EXCEPT ![c].pc = "direct", ![c].pfd = NoFd]
    BY <1>2 DEF ConnectFails, Close
  <2>2. /\ thread'[c].pc = "direct" /\ thread'[c].pfd = NoFd
        /\ thread'[c].cfd = thread[c].cfd /\ \A d \in Conns \ {c} : thread'[d] = thread[d]
        /\ thread' \in [Conns -> ThreadRecords]
    <3>1. "direct" \in ThreadSteps  BY DEF ThreadSteps
    <3>2. thread \in [Conns -> ThreadRecords]  BY DEF TypeOK, ThreadRecords
    <3>3. thread'[c] = [[thread[c] EXCEPT !.pc = "direct"] EXCEPT !.pfd = NoFd]
      BY <2>1, <3>2
    <3>4. /\ thread'[c] \in ThreadRecords /\ thread'[c].pc = "direct"
          /\ thread'[c].pfd = NoFd /\ thread'[c].cfd = thread[c].cfd
      BY ZenonT(30), <3>1, <3>2, <3>3 DEF ThreadRecords
    <3>5. \A d \in Conns \ {c} : thread'[d] = thread[d]  BY <2>1, <3>2
    <3> QED  BY <2>1, <3>2, <3>4, <3>5
  <2>3. TypeOK'  BY <2>1, <2>2 DEF TypeOK, ThreadRecords
  <2>4. \A f \in Fds : files'[f] = IF f = thread[c].pfd THEN None ELSE files[f]  BY <2>1
  <2>5. \A f \in Fds : files'[f] = files[f] \/ {files[f], files'[f]} \subseteq {None, c}
    BY <1>2, <2>4, Connecting
  <2>6. \A f \in Fds : files'[f] = c => f = thread[c].cfd  BY <1>2, <2>4, Connecting
  <2>7. ThreadHolds(c)'  BY <1>2, <2>2, <2>4, Connecting DEF ThreadHolds, Routing
  <2>8. \A f \in Fds : files'[f] = c => ThreadHas(c, f)'
    BY <2>2, <2>6 DEF ThreadHas, Routing
  <2>9. ~Past(c)  BY <1>2, Connecting
  <2> QED  BY <2>1, <2>2, <2>3, <2>5, <2>7, <2>8, <2>9, ThreadMoves
<1> QED  BY <1>1, <1>2 DEF ConnectFails

\* The claim hands both descriptors from the thread to the slot.
LEMMA ClaimStep ==
    ASSUME IndInv, NEW c \in Conns, Claim(c) PROVE IndInv'
<1> USE FdFacts DEF IndInv
<1>1. thread[c].pc \in {"connect", "dconnect"} /\ UNCHANGED <<main, failed>>  BY DEF Claim
<1>2. CASE FreeSlots = {}
  <2>1. {thread[c].cfd, thread[c].pfd} = {thread[c].pfd, thread[c].cfd}  OBVIOUS
  <2>2. /\ Close({thread[c].pfd, thread[c].cfd})
        /\ thread' = [thread EXCEPT ![c] = Ended] /\ conns' = conns
    BY <1>2, <2>1 DEF Claim, TurnAway
  <2> QED  BY <1>1, <2>2, GivesUp
<1>3. CASE FreeSlots # {}
  <2>0. PICK s \in Slots : s = FirstFreeSlot /\ ~conns[s].active  BY <1>3, FirstIsFree
  <2> DEFINE new == [EmptySlot EXCEPT !.active = TRUE, !.cfd = thread[c].cfd,
                                      !.pfd = thread[c].pfd, !.owner = c]
  <2>1. s \in Slots /\ ~conns[s].active  BY <2>0
  <2>2. /\ conns' = [conns EXCEPT ![s] = new] /\ UNCHANGED <<files, epoll>>
        /\ thread' = [thread EXCEPT ![c].pc = "server", ![c].slot = s]
    BY <1>3, <2>0 DEF Claim, TakeSlot
  <2>3. /\ new.active = TRUE /\ new.cfd = thread[c].cfd /\ new.pfd = thread[c].pfd
        /\ new.owner = c /\ new \in SlotRecords
    BY DEF EmptySlot, SlotRecords, TypeOK
  <2> HIDE DEF new
  <2>4. /\ thread'[c].pc = "server" /\ thread' \in [Conns -> ThreadRecords]
        /\ thread'[c].cfd = thread[c].cfd /\ thread'[c].pfd = thread[c].pfd
        /\ \A d \in Conns \ {c} : thread'[d] = thread[d]
    <3>1. "server" \in ThreadSteps  BY DEF ThreadSteps
    <3> QED  BY <2>1, <2>2, <3>1, ThreadSetSlot
  <2>5. conns'[s] = new /\ \A t \in Slots \ {s} : conns'[t] = conns[t]
    BY <2>1, <2>2 DEF TypeOK
  <2>6. TypeOK'  BY <1>1, <2>1, <2>2, <2>3, <2>4 DEF TypeOK, ThreadRecords
  <2>7. Past(c)' /\ \A d \in Conns \ {c} : Past(d)' = Past(d)
    BY <2>4 DEF Past, Routing
  <2>8. \A d \in Conns : ThreadHolds(d)'
    <3>1. ThreadHolds(c)'  BY <1>1, <2>4, Connecting DEF ThreadHolds, Routing
    <3>2. \A d \in Conns \ {c} : ThreadHolds(d)'  BY <2>2, <2>4 DEF ThreadHolds
    <3> QED  BY <3>1, <3>2
  <2>9. \A t \in Slots : SlotHolds(t)'
    <3>1. SlotHolds(s)'
      <4>1. /\ conns'[s].owner = c /\ conns'[s].cfd = thread[c].cfd
            /\ conns'[s].pfd = thread[c].pfd
        BY <2>3, <2>5
      <4>2. /\ thread[c].cfd \in Fds /\ files'[thread[c].cfd] = c
            /\ thread[c].pfd \in Fds /\ files'[thread[c].pfd] = c
            /\ thread[c].cfd # thread[c].pfd
        BY <1>1, <2>2, Connecting
      <4> QED  BY <2>7, <4>1, <4>2 DEF SlotHolds
    <3>2. ASSUME NEW t \in Slots \ {s}, conns[t].active PROVE SlotHolds(t)'
      <4>1. conns[t].owner \in Conns \ {c}  BY <1>1, <3>2, Connecting DEF SlotHolds
      <4> QED  BY <1>1, <2>2, <2>5, <2>7, <4>1, <3>2 DEF SlotHolds, TearingDown
    <3>3. ASSUME NEW t \in Slots \ {s}, ~conns[t].active PROVE SlotHolds(t)'
      BY <2>5, <3>3 DEF SlotHolds
    <3> QED  BY <3>1, <3>2, <3>3
  <2>10. \A f \in Fds : Held(f)'
    <3> SUFFICES ASSUME NEW f \in Fds, files[f] # None PROVE Held(f)'
      BY <2>2 DEF Held
    <3>1. CASE files[f] = c
      <4>1. f = thread[c].cfd \/ f = thread[c].pfd  BY <1>1, <3>1, Connecting
      <4>2. SlotHas(s, c, f)'  BY <2>3, <2>5, <4>1 DEF SlotHas
      <4>3. files'[f] = c  BY <2>2, <3>1
      <4> QED  BY <2>1, <4>2, <4>3 DEF Held
    <3>2. CASE files[f] # c
      <4>1. files[f] \in Conns \ {c}  BY <3>2 DEF TypeOK
      <4>2. ThreadHas(files[f], f) => ThreadHas(files[f], f)'
        BY <2>2, <2>4, <4>1 DEF ThreadHas
      <4>3. \A t \in Slots : SlotHas(t, files[f], f) => SlotHas(t, files[f], f)'
        BY <2>1, <2>2, <2>5 DEF SlotHas
      <4> QED  BY <2>2, <4>2, <4>3 DEF Held
    <3> QED  BY <3>1, <3>2
  <2>11. OneSlotEach'  BY <1>1, <2>1, <2>3, <2>5, Connecting DEF OneSlotEach
  <2>12. MainHolds'
    <3>1. main.pc \in TearSteps \cup {"relay"} => main.slot \in Slots \ {s}
      BY <2>1 DEF MainHolds, TypeOK
    <3> QED  BY <1>1, <2>5, <3>1 DEF MainHolds, TearSteps
  <2>13. FailedGone'
    <3>1. c \notin failed  BY <1>1, Connecting DEF FailedGone
    <3>2. ASSUME NEW d \in failed PROVE Past(d)' /\ (Gone(d) => Gone(d)')
      <4>1. d \in Conns \ {c}  BY <3>1 DEF TypeOK
      <4> QED  BY <2>2, <2>3, <2>5, <2>7, <4>1 DEF Gone, FailedGone
    <3> QED  BY <1>1, <3>2 DEF FailedGone
  <2> QED  BY <2>6, <2>8, <2>9, <2>10, <2>11, <2>12, <2>13
<1> QED  BY <1>2, <1>3

\* The rest of an accept thread's life is quiet: the handshake writes only
\* what nothing else depends on, through a slot pointer that may be stale.
LEMMA LateThreadStep ==
    ASSUME IndInv, NEW c \in Conns,
           \/ HandshakeServer(c) \/ HandshakeClient(c)
           \/ RegisterClient(c) \/ RegisterProxy(c)
    PROVE  IndInv'
<1> USE FdFacts DEF IndInv
<1>1. thread[c] \in ThreadRecords /\ thread[c].slot \in Slots
  BY DEF TypeOK, ThreadRecords
<1>2. Past(c) /\ UNCHANGED <<files, main, failed>>
  BY DEF HandshakeServer, HandshakeClient, RegisterClient, RegisterProxy, Past, Routing
<1>3. /\ thread' \in [Conns -> ThreadRecords] /\ Past(c)' /\ ThreadHolds(c)'
      /\ \A d \in Conns \ {c} : thread'[d] = thread[d]
  <2>1. Ended \in ThreadRecords /\ Ended.pc = "end"
    BY DEF Ended, ThreadRecords, ThreadSteps
  <2>2. \/ thread' = [thread EXCEPT ![c] = Ended]
        \/ \E pc \in {"client", "reg1", "reg2"} : thread' = [thread EXCEPT ![c].pc = pc]
    BY DEF HandshakeServer, HandshakeClient, RegisterClient, RegisterProxy
  <2>3. thread[c].cfd \in Fds /\ thread[c].pfd \in Fds
    BY DEF ThreadHolds, HandshakeServer, HandshakeClient, RegisterClient, RegisterProxy
  <2>4. CASE thread' = [thread EXCEPT ![c] = Ended]
    BY <2>1, <2>4 DEF TypeOK, ThreadRecords, Past, Routing, ThreadHolds
  <2>5. ASSUME NEW pc \in {"client", "reg1", "reg2"}, thread' = [thread EXCEPT ![c].pc = pc]
        PROVE  /\ thread' \in [Conns -> ThreadRecords] /\ thread'[c].pc = pc
               /\ thread'[c].cfd = thread[c].cfd /\ thread'[c].pfd = thread[c].pfd
               /\ \A d \in Conns \ {c} : thread'[d] = thread[d]
    <3>1. pc \in ThreadSteps  BY DEF ThreadSteps
    <3> QED  BY <2>5, <3>1, ThreadSetPc
  <2>6. ASSUME NEW pc \in {"client", "reg1", "reg2"}, thread' = [thread EXCEPT ![c].pc = pc]
        PROVE  Past(c)' /\ ThreadHolds(c)'
    BY <2>3, <2>5, <2>6 DEF Past, Routing, ThreadHolds
  <2> QED  BY <2>2, <2>4, <2>5, <2>6
<1>4. /\ conns' \in [Slots -> SlotRecords]
      /\ \A s \in Slots : /\ conns'[s].active = conns[s].active
                          /\ conns'[s].owner = conns[s].owner
                          /\ conns'[s].cfd = conns[s].cfd
                          /\ conns'[s].pfd = conns[s].pfd
  <2>1. \/ conns' = conns
        \/ \E made \in Conns \cup {None} : conns' = [conns EXCEPT ![thread[c].slot].tls = made]
    BY DEF HandshakeServer, HandshakeClient, RegisterClient, RegisterProxy
  <2>2. ASSUME NEW made \in Conns \cup {None},
               conns' = [conns EXCEPT ![thread[c].slot].tls = made]
        PROVE  /\ conns' \in [Slots -> SlotRecords]
               /\ \A s \in Slots : /\ conns'[s].active = conns[s].active
                                   /\ conns'[s].owner = conns[s].owner
                                   /\ conns'[s].cfd = conns[s].cfd
                                   /\ conns'[s].pfd = conns[s].pfd
    BY <1>1, <2>2, SlotSetTls
  <2> QED  BY <2>1, <2>2 DEF TypeOK
<1>5. epoll' \subseteq Fds
  <2>1. \/ epoll' = epoll
        \/ \E fd \in Fds : epoll' = IF files[fd] # None THEN epoll \cup {fd} ELSE epoll
    BY DEF HandshakeServer, HandshakeClient, RegisterClient, RegisterProxy, AddToEpoll,
           ThreadHolds
  <2> QED  BY <2>1 DEF TypeOK
<1>6. TypeOK'  BY <1>2, <1>3, <1>4, <1>5 DEF TypeOK, ThreadRecords
<1>7. MainHolds'  BY <1>2, <1>4 DEF MainHolds, TypeOK
<1> QED  BY <1>2, <1>3, <1>4, <1>6, <1>7, Quiet

-----------------------------------------------------------------------------
(* The main thread. *)

\* Waiting, looking up, relaying and forgetting descriptors in epoll.
LEMMA EpollWaitStep == ASSUME IndInv, EpollWait PROVE IndInv'
<1> USE FdFacts DEF IndInv
<1>1. UNCHANGED <<files, epoll, conns, thread, failed>> /\ main.pc = "wait"  BY DEF EpollWait
<1>2. PICK n \in 1..MaxBatch : \E b \in [1..n -> Ready] :
         main' = [Idle EXCEPT !.pc = "event", !.batch = b]
  BY DEF EpollWait
<1>20. PICK b \in [1..n -> Ready] : main' = [Idle EXCEPT !.pc = "event", !.batch = b]
  BY <1>2
<1>3. Ready \subseteq Fds \cup {Listen}  BY DEF Ready, TypeOK
<1>4. b \in Seq(Fds \cup {Listen})
  <2>1. n \in Nat /\ b \in [1..n -> Fds \cup {Listen}]
    BY <1>3, TableAssumption
  <2> QED  BY <2>1
<1>5. main' \in MainRecords /\ main'.pc = "event"
  BY <1>20, <1>4 DEF Idle, MainRecords, MainSteps
<1>6. TypeOK'  BY <1>1, <1>5 DEF TypeOK, MainRecords
<1>7. MainHolds'  BY <1>5 DEF MainHolds, TearSteps
<1> QED  BY <1>1, <1>5, <1>6, <1>7, Quiet DEF TearSteps

LEMMA RelayOkStep == ASSUME IndInv, RelayOk PROVE IndInv'
<1> USE FdFacts DEF IndInv
<1>1. UNCHANGED <<files, epoll, conns, thread, failed>> /\ main.pc = "relay" /\ main' = NextEvent
  BY DEF RelayOk
<1>2. main' \in MainRecords /\ main'.pc \in {"wait", "event"}  BY <1>1, NextEventType
<1>3. TypeOK'  BY <1>1, <1>2 DEF TypeOK, MainRecords
<1>4. MainHolds'  BY <1>2 DEF MainHolds, TearSteps
<1> QED  BY <1>1, <1>2, <1>3, <1>4, Quiet DEF TearSteps

LEMMA FindStep == ASSUME IndInv, Find PROVE IndInv'
<1> USE FdFacts DEF IndInv
<1> DEFINE fd == Head(main.batch)
           owners == {s \in Slots : UsesFd(s, fd)}
<1>1. UNCHANGED <<files, epoll, conns, thread, failed>> /\ main.pc = "event"  BY DEF Find
<1>2. CASE owners = {}
  <2>1. main' = NextEvent  BY <1>2 DEF Find
  <2>2. main' \in MainRecords /\ main'.pc \in {"wait", "event"}  BY <2>1, NextEventType
  <2>3. TypeOK'  BY <1>1, <2>2 DEF TypeOK, MainRecords
  <2>4. MainHolds'  BY <2>2 DEF MainHolds, TearSteps
  <2> QED  BY <1>1, <2>2, <2>3, <2>4, Quiet DEF TearSteps
<1>3. CASE owners # {}
  <2> DEFINE least == CHOOSE s \in owners : \A t \in owners : s <= t
  <2>1. owners \subseteq Nat  BY TableAssumption DEF Slots
  <2>2. \E s \in owners : \A t \in owners : s <= t
    <3> HIDE DEF owners
    <3> QED  BY <1>3, <2>1, HasLeast
  <2>3. least \in owners  BY <2>2
  <2>4. main' = [main EXCEPT !.pc = "relay", !.slot = least, !.cfd = conns[least].cfd,
                             !.pfd = conns[least].pfd, !.conn = conns[least].owner]
    BY <1>3 DEF Find
  <2>5. PICK s \in Slots : s = least /\ conns[s].active  BY SMTT(30), <2>3 DEF UsesFd
  <2> HIDE DEF least
  <2>6. main \in MainRecords /\ conns[s] \in SlotRecords
    BY DEF TypeOK, MainRecords
  <2>7. /\ main' \in MainRecords /\ main'.pc = "relay" /\ main'.slot = s
        /\ main'.cfd = conns[s].cfd /\ main'.pfd = conns[s].pfd
        /\ main'.conn = conns[s].owner
    BY <2>4, <2>5, <2>6 DEF MainRecords, MainSteps, SlotRecords
  <2>8. TypeOK'  BY <1>1, <2>7 DEF TypeOK, MainRecords
  <2>9. MainHolds'  BY <1>1, <2>5, <2>7 DEF MainHolds, TearSteps
  <2> QED  BY <1>1, <2>7, <2>8, <2>9, Quiet DEF TearSteps
<1> QED  BY <1>2, <1>3

LEMMA ForgetStep == ASSUME IndInv, DelClient \/ DelProxy PROVE IndInv'
<1> USE FdFacts DEF IndInv
<1>1. /\ UNCHANGED <<files, conns, thread, failed>> /\ epoll' \subseteq epoll
      /\ main.pc \in {"del1", "del2"}
      /\ \E pc \in {"del2", "reclose"} : main' = [main EXCEPT !.pc = pc]
  BY DEF DelClient, DelProxy
<1>2. main' \in MainRecords /\ main'.pc \in {"del2", "reclose"}
  BY <1>1 DEF TypeOK, MainRecords, MainSteps
<1>3. TypeOK'  BY <1>1, <1>2 DEF TypeOK, MainRecords
<1>4. MainHolds'  BY <1>2 DEF MainHolds, TearSteps
<1> QED  BY <1>1, <1>2, <1>3, <1>4, Quiet DEF TearSteps

\* A connection that arrives gets a descriptor and a thread, or nothing.
LEMMA AcceptStep == ASSUME IndInv, Accept PROVE IndInv'
<1> USE FdFacts DEF IndInv
<1>1. UNCHANGED <<epoll, conns, failed>> /\ main.pc = "event" /\ main' = NextEvent
  BY DEF Accept
<1>2. main' \in MainRecords /\ main'.pc \in {"wait", "event"}  BY <1>1, NextEventType
<1>3. Elsewhere /\ Elsewhere'  BY <1>1, <1>2 DEF Elsewhere, TearSteps
<1>4. CASE UNCHANGED <<files, thread>>
  <2>1. TypeOK'  BY <1>1, <1>2, <1>4 DEF TypeOK, MainRecords
  <2>2. MainHolds'  BY <1>2 DEF MainHolds, TearSteps
  <2> QED  BY <1>1, <1>2, <1>4, <2>1, <2>2, Quiet DEF TearSteps
<1>5. CASE ~UNCHANGED <<files, thread>>
  <2>1. PICK c \in Conns :
          /\ thread[c].pc = "none" /\ FreeFds # {}
          /\ \/ /\ files' = [files EXCEPT ![LowestFreeFd] = c]
                /\ thread' = [thread EXCEPT ![c].pc = "route", ![c].cfd = LowestFreeFd]
             \/ /\ UNCHANGED files
                /\ thread' = [thread EXCEPT ![c] = Ended]
    BY <1>5 DEF Accept, Waiting
  <2>2. PICK fd \in Fds : fd = LowestFreeFd /\ files[fd] = None  BY <2>1, LowestIsFree
  <2>3. thread \in [Conns -> ThreadRecords]  BY DEF TypeOK, ThreadRecords
  <2>4. /\ thread[c].pfd = NoFd
        /\ ~Past(c) /\ \A s \in Slots : ~(conns[s].active /\ conns[s].owner = c)
    BY <2>1 DEF ThreadHolds, Past, SlotHolds
  <2>5. \A f \in Fds : files[f] # c
    BY <2>1, <2>4 DEF Held, ThreadHas, SlotHas, Routing
  <2>6. CASE /\ files' = [files EXCEPT ![LowestFreeFd] = c]
             /\ thread' = [thread EXCEPT ![c].pc = "route", ![c].cfd = LowestFreeFd]
    <3>1. thread'[c] = [[thread[c] EXCEPT !.pc = "route"] EXCEPT !.cfd = fd]
      BY <2>2, <2>3, <2>6
    <3>2. /\ thread'[c] \in ThreadRecords /\ thread'[c].pc = "route"
          /\ thread'[c].cfd = fd /\ thread'[c].pfd = NoFd
      BY ZenonT(30), <2>3, <2>4, <3>1 DEF ThreadRecords, ThreadSteps
    <3>3. \A d \in Conns \ {c} : thread'[d] = thread[d]  BY <2>3, <2>6
    <3>4. thread' \in [Conns -> ThreadRecords]  BY <2>3, <2>6, <3>2, <3>3
    <3>5. \A f \in Fds : files'[f] = IF f = fd THEN c ELSE files[f]
      BY <2>2, <2>6 DEF TypeOK
    <3>6. TypeOK'  BY <1>1, <1>2, <2>2, <2>6, <3>4 DEF TypeOK, MainRecords, ThreadRecords
    <3>7. \A f \in Fds : files'[f] = files[f] \/ {files[f], files'[f]} \subseteq {None, c}
      BY <2>2, <3>5
    <3>8. ThreadHolds(c)'  BY <3>2, <3>5 DEF ThreadHolds
    <3>9. \A f \in Fds : files'[f] = c => ThreadHas(c, f)'
      BY <2>5, <3>2, <3>5 DEF ThreadHas, Routing
    <3> QED  BY <1>1, <1>3, <2>4, <3>3, <3>6, <3>7, <3>8, <3>9, ThreadMoves
  <2>7. CASE files' = files /\ thread' = [thread EXCEPT ![c] = Ended]
    <3>1. Ended \in ThreadRecords /\ Ended.pc = "end"
      BY DEF Ended, ThreadRecords, ThreadSteps
    <3>2. /\ thread'[c].pc = "end" /\ thread' \in [Conns -> ThreadRecords]
          /\ \A d \in Conns \ {c} : thread'[d] = thread[d]
      BY <2>3, <2>7, <3>1
    <3>3. TypeOK'  BY <1>1, <1>2, <2>7, <3>2 DEF TypeOK, MainRecords, ThreadRecords
    <3>4. ThreadHolds(c)'  BY <3>2 DEF ThreadHolds, Routing
    <3> QED  BY <1>1, <1>3, <2>4, <2>5, <2>7, <3>2, <3>3, <3>4, ThreadMoves
  <2> QED  BY <2>1, <2>6, <2>7
<1> QED  BY <1>4, <1>5

\* The relay fails: from here on the connection is being torn down.
LEMMA RelayFailsStep == ASSUME IndInv, RelayFails PROVE IndInv'
<1> USE FdFacts DEF IndInv
<1>1. /\ main.pc = "relay" /\ conns' = [conns EXCEPT ![main.slot].tls = None]
      /\ main' = [main EXCEPT !.pc = "close1"] /\ failed' = failed \cup {main.conn}
      /\ UNCHANGED <<files, epoll, thread>>
  BY DEF RelayFails
<1>2. PICK s \in Slots : s = main.slot  BY DEF TypeOK
<1>3. /\ conns[s].active /\ conns[s].owner = main.conn /\ main.conn \in Conns
      /\ conns[s].cfd = main.cfd /\ conns[s].pfd = main.pfd /\ Past(main.conn)
  BY <1>1, <1>2 DEF MainHolds, SlotHolds, TearSteps
<1>4. /\ conns' \in [Slots -> SlotRecords]
      /\ \A t \in Slots : /\ conns'[t].active = conns[t].active
                          /\ conns'[t].owner = conns[t].owner
                          /\ conns'[t].cfd = conns[t].cfd
                          /\ conns'[t].pfd = conns[t].pfd
  BY <1>1, <1>2, SlotSetTls
<1>5. /\ main' \in MainRecords /\ main'.pc = "close1" /\ main'.slot = s
      /\ main'.cfd = main.cfd /\ main'.pfd = main.pfd /\ main'.conn = main.conn
  BY <1>1, <1>2 DEF TypeOK, MainRecords, MainSteps
<1>6. TypeOK'  BY <1>1, <1>3, <1>4, <1>5 DEF TypeOK, MainRecords
<1>7. \A c \in Conns : Past(c)' = Past(c)  BY <1>1 DEF Past
<1>8. \A c \in Conns : ThreadHolds(c)'  BY <1>1 DEF ThreadHolds
<1>9. \A t \in Slots : SlotHolds(t)'
  <2>1. \A t \in Slots : conns[t].active => conns[t].cfd # NoFd /\ conns[t].pfd # NoFd
    BY <1>1 DEF SlotHolds, TearingDown, TearSteps
  <2> QED  BY <1>1, <1>4, <1>7, <2>1 DEF SlotHolds
<1>10. \A f \in Fds : Held(f)'
  <2> SUFFICES ASSUME NEW f \in Fds, files[f] # None PROVE Held(f)'  BY <1>1 DEF Held
  <2>1. ThreadHas(files[f], f) => ThreadHas(files[f], f)'  BY <1>1 DEF ThreadHas
  <2>2. \A t \in Slots : SlotHas(t, files[f], f) => SlotHas(t, files[f], f)'
    BY <1>1, <1>4 DEF SlotHas
  <2> QED  BY <1>1, <2>1, <2>2 DEF Held
<1>11. OneSlotEach'  BY <1>4 DEF OneSlotEach
<1>12. MainHolds'  BY <1>3, <1>4, <1>5 DEF MainHolds, TearSteps
<1>13. FailedGone'
  <2> SUFFICES ASSUME NEW c \in failed, c # main.conn PROVE Past(c)' /\ Gone(c)'
    BY <1>1, <1>3, <1>5, <1>7 DEF FailedGone, TearSteps
  <2>1. c \in Conns /\ Past(c) /\ Gone(c)
    BY <1>1 DEF TypeOK, FailedGone, TearSteps
  <2> QED  BY <1>1, <1>4, <1>7, <2>1 DEF Gone
<1> QED  BY <1>6, <1>8, <1>9, <1>10, <1>11, <1>12, <1>13

\* The slot under tear-down: what it holds is all the connection has.
LEMMA TornSlot ==
    ASSUME IndInv, main.pc \in TearSteps
    PROVE  \E s \in Slots, o \in Conns :
              /\ s = main.slot /\ o = main.conn /\ TearingDown(s)
              /\ conns[s].active /\ conns[s].owner = o /\ Past(o)
              /\ conns[s].cfd \in Fds \cup {NoFd} /\ conns[s].pfd \in Fds \cup {NoFd}
              /\ \A f \in Fds : files[f] = o => f = conns[s].cfd \/ f = conns[s].pfd
              /\ conns[s] \in SlotRecords /\ main \in MainRecords
<1> USE FdFacts DEF IndInv
<1>1. PICK s \in Slots : s = main.slot  BY DEF TypeOK
<1>2. conns[s].active /\ conns[s].owner = main.conn  BY <1>1 DEF MainHolds
<1>3. PICK o \in Conns : o = main.conn /\ Past(o)  BY <1>2 DEF SlotHolds
<1>4. conns[s].cfd \in Fds \cup {NoFd} /\ conns[s].pfd \in Fds \cup {NoFd}
  BY DEF TypeOK, SlotRecords
<1>5. ASSUME NEW f \in Fds, files[f] = o PROVE f = conns[s].cfd \/ f = conns[s].pfd
  <2>1. ~ThreadHas(o, f)  BY <1>3 DEF ThreadHas, Past
  <2>2. PICK t \in Slots : SlotHas(t, o, f)  BY <1>5, <2>1 DEF Held
  <2>3. t = s  BY <1>2, <1>3, <2>2 DEF OneSlotEach, SlotHas
  <2> QED  BY <2>2, <2>3 DEF SlotHas
<1>6. conns[s] \in SlotRecords /\ main \in MainRecords  BY DEF TypeOK, MainRecords
<1>7. TearingDown(s)  BY <1>1 DEF TearingDown
<1> QED  BY <1>1, <1>2, <1>3, <1>4, <1>5, <1>6, <1>7

LEMMA CloseClientFdStep == ASSUME IndInv, CloseClientFd PROVE IndInv'
<1> USE FdFacts DEF IndInv
<1>1. PICK s \in Slots, o \in Conns :
        /\ s = main.slot /\ o = main.conn /\ TearingDown(s)
        /\ conns[s].active /\ conns[s].owner = o /\ Past(o)
        /\ conns[s].cfd \in Fds \cup {NoFd} /\ conns[s].pfd \in Fds \cup {NoFd}
        /\ \A f \in Fds : files[f] = o => f = conns[s].cfd \/ f = conns[s].pfd
        /\ conns[s] \in SlotRecords /\ main \in MainRecords
  BY TornSlot DEF CloseClientFd, TearSteps
<1>2. /\ main.pc = "close1" /\ Close({conns[s].cfd})
      /\ conns' = [conns EXCEPT ![s].cfd = NoFd]
      /\ main' = [main EXCEPT !.pc = "close2"] /\ UNCHANGED <<thread, failed>>
  BY <1>1 DEF CloseClientFd
<1>3. /\ conns' \in [Slots -> SlotRecords] /\ conns'[s].cfd = NoFd
      /\ conns'[s].pfd = conns[s].pfd /\ conns'[s].active /\ conns'[s].owner = o
      /\ \A t \in Slots \ {s} : conns'[t] = conns[t]
  <2>1. conns \in [Slots -> SlotRecords]  BY DEF TypeOK
  <2>2. conns'[s] = [conns[s] EXCEPT !.cfd = NoFd]  BY <1>2, <2>1
  <2>3. /\ conns'[s] \in SlotRecords /\ conns'[s].cfd = NoFd
        /\ conns'[s].pfd = conns[s].pfd /\ conns'[s].active /\ conns'[s].owner = o
    BY <1>1, <2>2 DEF SlotRecords
  <2> QED  BY <1>2, <2>1, <2>3
<1>4. /\ main' \in MainRecords /\ main'.pc = "close2" /\ main'.slot = s
      /\ main'.conn = main.conn
  BY <1>1, <1>2 DEF MainRecords, MainSteps
<1>5. \A f \in Fds : files'[f] = IF f = conns[s].cfd THEN None ELSE files[f]
  BY <1>2 DEF Close
<1>6. TypeOK'  BY <1>2, <1>3, <1>4 DEF TypeOK, MainRecords, Close
<1>7. MainHolds'  BY <1>1, <1>3, <1>4 DEF MainHolds, TearSteps
<1>8. \A f \in Fds : files'[f] = files[f] \/ (files[f] = o /\ files'[f] = None)
  BY <1>1, <1>5 DEF SlotHolds
<1>9. \A f \in Fds : files'[f] = o => SlotHas(s, o, f)'
  BY <1>1, <1>3, <1>5 DEF SlotHas
<1>10. /\ conns[s].pfd # NoFd /\ conns[s].cfd # conns[s].pfd
       /\ files[conns[s].pfd] = o
  BY <1>1, <1>2 DEF SlotHolds
<1>11. TearingDown(s)' /\ Past(o)'
  BY <1>1, <1>2, <1>4 DEF TearingDown, TearSteps, Past
<1>12. SlotHolds(s)'
  <2>1. files'[conns'[s].pfd] = o  BY <1>1, <1>3, <1>5, <1>10
  <2> QED  BY <1>3, <1>4, <1>10, <1>11, <2>1 DEF SlotHolds
<1> QED  BY <1>1, <1>2, <1>3, <1>4, <1>6, <1>7, <1>8, <1>9, <1>11, <1>12, SlotCloses

LEMMA CloseProxyFdStep == ASSUME IndInv, CloseProxyFd PROVE IndInv'
<1> USE FdFacts DEF IndInv
<1>1. PICK s \in Slots, o \in Conns :
        /\ s = main.slot /\ o = main.conn /\ TearingDown(s)
        /\ conns[s].active /\ conns[s].owner = o /\ Past(o)
        /\ conns[s].cfd \in Fds \cup {NoFd} /\ conns[s].pfd \in Fds \cup {NoFd}
        /\ \A f \in Fds : files[f] = o => f = conns[s].cfd \/ f = conns[s].pfd
        /\ conns[s] \in SlotRecords /\ main \in MainRecords
  BY TornSlot DEF CloseProxyFd, TearSteps
<1>2. /\ main.pc = "close2" /\ Close({conns[s].pfd})
      /\ conns' = [conns EXCEPT ![s].pfd = NoFd]
      /\ main' = [main EXCEPT !.pc = "close3"] /\ UNCHANGED <<thread, failed>>
  BY <1>1 DEF CloseProxyFd
<1>3. /\ conns' \in [Slots -> SlotRecords] /\ conns'[s].pfd = NoFd
      /\ conns'[s].cfd = conns[s].cfd /\ conns'[s].active /\ conns'[s].owner = o
      /\ \A t \in Slots \ {s} : conns'[t] = conns[t]
  <2>1. conns \in [Slots -> SlotRecords]  BY DEF TypeOK
  <2>2. conns'[s] = [conns[s] EXCEPT !.pfd = NoFd]  BY <1>2, <2>1
  <2>3. /\ conns'[s] \in SlotRecords /\ conns'[s].pfd = NoFd
        /\ conns'[s].cfd = conns[s].cfd /\ conns'[s].active /\ conns'[s].owner = o
    BY <1>1, <2>2 DEF SlotRecords
  <2> QED  BY <1>2, <2>1, <2>3
<1>4. /\ main' \in MainRecords /\ main'.pc = "close3" /\ main'.slot = s
      /\ main'.conn = main.conn
  BY <1>1, <1>2 DEF MainRecords, MainSteps
<1>5. \A f \in Fds : files'[f] = IF f = conns[s].pfd THEN None ELSE files[f]
  BY <1>2 DEF Close
<1>6. TypeOK'  BY <1>2, <1>3, <1>4 DEF TypeOK, MainRecords, Close
<1>7. conns[s].cfd = NoFd  BY <1>1, <1>2 DEF MainHolds
<1>8. MainHolds'  BY <1>1, <1>3, <1>4, <1>7 DEF MainHolds, TearSteps
<1>9. \A f \in Fds : files'[f] = files[f] \/ (files[f] = o /\ files'[f] = None)
  BY <1>1, <1>5 DEF SlotHolds
<1>10. \A f \in Fds : files'[f] # o  BY <1>1, <1>5, <1>7
<1>11. TearingDown(s)' /\ Past(o)'
  BY <1>1, <1>2, <1>4 DEF TearingDown, TearSteps, Past
<1>12. SlotHolds(s)'  BY <1>3, <1>4, <1>7, <1>11 DEF SlotHolds
<1> QED  BY <1>1, <1>2, <1>3, <1>4, <1>6, <1>8, <1>9, <1>10, <1>11, <1>12, SlotCloses

LEMMA DeactivateStep == ASSUME IndInv, Deactivate PROVE IndInv'
<1> USE FdFacts DEF IndInv
<1>1. PICK s \in Slots, o \in Conns :
        /\ s = main.slot /\ o = main.conn /\ TearingDown(s)
        /\ conns[s].active /\ conns[s].owner = o /\ Past(o)
        /\ conns[s].cfd \in Fds \cup {NoFd} /\ conns[s].pfd \in Fds \cup {NoFd}
        /\ \A f \in Fds : files[f] = o => f = conns[s].cfd \/ f = conns[s].pfd
        /\ conns[s] \in SlotRecords /\ main \in MainRecords
  BY TornSlot DEF Deactivate, TearSteps
<1>2. /\ main.pc = "close3"
      /\ conns' = [conns EXCEPT ![s].active = FALSE, ![s].owner = None]
      /\ main' = [main EXCEPT !.pc = "del1"] /\ UNCHANGED <<files, epoll, thread, failed>>
  BY <1>1 DEF Deactivate
<1>3. /\ conns' \in [Slots -> SlotRecords] /\ ~conns'[s].active
      /\ \A t \in Slots \ {s} : conns'[t] = conns[t]
  <2>1. conns \in [Slots -> SlotRecords]  BY DEF TypeOK
  <2>2. conns'[s] = [[conns[s] EXCEPT !.active = FALSE] EXCEPT !.owner = None]
    BY <1>2, <2>1
  <2>3. conns'[s] \in SlotRecords /\ ~conns'[s].active  BY <1>1, <2>2 DEF SlotRecords
  <2> QED  BY <1>2, <2>1, <2>3
<1>4. main' \in MainRecords /\ main'.pc = "del1"
  BY <1>1, <1>2 DEF MainRecords, MainSteps
<1>5. TypeOK'  BY <1>2, <1>3, <1>4 DEF TypeOK, MainRecords
<1>6. MainHolds'  BY <1>4 DEF MainHolds, TearSteps
<1>7. conns[s].cfd = NoFd /\ conns[s].pfd = NoFd  BY <1>1, <1>2 DEF MainHolds
<1>8. \A f \in Fds : files'[f] # o  BY <1>1, <1>2, <1>7
<1>9. SlotHolds(s)'  BY <1>3 DEF SlotHolds
<1> QED  BY <1>1, <1>2, <1>3, <1>5, <1>6, <1>8, <1>9, SlotCloses

\* The second close of the slot, which may have passed to another connection:
\* it then closes that connection completely.
LEMMA RecloseStep == ASSUME IndInv, Reclose PROVE IndInv'
<1> USE FdFacts DEF IndInv
<1>1. main.pc = "reclose" /\ main' = NextEvent /\ UNCHANGED <<thread, failed>>
  BY DEF Reclose
<1>2. main' \in MainRecords /\ main'.pc \in {"wait", "event"}  BY <1>1, NextEventType
<1>3. MainHolds'  BY <1>2 DEF MainHolds, TearSteps
<1>4. CASE ~conns[main.slot].active
  <2>1. UNCHANGED <<files, epoll, conns>>  BY <1>4 DEF Reclose
  <2>2. TypeOK'  BY <1>1, <1>2, <2>1 DEF TypeOK, MainRecords
  <2> QED  BY <1>1, <1>2, <1>3, <2>1, <2>2, Quiet DEF TearSteps
<1>5. CASE conns[main.slot].active
  <2>1. PICK s \in Slots : s = main.slot  BY DEF TypeOK
  <2>2. PICK o \in Conns : o = conns[s].owner /\ Past(o)  BY <1>5, <2>1 DEF SlotHolds
  <2>3. /\ Close({conns[s].cfd, conns[s].pfd}) /\ conns' = [conns EXCEPT ![s] = EmptySlot]
    BY <1>5, <2>1 DEF Reclose
  <2>4. EmptySlot \in SlotRecords /\ EmptySlot.active = FALSE
    BY DEF EmptySlot, SlotRecords
  <2>5. /\ conns' \in [Slots -> SlotRecords] /\ ~conns'[s].active
        /\ \A t \in Slots \ {s} : conns'[t] = conns[t]
    BY <2>3, <2>4 DEF TypeOK
  <2>6. TypeOK'  BY <1>1, <1>2, <2>3, <2>5 DEF TypeOK, MainRecords, Close
  <2>7. \A f \in Fds : files'[f] = IF f \in {conns[s].cfd, conns[s].pfd} THEN None ELSE files[f]
    BY <2>3 DEF Close
  <2>8. \A f \in Fds : files'[f] = files[f] \/ (files[f] = o /\ files'[f] = None)
    BY <1>5, <2>1, <2>2, <2>7 DEF SlotHolds
  <2>9. ASSUME NEW f \in Fds, files[f] = o PROVE f = conns[s].cfd \/ f = conns[s].pfd
    <3>1. ~ThreadHas(o, f)  BY <2>2 DEF ThreadHas, Past
    <3>2. PICK t \in Slots : SlotHas(t, o, f)  BY <2>9, <3>1 DEF Held
    <3>3. t = s  BY <1>5, <2>1, <2>2, <3>2 DEF OneSlotEach, SlotHas
    <3> QED  BY <3>2, <3>3 DEF SlotHas
  <2>10. \A f \in Fds : files'[f] # o  BY <2>7, <2>9
  <2>11. SlotHolds(s)'  BY <2>5 DEF SlotHolds
  <2>12. main.pc \notin TearSteps /\ main'.pc \notin TearSteps
    BY <1>1, <1>2 DEF TearSteps
  <2> QED  BY <1>1, <1>3, <1>5, <2>1, <2>2, <2>5, <2>6, <2>8, <2>10, <2>11, <2>12, SlotCloses
<1> QED  BY <1>4, <1>5

LEMMA NextInv == IndInv /\ [Next]_vars => IndInv'
<1> SUFFICES ASSUME IndInv, [Next]_vars PROVE IndInv'  OBVIOUS
<1>1. CASE UNCHANGED vars
  <2>1. TypeOK' /\ MainHolds'  BY <1>1 DEF vars, IndInv, TypeOK, MainHolds
  <2> QED  BY <1>1, <2>1, Quiet DEF vars
<1>2. CASE MainNext
  <2>1. CASE EpollTimeout  BY <1>1, <2>1 DEF EpollTimeout
  <2> QED
    BY <1>2, <2>1, EpollWaitStep, AcceptStep, FindStep, RelayOkStep, RelayFailsStep,
       CloseClientFdStep, CloseProxyFdStep, DeactivateStep, ForgetStep, RecloseStep
    DEF MainNext
<1>3. ASSUME NEW c \in Conns, ThreadNext(c) PROVE IndInv'
  BY <1>3, RouteRefusesStep, OpenSocketStep, ConnectFailsStep, ClaimStep, LateThreadStep
  DEF ThreadNext
<1> QED  BY <1>1, <1>2, <1>3 DEF Next

-----------------------------------------------------------------------------
(* The theorems. *)

\* The inductive invariant holds in every behaviour.
THEOREM Invariance == Spec => []IndInv
BY InitInv, NextInv, PTL DEF Spec

\* Every variable keeps its type: in particular every slot and descriptor a
\* thread remembers is one of the table's and of the kernel's.
THEOREM TableTypeCorrect == Spec => []TypeOK
<1>1. IndInv => TypeOK  BY DEF IndInv
<1> QED  BY <1>1, Invariance, PTL

\* A slot of the connection table never refers to a descriptor number that the
\* kernel has meanwhile given to somebody else.
THEOREM SlotsOwn == Spec => []SlotsOwnTheirFds
<1>1. IndInv => SlotsOwnTheirFds
  BY FdFacts DEF IndInv, SlotHolds, SlotsOwnTheirFds, SlotFdsOf
<1> QED  BY <1>1, Invariance, PTL

\* No descriptor leaks, on any path through accept, connect, claim and the two
\* closes of a torn-down connection.
THEOREM NothingLeaks == Spec => []NoFdLeak
<1>1. ASSUME IndInv, NEW f \in Fds, files[f] # None
      PROVE  \/ \E c \in Conns : thread[c].pc \in Routing /\ f \in {thread[c].cfd, thread[c].pfd}
             \/ \E s \in Slots : conns[s].active /\ f \in SlotFdsOf(s)
  <2>1. files[f] \in Conns  BY <1>1 DEF IndInv, TypeOK
  <2>2. ThreadHas(files[f], f) \/ \E s \in Slots : SlotHas(s, files[f], f)
    BY <1>1 DEF IndInv, Held
  <2>3. f # NoFd  BY FdFacts
  <2> QED  BY <2>1, <2>2, <2>3 DEF ThreadHas, SlotHas, SlotFdsOf
<1>2. IndInv => NoFdLeak  BY <1>1 DEF NoFdLeak
<1> QED  BY <1>2, Invariance, PTL

\* Between the lookup under the lock and the relay without it the slot stays
\* with its connection, and both descriptors are two sockets of that connection.
THEOREM RelayIsOnOneConnection == Spec => []RelaysOneConnection
<1>1. ASSUME IndInv, main.pc = "relay"
      PROVE  LET s == conns[main.slot]
             IN /\ s.active /\ s.owner = main.conn
                /\ s.cfd = main.cfd /\ s.pfd = main.pfd /\ s.cfd # s.pfd
                /\ files[s.cfd] = main.conn /\ files[s.pfd] = main.conn
  <2>1. main.slot \in Slots  BY <1>1 DEF IndInv, TypeOK
  <2>2. SlotHolds(main.slot) /\ MainHolds  BY <1>1, <2>1 DEF IndInv
  <2> QED  BY <1>1, <2>2 DEF SlotHolds, MainHolds, TearingDown, TearSteps
<1>2. IndInv => RelaysOneConnection  BY <1>1 DEF RelaysOneConnection
<1> QED  BY <1>2, Invariance, PTL

\* When the main thread looks at the next event, nothing is left of any
\* connection whose relay failed.
THEOREM TearDownIsComplete == Spec => []FailedIsTornDown
<1>1. IndInv => FailedIsTornDown
  BY DEF IndInv, FailedGone, FailedIsTornDown, Gone, TearSteps
<1> QED  BY <1>1, Invariance, PTL
=============================================================================
