--------------------------- MODULE RoutingProofs ----------------------------
(***************************************************************************)
(* Proofs about what threads of their own do for a program whose traffic   *)
(* is diverted: an accept thread routes its connection (RuleRouting), a    *)
(* resolver thread answers its DNS query (DnsResolver).  Both work on      *)
(* copies of what the main thread goes on changing.                        *)
(***************************************************************************)
EXTENDS RuleRouting, DnsResolver, SequenceTheorems, WellFoundedInduction, TLAPS

-----------------------------------------------------------------------------
(* Numbers. *)

\* A set of numbers has a least one, which Min returns.
LEMMA MinIsLeast ==
    ASSUME NEW S, S \subseteq Nat, S # {}
    PROVE  Min(S) \in S /\ \A y \in S : Min(S) <= y
<1> DEFINE R == OpToRel(<, Nat)
<1>1. IsWellFoundedOn(R, Nat)  BY NatLessThanWellFounded
<1>2. \A x, y \in Nat : x < y => <<x, y>> \in R  BY DEF OpToRel
<1> HIDE DEF R
<1>3. PICK x \in S : \A y \in S : ~ (<<y, x>> \in R)  BY <1>1, WFMin
<1>4. ASSUME NEW y \in S PROVE x <= y
  <2>1. ~(y < x)  BY <1>2, <1>3
  <2> QED  BY <2>1
<1>5. \E z \in S : \A y \in S : z =< y  BY <1>4
<1> QED  BY <1>5 DEF Min

-----------------------------------------------------------------------------
(* The resolver's cache. *)

CacheSlots == 0..(Size - 1)
Names == Keys \cup {NoKey}
JobRecords == [pc : Steps, key : Names, asked : Times, now : Times,
               answer : [key : Names, until : Times, hit : BOOLEAN]]
CacheRecords == [key : Names, answer : Names, expires : Times]

\* What a thread knows at each of its steps.
GoodJob(j, now) ==
    /\ j.asked <= now
    /\ j.pc = "lookup" => j.asked <= j.now
    /\ j.pc \in {"reply", "put"} => j.answer.key = j.key
    /\ j.pc = "reply" /\ j.answer.hit => j.answer.until > j.asked
JobInv == \A q \in Queries : GoodJob(job[q], clock)

\* A slot holds the answer to the question it is filed under, for no longer
\* than the time to live.
SlotInv == \A i \in CacheSlots : /\ cache[i].answer = cache[i].key
                                 /\ cache[i].expires <= clock + TTL

\* Expiry times grow from the head to the end of the array, and on from its
\* beginning up to the head.
RingOrder ==
    \A i, j \in CacheSlots :
        /\ i < j /\ (j < head \/ head <= i) => cache[i].expires <= cache[j].expires
        /\ i < head /\ head <= j => cache[j].expires <= cache[i].expires

ResolverInv == ResolverTypeOK /\ JobInv /\ SlotInv /\ RingOrder

\* The types in the terms of this module.
LEMMA ResolverTypes ==
    ASSUME ResolverTypeOK
    PROVE  /\ job \in [Queries -> JobRecords] /\ cache \in [CacheSlots -> CacheRecords]
           /\ clock \in 1..MaxClock /\ head \in CacheSlots
           /\ \A t \in Times : t \in Nat
<1>1. \A t \in Times : t \in Nat  BY ResolverAssumption DEF Times
<1> QED  BY <1>1 DEF ResolverTypeOK, JobRecords, CacheRecords, CacheSlots, Names

\* A step of one thread that leaves the cache and the clock alone.
LEMMA OneJobStep ==
    ASSUME ResolverInv, NEW q \in Queries, NEW j \in JobRecords,
           job' = [job EXCEPT ![q] = j], GoodJob(j, clock),
           UNCHANGED <<sock, usable, clock, cache, head>>
    PROVE  ResolverInv'
<1> USE DEF ResolverInv
<1>1. job' \in [Queries -> JobRecords]  BY ResolverTypes
<1>2. ResolverTypeOK'
  BY <1>1 DEF ResolverTypeOK, JobRecords, CacheRecords, CacheSlots, Names
<1>3. JobInv'  BY ResolverTypes DEF JobInv, GoodJob
<1>4. SlotInv' /\ RingOrder'  BY DEF SlotInv, RingOrder
<1> QED  BY <1>2, <1>3, <1>4

\* A thread that ends, or only goes on to a step that asks nothing of it.
LEMMA DropOrMove ==
    ASSUME ResolverInv, NEW q \in Queries,
           \/ Drop(q)
           \/ \E pc1 \in Steps \ {"lookup", "reply", "put"} : Move(q, pc1)
           \/ Move(q, "put") /\ job[q].pc = "reply",
           UNCHANGED <<sock, usable, clock, cache, head>>
    PROVE  ResolverInv'
<1>0. ResolverTypeOK /\ JobInv  BY DEF ResolverInv
<1>1. NoJob \in JobRecords /\ GoodJob(NoJob, clock)
  BY <1>0, ResolverTypes, ResolverAssumption
     DEF NoJob, NoAnswer, JobRecords, Names, Times, Steps, GoodJob
<1>2. CASE Drop(q)
  BY <1>1, <1>2, OneJobStep DEF Drop
<1>3. ASSUME NEW pc1 \in Steps, Move(q, pc1),
             \/ pc1 \notin {"lookup", "reply", "put"}
             \/ pc1 = "put" /\ job[q].pc = "reply"
      PROVE  ResolverInv'
  <2> DEFINE j == [job[q] EXCEPT !.pc = pc1]
  <2>1. job[q] \in JobRecords /\ GoodJob(job[q], clock)
    BY <1>0, ResolverTypes DEF JobInv
  <2>2. j \in JobRecords /\ job' = [job EXCEPT ![q] = j]
    BY <1>0, <1>3, <2>1, ResolverTypes DEF JobRecords, Move
  <2>3. GoodJob(j, clock)
    BY <1>3, <2>1 DEF JobRecords, GoodJob
  <2> HIDE DEF j
  <2> QED  BY <2>2, <2>3, OneJobStep
<1> QED  BY <1>2, <1>3 DEF Steps

\* An answer written at the head.
LEMMA CachePutStep ==
    ASSUME ResolverInv, NEW q \in Queries, CachePut(q)
    PROVE  ResolverInv'
<1>0. ResolverTypeOK /\ JobInv /\ SlotInv /\ RingOrder  BY DEF ResolverInv
<1>20. /\ job \in [Queries -> JobRecords] /\ cache \in [CacheSlots -> CacheRecords]
      /\ clock \in 1..MaxClock /\ head \in CacheSlots
      /\ \A t \in Times : t \in Nat
  BY <1>0, ResolverTypes
<1>1. CASE UNCHANGED <<cache, head>>
  BY <1>1, DropOrMove DEF CachePut
<1>2. CASE cache' = [cache EXCEPT ![head] = Stored(q)] /\ head' = NextHead
  <2> DEFINE e == Stored(q)
  <2>1. job[q] \in JobRecords /\ GoodJob(job[q], clock)  BY <1>0, <1>20 DEF JobInv
  <2>2. /\ e \in CacheRecords /\ e.answer = e.key /\ e.expires = clock + TTL
    BY <1>20, <2>1, ResolverAssumption
       DEF Stored, CacheRecords, JobRecords, Times, GoodJob, CachePut
  <2>3. head' = IF head + 1 < Size THEN head + 1 ELSE 0
    BY <1>2, <1>20, ResolverAssumption DEF NextHead, CacheSlots
  <2> HIDE DEF e
  <2>4. /\ cache' \in [CacheSlots -> CacheRecords]
        /\ \A i \in CacheSlots : cache'[i] = IF i = head THEN e ELSE cache[i]
    BY <1>2, <1>20, <2>2 DEF e
  <2>5. NoJob \in JobRecords /\ GoodJob(NoJob, clock)
    BY <1>20, ResolverAssumption
       DEF NoJob, NoAnswer, JobRecords, Names, Times, Steps, GoodJob
  <2>6. job' \in [Queries -> JobRecords] /\ JobInv'
    BY <1>0, <1>20, <2>5 DEF JobInv, CachePut, Drop, GoodJob
  <2>7. ResolverTypeOK'
    BY SMTT(30), <1>0, <1>20, <2>3, <2>4, <2>6, ResolverAssumption
       DEF ResolverTypeOK, JobRecords, CacheRecords, CacheSlots, Names, CachePut
  <2>8. SlotInv'
    <3>1. clock' = clock /\ clock + TTL <= clock + TTL
      BY <1>20, ResolverAssumption DEF CachePut
    <3> QED  BY <1>0, <2>2, <2>4, <3>1 DEF SlotInv
  <2>9. \A i \in CacheSlots : cache[i].expires \in Nat /\ cache[i].expires <= e.expires
    BY <1>0, <1>20, <2>2 DEF SlotInv, CacheRecords
  <2>10. RingOrder'
    <3> SUFFICES ASSUME NEW i \in CacheSlots, NEW k \in CacheSlots
                 PROVE  /\ i < k /\ (k < head' \/ head' <= i)
                             => cache'[i].expires <= cache'[k].expires
                        /\ i < head' /\ head' <= k
                             => cache'[k].expires <= cache'[i].expires
      BY DEF RingOrder
    <3>1. /\ i < k /\ (k < head \/ head <= i) => cache[i].expires <= cache[k].expires
          /\ i < head /\ head <= k => cache[k].expires <= cache[i].expires
          /\ k < head /\ head <= i => cache[i].expires <= cache[k].expires
      BY <1>0 DEF RingOrder
    <3>2. /\ cache'[i].expires = IF i = head THEN e.expires ELSE cache[i].expires
          /\ cache'[k].expires = IF k = head THEN e.expires ELSE cache[k].expires
      BY <2>4
    <3>3. e.expires \in Nat /\ i \in 0..(Size - 1) /\ k \in 0..(Size - 1) /\ head \in 0..(Size - 1)
      BY <1>20, <2>2, ResolverAssumption DEF CacheSlots
    <3>4. /\ cache[i].expires \in Nat /\ cache[i].expires <= e.expires
          /\ cache[k].expires \in Nat /\ cache[k].expires <= e.expires
      BY <2>9
    <3> DEFINE ei == cache[i].expires
               ek == cache[k].expires
               fi == cache'[i].expires
               fk == cache'[k].expires
               ee == e.expires
    <3> HIDE DEF ei, ek, fi, fk, ee
    <3> QED  BY <2>3, <3>1, <3>2, <3>3, <3>4, ResolverAssumption DEF ei, ek, fi, fk, ee
  <2> QED  BY <2>6, <2>7, <2>8, <2>10 DEF ResolverInv
<1> QED  BY <1>1, <1>2 DEF CachePut

\* The steps of a thread before it has an answer to keep.
LEMMA WorkerKeepsInv ==
    ASSUME ResolverInv, NEW q \in Queries, WorkerStep(q)
    PROVE  ResolverInv'
<1>0. ResolverTypeOK /\ JobInv /\ SlotInv  BY DEF ResolverInv
<1>20. /\ job \in [Queries -> JobRecords] /\ cache \in [CacheSlots -> CacheRecords]
      /\ clock \in 1..MaxClock /\ clock \in Times
      /\ \A t \in Times : t \in Nat
  BY <1>0, ResolverTypes, ResolverAssumption DEF Times
<1>21. job[q] \in JobRecords /\ GoodJob(job[q], clock)  BY <1>0, <1>20 DEF JobInv
<1>1. CASE ReadClock(q)
  <2>1. CASE HasKey(q)
    <3> DEFINE j == [job[q] EXCEPT !.pc = "lookup", !.now = clock]
    <3>1. job' = [job EXCEPT ![q] = j]  BY <1>1, <2>1, <1>20 DEF ReadClock
    <3>2. j \in JobRecords /\ GoodJob(j, clock)
      BY <1>20, <1>21 DEF JobRecords, GoodJob, Steps
    <3> HIDE DEF j
    <3> QED  BY <1>1, <3>1, <3>2, OneJobStep DEF ReadClock
  <2>2. CASE ~HasKey(q)
    BY <1>1, <2>2, DropOrMove DEF ReadClock, Steps
  <2> QED  BY <2>1, <2>2
<1>2. CASE Lookup(q)
  <2>1. CASE Live(q) = {}
    BY <1>2, <2>1, DropOrMove DEF Lookup, Steps
  <2>2. CASE Live(q) # {}
    <3>1. Live(q) \subseteq CacheSlots /\ CacheSlots \subseteq Nat
      BY <1>20, ResolverAssumption DEF Live, CacheSlots
    <3>2. PICK i \in Live(q) : i = Min(Live(q))  BY <2>2, <3>1, MinIsLeast
    <3>3. /\ i \in CacheSlots /\ cache[i] \in CacheRecords
          /\ cache[i].expires > job[q].now /\ cache[i].key = job[q].key
          /\ cache[i].answer = cache[i].key
      BY <1>0, <1>20, <3>1 DEF Live, SlotInv
    <3> DEFINE j == [job[q] EXCEPT !.pc = "reply", !.answer = Cached(cache[i])]
    <3>4. job' = [job EXCEPT ![q] = j]  BY <1>2, <2>2, <1>20, <3>2 DEF Lookup
    <3>5. j \in JobRecords
      BY <1>21, <3>3 DEF JobRecords, CacheRecords, Cached, Steps
    <3>6. GoodJob(j, clock)
      <4>1. job[q].pc = "lookup"  BY <1>2 DEF Lookup
      <4>2. /\ j.asked = job[q].asked /\ j.pc = "reply" /\ j.key = job[q].key
            /\ j.answer.key = job[q].key /\ j.answer.until = cache[i].expires
        BY <1>21, <3>3 DEF JobRecords, Cached
      <4>3. /\ job[q].asked \in Nat /\ job[q].now \in Nat /\ cache[i].expires \in Nat
            /\ job[q].asked <= job[q].now /\ job[q].asked <= clock
        BY <1>20, <1>21, <3>3, <4>1 DEF JobRecords, CacheRecords, GoodJob
      <4> QED  BY <3>3, <4>2, <4>3, <1>20 DEF GoodJob
    <3> HIDE DEF j
    <3> QED  BY <1>2, <3>4, <3>5, <3>6, OneJobStep DEF Lookup
  <2> QED  BY <2>1, <2>2
<1>3. CASE PickDnsProxy(q) \/ ConnectViaProxy(q) \/ ExchangeFails(q) \/ SendReply(q)
  <2>1. \/ Drop(q)
        \/ \E pc1 \in Steps \ {"lookup", "reply", "put"} : Move(q, pc1)
        \/ Move(q, "put") /\ job[q].pc = "reply"
    BY <1>3 DEF PickDnsProxy, ConnectViaProxy, ExchangeFails, SendReply, Steps
  <2>2. UNCHANGED <<sock, usable, clock, cache, head>>
    BY <1>3 DEF PickDnsProxy, ConnectViaProxy, ExchangeFails, SendReply
  <2> QED  BY <2>1, <2>2, DropOrMove
<1>4. CASE Exchange(q)
  <2> DEFINE j == [job[q] EXCEPT !.pc = "reply",
                     !.answer = [key |-> job[q].key, until |-> 0, hit |-> FALSE]]
  <2>1. job' = [job EXCEPT ![q] = j]  BY <1>4, <1>20 DEF Exchange
  <2>2. 0 \in Times  BY ResolverAssumption DEF Times
  <2>3. j \in JobRecords /\ GoodJob(j, clock)
    BY <1>21, <2>2 DEF JobRecords, GoodJob, Steps
  <2> HIDE DEF j
  <2> QED  BY <1>4, <2>1, <2>3, OneJobStep DEF Exchange
<1>5. CASE CachePut(q)  BY <1>5, CachePutStep
<1> QED  BY <1>1, <1>2, <1>3, <1>4, <1>5 DEF WorkerStep

\* Every step keeps the invariant.
LEMMA ResolverStep ==
    ASSUME ResolverInv, [ResolverNext]_resolverVars
    PROVE  ResolverInv'
<1>0. ResolverTypeOK /\ JobInv /\ SlotInv /\ RingOrder  BY DEF ResolverInv
<1>20. /\ job \in [Queries -> JobRecords] /\ cache \in [CacheSlots -> CacheRecords]
      /\ clock \in 1..MaxClock /\ clock \in Times
      /\ \A t \in Times : t \in Nat
  BY <1>0, ResolverTypes, ResolverAssumption DEF Times
<1>22. NoJob \in JobRecords /\ GoodJob(NoJob, clock)
  BY <1>20, ResolverAssumption
     DEF NoJob, NoAnswer, JobRecords, Names, Times, Steps, GoodJob
<1>1. CASE Open \/ ToggleProxy \/ UNCHANGED resolverVars
  <2>1. /\ UNCHANGED <<clock, cache, head, job>>
        /\ sock' \in BOOLEAN /\ usable' \in BOOLEAN
    BY <1>0, <1>1 DEF Open, ToggleProxy, resolverVars, ResolverTypeOK
  <2> QED
    BY <1>0, <2>1 DEF ResolverInv, ResolverTypeOK, JobInv, SlotInv, RingOrder
<1>2. CASE Close
  <2>1. \A q \in Queries : job'[q] = NoJob \/ job'[q] = job[q]  BY <1>2 DEF Close
  <2>2. job' \in [Queries -> JobRecords]  BY <1>2, <1>20, <1>22 DEF Close
  <2>3. JobInv'  BY <1>0, <1>2, <1>22, <2>1 DEF JobInv, Close
  <2>4. ResolverTypeOK'
    BY <1>0, <1>2, <2>2
       DEF Close, ResolverTypeOK, JobRecords, CacheRecords, CacheSlots, Names
  <2> QED  BY <1>0, <1>2, <2>3, <2>4 DEF Close, ResolverInv, SlotInv, RingOrder
<1>3. CASE Tick
  <2>1. clock' = clock + 1 /\ clock' \in 1..MaxClock
        /\ UNCHANGED <<sock, usable, cache, head, job>>
    BY <1>3, <1>20, ResolverAssumption DEF Tick
  <2>2. \A q \in Queries : job[q].asked \in Nat  BY <1>20 DEF JobRecords
  <2>3. JobInv'  BY <1>0, <1>20, <2>1, <2>2 DEF JobInv, GoodJob
  <2>4. \A i \in CacheSlots : cache[i].expires \in Nat  BY <1>20 DEF CacheRecords
  <2>5. SlotInv'  BY <1>0, <1>20, <2>1, <2>4, ResolverAssumption DEF SlotInv
  <2> QED
    BY <1>0, <2>1, <2>3, <2>5 DEF ResolverInv, ResolverTypeOK, RingOrder
<1>4. ASSUME NEW q \in Queries, NEW k \in Keys \cup {NoKey}, Ask(q, k)
      PROVE  ResolverInv'
  <2> DEFINE j == [NoJob EXCEPT !.pc = "queued", !.key = k, !.asked = clock]
  <2>1. j \in JobRecords /\ GoodJob(j, clock)
    <3>1. k \in Names /\ clock \in Nat /\ "queued" \in Steps
      BY <1>20 DEF Steps, Names
    <3>2. j \in JobRecords  BY <1>20, <1>22, <3>1 DEF JobRecords
    <3>3. j.pc = "queued" /\ j.asked = clock  BY <1>22, <3>1 DEF JobRecords
    <3> QED  BY <3>1, <3>2, <3>3 DEF GoodJob
  <2>2. job' = [job EXCEPT ![q] = j]  BY <1>4 DEF Ask
  <2> HIDE DEF j
  <2> QED  BY <1>4, <2>1, <2>2, OneJobStep DEF Ask
<1>5. ASSUME NEW q \in Queries, Process(q)
      PROVE  ResolverInv'
  BY <1>5, DropOrMove DEF Process, Steps
<1> QED
  BY <1>1, <1>2, <1>3, <1>4, <1>5, WorkerKeepsInv DEF ResolverNext

\* The resolver's invariant: the types, what each thread knows at each step,
\* that slots hold what they are filed under, and the order of the ring.
THEOREM ResolverSound == ResolverSpec => []ResolverInv
<1>1. ResolverInit => ResolverInv
  <2> SUFFICES ASSUME ResolverInit PROVE ResolverInv  OBVIOUS
  <2>1. 0 \in Times /\ 0 \in CacheSlots /\ 1 \in 1..MaxClock
    BY ResolverAssumption DEF Times, CacheSlots
  <2>2. NoJob \in JobRecords /\ NoEntry \in CacheRecords
    BY <2>1 DEF NoJob, NoAnswer, NoEntry, JobRecords, CacheRecords, Names, Steps
  <2>3. ResolverTypeOK
    BY <2>1, <2>2
       DEF ResolverInit, ResolverTypeOK, JobRecords, CacheRecords, CacheSlots, Names
  <2>4. JobInv  BY DEF ResolverInit, JobInv, GoodJob, NoJob, NoAnswer
  <2>5. \A i \in CacheSlots : cache[i] = NoEntry  BY DEF ResolverInit, CacheSlots
  <2>6. SlotInv  BY <2>5, ResolverAssumption DEF SlotInv, NoEntry, ResolverInit
  <2>7. RingOrder  BY <2>5 DEF RingOrder, NoEntry
  <2> QED  BY <2>3, <2>4, <2>6, <2>7 DEF ResolverInv
<1> QED  BY <1>1, ResolverStep, PTL DEF ResolverSpec

\* What dns_worker sends answers the question asked and had not expired when
\* it was asked, for any number of threads and any size of the cache.
THEOREM AnswersAreFresh == ResolverSpec => []NoStaleAnswer
<1>1. ResolverInv => NoStaleAnswer
  BY DEF ResolverInv, JobInv, GoodJob, NoStaleAnswer, Replying
<1> QED  BY <1>1, ResolverSound, PTL

\* dns_cache_put overwrites the entry that expires first, whatever the order
\* in which threads finish.
THEOREM EvictionIsByAge == ResolverSpec => []OldestIsReplaced
<1>1. ResolverInv => OldestIsReplaced
  <2> SUFFICES ASSUME ResolverInv, NEW i \in DOMAIN cache
               PROVE  cache[head].expires <= cache[i].expires
    BY DEF OldestIsReplaced
  <2>1. /\ cache \in [CacheSlots -> CacheRecords] /\ head \in CacheSlots
        /\ \A t \in Times : t \in Nat
    BY ResolverTypes DEF ResolverInv
  <2>2. i \in CacheSlots /\ cache[i].expires \in Nat /\ cache[head].expires \in Nat
    BY <2>1 DEF CacheRecords
  <2>3. i \in 0..(Size - 1) /\ head \in 0..(Size - 1) /\ Size \in Nat
    BY <2>1, <2>2, ResolverAssumption DEF CacheSlots
  <2>4. CASE i < head  BY <2>1, <2>2, <2>3, <2>4 DEF ResolverInv, RingOrder
  <2>5. CASE head < i  BY <2>1, <2>2, <2>3, <2>5 DEF ResolverInv, RingOrder
  <2>6. CASE i = head  BY <2>2, <2>6
  <2> QED  BY <2>3, <2>4, <2>5, <2>6
<1> QED  BY <1>1, ResolverSound, PTL

-----------------------------------------------------------------------------
(* Routing. *)

\* The place of a rule in the list is the first at which it stands.
LEMMA PositionIsFirst ==
    ASSUME NEW rs \in Seq(RuleSet), NEW r \in ToSet(rs)
    PROVE  /\ Position(rs, r) \in 1..Len(rs) /\ rs[Position(rs, r)] = r
           /\ \A j \in 1..Len(rs) : rs[j] = r => Position(rs, r) <= j
<1> DEFINE I == {i \in 1..Len(rs) : rs[i] = r}
<1>0. Len(rs) \in Nat /\ DOMAIN rs = 1..Len(rs)  BY LenProperties
<1>1. I \subseteq Nat /\ I # {}  BY <1>0 DEF ToSet
<1>2. PICK m \in I : \A y \in I : m <= y  BY <1>1, MinIsLeast
<1>3. m \in 1..Len(rs) /\ rs[m] = r /\ \A j \in 1..(m - 1) : rs[j] # r
  BY <1>0, <1>2
<1>4. \E i \in 1..Len(rs) : rs[i] = r /\ \A j \in 1..(i - 1) : rs[j] # r
  BY <1>3
<1>5. /\ Position(rs, r) \in 1..Len(rs) /\ rs[Position(rs, r)] = r
      /\ \A j \in 1..(Position(rs, r) - 1) : rs[j] # r
  BY <1>4 DEF Position
<1>6. ASSUME NEW j \in 1..Len(rs), rs[j] = r PROVE Position(rs, r) <= j
  BY <1>0, <1>5, <1>6
<1> QED  BY <1>5, <1>6

\* The first of the rules at the places I.
Earliest(rs, I) == IF I = {} THEN NoRule ELSE rs[Min(I)]

\* It leads any set of rules of which these are the places, and nothing else
\* does.
LEMMA EarliestLeads ==
    ASSUME NEW rs \in Seq(RuleSet), NEW S \in SUBSET ToSet(rs), S # {},
           NEW I, I = {i \in 1..Len(rs) : rs[i] \in S}
    PROVE  /\ Earliest(rs, I) \in S /\ Earliest(rs, I) \in RuleSet /\ Earliest(rs, I) # NoRule
           /\ Leads(rs, Earliest(rs, I), S)
           /\ \A g : Leads(rs, g, S) => g = Earliest(rs, I)
<1>0. Len(rs) \in Nat /\ DOMAIN rs = 1..Len(rs)  BY LenProperties
<1>1. ToSet(rs) = {rs[i] : i \in 1..Len(rs)}  BY <1>0 DEF ToSet
<1>2. I \subseteq Nat /\ I # {}
  <2>1. PICK g \in S : g \in ToSet(rs)  OBVIOUS
  <2>2. PICK i \in 1..Len(rs) : rs[i] = g  BY <1>1, <2>1
  <2> QED  BY <1>0, <2>2
<1>3. PICK m \in I : m = Min(I) /\ \A y \in I : m <= y
  <2>1. Min(I) \in I /\ \A y \in I : Min(I) <= y  BY <1>2, MinIsLeast, Zenon
  <2> QED  BY <2>1, Zenon
<1>4. Earliest(rs, I) = rs[m]  BY <1>2, <1>3 DEF Earliest
<1>5. m \in 1..Len(rs) /\ rs[m] \in S /\ rs[m] \in RuleSet
  <2>1. m \in 1..Len(rs) /\ rs[m] \in S  BY <1>3
  <2> QED  BY <2>1, ElementOfSeq
<1>6. ASSUME NEW q \in S
      PROVE  Position(rs, q) \in I /\ m <= Position(rs, q) /\ rs[Position(rs, q)] = q
  BY <1>3, PositionIsFirst
<1>7. Position(rs, rs[m]) = m
  <2>1. Position(rs, rs[m]) \in 1..Len(rs) /\ Position(rs, rs[m]) <= m
    BY <1>0, <1>5, PositionIsFirst
  <2> QED  BY <1>0, <1>5, <1>6, <2>1
<1>8. Leads(rs, rs[m], S)  BY <1>5, <1>6, <1>7 DEF Leads
<1>9. ASSUME NEW g, Leads(rs, g, S) PROVE g = rs[m]
  <2>1. g \in S /\ Position(rs, g) <= m  BY <1>5, <1>7, <1>9 DEF Leads
  <2>2. Position(rs, g) = m  BY <1>0, <1>5, <1>6, <2>1
  <2> QED  BY <1>6, <2>1, <2>2
<1>10. rs[m] # NoRule  BY <1>5, RoutingAssumption
<1> QED  BY <1>4, <1>5, <1>8, <1>9, <1>10

\* The scan of pf_rules_match returns the one rule that leads those for every
\* application, if there are any.
LEMMA ScanFindsTheLeader ==
    ASSUME NEW rs \in Seq(RuleSet), NEW c
    PROVE  /\ Global(rs, c) = {} => RulesMatch(rs, c) = NoRule
           /\ Global(rs, c) # {} =>
                /\ RulesMatch(rs, c) \in Global(rs, c) /\ RulesMatch(rs, c) \in RuleSet
                /\ RulesMatch(rs, c) # NoRule
                /\ Leads(rs, RulesMatch(rs, c), Global(rs, c))
                /\ \A g : Leads(rs, g, Global(rs, c)) => g = RulesMatch(rs, c)
<1> DEFINE Fits(r) == r.on /\ r.app = Blank /\ MatchesDst(r, c)
           I == {i \in 1..Len(rs) : Fits(rs[i])}
           G == Global(rs, c)
<1>0. Len(rs) \in Nat /\ DOMAIN rs = 1..Len(rs)  BY LenProperties
<1>1. G = {r \in ToSet(rs) : Fits(r)}  BY DEF Global
<1>2. ToSet(rs) = {rs[i] : i \in 1..Len(rs)}  BY <1>0 DEF ToSet
<1>3. I = {i \in 1..Len(rs) : rs[i] \in G} /\ I \subseteq Nat  BY <1>0, <1>1, <1>2
<1>4. RulesMatch(rs, c) = Earliest(rs, I)
  <2>1. CASE I = {}
    <3>1. SelectInSeq(rs, Fits) = 0  BY <2>1 DEF SelectInSeq
    <3> QED  BY <2>1, <3>1 DEF RulesMatch, Earliest
  <2>2. CASE I # {}
    <3>1. SelectInSeq(rs, Fits) = Min(I)  BY <2>2 DEF SelectInSeq
    <3>2. Min(I) \in I  BY <1>3, <2>2, MinIsLeast, Zenon
    <3>3. \A k \in I : k # 0  BY <1>0
    <3> QED  BY <2>2, <3>1, <3>2, <3>3 DEF RulesMatch, Earliest
  <2> QED  BY <2>1, <2>2
<1>5. CASE G = {}
  <2>1. I = {}  BY <1>3, <1>5
  <2> QED  BY <1>4, <1>5, <2>1 DEF Earliest
<1>6. CASE G # {}
  <2>1. G \in SUBSET ToSet(rs)  BY <1>1
  <2> HIDE DEF G, I
  <2>2. /\ Earliest(rs, I) \in G /\ Earliest(rs, I) \in RuleSet /\ Earliest(rs, I) # NoRule
        /\ Leads(rs, Earliest(rs, I), G)
        /\ \A g : Leads(rs, g, G) => g = Earliest(rs, I)
    BY <1>3, <1>6, <2>1, EarliestLeads
  <2> QED  BY <1>4, <1>6, <2>2 DEF G
<1> QED  BY <1>5, <1>6

\* The places of the usable rules among the first i, of each kind.
SpecificAt(rs, c, i) == {k \in 1..i : Usable(rs[k], c) /\ Specific(rs[k])}
CatchallAt(rs, c, i) == {k \in 1..i : Usable(rs[k], c) /\ ~Specific(rs[k])}

\* What the second scan is to have found after i rules.
Scanned(rs, c) ==
    [i \in 0..Len(rs) |-> [specific |-> Earliest(rs, SpecificAt(rs, c, i)),
                           catchall |-> Earliest(rs, CatchallAt(rs, c, i))]]

\* A later place does not change the earliest, unless it is the only one.
LEMMA EarliestIsKept ==
    ASSUME NEW rs \in Seq(RuleSet), NEW i \in 1..Len(rs), NEW I \in SUBSET (1..(i - 1))
    PROVE  Earliest(rs, I \cup {i}) =
             IF Earliest(rs, I) = NoRule THEN rs[i] ELSE Earliest(rs, I)
<1>0. Len(rs) \in Nat /\ i \in Nat /\ I \subseteq Nat /\ I \cup {i} \subseteq Nat
  BY LenProperties
<1>1. PICK m \in I \cup {i} : m = Min(I \cup {i}) /\ \A y \in I \cup {i} : m <= y
  BY <1>0, MinIsLeast
<1>2. Earliest(rs, I \cup {i}) = rs[m]  BY <1>1 DEF Earliest
<1>3. CASE I = {}  BY <1>1, <1>2, <1>3 DEF Earliest
<1>4. CASE I # {}
  <2>1. PICK n \in I : n = Min(I) /\ \A y \in I : n <= y  BY <1>0, <1>4, MinIsLeast
  <2>2. n \in 1..Len(rs) /\ n < i  BY <1>0
  <2>3. m = n
    <3>1. m \in Nat /\ n \in Nat /\ m <= n  BY <1>0, <1>1
    <3>2. CASE m = i  BY <1>0, <2>2, <3>1, <3>2
    <3>3. CASE m \in I  BY <2>1, <3>1, <3>3
    <3> QED  BY <1>1, <3>2, <3>3
  <2>4. rs[n] \in RuleSet  BY <2>2, ElementOfSeq
  <2>5. Earliest(rs, I) = rs[n] /\ rs[n] # NoRule
    BY <1>4, <2>1, <2>4, RoutingAssumption DEF Earliest
  <2> QED  BY <1>2, <2>3, <2>5
<1> QED  BY <1>3, <1>4

\* One iteration takes what is found after i - 1 rules to what is found after
\* i.
LEMMA ScannedStep ==
    ASSUME NEW rs \in Seq(RuleSet), NEW c, NEW i \in 1..Len(rs)
    PROVE  Scanned(rs, c)[i] = Better(Scanned(rs, c)[i - 1], rs[i], c)
<1> DEFINE S == SpecificAt(rs, c, i - 1)
           C == CatchallAt(rs, c, i - 1)
<1>0. Len(rs) \in Nat /\ i \in Nat /\ i - 1 \in 0..Len(rs) /\ i \in 0..Len(rs)  BY LenProperties
<1>1. S \in SUBSET (1..(i - 1)) /\ C \in SUBSET (1..(i - 1))  BY DEF SpecificAt, CatchallAt
<1>2. 1..i = (1..(i - 1)) \cup {i}  BY <1>0
<1>3. SpecificAt(rs, c, i) = IF Usable(rs[i], c) /\ Specific(rs[i]) THEN S \cup {i} ELSE S
  BY <1>2 DEF SpecificAt
<1>4. CatchallAt(rs, c, i) = IF Usable(rs[i], c) /\ ~Specific(rs[i]) THEN C \cup {i} ELSE C
  BY <1>2 DEF CatchallAt
<1>5. Scanned(rs, c)[i] = [specific |-> Earliest(rs, SpecificAt(rs, c, i)),
                           catchall |-> Earliest(rs, CatchallAt(rs, c, i))]
  BY <1>0 DEF Scanned
<1>6. Scanned(rs, c)[i - 1] = [specific |-> Earliest(rs, S), catchall |-> Earliest(rs, C)]
  BY <1>0 DEF Scanned
<1>7. /\ Earliest(rs, S \cup {i}) = IF Earliest(rs, S) = NoRule THEN rs[i] ELSE Earliest(rs, S)
      /\ Earliest(rs, C \cup {i}) = IF Earliest(rs, C) = NoRule THEN rs[i] ELSE Earliest(rs, C)
  BY <1>1, EarliestIsKept
<1> HIDE DEF S, C
<1>8. CASE ~Usable(rs[i], c)  BY <1>3, <1>4, <1>5, <1>6, <1>8 DEF Better
<1>9. CASE Usable(rs[i], c) /\ Specific(rs[i])  BY <1>3, <1>4, <1>5, <1>6, <1>7, <1>9 DEF Better
<1>10. CASE Usable(rs[i], c) /\ ~Specific(rs[i])
  BY <1>3, <1>4, <1>5, <1>6, <1>7, <1>10 DEF Better
<1> QED  BY <1>8, <1>9, <1>10

\* The scan's recursion has one solution.
LEMMA ScanIsScanned ==
    ASSUME NEW rs \in Seq(RuleSet), NEW c
    PROVE  Scan(rs, c) = Scanned(rs, c)
<1> DEFINE Solves(f) == f = [i \in 0..Len(rs) |->
                               IF i = 0 THEN [specific |-> NoRule, catchall |-> NoRule]
                               ELSE Better(f[i - 1], rs[i], c)]
           found == Scanned(rs, c)
<1>0. Len(rs) \in Nat  BY LenProperties
<1>1. Scan(rs, c) = CHOOSE f : Solves(f)  BY DEF Scan
<1>2. found = [i \in 0..Len(rs) |-> found[i]]  BY DEF Scanned
<1>3. found[0] = [specific |-> NoRule, catchall |-> NoRule]
  <2>1. SpecificAt(rs, c, 0) = {} /\ CatchallAt(rs, c, 0) = {}
    BY DEF SpecificAt, CatchallAt
  <2> QED  BY <1>0, <2>1 DEF Scanned, Earliest
<1>4. \A i \in 1..Len(rs) : found[i] = Better(found[i - 1], rs[i], c)  BY ScannedStep
<1> HIDE DEF found
<1>5. Solves(found)
  <2>1. \A i \in 0..Len(rs) : i # 0 => i \in 1..Len(rs)  BY <1>0
  <2>2. \A i \in 0..Len(rs) :
          found[i] = IF i = 0 THEN [specific |-> NoRule, catchall |-> NoRule]
                     ELSE Better(found[i - 1], rs[i], c)
    BY <1>3, <1>4, <2>1
  <2> QED  BY <1>2, <2>2
<1>6. PICK f : f = Scan(rs, c) /\ Solves(f)  BY <1>1, <1>5
<1>7. \A i \in 0..Len(rs) : f[i] = found[i]
  <2> DEFINE wrong == {i \in 0..Len(rs) : f[i] # found[i]}
  <2> SUFFICES ASSUME wrong # {} PROVE FALSE  OBVIOUS
  <2>1. PICK m \in wrong : \A y \in wrong : m <= y
    <3>1. wrong \subseteq Nat  BY <1>0
    <3> QED  BY <3>1, MinIsLeast, Zenon
  <2>2. m \in 0..Len(rs) /\ f[m] # found[m]  OBVIOUS
  <2>3. m # 0
    <3>1. f[0] = [specific |-> NoRule, catchall |-> NoRule]  BY <1>0, <1>6
    <3> QED  BY <1>3, <2>2, <3>1
  <2>4. m - 1 \in 0..Len(rs) /\ m \in 1..Len(rs) /\ ~(m <= m - 1)  BY <1>0, <2>2, <2>3
  <2>5. f[m - 1] = found[m - 1]  BY <2>1, <2>4
  <2>6. f[m] = Better(f[m - 1], rs[m], c)  BY <1>6, <2>2, <2>3
  <2> QED  BY <1>4, <2>2, <2>4, <2>5, <2>6
<1>8. f = [i \in 0..Len(rs) |-> f[i]]  BY <1>6
<1> QED  BY <1>2, <1>6, <1>7, <1>8 DEF found

\* The second scan returns the leading rule of the applications' PROXY rules
\* that match, of the specific ones if there are any.
LEMMA AppScanFinds ==
    ASSUME NEW rs \in Seq(RuleSet), NEW c
    PROVE  LET candidates == OfApps(rs, c)
               specific == {q \in candidates : Specific(q)}
           IN IF candidates = {} THEN AppScan(rs, c) = NoRule
              ELSE Leads(rs, AppScan(rs, c), IF specific # {} THEN specific ELSE candidates)
<1> DEFINE A == OfApps(rs, c)
           B == {q \in A : Specific(q)}
           S == SpecificAt(rs, c, Len(rs))
           C == CatchallAt(rs, c, Len(rs))
<1>0. Len(rs) \in Nat /\ DOMAIN rs = 1..Len(rs)  BY LenProperties
<1>1. ToSet(rs) = {rs[i] : i \in 1..Len(rs)}  BY <1>0 DEF ToSet
<1>2. A = {r \in ToSet(rs) : Usable(r, c)}  BY DEF OfApps, Usable
<1>3. S = {i \in 1..Len(rs) : rs[i] \in B}  BY <1>1, <1>2 DEF SpecificAt
<1>4. C = {i \in 1..Len(rs) : rs[i] \in A \ B}  BY <1>1, <1>2 DEF CatchallAt
<1>5. Scan(rs, c)[Len(rs)] = [specific |-> Earliest(rs, S), catchall |-> Earliest(rs, C)]
  BY <1>0, ScanIsScanned DEF Scanned
<1>6. AppScan(rs, c) = IF Earliest(rs, S) # NoRule THEN Earliest(rs, S) ELSE Earliest(rs, C)
  BY <1>5 DEF AppScan
<1>7. A \in SUBSET ToSet(rs) /\ B \in SUBSET ToSet(rs) /\ B \subseteq A  BY <1>2
<1> HIDE DEF A, S, C
<1>8. CASE B # {}
  <2>1. Leads(rs, Earliest(rs, S), B) /\ Earliest(rs, S) # NoRule
    BY <1>3, <1>7, <1>8, EarliestLeads
  <2> QED  BY <1>6, <1>7, <1>8, <2>1 DEF A
<1>9. CASE B = {}
  <2>1. S = {} /\ C = {i \in 1..Len(rs) : rs[i] \in A}  BY <1>3, <1>4, <1>9
  <2>2. AppScan(rs, c) = Earliest(rs, C)  BY <1>6, <2>1 DEF Earliest
  <2>3. CASE A = {}
    <3>1. C = {}  BY <2>1, <2>3
    <3> QED  BY <2>2, <2>3, <3>1 DEF Earliest, A
  <2>4. CASE A # {}
    <3>1. Leads(rs, Earliest(rs, C), A)  BY <1>7, <2>1, <2>4, EarliestLeads
    <3> QED  BY <1>9, <2>2, <2>4, <3>1 DEF A
  <2> QED  BY <2>3, <2>4
<1> QED  BY <1>8, <1>9

\* The two scans together are the reference.
LEMMA ChooseIsReference ==
    ASSUME NEW rs \in Seq(RuleSet), NEW c
    PROVE  Reference(rs, c, Choose(rs, c))
<1> DEFINE G == Global(rs, c)
           first == RulesMatch(rs, c)
           decided == \E g \in RuleSet : Leads(rs, g, G) /\ g.act # "DIRECT"
<1>1. G = {} => first = NoRule  BY ScanFindsTheLeader
<1>2. G # {} => /\ first \in RuleSet /\ first # NoRule /\ Leads(rs, first, G)
                /\ \A g : Leads(rs, g, G) => g = first
  BY ScanFindsTheLeader
<1>3. Choose(rs, c) = IF first = NoRule \/ first.act = "DIRECT" THEN AppScan(rs, c) ELSE first
  BY DEF Choose
<1>4. \A g : Leads(rs, g, G) => G # {}  BY DEF Leads
<1> HIDE DEF G, first
<1>5. CASE decided
  <2>1. first # NoRule /\ first.act # "DIRECT" /\ Leads(rs, first, G)
    BY <1>2, <1>4, <1>5
  <2>2. Choose(rs, c) = first  BY <1>3, <2>1
  <2> QED  BY <1>5, <2>1, <2>2 DEF Reference, G
<1>6. CASE ~decided
  <2>1. first = NoRule \/ first.act = "DIRECT"  BY <1>1, <1>2, <1>6
  <2>2. Choose(rs, c) = AppScan(rs, c)  BY <1>3, <2>1
  <2> QED  BY <1>6, <2>2, AppScanFinds DEF Reference, G
<1> QED  BY <1>5, <1>6

Blocks(r) == r # NoRule /\ r.act \in {"BLOCK", "REJECT"}

\* A connection that is to be blocked is on its way to being closed, and the
\* thread's copy of the rule is the one that says so.
RouteInv ==
    /\ rules \in Seq(RuleSet)
    /\ Blocks(led) => pc \in {"act", "closed"} /\ (pc = "act" => choice = led)

\* The list stays one of rules.
LEMMA AdminStep ==
    ASSUME RouteInv, AdminNext
    PROVE  rules' \in Seq(RuleSet) /\ UNCHANGED <<pc, choice, led>>
<1>0. rules \in Seq(RuleSet) /\ Len(rules) \in Nat  BY LenProperties DEF RouteInv
<1>1. ASSUME NEW i \in 1..(Len(rules) + 1), NEW r \in RuleSet, RuleAdd(i, r)
      PROVE  rules' \in Seq(RuleSet) /\ UNCHANGED <<pc, choice, led>>
  <2>1. SubSeq(rules, 1, i - 1) \in Seq(RuleSet)  BY <1>0
  <2>2. SubSeq(rules, i, Len(rules)) \in Seq(RuleSet)  BY <1>0
  <2>3. <<r>> \in Seq(RuleSet)  OBVIOUS
  <2> QED  BY <1>1, <2>1, <2>2, <2>3 DEF RuleAdd, InsertAt
<1>2. ASSUME NEW i \in 1..Len(rules), NEW r \in RuleSet, RuleEdit(i, r)
      PROVE  rules' \in Seq(RuleSet) /\ UNCHANGED <<pc, choice, led>>
  BY <1>0, <1>2 DEF RuleEdit
<1>3. ASSUME NEW i \in 1..Len(rules), RuleDelete(i)
      PROVE  rules' \in Seq(RuleSet) /\ UNCHANGED <<pc, choice, led>>
  <2>1. SubSeq(rules, 1, i - 1) \in Seq(RuleSet)  BY <1>0
  <2>2. SubSeq(rules, i + 1, Len(rules)) \in Seq(RuleSet)  BY <1>0
  <2> QED  BY <1>3, <2>1, <2>2 DEF RuleDelete, RemoveAt
<1>4. ASSUME NEW i \in 1..Len(rules), RuleReorder(i)
      PROVE  rules' \in Seq(RuleSet) /\ UNCHANGED <<pc, choice, led>>
  BY <1>0, <1>4 DEF RuleReorder
<1>5. ASSUME NEW x \in Routes, Toggle(x) \/ Delete(x)
      PROVE  rules' \in Seq(RuleSet) /\ UNCHANGED <<pc, choice, led>>
  BY <1>0, <1>5 DEF Toggle, Delete
<1> QED  BY <1>1, <1>2, <1>3, <1>4, <1>5 DEF AdminNext

\* What the thread copies when the leading rule blocks.
LEMMA MatchStep ==
    ASSUME RouteInv, Match
    PROVE  Blocks(led') => choice' = led'
<1>0. rules \in Seq(RuleSet)  BY DEF RouteInv
<1>1. CASE Global(rules, conn) = {}
  BY <1>1 DEF Match, Blocks
<1>2. CASE Global(rules, conn) # {}
  <2> DEFINE first == RulesMatch(rules, conn)
             G == Global(rules, conn)
  <2>1. /\ first # NoRule /\ first \in G /\ Leads(rules, first, G)
        /\ \A g : Leads(rules, g, G) => g = first
    BY <1>0, <1>2, ScanFindsTheLeader
  <2>2. led' = CHOOSE g \in G : Leads(rules, g, G)  BY <1>2 DEF Match
  <2> HIDE DEF first, G
  <2>3. led' = first  BY <2>1, <2>2
  <2>4. choice' = IF first.act = "DIRECT" THEN AppScan(rules, conn) ELSE first
    BY <2>1 DEF Match, Choose, first
  <2> QED  BY <2>3, <2>4 DEF Blocks
<1> QED  BY <1>1, <1>2

\* Every step keeps the invariant.
LEMMA RouteStep ==
    ASSUME RouteInv, [Next]_vars
    PROVE  RouteInv'
<1>1. CASE AdminNext  BY <1>1, AdminStep DEF RouteInv, Blocks
<1>2. ASSUME NEW c \in Connections, Arrive(c) PROVE RouteInv'
  BY <1>2 DEF RouteInv, Blocks, Arrive
<1>3. CASE Match
  <2>1. rules' = rules /\ pc' = "act"  BY <1>3 DEF Match
  <2> QED  BY <1>3, <2>1, MatchStep DEF RouteInv
<1>4. CASE Act  BY <1>4 DEF RouteInv, Blocks, Act
<1>5. CASE Connect  BY <1>5 DEF RouteInv, Blocks, Connect
<1>6. CASE ConnectDirect  BY <1>6 DEF RouteInv, Blocks, ConnectDirect
<1>7. CASE Done  BY <1>7 DEF RouteInv, Blocks, Done
<1>8. CASE UNCHANGED vars  BY <1>8 DEF RouteInv, Blocks, vars
<1> QED
  BY <1>1, <1>2, <1>3, <1>4, <1>5, <1>6, <1>7, <1>8 DEF Next, ThreadNext

\* A connection whose first rule for every application says BLOCK or REJECT is
\* never established, for every set of rules, proxies and chains, and whatever
\* the main thread does between the thread's reads (proxy_connect_for_tproxy).
THEOREM BlockingIsFinal == Spec => []BlockedStaysClosed
<1>1. Init => RouteInv  BY DEF Init, RouteInv, Blocks
<1>2. RouteInv => BlockedStaysClosed  BY DEF RouteInv, Blocks, BlockedStaysClosed
<1> QED  BY <1>1, <1>2, RouteStep, PTL DEF Spec

\* The two scans of proxy_connect_for_tproxy choose what the reference says:
\* the first rule for every application unless it is DIRECT, else the first
\* specific, else the first PROXY rule of an application.  For every list of
\* rules, of any length.
THEOREM ChoiceFollowsReference == Spec => ChoiceIsReference
<1>1. Init => RouteInv  BY DEF Init, RouteInv, Blocks
<1>2. RouteInv /\ [Next]_vars => [Match => Reference(rules, conn, choice')]_vars
  <2> SUFFICES ASSUME RouteInv, Match PROVE Reference(rules, conn, choice')  OBVIOUS
  <2>1. rules \in Seq(RuleSet) /\ choice' = Choose(rules, conn)  BY DEF RouteInv, Match
  <2>2. Reference(rules, conn, Choose(rules, conn))  BY <2>1, ChooseIsReference
  <2> QED  BY <2>1, <2>2
<1> QED  BY <1>1, <1>2, RouteStep, PTL DEF Spec, ChoiceIsReference

=============================================================================
