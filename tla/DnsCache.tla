------------------------------ MODULE DnsCache ------------------------------
(***************************************************************************)
(* The cache of DNS answers (dns.c): the event loop takes queries and      *)
(* answers from a netfilter queue and notes in a table of fixed size which *)
(* address a name was last given, so that a connection to the address can  *)
(* be routed by the name (pf_dns_lookup).                                  *)
(*                                                                         *)
(* A packet is what the callback makes of it: a name and the records that  *)
(* are whole.  Time is in units of the shortest life of an entry.  The     *)
(* rule an entry is stored with is never read and is left out.             *)
(***************************************************************************)
EXTENDS Integers, Sequences, FiniteSets

CONSTANTS DnsSlots,    \* PF_DNS_CACHE_SIZE, 4096 in the code
          DnsNames,    \* names, up to case
          Addresses,   \* addresses in answers
          Answers,     \* sequences of records an answer may hold
          DnsTtl,      \* PF_DNS_TTL, 300 s
          MinTtl,      \* the floor on an A record's time to live, 30 s
          MaxNow,      \* bound: time
          MaxPackets   \* bound: packets seen

\* A record is of type A or AAAA with an address, or of another type.
Records == [type : {"A", "AAAA", "other"}, ip : Addresses, ttl : Nat]

ASSUME DnsCacheAssumption ==
    /\ DnsSlots \in Nat \ {0} /\ Answers \subseteq Seq(Records)
    /\ MinTtl \in Nat \ {0} /\ DnsTtl \in Nat /\ MinTtl <= DnsTtl
    /\ MaxNow \in Nat /\ MaxPackets \in Nat

NoIp == "no address"   \* resolved_ip is empty
ASSUME NoIpAssumption == NoIp \notin Addresses

VARIABLES
    dnsCache,  \* dns->cache
    dnsNow,    \* time(NULL)
    answer,    \* the answer being processed: its name and the records left
    packets,   \* packets seen so far
    news       \* history, per name: its last query or record, and when it is due

dnsVars == <<dnsCache, dnsNow, answer, packets, news>>

Slot == 1..DnsSlots
SomeName == CHOOSE n \in DnsNames : TRUE
Unused == [used |-> FALSE, name |-> SomeName, ip |-> NoIp, expires |-> 0]
NoAnswer == [name |-> SomeName, records |-> <<>>]

DnsInit ==
    /\ dnsCache = [i \in Slot |-> Unused]
    /\ dnsNow = 1 /\ packets = 0 /\ answer = NoAnswer
    /\ news = [n \in DnsNames |-> [ip |-> NoIp, due |-> 0]]

-----------------------------------------------------------------------------
Live(i) == dnsCache[i].used /\ dnsCache[i].expires > dnsNow

First(S) == CHOOSE i \in S : \A j \in S : i <= j

\* Fault: the first slot that is free or has the name.
FindSlotFirst(n) ==
    LET S == {i \in Slot : ~Live(i) \/ dnsCache[i].name = n}
    IN IF S # {} THEN First(S) ELSE 0

\* cache_find_slot: the live entry of the name, or the first slot without a
\* live entry; 0 if there is neither.
FindSlot(n) ==
    LET same == {i \in Slot : Live(i) /\ dnsCache[i].name = n}
        free == {i \in Slot : ~Live(i)}
    IN IF same # {} THEN First(same) ELSE IF free # {} THEN First(free) ELSE 0

\* History: what the cache should now say of a name, and until when.  It is
\* told nothing new if it has no room for the name.
Told(n, ip, due) ==
    news' = [news EXCEPT ![n] =
        IF \A i \in Slot : Live(i) /\ dnsCache[i].name # n THEN @ ELSE [ip |-> ip, due |-> due]]

\* pf_dns_cache_add; a name for which there is no slot is dropped.
CacheAdd(n, ip) ==
    dnsCache' = IF FindSlot(n) = 0 THEN dnsCache
                ELSE [dnsCache EXCEPT ![FindSlot(n)] =
                        [used |-> TRUE, name |-> n, ip |-> ip, expires |-> dnsNow + DnsTtl]]

\* A query is noted without an address, over the one that may be known.
Query ==
    /\ answer.records = <<>> /\ packets < MaxPackets
    /\ \E n \in DnsNames : CacheAdd(n, NoIp) /\ Told(n, NoIp, dnsNow + DnsTtl)
    /\ packets' = packets + 1
    /\ UNCHANGED <<dnsNow, answer>>

Response ==
    /\ answer.records = <<>> /\ packets < MaxPackets
    /\ \E n \in DnsNames, rs \in Answers : answer' = [name |-> n, records |-> rs]
    /\ packets' = packets + 1
    /\ UNCHANGED <<dnsCache, dnsNow, news>>

\* How long an entry lives that is updated: the record's own time for A,
\* between the floor and the cap, the cap for AAAA.
TtlOf(r) ==
    IF r.type = "AAAA" \/ r.ttl > DnsTtl THEN DnsTtl
    ELSE IF r.ttl < MinTtl THEN MinTtl ELSE r.ttl

\* One record: an entry of the name, live or expired, gets the address; in
\* another slot a new entry is made, which lives as long as the cap allows.
RecordAddress ==
    /\ answer.records # <<>> /\ Head(answer.records).type # "other"
    /\ LET n == answer.name
           r == Head(answer.records)
           i == FindSlot(n)
       IN IF i # 0 /\ dnsCache[i].used /\ dnsCache[i].name = n
          THEN /\ dnsCache' = [dnsCache EXCEPT ![i].ip = r.ip,
                                               ![i].expires = dnsNow + TtlOf(r)]
               /\ Told(n, r.ip, dnsNow + TtlOf(r))
          ELSE CacheAdd(n, r.ip) /\ Told(n, r.ip, dnsNow + DnsTtl)
    /\ answer' = [answer EXCEPT !.records = Tail(@)]
    /\ UNCHANGED <<dnsNow, packets>>

SkipRecord ==
    /\ answer.records # <<>> /\ Head(answer.records).type = "other"
    /\ answer' = [answer EXCEPT !.records = Tail(@)]
    /\ UNCHANGED <<dnsCache, dnsNow, packets, news>>

DnsTick ==
    /\ dnsNow < MaxNow
    /\ dnsNow' = dnsNow + 1
    /\ UNCHANGED <<dnsCache, answer, packets, news>>

DnsNext == Query \/ Response \/ RecordAddress \/ SkipRecord \/ DnsTick

\* pf_dns_lookup: the slot of the first live entry with the address, or 0.
Lookup(ip) ==
    LET S == {i \in Slot : Live(i) /\ dnsCache[i].ip # NoIp /\ dnsCache[i].ip = ip}
    IN IF S = {} THEN 0 ELSE First(S)

-----------------------------------------------------------------------------
(* Properties. *)

DnsTypeOK ==
    /\ dnsCache \in [Slot -> [used : BOOLEAN, name : DnsNames,
                              ip : Addresses \cup {NoIp}, expires : 0..(MaxNow + DnsTtl)]]
    /\ dnsNow \in 1..MaxNow /\ packets \in 0..MaxPackets
    /\ answer.name \in DnsNames /\ answer.records \in Seq(Records)

\* Under expiry, re-use of slots and a full table, a name is in the cache
\* exactly while its last news is not due, in one entry, with the last address
\* of the last answer, or none after a newer query; so an address is found
\* exactly if it is the last one some name was given, and under such a name
\* (cache_find_slot, dns_callback, pf_dns_lookup).
DnsEntriesAreLatest ==
    /\ \A n \in DnsNames :
          LET entries == {i \in Slot : Live(i) /\ dnsCache[i].name = n}
          IN IF news[n].due > dnsNow
             THEN Cardinality(entries) = 1 /\ \A i \in entries : dnsCache[i].ip = news[n].ip
             ELSE entries = {}
    /\ \A ip \in Addresses :
          LET named == {n \in DnsNames : news[n].due > dnsNow /\ news[n].ip = ip}
          IN IF named = {} THEN Lookup(ip) = 0
             ELSE Lookup(ip) # 0 /\ dnsCache[Lookup(ip)].name \in named
=============================================================================
