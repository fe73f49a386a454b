----------------------------- MODULE Inspector ------------------------------
(***************************************************************************)
(* The inspector (main.c): what becomes of the chunks the relay decrypts,  *)
(* and the ring of entries the GUI polls with inspect.list and             *)
(* inspect.get.                                                            *)
(*                                                                         *)
(* The main thread filters chunks and offers them to the capture queue; it *)
(* also serves the polls.  The capture worker takes messages from the      *)
(* queue, classifies them and inserts an entry for each HTTP message into  *)
(* the ring.  The queue is the abstract LossyChannel, which CaptureQueue   *)
(* implements.                                                             *)
(*                                                                         *)
(* The worker inserts with g_inspect_ring_lock held; the readers do not    *)
(* take the lock, so the steps of the two interleave.  An entry is its     *)
(* sequence number, 0 is the NULL pointer.  A reader that dereferences a   *)
(* deleted entry has undefined behaviour: readFreed records it, and the    *)
(* model says nothing of what follows.                                     *)
(***************************************************************************)
EXTENDS Integers, Sequences, FiniteSets

CONSTANTS RingSize,      \* PF_INSPECT_RING_SIZE, 5000 in the code
          QueueSize,     \* PF_CAPTURE_QUEUE_SIZE
          QueueBatch,    \* DRAIN_BATCH
          Chunks,        \* the kinds of chunks the relay may deliver
          DefaultLimit,  \* limit of inspect.list when none or a bad one is given
          MaxLimit,      \* the largest limit accepted
          Limits,        \* the limits requests ask for
          MaxChunks,     \* bound: chunks offered to the queue
          MaxReads       \* bound: polls served

ASSUME InspectorAssumption ==
    /\ RingSize \in Nat \ {0} /\ QueueSize \in Nat \ {0} /\ QueueBatch \in Nat \ {0}
    /\ DefaultLimit \in Nat \ {0} /\ MaxLimit \in Nat /\ Limits \subseteq Int
    /\ MaxChunks \in Nat /\ MaxReads \in Nat

VARIABLES
    offered, pending, taken, handled, lost,  \* the queue, see LossyChannel
    kindOf,        \* per message: what it holds
    ring,          \* g_inspect_ring
    ringHead, ringCount,  \* g_inspect_ring_head, g_inspect_ring_count
    seq,           \* g_inspect_seq
    skippedH2, parseFail, \* the diagnostic counters
    assets,        \* history: responses dropped for their content type
    insert,        \* where the worker is: idle, delete, store, advance, count
    freed,         \* history: deleted entries
    poll,          \* the poll being served
    reads,         \* polls served so far
    readFreed      \* history: a deleted entry was dereferenced

queueVars == <<offered, pending, taken, handled, lost>>
ringVars == <<ring, ringHead, ringCount, freed>>
counters == <<seq, skippedH2, parseFail, assets>>
inspectorVars == <<offered, pending, taken, handled, lost, kindOf, ring, ringHead,
                   ringCount, seq, skippedH2, parseFail, assets, insert, freed,
                   poll, reads, readFreed>>

Queue == INSTANCE LossyChannel WITH Capacity <- QueueSize, BatchMax <- QueueBatch

-----------------------------------------------------------------------------
\* Between polls.  A poll walks the ring with a counter of its own, at, and
\* computes each index anew from the ring's head and count.
NoPoll == [op |-> "none", want |-> 0, limit |-> 0, at |-> 0, src |-> 0,
           found |-> <<>>, began |-> 0]

InspectorInit ==
    /\ Queue!Init /\ kindOf = <<>>
    /\ ring = [i \in 0..RingSize-1 |-> 0] /\ ringHead = 0 /\ ringCount = 0
    /\ seq = 0 /\ skippedH2 = 0 /\ parseFail = 0 /\ assets = 0
    /\ insert = "idle" /\ freed = {}
    /\ poll = NoPoll /\ reads = 0 /\ readFreed = FALSE

-----------------------------------------------------------------------------
(* on_inspect_data, the main thread. *)

\* Chunks of fewer than four bytes and those of tracker domains.
Filtered(k) == k \in {"short", "tracker"}

OnInspectData ==
    /\ ~readFreed /\ poll.op = "none" /\ offered < MaxChunks
    /\ \E k \in Chunks : ~Filtered(k) /\ kindOf' = Append(kindOf, k)
    /\ Queue!Offer
    /\ UNCHANGED <<ringVars, counters, insert, poll, reads, readFreed>>

-----------------------------------------------------------------------------
(* capture_process_msg, the worker. *)

TakeBatch ==
    /\ ~readFreed /\ insert = "idle" /\ Queue!Take
    /\ UNCHANGED <<kindOf, ringVars, counters, insert, poll, reads, readFreed>>

\* Messages that leave no entry: the HTTP/2 preface, what does not parse, and
\* responses that are images, fonts, audio, video or binaries.
Discarded ==
    /\ ~readFreed /\ insert = "idle" /\ Queue!Handle
    /\ LET k == kindOf[Head(taken)]
       IN /\ k \in {"h2 preface", "unparsable", "asset"}
          /\ skippedH2' = skippedH2 + IF k = "h2 preface" THEN 1 ELSE 0
          /\ parseFail' = parseFail + IF k = "unparsable" THEN 1 ELSE 0
          /\ assets' = assets + IF k = "asset" THEN 1 ELSE 0
    /\ UNCHANGED <<kindOf, ringVars, seq, insert, poll, reads, readFreed>>

\* A request or a response that parses becomes an entry.
BuildEntry ==
    /\ ~readFreed /\ insert = "idle" /\ taken # <<>>
    /\ kindOf[Head(taken)] = "message"
    /\ seq' = seq + 1
    /\ insert' = "delete"
    /\ UNCHANGED <<queueVars, kindOf, ringVars, skippedH2, parseFail, assets, poll, reads, readFreed>>

\* With the ring's mutex, which keeps nobody out.
DeleteOld ==
    /\ ~readFreed /\ insert = "delete"
    /\ insert' = "store"
    /\ freed' = freed \cup ({ring[ringHead]} \ {0})
    /\ UNCHANGED <<queueVars, kindOf, ring, ringHead, ringCount, counters, poll, reads, readFreed>>

StoreEntry ==
    /\ ~readFreed /\ insert = "store"
    /\ insert' = "advance"
    /\ ring' = [ring EXCEPT ![ringHead] = seq]
    /\ UNCHANGED <<queueVars, kindOf, ringHead, ringCount, freed, counters, poll, reads, readFreed>>

AdvanceHead ==
    /\ ~readFreed /\ insert = "advance"
    /\ insert' = "count"
    /\ ringHead' = (ringHead + 1) % RingSize
    /\ UNCHANGED <<queueVars, kindOf, ring, ringCount, freed, counters, poll, reads, readFreed>>

\* Fault: the count passes the size of the ring by one.
CountEntryOnceMore ==
    /\ ~readFreed /\ insert = "count" /\ Queue!Handle
    /\ insert' = "idle"
    /\ ringCount' = IF ringCount <= RingSize THEN ringCount + 1 ELSE ringCount
    /\ UNCHANGED <<kindOf, ring, ringHead, freed, counters, poll, reads, readFreed>>

CountEntry ==
    /\ ~readFreed /\ insert = "count" /\ Queue!Handle
    /\ insert' = "idle"
    /\ ringCount' = IF ringCount < RingSize THEN ringCount + 1 ELSE ringCount
    /\ UNCHANGED <<kindOf, ring, ringHead, freed, counters, poll, reads, readFreed>>

-----------------------------------------------------------------------------
(* inspect.list and inspect.get, the main thread, without the lock. *)

\* The number of entries made, or 0 while one is being inserted.
Whole == IF insert = "idle" THEN seq ELSE 0

LimitOf(l) == IF l <= 0 \/ l > MaxLimit THEN DefaultLimit ELSE l

\* The index of the at-th oldest entry, from the head and the count now.
IndexOf(at) == (ringHead - ringCount + at + RingSize) % RingSize

StartList ==
    /\ ~readFreed /\ poll.op = "none" /\ reads < MaxReads
    /\ \E since \in 0..MaxChunks, l \in Limits :
          poll' = [NoPoll EXCEPT !.op = "list", !.want = since, !.limit = LimitOf(l),
                                 !.at = ringCount - 1, !.began = Whole]
    /\ reads' = reads + 1
    /\ UNCHANGED <<queueVars, kindOf, ringVars, counters, insert, readFreed>>

StartGet ==
    /\ ~readFreed /\ poll.op = "none" /\ reads < MaxReads
    /\ \E want \in 1..MaxChunks :
          poll' = [NoPoll EXCEPT !.op = "get", !.want = want, !.limit = 1, !.began = Whole]
    /\ reads' = reads + 1
    /\ UNCHANGED <<queueVars, kindOf, ringVars, counters, insert, readFreed>>

\* Fault: list does not look at the oldest entry.
MorePollShort ==
    /\ poll.op \in {"list", "get"} /\ Len(poll.found) < poll.limit
    /\ IF poll.op = "list" THEN poll.at > 0 ELSE poll.at < ringCount

\* list walks from the newest entry, get from the oldest.
MorePoll ==
    /\ poll.op \in {"list", "get"} /\ Len(poll.found) < poll.limit
    /\ IF poll.op = "list" THEN poll.at >= 0 ELSE poll.at < ringCount

Step == IF poll.op = "list" THEN -1 ELSE 1

\* Load the pointer; a NULL is passed over.
Locate ==
    /\ ~readFreed /\ poll.src = 0 /\ MorePoll
    /\ LET src == ring[IndexOf(poll.at)]
       IN poll' = [poll EXCEPT !.src = src, !.at = IF src = 0 THEN @ + Step ELSE @]
    /\ UNCHANGED <<queueVars, kindOf, ringVars, counters, insert, reads, readFreed>>

\* Read the sequence number behind the pointer and copy the entry if wanted;
\* list returns its copies oldest first.
Examine ==
    /\ ~readFreed /\ poll.src # 0
    /\ IF poll.src \in freed
       THEN readFreed' = TRUE /\ UNCHANGED poll
       ELSE /\ LET hit == IF poll.op = "list" THEN poll.src > poll.want
                                              ELSE poll.src = poll.want
               IN poll' = [poll EXCEPT !.src = 0, !.at = @ + Step,
                                       !.found = IF hit THEN <<poll.src>> \o @ ELSE @]
            /\ UNCHANGED readFreed
    /\ UNCHANGED <<queueVars, kindOf, ringVars, counters, insert, reads>>

EndPoll ==
    /\ ~readFreed /\ poll.op \in {"list", "get"} /\ poll.src = 0 /\ ~MorePoll
    /\ poll' = [poll EXCEPT !.op = IF @ = "list" THEN "listed" ELSE "got"]
    /\ UNCHANGED <<queueVars, kindOf, ringVars, counters, insert, reads, readFreed>>

\* The response is sent and the event loop goes on.
Respond ==
    /\ ~readFreed /\ poll.op \in {"listed", "got"}
    /\ poll' = NoPoll
    /\ UNCHANGED <<queueVars, kindOf, ringVars, counters, insert, reads, readFreed>>

InspectorNext ==
    \/ OnInspectData \/ TakeBatch \/ Discarded
    \/ BuildEntry \/ DeleteOld \/ StoreEntry \/ AdvanceHead \/ CountEntry
    \/ StartList \/ StartGet \/ Locate \/ Examine \/ EndPoll \/ Respond

-----------------------------------------------------------------------------
(* Properties. *)

InspectorTypeOK ==
    /\ kindOf \in Seq(Chunks) /\ Len(kindOf) = offered
    /\ ring \in [0..RingSize-1 -> Nat] /\ ringHead \in 0..RingSize-1
    /\ ringCount \in 0..RingSize
    /\ seq \in Nat /\ skippedH2 \in Nat /\ parseFail \in Nat /\ assets \in Nat
    /\ insert \in {"idle", "delete", "store", "advance", "count"}
    /\ freed \subseteq 1..seq /\ reads \in 0..MaxReads /\ readFreed \in BOOLEAN
    /\ poll.op \in {"none", "list", "get", "listed", "got"}
    /\ poll.found \in Seq(1..seq)

\* Whenever the worker is not inserting, the ring holds the latest entries in
\* order, exactly the older ones were deleted, and every message handled is an
\* entry or in one of the counters (capture_process_msg).
RingHoldsLatest ==
    insert = "idle" =>
        /\ ringCount = IF seq < RingSize THEN seq ELSE RingSize
        /\ \A at \in 0..ringCount-1 : ring[IndexOf(at)] = seq - ringCount + at + 1
        /\ freed = 1..(seq - ringCount)
        /\ seq + skippedH2 + parseFail + assets = Cardinality(handled)

\* The entries of a list served from a ring that does not change: the newest
\* ones above `since', as many as the limit allows, oldest first.
Reference(since, limit) ==
    LET oldest == seq - ringCount + 1
        above == IF since + 1 > oldest THEN since + 1 ELSE oldest
        from == IF seq - limit + 1 > above THEN seq - limit + 1 ELSE above
    IN [k \in 1..(IF from > seq THEN 0 ELSE seq - from + 1) |-> from + k - 1]

\* A poll during which no entry was inserted answers inspect.list with the
\* newest entries above since_seq within the limit, oldest first, and
\* inspect.get with the entry asked for if it is still in the ring.
PollsAreExact ==
    poll.began = seq /\ insert = "idle" =>
        /\ poll.op = "listed" => poll.found = Reference(poll.want, poll.limit)
        /\ poll.op = "got" =>
              poll.found = IF poll.want \in (seq - ringCount + 1)..seq
                           THEN <<poll.want>> ELSE <<>>

\* "Insert into the visible ring under its own mutex so IPC readers never see
\* a torn entry" (main.c:317): a poll never dereferences a deleted entry.
NoFreedRead == ~readFreed
=============================================================================
