---------------------------- MODULE LossyChannel ----------------------------
(***************************************************************************)
(* What the capture queue and its worker promise to the relay and to the   *)
(* inspector, without saying how: a bounded first-in first-out channel     *)
(* that never makes its writer wait.  A writer that finds the channel full *)
(* pushes the oldest message out of it.  The reader takes messages from    *)
(* the front in batches and handles a batch in order.  When the channel is *)
(* closed whatever is still in it is discarded, and counted as lost.       *)
(*                                                                         *)
(* Messages are numbered in the order they are offered.                    *)
(***************************************************************************)
EXTENDS Naturals, Sequences

CONSTANTS Capacity,   \* how many messages the channel can hold
          BatchMax    \* how many the reader takes at a time

VARIABLES offered,    \* number of messages offered so far
          pending,    \* the messages in the channel, oldest first
          taken,      \* the batch the reader is handling
          handled,    \* the set of messages handled
          lost        \* the set of messages pushed out or discarded

chanVars == <<offered, pending, taken, handled, lost>>

Init == /\ offered = 0
        /\ pending = <<>>
        /\ taken = <<>>
        /\ handled = {}
        /\ lost = {}

\* The writer never waits: a full channel gives up its oldest message.
Offer ==
    /\ offered' = offered + 1
    /\ \/ /\ Len(pending) < Capacity
          /\ pending' = Append(pending, offered + 1)
          /\ UNCHANGED lost
       \/ /\ Len(pending) = Capacity
          /\ pending' = Append(Tail(pending), offered + 1)
          /\ lost' = lost \cup {Head(pending)}
    /\ UNCHANGED <<taken, handled>>

\* The reader takes a non-empty prefix.
Take ==
    /\ taken = <<>>
    /\ \E k \in 1..BatchMax :
          /\ k <= Len(pending)
          /\ taken' = SubSeq(pending, 1, k)
          /\ pending' = SubSeq(pending, k + 1, Len(pending))
    /\ UNCHANGED <<offered, handled, lost>>

Handle ==
    /\ taken # <<>>
    /\ handled' = handled \cup {Head(taken)}
    /\ taken' = Tail(taken)
    /\ UNCHANGED <<offered, pending, lost>>

Discard ==
    /\ taken = <<>>
    /\ pending # <<>>
    /\ lost' = lost \cup {pending[i] : i \in DOMAIN pending}
    /\ pending' = <<>>
    /\ UNCHANGED <<offered, taken, handled>>

Next == Offer \/ Take \/ Handle \/ Discard

Spec == Init /\ [][Next]_chanVars
=============================================================================
