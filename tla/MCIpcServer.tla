---------------------------- MODULE MCIpcServer -----------------------------
(***************************************************************************)
(* An instance of IpcServer for TLC: two slots, and clients of which one   *)
(* does not read promptly and one is refused.                              *)
(***************************************************************************)
EXTENDS IpcServer, TLC

CONSTANTS alice, bob, carol, dave

nl == Newline

\* The connections and lines of one case; the others are not made.
Case(lines) == [x \in Clients |-> IF x \in DOMAIN lines THEN lines[x] ELSE <<>>]

\* In turn: a client takes the slot of one that subscribed, or is left behind
\* in the last slot; a subscribed client reads slowly; a subscription ends; a
\* line is put together from two texts and another is too long for the buffer;
\* a shutdown request has a request behind it; more clients than
\* slots; a client of a system user.
MCScripts ==
    { Case(alice :> <<"subscribe", nl>> @@ carol :> <<"call", nl>>),
      Case(bob :> <<"subscribe", nl, "call", nl>>),
      Case(alice :> <<"subscribe", nl, "unsubscribe", nl, "call">>),
      Case(alice :> <<"call", "call", nl, "nomethod", nl>> @@ bob :> <<"call", "call", "call">>),
      Case(alice :> <<"malformed", nl, "shutdown", nl, "call", nl>>),
      Case(alice :> <<nl>> @@ bob :> <<nl>> @@ carol :> <<nl>>),
      Case(dave :> <<"call", nl>>) }
=============================================================================
