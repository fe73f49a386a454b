--------------------------- MODULE MCSharedState ----------------------------
(***************************************************************************)
(* Instances for TLC of the components that keep a table of their own: the *)
(* inspector's ring, a relayed connection, the engine of TLS interception, *)
(* the DNS cache and the SSH pool.  They share no variable, so each        *)
(* behaviour runs one of them, chosen at the start, and leaves the others  *)
(* in their initial state.                                                 *)
(***************************************************************************)
EXTENDS Inspector, Relay, MitmEngine, DnsCache, SshPool, TLC

VARIABLE part   \* the component that runs

vars == <<part, inspectorVars, relayVars, mitmVars, dnsVars, sshVars>>

Parts == {"inspector", "relay", "mitm", "dns", "ssh"}

Init ==
    /\ part \in Parts
    /\ InspectorInit /\ RelayInit /\ MitmInit /\ DnsInit /\ SshInit
    /\ part # "relay" => tls /\ inspect   \* RelayInit has a choice

Next ==
    /\ UNCHANGED part
    /\ \/ /\ part = "inspector" /\ InspectorNext
          /\ UNCHANGED <<relayVars, mitmVars, dnsVars, sshVars>>
       \/ /\ part = "relay" /\ RelayNext
          /\ UNCHANGED <<inspectorVars, mitmVars, dnsVars, sshVars>>
       \/ /\ part = "mitm" /\ MitmNext
          /\ UNCHANGED <<inspectorVars, relayVars, dnsVars, sshVars>>
       \/ /\ part = "dns" /\ DnsNext
          /\ UNCHANGED <<inspectorVars, relayVars, mitmVars, sshVars>>
       \/ /\ part = "ssh" /\ SshNext
          /\ UNCHANGED <<inspectorVars, relayVars, mitmVars, dnsVars>>

\* Where the relay does not run, neither of its fair actions is enabled.
Spec == Init /\ [][Next]_vars /\ RelayFairness

-----------------------------------------------------------------------------
\* Two domains whose hashes collide and a third one beside them, so that an
\* entry is found past another, and evicted; a name in upper case.
MCLower == "A" :> "a" @@ "b" :> "b" @@ "c" :> "c"
MCBase == "a" :> 0 @@ "b" :> 0 @@ "c" :> 1

\* An answer with two addresses, the first short-lived, one with an alias in
\* front and one for IPv6.
Record(type, ip, ttl) == [type |-> type, ip |-> ip, ttl |-> ttl]
MCAnswers ==
    { <<Record("A", "ip1", 0), Record("A", "ip2", 9)>>,
      <<Record("other", "ip1", 1), Record("A", "ip1", 2)>>,
      <<Record("AAAA", "ip2", 1)>> }
=============================================================================
