---------------------------- MODULE DnsModeProofs ----------------------------
(***************************************************************************)
(* Proofs about DnsMode for any set of servers.                            *)
(***************************************************************************)
EXTENDS DnsMode, TLAPS

Adding == {"clear", "udp", "tcp", "added"}
Saving == {"saveMode", "saveServer"}

\* The request the main thread works on.
RequestInv ==
    /\ main.pc \in {"close", "check"} => main.mode = "force-server"
    /\ main.pc = "open" => main.mode = "via-proxy"
    /\ main.pc \in Adding \cup Saving /\ main.mode = "force-server" => main.server \in Servers
    /\ main.boot => /\ main.pc \in {"open", "check"} \cup Adding
                    /\ store.on /\ main.mode = store.mode /\ main.server = store.server

\* The rules, as far as the request has come.
RulesInv ==
    /\ main.pc = "udp" \/ main.pc \in {"offClose", "offSave"} => nat = NoRules
    /\ main.pc = "tcp" => nat = [p \in Protocols |-> IF p = "udp" THEN {Target} ELSE {}]
    /\ main.pc \in {"added"} \cup Saving => nat = [p \in Protocols |-> {Target}]

\* The socket, and its registration: none before epoll exists.
SocketInv ==
    /\ main.pc \in {"down", "check", "offSave"} => ~sock
    /\ main.pc = "open" /\ main.boot => ~sock
    /\ main.pc \in Adding \cup Saving => sock = (main.mode = "via-proxy")
    /\ watched = (sock /\ ~main.boot /\ main.pc # "listen")

\* The database, and what was last acknowledged.
StoreInv ==
    /\ main.pc \in Saving => store.on
    /\ main.pc = "saveServer" => store.mode = main.mode
    /\ told.since # "cut" /\ main.pc \notin Saving => store = told.set
    /\ told.since = "kept" /\ main.pc \in {"listen", "loop"} =>
          /\ nat = [p \in Protocols |-> IF told.set.on THEN {TargetOf(told.set)} ELSE {}]
          /\ sock = UsesResolver(told.set)

\* The invariant of the induction.
DnsInv == TypeOK /\ RequestInv /\ RulesInv /\ SocketInv /\ StoreInv /\ OneTargetAtATime

\* Both changes of the history variable at the end of a request or a restore.
LEMMA ToldType ==
  TypeOK => /\ Refused \in [set : Settings, since : {"kept", "refused", "cut"}]
            /\ Restored \in [set : Settings, since : {"kept", "refused", "cut"}]
<1> SUFFICES ASSUME TypeOK
             PROVE  \A s \in {"kept", "refused", "cut"} :
                       [told EXCEPT !.since = s] \in [set : Settings, since : {"kept", "refused", "cut"}]
  BY DEF TypeOK, Refused, Restored
<1> QED
  BY DEF TypeOK

\* A refusal leaves the main thread and the history well typed.
LEMMA RefuseType ==
  TypeOK /\ Refuse => /\ main' \in [pc : Steps, mode : Modes, server : Servers \cup {BadServer}, boot : BOOLEAN]
                      /\ told' \in [set : Settings, since : {"kept", "refused", "cut"}]
<1> SUFFICES ASSUME TypeOK, Refuse
             PROVE  main' \in [pc : Steps, mode : Modes, server : Servers \cup {BadServer}, boot : BOOLEAN]
  BY ToldType DEF Refuse
<1> QED
  BY DnsAssumption DEF Refuse, At, Steps, Modes

\* Initially the daemon is down and the database holds the defaults.
LEMMA InitInv == Init => DnsInv
<1> SUFFICES ASSUME Init PROVE DnsInv
  OBVIOUS
<1>1. TypeOK
  <2>1. Off \in Settings
    BY DnsAssumption DEF Off, Settings, Modes
  <2>2. QED
    BY <2>1, DnsAssumption DEF Init, TypeOK, At, NoRules, Steps, Modes
<1>2. RequestInv /\ RulesInv /\ SocketInv
  BY DEF Init, RequestInv, RulesInv, SocketInv, At, Adding, Saving
<1>3. StoreInv /\ OneTargetAtATime
  BY DEF Init, StoreInv, OneTargetAtATime, At, Off, NoRules, Saving
<1>4. QED
  BY <1>1, <1>2, <1>3 DEF DnsInv

\* Every step of the main thread, a crash included, keeps the invariant.
LEMMA StepInv == DnsInv /\ [Next]_vars => DnsInv'
<1> SUFFICES ASSUME DnsInv, [Next]_vars PROVE DnsInv'
  OBVIOUS
<1> USE DEF DnsInv
<1>1. CASE Start
  <2>1. TypeOK'
    <3>1. nat' \in [Protocols -> SUBSET Targets]
      BY <1>1 DEF Start, NoRules
    <3>2. main' \in [pc : Steps, mode : Modes, server : Servers \cup {BadServer}, boot : BOOLEAN]
      <4>1. CASE store.on
        <5>1. /\ main'.pc \in {"open", "check"} /\ main'.mode = store.mode
              /\ main'.server = store.server /\ main'.boot = TRUE
              /\ main' = [pc |-> main'.pc, mode |-> main'.mode, server |-> main'.server, boot |-> main'.boot]
          BY <1>1, <4>1 DEF Start
        <5>2. QED
          BY <5>1 DEF TypeOK, Settings, Steps
      <4>2. CASE ~store.on
        <5>1. main' = At("listen")
          BY <1>1, <4>2 DEF Start
        <5>2. QED
          BY <5>1, DnsAssumption DEF At, Steps, Modes
      <4>3. QED
        BY <4>1, <4>2
    <3>3. told' \in [set : Settings, since : {"kept", "refused", "cut"}]
      BY <1>1, ToldType DEF Start, TypeOK
    <3>4. QED
      BY <1>1, <3>1, <3>2, <3>3 DEF Start, TypeOK
  <2>2. RequestInv'
    BY <1>1 DEF Start, At, TypeOK, RequestInv, Modes, Adding, Saving, Settings
  <2>3. RulesInv'
    BY <1>1 DEF Start, At, RulesInv, Saving
  <2>4. SocketInv'
    BY <1>1 DEF Start, At, SocketInv, Adding, Saving
  <2>5. StoreInv'
    BY <1>1 DEF Start, Restored, At, TypeOK, SocketInv, StoreInv, Saving, UsesResolver, NoRules
  <2>6. OneTargetAtATime'
    BY <1>1 DEF Start, OneTargetAtATime, NoRules
  <2>7. QED
    BY <2>1, <2>2, <2>3, <2>4, <2>5, <2>6
<1>2. CASE Listen
  <2>1. TypeOK'
    BY <1>2, DnsAssumption DEF Listen, At, TypeOK, Modes, Steps
  <2>2. RequestInv'
    BY <1>2 DEF Listen, At, RequestInv, Adding, Saving
  <2>3. RulesInv'
    BY <1>2 DEF Listen, At, RulesInv, Saving
  <2>4. SocketInv'
    BY <1>2 DEF Listen, At, TypeOK, SocketInv, Adding, Saving
  <2>5. StoreInv'
    BY <1>2 DEF Listen, At, StoreInv, Saving
  <2>6. OneTargetAtATime'
    BY <1>2 DEF Listen, OneTargetAtATime
  <2>7. QED
    BY <2>1, <2>2, <2>3, <2>4, <2>5, <2>6
<1>3. CASE Shutdown
  <2>1. TypeOK'
    BY <1>3, DnsAssumption DEF Shutdown, At, TypeOK, Modes, Steps, NoRules
  <2>2. RequestInv'
    BY <1>3 DEF Shutdown, At, RequestInv, Adding, Saving
  <2>3. RulesInv'
    BY <1>3 DEF Shutdown, At, RulesInv, Saving
  <2>4. SocketInv'
    BY <1>3 DEF Shutdown, At, SocketInv
  <2>5. StoreInv'
    BY <1>3 DEF Shutdown, At, StoreInv, Saving
  <2>6. OneTargetAtATime'
    BY <1>3 DEF Shutdown, OneTargetAtATime, NoRules
  <2>7. QED
    BY <2>1, <2>2, <2>3, <2>4, <2>5, <2>6
<1>4. CASE Crash
  <2>1. TypeOK'
    BY <1>4, DnsAssumption DEF Crash, At, TypeOK, Modes, Steps
  <2>2. RequestInv'
    BY <1>4 DEF Crash, At, RequestInv, Adding, Saving
  <2>3. RulesInv'
    BY <1>4 DEF Crash, At, RulesInv, Saving
  <2>4. SocketInv'
    BY <1>4 DEF Crash, At, SocketInv
  <2>5. StoreInv'
    BY <1>4 DEF Crash, At, RequestInv, StoreInv, Adding, Saving
  <2>6. OneTargetAtATime'
    BY <1>4 DEF Crash, OneTargetAtATime
  <2>7. QED
    BY <2>1, <2>2, <2>3, <2>4, <2>5, <2>6
<1>5. CASE \E mode \in Modes, server \in Servers \cup {BadServer} : Enable(mode, server)
  <2>1. TypeOK'
    BY <1>5, DnsAssumption DEF Enable, TypeOK, Steps
  <2>2. RequestInv'
    BY <1>5 DEF Enable, RequestInv, Modes, Adding, Saving
  <2>3. RulesInv'
    BY <1>5 DEF Enable, RulesInv, Saving
  <2>4. SocketInv'
    BY <1>5 DEF Enable, RequestInv, SocketInv, Adding, Saving
  <2>5. StoreInv'
    BY <1>5 DEF Enable, StoreInv, Saving
  <2>6. OneTargetAtATime'
    BY <1>5 DEF Enable, OneTargetAtATime
  <2>7. QED
    BY <2>1, <2>2, <2>3, <2>4, <2>5, <2>6
<1>6. CASE OpenResolver
  <2>1. TypeOK'
    BY RefuseType, <1>6, DnsAssumption DEF OpenResolver, Goto, TypeOK, Steps
  <2>2. RequestInv'
    BY <1>6 DEF OpenResolver, Goto, Refuse, At, TypeOK, RequestInv, Adding, Saving
  <2>3. RulesInv'
    BY <1>6 DEF OpenResolver, Goto, Refuse, At, TypeOK, RulesInv, Saving
  <2>4. SocketInv'
    <3>1. CASE sock' = TRUE /\ watched' = (IF sock THEN watched ELSE ~main.boot) /\ Goto("clear")
      <4>1. watched = sock /\ main.mode = "via-proxy" /\ (main.boot => ~sock)
        BY <1>6 DEF OpenResolver, TypeOK, RequestInv, SocketInv
      <4>2. watched' = ~main.boot
        BY <3>1, <4>1
      <4>3. main'.pc = "clear" /\ main'.mode = main.mode /\ main'.boot = main.boot
        BY <3>1 DEF Goto
      <4>4. QED
        BY <3>1, <4>1, <4>2, <4>3 DEF SocketInv
    <3>2. CASE ~sock /\ Refuse /\ UNCHANGED <<sock, watched>>
      BY <1>6, <3>2 DEF Refuse, At, TypeOK, SocketInv
    <3>3. QED
      BY <1>6, <3>1, <3>2 DEF OpenResolver
  <2>5. StoreInv'
    BY <1>6 DEF OpenResolver, Goto, Refuse, Refused, At, TypeOK, StoreInv, Saving
  <2>6. OneTargetAtATime'
    BY <1>6 DEF OpenResolver, OneTargetAtATime
  <2>7. QED
    BY <2>1, <2>2, <2>3, <2>4, <2>5, <2>6
<1>7. CASE CloseResolver
  <2>1. TypeOK'
    BY <1>7, DnsAssumption DEF CloseResolver, Goto, TypeOK, Steps
  <2>2. RequestInv'
    BY <1>7 DEF CloseResolver, Goto, RequestInv, Adding, Saving
  <2>3. RulesInv'
    BY <1>7 DEF CloseResolver, Goto, RulesInv, Saving
  <2>4. SocketInv'
    BY <1>7 DEF CloseResolver, Goto, TypeOK, RequestInv, SocketInv
  <2>5. StoreInv'
    BY <1>7 DEF CloseResolver, Goto, StoreInv, Saving
  <2>6. OneTargetAtATime'
    BY <1>7 DEF CloseResolver, OneTargetAtATime
  <2>7. QED
    BY <2>1, <2>2, <2>3, <2>4, <2>5, <2>6
<1>8. CASE CheckServer
  <2>1. TypeOK'
    BY RefuseType, <1>8, DnsAssumption DEF CheckServer, Goto, TypeOK, Steps
  <2>2. RequestInv'
    BY <1>8 DEF CheckServer, Goto, Refuse, At, TypeOK, RequestInv, Adding, Saving
  <2>3. RulesInv'
    BY <1>8 DEF CheckServer, Goto, Refuse, At, TypeOK, RulesInv, Saving
  <2>4. SocketInv'
    BY <1>8 DEF CheckServer, Goto, Refuse, At, TypeOK, RequestInv, SocketInv
  <2>5. StoreInv'
    BY <1>8 DEF CheckServer, Goto, Refuse, Refused, At, TypeOK, StoreInv, Saving
  <2>6. OneTargetAtATime'
    BY <1>8 DEF CheckServer, OneTargetAtATime
  <2>7. QED
    BY <2>1, <2>2, <2>3, <2>4, <2>5, <2>6
<1>9. CASE ClearRules
  <2>1. TypeOK'
    BY <1>9, DnsAssumption DEF ClearRules, Goto, TypeOK, Steps, NoRules
  <2>2. RequestInv'
    BY <1>9 DEF ClearRules, Goto, RequestInv, Adding
  <2>3. RulesInv'
    BY <1>9 DEF ClearRules, Goto, RulesInv, Saving
  <2>4. SocketInv'
    BY <1>9 DEF ClearRules, Goto, SocketInv, Adding
  <2>5. StoreInv'
    BY <1>9 DEF ClearRules, Goto, StoreInv, Saving
  <2>6. OneTargetAtATime'
    BY <1>9 DEF ClearRules, OneTargetAtATime, NoRules
  <2>7. QED
    BY <2>1, <2>2, <2>3, <2>4, <2>5, <2>6
<1>10. CASE AddRule("udp", "tcp")
  <2>1. TypeOK'
    <3>1. CASE nat' = [nat EXCEPT !["udp"] = @ \cup {Target}] /\ Goto("tcp") /\ UNCHANGED told
      <4>1. Target \in Targets
        BY <1>10 DEF AddRule, Target, Targets, TypeOK, RequestInv, Adding, Modes
      <4>2. nat' \in [Protocols -> SUBSET Targets]
        BY <3>1, <4>1 DEF TypeOK
      <4>3. QED
        BY <1>10, <3>1, <4>2 DEF AddRule, Goto, TypeOK, Steps
    <3>2. CASE Refuse /\ UNCHANGED nat
      BY <1>10, <3>2, RefuseType DEF AddRule, TypeOK
    <3>3. QED
      BY <1>10, <3>1, <3>2 DEF AddRule
  <2>2. RequestInv'
    BY <1>10 DEF AddRule, Goto, Refuse, At, TypeOK, RequestInv, Adding, Saving
  <2>3. RulesInv'
    BY <1>10 DEF AddRule, Goto, Refuse, At, TypeOK, RulesInv, Saving, Target, NoRules
  <2>4. SocketInv'
    BY <1>10 DEF AddRule, Goto, Refuse, At, TypeOK, SocketInv, Adding, Saving
  <2>5. StoreInv'
    BY <1>10 DEF AddRule, Goto, Refuse, Refused, At, TypeOK, StoreInv, Saving
  <2>6. OneTargetAtATime'
    BY <1>10 DEF AddRule, OneTargetAtATime, RulesInv, NoRules
  <2>7. QED
    BY <2>1, <2>2, <2>3, <2>4, <2>5, <2>6
<1>11. CASE AddRule("tcp", "added")
  <2>1. TypeOK'
    <3>1. CASE nat' = [nat EXCEPT !["tcp"] = @ \cup {Target}] /\ Goto("added") /\ UNCHANGED told
      <4>1. Target \in Targets
        BY <1>11 DEF AddRule, Target, Targets, TypeOK, RequestInv, Adding, Modes
      <4>2. nat' \in [Protocols -> SUBSET Targets]
        BY <3>1, <4>1 DEF TypeOK
      <4>3. QED
        BY <1>11, <3>1, <4>2 DEF AddRule, Goto, TypeOK, Steps
    <3>2. CASE Refuse /\ UNCHANGED nat
      BY <1>11, <3>2, RefuseType DEF AddRule, TypeOK
    <3>3. QED
      BY <1>11, <3>1, <3>2 DEF AddRule
  <2>2. RequestInv'
    BY <1>11 DEF AddRule, Goto, Refuse, At, TypeOK, RequestInv, Adding, Saving
  <2>3. RulesInv'
    BY <1>11 DEF AddRule, Goto, Refuse, At, TypeOK, RulesInv, Saving, Target, Protocols
  <2>4. SocketInv'
    BY <1>11 DEF AddRule, Goto, Refuse, At, TypeOK, SocketInv, Adding, Saving
  <2>5. StoreInv'
    BY <1>11 DEF AddRule, Goto, Refuse, Refused, At, TypeOK, StoreInv, Saving
  <2>6. OneTargetAtATime'
    BY <1>11 DEF AddRule, OneTargetAtATime, RulesInv
  <2>7. QED
    BY <2>1, <2>2, <2>3, <2>4, <2>5, <2>6
<1>12. CASE EndRestore
  <2>1. TypeOK'
    BY ToldType, <1>12, DnsAssumption DEF EndRestore, At, TypeOK, Modes, Steps
  <2>2. RequestInv'
    BY <1>12 DEF EndRestore, At, RequestInv, Adding, Saving
  <2>3. RulesInv'
    BY <1>12 DEF EndRestore, At, RulesInv, Saving
  <2>4. SocketInv'
    BY <1>12 DEF EndRestore, At, SocketInv, Adding, Saving
  <2>5. StoreInv'
    BY <1>12 DEF EndRestore, Restored, At, RequestInv, RulesInv, SocketInv, StoreInv, Saving,
       Target, TargetOf, UsesResolver
  <2>6. OneTargetAtATime'
    BY <1>12 DEF EndRestore, OneTargetAtATime
  <2>7. QED
    BY <2>1, <2>2, <2>3, <2>4, <2>5, <2>6
<1>13. CASE SaveEnabled
  <2>1. TypeOK'
    BY <1>13, DnsAssumption DEF SaveEnabled, Goto, TypeOK, Settings, Steps
  <2>2. RequestInv'
    BY <1>13 DEF SaveEnabled, Goto, RequestInv, Adding
  <2>3. RulesInv'
    BY <1>13 DEF SaveEnabled, Goto, RulesInv, Target
  <2>4. SocketInv'
    BY <1>13 DEF SaveEnabled, Goto, SocketInv, Adding
  <2>5. StoreInv'
    BY <1>13 DEF SaveEnabled, Goto, StoreInv, Saving
  <2>6. OneTargetAtATime'
    BY <1>13 DEF SaveEnabled, OneTargetAtATime
  <2>7. QED
    BY <2>1, <2>2, <2>3, <2>4, <2>5, <2>6
<1>14. CASE SaveMode
  <2>1. TypeOK'
    BY <1>14, DnsAssumption DEF SaveMode, Goto, TypeOK, Settings, Steps
  <2>2. RequestInv'
    BY <1>14 DEF SaveMode, Goto, RequestInv, Adding, Saving
  <2>3. RulesInv'
    BY <1>14 DEF SaveMode, Goto, RulesInv, Saving, Target
  <2>4. SocketInv'
    BY <1>14 DEF SaveMode, Goto, SocketInv, Saving
  <2>5. StoreInv'
    BY <1>14 DEF SaveMode, Goto, StoreInv, Saving
  <2>6. OneTargetAtATime'
    BY <1>14 DEF SaveMode, OneTargetAtATime
  <2>7. QED
    BY <2>1, <2>2, <2>3, <2>4, <2>5, <2>6
<1>15. CASE SaveServer
  <2>1. TypeOK'
    BY <1>15, DnsAssumption DEF SaveServer, Reply, At, TypeOK, Settings, Modes, Steps,
       RequestInv, Saving
  <2>2. RequestInv'
    BY <1>15 DEF SaveServer, Reply, At, RequestInv, Adding, Saving
  <2>3. RulesInv'
    BY <1>15 DEF SaveServer, Reply, At, RulesInv, Saving
  <2>4. SocketInv'
    BY <1>15 DEF SaveServer, Reply, At, RequestInv, SocketInv, Adding, Saving
  <2>5. StoreInv'
    BY <1>15 DEF SaveServer, Reply, At, TypeOK, RulesInv, SocketInv, StoreInv, Saving, Settings,
       Target, TargetOf, UsesResolver, Modes
  <2>6. OneTargetAtATime'
    BY <1>15 DEF SaveServer, OneTargetAtATime
  <2>7. QED
    BY <2>1, <2>2, <2>3, <2>4, <2>5, <2>6
<1>16. CASE Disable
  <2>1. TypeOK'
    BY <1>16, DnsAssumption DEF Disable, Goto, TypeOK, Steps, NoRules
  <2>2. RequestInv'
    BY <1>16 DEF Disable, Goto, RequestInv, Adding, Saving
  <2>3. RulesInv'
    BY <1>16 DEF Disable, Goto, RulesInv, Saving
  <2>4. SocketInv'
    BY <1>16 DEF Disable, Goto, SocketInv, Adding, Saving
  <2>5. StoreInv'
    BY <1>16 DEF Disable, Goto, StoreInv, Saving
  <2>6. OneTargetAtATime'
    BY <1>16 DEF Disable, OneTargetAtATime, NoRules
  <2>7. QED
    BY <2>1, <2>2, <2>3, <2>4, <2>5, <2>6
<1>17. CASE DisableResolver
  <2>1. TypeOK'
    BY <1>17, DnsAssumption DEF DisableResolver, Goto, TypeOK, Steps
  <2>2. RequestInv'
    BY <1>17 DEF DisableResolver, Goto, RequestInv, Adding, Saving
  <2>3. RulesInv'
    BY <1>17 DEF DisableResolver, Goto, RulesInv, Saving
  <2>4. SocketInv'
    BY <1>17 DEF DisableResolver, Goto, TypeOK, SocketInv, Adding, Saving
  <2>5. StoreInv'
    BY <1>17 DEF DisableResolver, Goto, StoreInv, Saving
  <2>6. OneTargetAtATime'
    BY <1>17 DEF DisableResolver, OneTargetAtATime
  <2>7. QED
    BY <2>1, <2>2, <2>3, <2>4, <2>5, <2>6
<1>18. CASE SaveDisabled
  <2>1. TypeOK'
    BY <1>18, DnsAssumption DEF SaveDisabled, Reply, At, TypeOK, Settings, Modes, Steps
  <2>2. RequestInv'
    BY <1>18 DEF SaveDisabled, Reply, At, RequestInv, Adding, Saving
  <2>3. RulesInv'
    BY <1>18 DEF SaveDisabled, Reply, At, RulesInv, Saving
  <2>4. SocketInv'
    BY <1>18 DEF SaveDisabled, Reply, At, TypeOK, SocketInv
  <2>5. StoreInv'
    BY <1>18 DEF SaveDisabled, Reply, At, TypeOK, RulesInv, SocketInv, StoreInv, Saving,
       Settings, UsesResolver, NoRules
  <2>6. OneTargetAtATime'
    BY <1>18 DEF SaveDisabled, OneTargetAtATime
  <2>7. QED
    BY <2>1, <2>2, <2>3, <2>4, <2>5, <2>6
<1>19. CASE UNCHANGED vars
  BY <1>19 DEF vars, TypeOK, RequestInv, RulesInv, SocketInv, StoreInv, OneTargetAtATime, Target
<1>20. QED
  BY <1>1, <1>2, <1>3, <1>4, <1>5, <1>6, <1>7, <1>8, <1>9, <1>10, <1>11, <1>12, <1>13, <1>14,
     <1>15, <1>16, <1>17, <1>18, <1>19 DEF Next

\* The invariant of the induction holds of every behaviour.
LEMMA DnsInvariant == Spec => []DnsInv
<1>1. Init => DnsInv
  BY InitInv
<1>2. DnsInv /\ [Next]_vars => DnsInv'
  BY StepInv
<1>3. QED
  BY <1>1, <1>2, PTL DEF Spec

\* The variables of the DNS setting keep their types, for any set of servers:
\* a server that inet_pton rejects never reaches a rule or the database.
THEOREM DnsTypeCorrect == Spec => []TypeOK
<1>1. DnsInv => TypeOK
  BY DEF DnsInv
<1>2. QED
  BY <1>1, DnsInvariant, PTL

\* Inside any request, a refused one included, what a restart reads is the
\* setting last acknowledged.
LEMMA StoreIsKept == DnsInv => RefusalIsNotStored
BY DEF DnsInv, StoreInv, Saving, RefusalIsNotStored

\* A request that is refused changes nothing a restart reads.
THEOREM RefusalsLeaveTheStore == Spec => []RefusalIsNotStored
BY StoreIsKept, DnsInvariant, PTL

\* What dns_leak.enable or dns_leak.disable last acknowledged is in force and
\* stored whenever the daemon waits, across crashes and restarts, unless a
\* later request was refused or cut off, and a refusal leaves the store alone.
THEOREM AcknowledgedHolds == Spec => []AcknowledgedIsInForce
<1>1. DnsInv => AcknowledgedIsInForce
  <2>1. ASSUME DnsInv, main.pc = "loop", told.since = "kept"
        PROVE  InForce(told.set) /\ store = told.set
    <3>1. store = told.set
      BY <2>1 DEF DnsInv, StoreInv, Saving
    <3>2. watched = sock
      BY <2>1 DEF DnsInv, TypeOK, RequestInv, SocketInv, Adding
    <3>3. QED
      BY <2>1, <3>1, <3>2 DEF DnsInv, StoreInv, InForce
  <2>2. QED
    BY <2>1, StoreIsKept DEF AcknowledgedIsInForce
<1>2. QED
  BY <1>1, DnsInvariant, PTL

\* Queries never have two destinations, not even while the mode is switched.
THEOREM TargetsAgree == Spec => []OneTargetAtATime
<1>1. DnsInv => OneTargetAtATime
  BY DEF DnsInv
<1>2. QED
  BY <1>1, DnsInvariant, PTL
=============================================================================
