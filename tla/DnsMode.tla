------------------------------- MODULE DnsMode -------------------------------
(***************************************************************************)
(* DNS leak protection (dns_leak.enable, dns_leak.disable and the restore  *)
(* at start-up, main.c; the nft rules, nft.c; the resolver's socket,       *)
(* dns_resolver.c).  One setting lives in four places: the nat rules in    *)
(* the kernel, the resolver's socket, its registration with epoll and the  *)
(* rows of the settings table.  The main thread changes them one after the *)
(* other; each change may fail and the daemon may die between any two.     *)
(*                                                                         *)
(* Rules outlive the daemon, the socket does not.  Failures of nft to      *)
(* delete, and of the database to write, are not modelled.                 *)
(***************************************************************************)
EXTENDS Naturals

CONSTANTS Servers,       \* literals inet_pton accepts
          DefaultServer, \* "1.1.1.1"
          BadServer      \* anything else a client may send

ASSUME DnsAssumption == DefaultServer \in Servers /\ BadServer \notin Servers

VARIABLES
    nat,      \* protocol -> targets of the rules tagged pf_dns_leak
    sock,     \* dns_resolver.udp_fd is an open socket
    watched,  \* it is registered with epoll
    store,    \* dns_leak_enabled, dns_mode and dns_server of the database
    main,     \* the main thread: its step and the request it works on
    told      \* history: the last request answered "ok", and what came since

vars == <<nat, sock, watched, store, main, told>>

Local == "local"
Targets == Servers \cup {Local}
Protocols == {"udp", "tcp"}
Modes == {"via-proxy", "force-server"}
Settings == [on : BOOLEAN, mode : Modes, server : Servers]
Off == [on |-> FALSE, mode |-> "force-server", server |-> DefaultServer]
NoRules == [p \in Protocols |-> {}]

At(pc) == [pc |-> pc, mode |-> "force-server", server |-> DefaultServer, boot |-> FALSE]
Goto(pc) == main' = [main EXCEPT !.pc = pc]

Init ==
    /\ nat = NoRules
    /\ sock = FALSE /\ watched = FALSE
    /\ store = Off
    /\ main = At("down")
    /\ told = [set |-> Off, since |-> "kept"]

-----------------------------------------------------------------------------
(* Start-up, shutdown and crash. *)

\* told.since: "kept" - nothing but restarts since; "refused" - a request was
\* answered with an error, or a restore failed; "cut" - the daemon died inside
\* a request.  A restore that succeeds makes up for a refusal.
Refused == [told EXCEPT !.since = IF @ = "cut" THEN @ ELSE "refused"]
Restored == [told EXCEPT !.since = IF @ = "cut" THEN @ ELSE "kept"]

\* pf_nft_init drops the tables of the previous run; then the stored setting
\* is read.
Start ==
    /\ main.pc = "down"
    /\ nat' = NoRules
    /\ IF store.on
       THEN /\ main' = [pc |-> IF store.mode = "via-proxy" THEN "open" ELSE "check",
                        mode |-> store.mode, server |-> store.server, boot |-> TRUE]
            /\ UNCHANGED told
       ELSE main' = At("listen") /\ told' = Restored
    /\ UNCHANGED <<sock, watched, store>>

\* Fault: the resolver that was restored is not registered.
ListenForgetsResolver ==
    /\ main.pc = "listen"
    /\ main' = At("loop")
    /\ UNCHANGED <<nat, sock, watched, store, told>>

\* epoll exists from here on.
Listen ==
    /\ main.pc = "listen"
    /\ watched' = sock
    /\ main' = At("loop")
    /\ UNCHANGED <<nat, sock, store, told>>

Shutdown ==
    /\ main.pc = "loop"
    /\ nat' = NoRules
    /\ sock' = FALSE /\ watched' = FALSE
    /\ main' = At("down")
    /\ UNCHANGED <<store, told>>

Crash ==
    /\ main.pc # "down"
    /\ sock' = FALSE /\ watched' = FALSE
    /\ main' = At("down")
    /\ told' = IF main.boot \/ main.pc \in {"listen", "loop"} THEN told ELSE [told EXCEPT !.since = "cut"]
    /\ UNCHANGED <<nat, store>>

-----------------------------------------------------------------------------
(* dns_leak.enable; the restore takes the same steps, except where boot. *)

Enable(mode, server) ==
    /\ main.pc = "loop"
    /\ main' = [pc |-> IF mode = "via-proxy" THEN "open" ELSE "close",
                mode |-> mode, server |-> server, boot |-> FALSE]
    /\ UNCHANGED <<nat, sock, watched, store, told>>

\* The error reply, or the warning of the restore: what has been done stays.
Refuse ==
    /\ main' = At(IF main.boot THEN "listen" ELSE "loop")
    /\ told' = Refused

\* pf_dns_resolver_init unless the resolver runs already; bind may fail.
OpenResolver ==
    /\ main.pc = "open"
    /\ \/ /\ sock' = TRUE
          /\ watched' = IF sock THEN watched ELSE ~main.boot
          /\ Goto("clear")
          /\ UNCHANGED told
       \/ ~sock /\ Refuse /\ UNCHANGED <<sock, watched>>
    /\ UNCHANGED <<nat, store>>

CloseResolver ==
    /\ main.pc = "close"
    /\ sock' = FALSE /\ watched' = FALSE
    /\ Goto("check")
    /\ UNCHANGED <<nat, store, told>>

\* pf_nft_dns_leak_protect looks at the server before it changes anything.
CheckServer ==
    /\ main.pc = "check"
    /\ IF main.server \in Servers
       THEN Goto("clear") /\ UNCHANGED told
       ELSE Refuse
    /\ UNCHANGED <<nat, sock, watched, store>>

\* Fault: the rules of the other mode are left in place.
ClearRulesNot ==
    /\ main.pc = "clear"
    /\ Goto("udp")
    /\ UNCHANGED <<nat, sock, watched, store, told>>

\* Rules of both modes carry the same tag.
ClearRules ==
    /\ main.pc = "clear"
    /\ nat' = NoRules
    /\ Goto("udp")
    /\ UNCHANGED <<sock, watched, store, told>>

Target == IF main.mode = "via-proxy" THEN Local ELSE main.server

AddRule(proto, next) ==
    /\ main.pc = proto
    /\ \/ nat' = [nat EXCEPT ![proto] = @ \cup {Target}] /\ Goto(next) /\ UNCHANGED told
       \/ Refuse /\ UNCHANGED nat
    /\ UNCHANGED <<sock, watched, store>>

EndRestore ==
    /\ main.pc = "added" /\ main.boot
    /\ main' = At("listen")
    /\ told' = Restored
    /\ UNCHANGED <<nat, sock, watched, store>>

-----------------------------------------------------------------------------
(* The setting is stored after it is in force, a row at a time. *)

SaveEnabled ==
    /\ main.pc = "added" /\ ~main.boot
    /\ store' = [store EXCEPT !.on = TRUE]
    /\ Goto("saveMode")
    /\ UNCHANGED <<nat, sock, watched, told>>

SaveMode ==
    /\ main.pc = "saveMode"
    /\ store' = [store EXCEPT !.mode = main.mode]
    /\ Goto("saveServer")
    /\ UNCHANGED <<nat, sock, watched, told>>

Reply(set) == main' = At("loop") /\ told' = [set |-> set, since |-> "kept"]

\* The server is stored in the one mode that uses it.
SaveServer ==
    LET set == [store EXCEPT !.server = IF main.mode = "force-server" THEN main.server ELSE @]
    IN /\ main.pc = "saveServer"
       /\ store' = set
       /\ Reply(set)
       /\ UNCHANGED <<nat, sock, watched>>

-----------------------------------------------------------------------------
(* dns_leak.disable *)

Disable ==
    /\ main.pc = "loop"
    /\ nat' = NoRules
    /\ Goto("offClose")
    /\ UNCHANGED <<sock, watched, store, told>>

DisableResolver ==
    /\ main.pc = "offClose"
    /\ sock' = FALSE /\ watched' = FALSE
    /\ Goto("offSave")
    /\ UNCHANGED <<nat, store, told>>

SaveDisabled ==
    /\ main.pc = "offSave"
    /\ store' = [store EXCEPT !.on = FALSE]
    /\ Reply([store EXCEPT !.on = FALSE])
    /\ UNCHANGED <<nat, sock, watched>>

-----------------------------------------------------------------------------
Next == \/ Start \/ Listen \/ Shutdown \/ Crash
        \/ \E mode \in Modes, server \in Servers \cup {BadServer} : Enable(mode, server)
        \/ OpenResolver \/ CloseResolver \/ CheckServer \/ ClearRules
        \/ AddRule("udp", "tcp") \/ AddRule("tcp", "added")
        \/ EndRestore \/ SaveEnabled \/ SaveMode \/ SaveServer
        \/ Disable \/ DisableResolver \/ SaveDisabled

Spec == Init /\ [][Next]_vars

-----------------------------------------------------------------------------
Steps == {"down", "listen", "loop", "open", "close", "check", "clear", "udp", "tcp", "added",
          "saveMode", "saveServer", "offClose", "offSave"}

TypeOK ==
    /\ nat \in [Protocols -> SUBSET Targets]
    /\ sock \in BOOLEAN /\ watched \in BOOLEAN
    /\ store \in Settings
    /\ main \in [pc : Steps, mode : Modes, server : Servers \cup {BadServer}, boot : BOOLEAN]
    /\ told \in [set : Settings, since : {"kept", "refused", "cut"}]

UsesResolver(set) == set.on /\ set.mode = "via-proxy"
TargetOf(set) == IF set.mode = "via-proxy" THEN Local ELSE set.server

\* The rules, the socket and its registration are those of the setting.
InForce(set) ==
    /\ nat = [p \in Protocols |-> IF set.on THEN {TargetOf(set)} ELSE {}]
    /\ sock = UsesResolver(set) /\ watched = sock

\* A refusal never reaches the database: what a restart restores is still the
\* setting last answered "ok" to.
RefusalIsNotStored ==
    main.pc \in {"down", "loop"} /\ told.since # "cut" => store = told.set

\* Whenever the main thread waits for events, the setting it last answered
\* "ok" to is in force in kernel, socket and epoll, and is what a restart will
\* restore, across any number of restarts and crashes, unless a later request
\* was refused or cut off by a crash; and a refusal does not change the store.
AcknowledgedIsInForce ==
    /\ main.pc = "loop" /\ told.since = "kept" => InForce(told.set) /\ store = told.set
    /\ RefusalIsNotStored

\* At no moment, inside a switch of modes included, do two rules send the
\* queries of one protocol, or of the two, to different places.
OneTargetAtATime ==
    \A p, q \in Protocols : \A s \in nat[p], t \in nat[q] : s = t
=============================================================================
