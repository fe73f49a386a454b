----------------------------- MODULE RuleRouting ----------------------------
(***************************************************************************)
(* How an intercepted connection is routed: proxy_connect_for_tproxy of    *)
(* main.c with pf_rules_match of rules.c, as one accept thread runs it,    *)
(* while the main thread changes rules, proxies and chains.                *)
(*                                                                         *)
(* The rules are read under the ruleset lock in one step and the chosen    *)
(* one is copied; the proxy or chain it names is read from the database    *)
(* later.  TPROXY has lost the application: it is part of a connection     *)
(* here only so that properties can speak of it.                           *)
(*                                                                         *)
(* A rule's criterion is Blank or a value: the patterns of pf_match_domain  *)
(* and pf_match_ip are left out.  addr stands for address and port, which  *)
(* are always known; the name may be unknown (no SNI, not in the DNS       *)
(* cache) and then matches no criterion.                                   *)
(***************************************************************************)
EXTENDS Naturals, Sequences, FiniteSets, SequencesExt

CONSTANTS Blank,        \* an empty criterion, or no proxy and no chain
          Unknown,      \* no domain name
          NoRule,       \* no rule chosen
          RuleSet,      \* rules that may be configured
          MaxRules,     \* bound on the length of the rule list
          Connections,  \* connections that may arrive
          Proxies, Chains,
          Ssh           \* the proxies of type ssh

ASSUME RoutingAssumption ==
    /\ MaxRules \in Nat /\ Ssh \subseteq Proxies
    /\ NoRule \notin RuleSet
    /\ \A r \in RuleSet : /\ r.on \in BOOLEAN
                          /\ r.act \in {"DIRECT", "PROXY", "CHAIN", "BLOCK", "REJECT"}
                          /\ r.via \in Proxies \cup Chains \cup {Blank}
                          /\ r.act = "PROXY" => r.via \notin Chains
                          /\ r.act = "CHAIN" => r.via \notin Proxies
    /\ Proxies \cap Chains = {} /\ Blank \notin Proxies \cup Chains
    /\ \A c \in Connections : Blank \notin {c.app, c.name, c.addr}

VARIABLES rules,    \* the ruleset, in order of priority
          store,    \* the database: each proxy and chain on, off or gone
          pc, conn, \* the accept thread and its connection
          choice,   \* its copy of the rule
          led       \* history: the rule for every application that came first

vars == <<rules, store, pc, conn, choice, led>>

Routes == Proxies \cup Chains
Enabled == {x \in Routes : store[x] = "on"}
Idle == [app |-> Unknown, name |-> Unknown, addr |-> Unknown]

Init ==
    /\ rules = <<>>
    /\ store \in [Routes -> {"on", "off"}]
    /\ pc = "idle" /\ conn = Idle /\ choice = NoRule /\ led = NoRule

-----------------------------------------------------------------------------
(* The decision. *)

\* The criteria on the destination: domain, address and port.
Specific(r) == r.dom # Blank \/ r.addr # Blank
MatchesDst(r, c) == /\ r.dom = Blank \/ r.dom = c.name
                    /\ r.addr = Blank \/ r.addr = c.addr

\* pf_rules_match without an application: rules that name one never match.
RulesMatch(rs, c) ==
    LET i == SelectInSeq(rs, LAMBDA r : r.on /\ r.app = Blank /\ MatchesDst(r, c))
    IN IF i = 0 THEN NoRule ELSE rs[i]

\* The PROXY rules that name an application, whichever, and match.
Usable(r, c) ==
    r.on /\ r.act = "PROXY" /\ r.app # Blank /\ r.via # Blank /\ MatchesDst(r, c)

\* One iteration of the scan: the first of each kind is kept.
Better(best, r, c) ==
    IF ~Usable(r, c) THEN best
    ELSE IF Specific(r)
    THEN [best EXCEPT !.specific = IF @ = NoRule THEN r ELSE @]
    ELSE [best EXCEPT !.catchall = IF @ = NoRule THEN r ELSE @]

\* The second scan, after its first i rules.
Scan(rs, c) ==
    LET best[i \in 0..Len(rs)] ==
            IF i = 0 THEN [specific |-> NoRule, catchall |-> NoRule]
            ELSE Better(best[i - 1], rs[i], c)
    IN best

\* Fault: whatever matches first is kept, specific or not.
AppScanTakesFirst(rs, c) ==
    LET i == SelectInSeq(rs, LAMBDA r : Usable(r, c))
    IN IF i = 0 THEN NoRule ELSE rs[i]

\* At its end a specific rule is preferred to a catch-all one.
AppScan(rs, c) ==
    LET best == Scan(rs, c)[Len(rs)]
    IN IF best.specific # NoRule THEN best.specific ELSE best.catchall

Choose(rs, c) ==
    LET first == RulesMatch(rs, c)
    IN IF first = NoRule THEN AppScan(rs, c)
       ELSE IF first.act = "DIRECT" THEN AppScan(rs, c)
       ELSE first

-----------------------------------------------------------------------------
(* The reference. *)

\* What the rules say without the loops: a rule for every application decides
\* by its place alone unless it says DIRECT; then the PROXY rules of
\* applications decide, a specific one before any catch-all one, each kind by
\* its place.
Position(rs, r) == CHOOSE i \in 1..Len(rs) : rs[i] = r /\ \A j \in 1..(i - 1) : rs[j] # r
Global(rs, c) == {r \in ToSet(rs) : r.on /\ r.app = Blank /\ MatchesDst(r, c)}
OfApps(rs, c) == {r \in ToSet(rs) : r.on /\ r.app # Blank /\ r.act = "PROXY"
                                      /\ r.via # Blank /\ MatchesDst(r, c)}
Leads(rs, r, S) == r \in S /\ \A q \in S : Position(rs, r) <= Position(rs, q)
Reference(rs, c, r) ==
    IF \E g \in RuleSet : Leads(rs, g, Global(rs, c)) /\ g.act # "DIRECT"
    THEN Leads(rs, r, Global(rs, c))
    ELSE LET candidates == OfApps(rs, c)
             specific == {q \in candidates : Specific(q)}
         IN IF candidates = {} THEN r = NoRule
            ELSE Leads(rs, r, IF specific # {} THEN specific ELSE candidates)

-----------------------------------------------------------------------------
(* The accept thread. *)

Arrive(c) ==
    /\ pc = "idle"
    /\ conn' = c /\ pc' = "match"
    /\ UNCHANGED <<rules, store, choice, led>>

Match ==
    /\ pc = "match"
    /\ choice' = Choose(rules, conn)
    /\ led' = IF Global(rules, conn) = {} THEN NoRule
              ELSE CHOOSE g \in Global(rules, conn) : Leads(rules, g, Global(rules, conn))
    /\ pc' = "act"
    /\ UNCHANGED <<rules, store, conn>>

\* Fault: a REJECT rule is taken for DIRECT.
ActForgetsReject ==
    /\ pc = "act"
    /\ pc' = IF choice = NoRule THEN "direct"
             ELSE IF choice.act = "BLOCK" THEN "closed"
             ELSE IF choice.act \in {"PROXY", "CHAIN"} /\ choice.via \in Enabled \ Ssh
             THEN "connect" ELSE "direct"
    /\ UNCHANGED <<rules, store, conn, choice, led>>

\* No rule or DIRECT: -1.  BLOCK and REJECT: -2.  Otherwise the proxy or the
\* chain is looked up; one that is gone or disabled, and an ssh proxy, give
\* -1 as well.
Act ==
    /\ pc = "act"
    /\ pc' = IF choice = NoRule THEN "direct"
             ELSE IF choice.act \in {"BLOCK", "REJECT"} THEN "closed"
             ELSE IF choice.act \in {"PROXY", "CHAIN"} /\ choice.via \in Enabled \ Ssh
             THEN "connect" ELSE "direct"
    /\ UNCHANGED <<rules, store, conn, choice, led>>

\* The connection to the proxy, or along the chain; failure gives -1.
Connect ==
    /\ pc = "connect"
    /\ pc' \in {"via", "direct"}
    /\ UNCHANGED <<rules, store, conn, choice, led>>

\* The accept thread takes -1 as DIRECT: it connects to the original
\* destination.
ConnectDirect ==
    /\ pc = "direct"
    /\ pc' \in {"bypass", "closed"}
    /\ UNCHANGED <<rules, store, conn, choice, led>>

\* The connection ends; the thread is gone.
Done ==
    /\ pc \in {"via", "bypass", "closed"}
    /\ pc' = "idle" /\ conn' = Idle /\ choice' = NoRule /\ led' = NoRule
    /\ UNCHANGED <<rules, store>>

-----------------------------------------------------------------------------
(* The main thread.  A handler that changes rules ends with the ruleset    *)
(* reloaded, so rules stands for the table too.                            *)

\* The foreign keys of the table: a rule names no row or one that exists.
MayRefer(r) == r.via = Blank \/ (r.via \in Routes /\ store[r.via] # "gone")

\* rule.add: the priority puts the rule anywhere.
RuleAdd(i, r) ==
    /\ Len(rules) < MaxRules /\ MayRefer(r)
    /\ rules' = InsertAt(rules, i, r)
    /\ UNCHANGED <<store, pc, conn, choice, led>>

\* rule.edit of anything but the priority.
RuleEdit(i, r) ==
    /\ MayRefer(r)
    /\ rules' = [rules EXCEPT ![i] = r]
    /\ UNCHANGED <<store, pc, conn, choice, led>>

RuleDelete(i) ==
    /\ rules' = RemoveAt(rules, i)
    /\ UNCHANGED <<store, pc, conn, choice, led>>

RuleReorder(i) ==
    /\ i < Len(rules)
    /\ rules' = [rules EXCEPT ![i] = rules[i + 1], ![i + 1] = rules[i]]
    /\ UNCHANGED <<store, pc, conn, choice, led>>

\* proxy.edit and chain.edit of the enabled flag.
Toggle(x) ==
    /\ store[x] # "gone"
    /\ store' = [store EXCEPT ![x] = IF @ = "on" THEN "off" ELSE "on"]
    /\ UNCHANGED <<rules, pc, conn, choice, led>>

\* pf_config_proxy_ref_count, pf_config_chain_ref_count: what a rule still
\* names is not deleted.  (The hops of chains are not modelled.)
Delete(x) ==
    /\ store[x] # "gone"
    /\ \A i \in 1..Len(rules) : rules[i].via # x
    /\ store' = [store EXCEPT ![x] = "gone"]
    /\ UNCHANGED <<rules, pc, conn, choice, led>>

-----------------------------------------------------------------------------
ThreadNext == \/ \E c \in Connections : Arrive(c)
              \/ Match \/ Act \/ Connect \/ ConnectDirect \/ Done

AdminNext == \/ \E i \in 1..(Len(rules) + 1), r \in RuleSet : RuleAdd(i, r)
             \/ \E i \in 1..Len(rules), r \in RuleSet : RuleEdit(i, r)
             \/ \E i \in 1..Len(rules) : RuleDelete(i) \/ RuleReorder(i)
             \/ \E x \in Routes : Toggle(x) \/ Delete(x)

Next == ThreadNext \/ AdminNext

Spec == Init /\ [][Next]_vars

-----------------------------------------------------------------------------
TypeOK ==
    /\ rules \in Seq(RuleSet) /\ Len(rules) <= MaxRules
    /\ store \in [Routes -> {"on", "off", "gone"}]
    /\ pc \in {"idle", "match", "act", "connect", "direct", "via", "bypass", "closed"}
    /\ conn \in Connections \cup {Idle}
    /\ {choice, led} \subseteq RuleSet \cup {NoRule}

\* The two scans of proxy_connect_for_tproxy choose what that reference says.
ChoiceIsReference == [][Match => Reference(rules, conn, choice')]_vars

\* A connection whose first rule for every application was BLOCK or REJECT
\* when the rules were read is never established, neither through a proxy nor
\* by the fallback of the accept thread, whatever is changed meanwhile.
BlockedStaysClosed ==
    pc \in {"via", "bypass"} => led = NoRule \/ led.act \notin {"BLOCK", "REJECT"}

=============================================================================
