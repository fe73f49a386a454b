------------------------------ MODULE RuleSync ------------------------------
(***************************************************************************)
(* How rules take effect.  A rule that names an application exists in five *)
(* places that nothing but the order of calls in main.c keeps together:    *)
(*   db       the rules table (config.c);                                  *)
(*   ruleset  the copy the daemon matches against (rules.c);               *)
(*   cgroups  a directory rule_N (cgroup.c);                               *)
(*   marks    nft rules that send rule_N's traffic to TPROXY (nft.c);      *)
(*   proc     the processes of the application, moved into rule_N when     *)
(*            they exec (monitor.c) or when the rule is applied.           *)
(*                                                                         *)
(* The IPC handlers, SIGHUP, the monitor's events and the startup code all *)
(* run in the main thread.  main is its position: the handler it is in     *)
(* (job), the call it makes next (at) and the rule the call is about, so   *)
(* that processes fork, exec and exit, and the daemon dies, between any    *)
(* two calls.                                                              *)
(*                                                                         *)
(* An application is a name and matches itself (the patterns of            *)
(* pf_match_app are left out); mkdir and nft succeed; the ids of rules     *)
(* carry their decimal digits, because marks are removed by a substring of *)
(* their comment.                                                          *)
(***************************************************************************)
EXTENDS Naturals, Sequences, FiniteSets, Functions

CONSTANTS RuleIds,    \* ids the rules table may hand out (AUTOINCREMENT)
          Apps,       \* applications
          NoApp,      \* match_app = ""
          Rules,      \* rules that clients send
          Proxies,    \* proxies in the database
          Pids,       \* process ids
          DbFails,    \* whether a DELETE or UPDATE statement may fail
          MaxEvents,  \* undelivered process events
          MaxMarks    \* bound on duplicates of a mark

\* CHAIN and REJECT are treated as BLOCK here.
Actions == {"PROXY", "DIRECT", "BLOCK"}

\* nft_delete_by_comment removes at most this many marks at a time; the
\* assumption keeps their number below it.
MaxHandles == 256

ASSUME SyncAssumption ==
    /\ RuleIds \subseteq Nat \ {0} /\ IsFiniteSet(RuleIds)
    /\ Rules \subseteq [app : Apps \cup {NoApp}, on : BOOLEAN, act : Actions,
                        prio : Nat, proxy : Proxies]
    /\ NoApp \notin Apps /\ DbFails \in BOOLEAN
    /\ MaxEvents \in Nat /\ MaxMarks \in Nat
    /\ MaxMarks * Cardinality(RuleIds) <= MaxHandles

VARIABLES db, lastId, proxyOn,         \* the database; the last id handed out
          ruleset,                     \* the daemon's copy of the rules
          cgroups, marks,              \* the kernel's state
          proc, events,                \* processes; undelivered exec and exit events
          main,                        \* the daemon's main thread
          undone                       \* history: rules that lost their mark by a failed
                                       \* DELETE or by the removal of another rule's

vars == <<db, lastId, proxyOn, ruleset, cgroups, marks, proc, events, main, undone>>
dbVars == <<db, lastId, proxyOn>>
kernelVars == <<cgroups, marks, proc, events>>

NoRule == [app |-> NoApp, on |-> FALSE, act |-> "none", prio |-> 0, proxy |-> "none"]

\* The cgroup of a process outside every rule: the system's, or the base
\* cgroup that removed processes are moved to.
Elsewhere == 0
Dead == [exe |-> NoApp, cg |-> Elsewhere]

\* In the event loop; not running; and a handler's position: its calls about
\* rule r, a walk over the rules in rest, or the UPDATEs for ids from n on.
Idle == [at |-> "loop", job |-> "none", rule |-> 0, rest |-> {}, pids |-> {},
         ids |-> <<>>, n |-> 1, ok |-> TRUE]
Down == [Idle EXCEPT !.at = "down"]
Task(job, r, step) == [Idle EXCEPT !.job = job, !.rule = r, !.at = step]
Walk(job, S) == [Idle EXCEPT !.job = job, !.rest = S, !.at = "each"]

Exists(rules, r) == rules[r].act # "none"
Alive(p) == proc[p].exe # NoApp
Members(r) == {p \in Pids : proc[p].cg = r}

Init ==
    /\ db = [r \in RuleIds |-> NoRule] /\ ruleset = db
    /\ lastId = 0
    /\ proxyOn = [x \in Proxies |-> TRUE]
    /\ cgroups = {} /\ marks = [r \in RuleIds |-> 0]
    /\ proc = [p \in Pids |-> Dead] /\ events = <<>>
    /\ main = Idle /\ undone = {}

-----------------------------------------------------------------------------
(* The calls that handlers are made of. *)

\* The list pf_config_rule_list returns is sorted by priority (ties by id);
\* the first of the rules in S, if there is one.
Before(rules, q, r) == \/ rules[q].prio < rules[r].prio
                       \/ rules[q].prio = rules[r].prio /\ q < r
FirstOf(rules, S) == {r \in S : \A q \in S \ {r} : Before(rules, r, q)}

MaySetUp(rule) == rule.app # NoApp /\ rule.act # "DIRECT"

\* Whether traffic is to be diverted for rule r.
Applies(r) == /\ Exists(db, r) /\ MaySetUp(db[r]) /\ db[r].on
              /\ db[r].act = "PROXY" => proxyOn[db[r].proxy]

Goto(step) == main' = [main EXCEPT !.at = step]

\* pf_cgroup_create_rule: mkdir, EEXIST is fine.
DoMkdir ==
    /\ main.at = "mkdir"
    /\ cgroups' = cgroups \cup {main.rule}
    /\ Goto("mark")
    /\ UNCHANGED <<dbVars, ruleset, marks, proc, events, undone>>

\* pf_nft_add_cgroup_mark: mkdir again, then "add rule", which never replaces.
\* At start-up the running processes are not assigned.
DoMark ==
    /\ main.at = "mark"
    /\ cgroups' = cgroups \cup {main.rule}
    /\ marks' = [marks EXCEPT ![main.rule] = @ + 1]
    /\ undone' = undone \ {main.rule}
    /\ Goto(IF main.job = "start" THEN "each" ELSE "assign")
    /\ UNCHANGED <<dbVars, ruleset, proc, events>>

\* pf_cgroup_assign_running_pids: every process of the rule's application.
DoAssign ==
    /\ main.at = "assign"
    /\ proc' = [p \in Pids |->
                  IF Alive(p) /\ proc[p].exe = db[main.rule].app /\ main.rule \in cgroups
                  THEN [proc[p] EXCEPT !.cg = main.rule] ELSE proc[p]]
    /\ Goto(IF main.job = "enable" THEN "each" ELSE "reload")
    /\ UNCHANGED <<dbVars, ruleset, cgroups, marks, events, undone>>

\* The tag "pf_cgroup_<r>" is a part of the comment of every rule whose id
\* begins with the digits of r.
Powers == {1, 10, 100, 1000, 10000, 100000, 1000000, 10000000, 100000000, 1000000000}
HasPrefix(q, r) == \E d \in Powers : q \div d = r

\* pf_nft_remove_cgroup_mark, nft_delete_by_comment: every mark whose comment
\* contains the tag.  rule.delete has removed the cgroup before, the others
\* remove it now.
DoUnmark ==
    /\ main.at = "unmark"
    /\ marks' = [q \in RuleIds |-> IF HasPrefix(q, main.rule) THEN 0 ELSE marks[q]]
    /\ undone' = (undone \ {main.rule})
                  \cup {q \in RuleIds \ {main.rule} : HasPrefix(q, main.rule) /\ Applies(q)}
    /\ Goto(IF main.job = "delete" THEN "delete" ELSE "list")
    /\ UNCHANGED <<dbVars, ruleset, cgroups, proc, events>>

\* pf_cgroup_remove_rule: read cgroup.procs ...
DoList ==
    /\ main.at = "list"
    /\ main' = [main EXCEPT !.at = "drain", !.pids = Members(main.rule)]
    /\ UNCHANGED <<dbVars, ruleset, kernelVars, undone>>

\* ... move the processes it lists, those that still exist, to the base
\* cgroup ...
DoDrain ==
    /\ main.at = "drain"
    /\ proc' = [p \in Pids |-> IF p \in main.pids THEN [proc[p] EXCEPT !.cg = Elsewhere]
                                                   ELSE proc[p]]
    /\ main' = [main EXCEPT !.at = "rmdir", !.pids = {}]
    /\ UNCHANGED <<dbVars, ruleset, cgroups, marks, events, undone>>

\* Faults: rule.delete leaves the mark to the next restart; rule.edit does not
\* set the rule up again.
AfterRmdirNoUnmark ==
    IF main.job = "delete" THEN "delete"
    ELSE IF main.job = "disable" THEN "each"
    ELSE IF MaySetUp(db[main.rule]) /\ db[main.rule].on THEN "mkdir" ELSE "reload"
AfterRmdirTornDown ==
    IF main.job = "delete" THEN "unmark"
    ELSE IF main.job = "disable" THEN "each" ELSE "reload"

\* What follows in each of the handlers: rule.delete takes the mark away,
\* proxy.edit goes on to the next rule, and rule.edit sets the rule up again
\* if it is enabled, names an application and is not DIRECT.
AfterRmdir ==
    IF main.job = "delete" THEN "unmark"
    ELSE IF main.job = "disable" THEN "each"
    ELSE IF MaySetUp(db[main.rule]) /\ db[main.rule].on THEN "mkdir" ELSE "reload"

\* ... and rmdir, which fails when a process has appeared in it meanwhile.
DoRmdir ==
    /\ main.at = "rmdir"
    /\ cgroups' = IF Members(main.rule) = {} THEN cgroups \ {main.rule} ELSE cgroups
    /\ Goto(AfterRmdir)
    /\ UNCHANGED <<dbVars, ruleset, marks, proc, events, undone>>

\* pf_rules_load.
RulesLoad == ruleset' = db

\* rules_reload_locked, the end of every handler that changes rules.
DoReload ==
    /\ main.at = "reload"
    /\ RulesLoad
    /\ main' = Idle
    /\ UNCHANGED <<dbVars, kernelVars, undone>>

\* pf_config_rule_delete: on an error the handler stops here.
DoDelete ==
    /\ main.at = "delete"
    /\ \/ /\ db' = [db EXCEPT ![main.rule] = NoRule]
          /\ Goto("reload") /\ UNCHANGED undone
       \/ /\ DbFails /\ UNCHANGED db
          /\ main' = Idle
          /\ undone' = IF Applies(main.rule) THEN undone \cup {main.rule} ELSE undone
    /\ UNCHANGED <<lastId, proxyOn, ruleset, kernelVars>>

\* One UPDATE of rule.reorder: on an error the others are still made, and the
\* rules are not reloaded.
DoPriority ==
    /\ main.at = "prio"
    /\ \E ok \in {TRUE, ~DbFails} :
          /\ db' = IF ok THEN [db EXCEPT ![main.ids[main.n]].prio = main.n - 1] ELSE db
          /\ main' = IF main.n < Len(main.ids)
                     THEN [main EXCEPT !.n = @ + 1, !.ok = @ /\ ok]
                     ELSE IF main.ok /\ ok THEN Task("reorder", 0, "reload") ELSE Idle
    /\ UNCHANGED <<lastId, proxyOn, ruleset, kernelVars, undone>>

\* The next rule of a walk, in the order of the table: proxy.edit sets up or
\* tears down, start-up sets up.
NextRule ==
    /\ main.at = "each"
    /\ \E r \in FirstOf(db, main.rest) :
          main' = [main EXCEPT !.rule = r, !.rest = @ \ {r},
                               !.at = IF main.job = "disable" THEN "unmark" ELSE "mkdir"]
    /\ UNCHANGED <<dbVars, ruleset, kernelVars, undone>>

\* After its last rule proxy.edit returns; start-up goes on to pf_monitor_init,
\* from which on the daemon hears of exec and exit.
EndOfRules ==
    /\ main.at = "each" /\ main.rest = {}
    /\ main' = IF main.job = "start" THEN Task("start", 0, "listen") ELSE Idle
    /\ UNCHANGED <<dbVars, ruleset, kernelVars, undone>>

DoListen ==
    /\ main.at = "listen"
    /\ main' = Idle
    /\ UNCHANGED <<dbVars, ruleset, kernelVars, undone>>

Calls == \/ DoMkdir \/ DoMark \/ DoUnmark \/ DoList \/ DoDrain \/ DoRmdir \/ DoAssign
         \/ DoReload \/ DoDelete \/ DoPriority \/ NextRule \/ EndOfRules \/ DoListen

-----------------------------------------------------------------------------
(* IPC handlers. *)

\* The main thread is back in its event loop.
Quiet == main.at = "loop"
Bounded == \A r \in RuleIds : marks[r] < MaxMarks

\* Fault: ids of deleted rules are handed out again.
RuleAddReusesId(rule) ==
    /\ Quiet /\ Bounded
    /\ \E r \in RuleIds :
          /\ ~Exists(db, r)
          /\ db' = [db EXCEPT ![r] = rule] /\ lastId' = lastId
          /\ main' = Task("add", r, IF MaySetUp(rule) THEN "mkdir" ELSE "reload")
    /\ UNCHANGED <<proxyOn, ruleset, kernelVars, undone>>

\* rule.add: neither the rule's nor the proxy's enabled flag is looked at.
RuleAdd(rule) ==
    /\ Quiet /\ Bounded
    /\ \E r \in RuleIds :
          /\ r > lastId
          /\ db' = [db EXCEPT ![r] = rule] /\ lastId' = r
          /\ main' = Task("add", r, IF MaySetUp(rule) THEN "mkdir" ELSE "reload")
    /\ UNCHANGED <<proxyOn, ruleset, kernelVars, undone>>

\* rule.edit: update the row, tear the rule down and, if it still applies,
\* set it up again.
RuleEdit(r, rule) ==
    /\ Quiet /\ Bounded /\ Exists(db, r)
    /\ db' = [db EXCEPT ![r] = rule]
    /\ main' = Task("edit", r, "unmark")
    /\ UNCHANGED <<lastId, proxyOn, ruleset, kernelVars, undone>>

\* rule.delete: the id is not looked up first.
RuleDelete(r) ==
    /\ Quiet
    /\ main' = Task("delete", r, "list")
    /\ UNCHANGED <<dbVars, ruleset, kernelVars, undone>>

\* rule.reorder: priority = position, one statement per id.
RuleReorder(order) ==
    /\ Quiet
    /\ main' = IF order = <<>> THEN Task("reorder", 0, "reload")
               ELSE [Task("reorder", 0, "prio") EXCEPT !.ids = order]
    /\ UNCHANGED <<dbVars, ruleset, kernelVars, undone>>

\* proxy.edit that changes enabled: set up or tear down every enabled PROXY
\* rule of the proxy that names an application.  The rules themselves have not
\* changed and are not reloaded.
UsesProxy(r, x) == /\ db[r].act = "PROXY" /\ db[r].proxy = x
                   /\ db[r].on /\ db[r].app # NoApp
ProxyEdit(x) ==
    /\ Quiet /\ Bounded
    /\ proxyOn' = [proxyOn EXCEPT ![x] = ~@]
    /\ main' = Walk(IF proxyOn[x] THEN "disable" ELSE "enable",
                    {r \in RuleIds : UsesProxy(r, x)})
    /\ UNCHANGED <<db, lastId, ruleset, kernelVars, undone>>

\* SIGHUP.
Hangup ==
    /\ Quiet
    /\ main' = Task("hangup", 0, "reload")
    /\ UNCHANGED <<dbVars, ruleset, kernelVars, undone>>

-----------------------------------------------------------------------------
(* The process monitor. *)

\* pf_rules_match_app_any: the first enabled rule that names the application.
MatchAny(a) ==
    FirstOf(ruleset, {r \in RuleIds : Exists(ruleset, r) /\ ruleset[r].on /\ ruleset[r].app = a})

\* on_process_event, exec: the executable is read from /proc now.  The
\* second look-up by base name finds the same rule, as names match themselves.
OnExec(p) ==
    LET found == {r \in MatchAny(proc[p].exe) : ruleset[r].act # "DIRECT" /\ r \in cgroups}
    IN IF Alive(p) /\ found # {}
       THEN \E r \in found : proc' = [proc EXCEPT ![p].cg = r]
       ELSE UNCHANGED proc

\* on_process_event, exit: whatever process has the id now leaves its rule.
OnExit(p) ==
    IF Alive(p) /\ proc[p].cg \in RuleIds
    THEN proc' = [proc EXCEPT ![p].cg = Elsewhere]
    ELSE UNCHANGED proc

MonitorEvent ==
    /\ Quiet /\ events # <<>>
    /\ events' = Tail(events)
    /\ IF Head(events).exec THEN OnExec(Head(events).pid) ELSE OnExit(Head(events).pid)
    /\ UNCHANGED <<dbVars, ruleset, cgroups, marks, main, undone>>

-----------------------------------------------------------------------------
(* Processes. *)

Tell(p, isExec) ==
    IF main.at # "down" /\ main.job # "start"
    THEN /\ Len(events) < MaxEvents
         /\ events' = Append(events, [pid |-> p, exec |-> isExec])
    ELSE UNCHANGED events

\* A process starts an application outside every rule's cgroup, or becomes
\* one by exec and keeps its cgroup.
Exec(p, a) ==
    /\ proc' = [proc EXCEPT ![p].exe = a]
    /\ Tell(p, TRUE)
    /\ UNCHANGED <<dbVars, ruleset, cgroups, marks, main, undone>>

\* The child shares the parent's executable and cgroup.
Fork(p, q) ==
    /\ Alive(p) /\ ~Alive(q)
    /\ proc' = [proc EXCEPT ![q] = proc[p]]
    /\ UNCHANGED <<dbVars, ruleset, cgroups, marks, events, main, undone>>

Exit(p) ==
    /\ Alive(p)
    /\ proc' = [proc EXCEPT ![p] = Dead]
    /\ Tell(p, FALSE)
    /\ UNCHANGED <<dbVars, ruleset, cgroups, marks, main, undone>>

-----------------------------------------------------------------------------
(* The daemon's life. *)

\* It is killed: the kernel keeps everything, unless sig_fatal or the service
\* manager's ExecStopPost still removed the nft table.
Crash ==
    /\ main.at # "down"
    /\ main' = Down /\ events' = <<>>
    /\ marks' \in {marks, [r \in RuleIds |-> 0]}
    /\ ruleset' = [r \in RuleIds |-> NoRule] /\ undone' = {}
    /\ UNCHANGED <<dbVars, cgroups, proc>>

\* Orderly end: pf_nft_cleanup, and pf_cgroup_cleanup, which can remove only
\* empty cgroups.
Shutdown ==
    /\ Quiet
    /\ main' = Down /\ events' = <<>>
    /\ marks' = [r \in RuleIds |-> 0]
    /\ cgroups' = {r \in cgroups : Members(r) # {}}
    /\ ruleset' = [r \in RuleIds |-> NoRule] /\ undone' = {}
    /\ UNCHANGED <<dbVars, proc>>

\* pf_nft_init deletes what an earlier run left, the rules are loaded, and
\* setup_cgroups_for_existing_rules makes the cgroups and marks.
Start ==
    /\ main.at = "down"
    /\ RulesLoad
    /\ marks' = [r \in RuleIds |-> 0]
    /\ main' = Walk("start", {r \in RuleIds : Exists(db, r) /\ MaySetUp(db[r]) /\ db[r].on})
    /\ UNCHANGED <<dbVars, cgroups, proc, events, undone>>

-----------------------------------------------------------------------------
Orders == {o \in [1..Cardinality({r \in RuleIds : Exists(db, r)})
                    -> {r \in RuleIds : Exists(db, r)}] : IsInjective(o)}

Next ==
    \/ Calls
    \/ \E rule \in Rules : RuleAdd(rule)
    \/ \E r \in RuleIds, rule \in Rules : RuleEdit(r, rule)
    \/ \E r \in RuleIds : RuleDelete(r)
    \/ \E order \in Orders : RuleReorder(order)
    \/ \E x \in Proxies : ProxyEdit(x)
    \/ Hangup
    \/ MonitorEvent
    \/ \E p \in Pids, a \in Apps : Exec(p, a)
    \/ \E p, q \in Pids : Fork(p, q)
    \/ \E p \in Pids : Exit(p)
    \/ Crash \/ Shutdown \/ Start

Spec == Init /\ [][Next]_vars

-----------------------------------------------------------------------------
Jobs == {"none", "start", "add", "edit", "delete", "reorder", "enable", "disable", "hangup"}
Steps == {"loop", "down", "mkdir", "mark", "unmark", "list", "drain", "rmdir", "assign",
          "reload", "delete", "prio", "each", "listen"}

StoredRules == {NoRule} \cup [app : Apps \cup {NoApp}, on : BOOLEAN, act : Actions,
                               prio : Nat, proxy : Proxies]

TypeOK ==
    /\ db \in [RuleIds -> StoredRules] /\ ruleset \in [RuleIds -> StoredRules]
    /\ lastId \in RuleIds \cup {0} /\ proxyOn \in [Proxies -> BOOLEAN]
    /\ cgroups \subseteq RuleIds /\ marks \in [RuleIds -> Nat]
    /\ proc \in [Pids -> [exe : Apps \cup {NoApp}, cg : RuleIds \cup {Elsewhere}]]
    /\ events \in Seq([pid : Pids, exec : BOOLEAN])
    /\ main \in [at : Steps, job : Jobs, rule : RuleIds \cup {0}, rest : SUBSET RuleIds,
                 pids : SUBSET Pids, ids : Seq(RuleIds), n : Nat, ok : BOOLEAN]
    /\ undone \subseteq RuleIds

\* Whenever the main thread is back in its loop, traffic is diverted only for
\* rules that are in the database, name an application and are not DIRECT:
\* no mark survives its rule, whatever failed or crashed on the way, and none
\* refers to a cgroup that is gone.
NoOrphanMark ==
    Quiet => \A r \in RuleIds : marks[r] > 0 =>
                r \in cgroups /\ Exists(db, r) /\ MaySetUp(db[r])

\* A rule starts with a cgroup nobody is in: a process that stayed behind in
\* the cgroup of a deleted rule (rmdir failed) never falls under a new rule.
FreshRuleHasFreshCgroup ==
    [][\A r \in RuleIds : ~Exists(db, r) /\ Exists(db', r) => Members(r) = {}]_vars

\* An enabled rule that names an application and is not DIRECT, whose proxy,
\* if it has one, is enabled, is marked whenever the main thread is in its
\* loop, through edits, proxy toggles, failed updates, crashes and restarts.
\* Two things alone undo it, until the rule is set up again or the daemon is
\* restarted: its own DELETE fails after the mark is gone, or the removal of a
\* rule whose id begins this one's takes the mark along.
ActiveRuleIsMarked ==
    Quiet => \A r \in RuleIds : Applies(r) /\ r \notin undone => marks[r] > 0

\* "Comment tag enables targeted removal" (nft.c, pf_nft_add_cgroup_mark):
\* removing a rule's mark leaves the marks of the others.
RemovalIsTargeted ==
    [][DoUnmark /\ Exists(db, main.rule)
         => \A q \in RuleIds : q # main.rule => marks'[q] = marks[q]]_vars

=============================================================================
