--------------------------- MODULE RuleSyncProofs ---------------------------
(***************************************************************************)
(* The safety properties of RuleSync for every set of rules, processes and *)
(* proxies.  They speak of a main thread that is back in its loop; the     *)
(* invariant below says what holds between the calls of a handler, where   *)
(* processes move and the daemon may die.                                  *)
(***************************************************************************)
EXTENDS RuleSync, FiniteSetTheorems, TLAPS

\* The steps that set a rule up, and those that remove its cgroup.
SetUpSteps == {"mkdir", "mark"}
RemovalSteps == {"list", "drain", "rmdir"}

\* Which calls each handler makes.
StepInv ==
    /\ main.at = "loop" => main.job = "none"
    /\ main.at \in SetUpSteps => main.job \in {"add", "edit", "enable", "start"}
    /\ main.at = "assign" => main.job \in {"add", "edit", "enable"}
    /\ main.at \in RemovalSteps \cup {"unmark"} => main.job \in {"edit", "delete", "disable"}
    /\ main.at = "delete" => main.job = "delete"
    /\ main.at = "each" => main.job \in {"enable", "disable", "start"}
    /\ main.at = "reload" => main.job \in {"add", "edit", "delete", "reorder", "hangup"}
    /\ main.at = "listen" => main.job = "start" /\ main.rest = {}
    /\ main.at \in SetUpSteps \cup RemovalSteps \cup {"assign", "unmark", "delete"} =>
          main.rule \in RuleIds
    /\ main.at = "prio" => /\ main.job = "reorder"
                           /\ main.n \in 1..Len(main.ids)
                           /\ \A i \in 1..Len(main.ids) : Exists(db, main.ids[i])

\* What is set up, or is to be set up by a walk, are rules that may be; what a
\* walk tears down does not apply any more.
TargetInv ==
    /\ main.at \in SetUpSteps => Exists(db, main.rule) /\ MaySetUp(db[main.rule])
    /\ main.job \in {"enable", "start"} =>
          \A r \in main.rest : Exists(db, r) /\ MaySetUp(db[r])
    /\ main.job = "disable" => \A r \in main.rest : ~Applies(r)
    /\ main.job = "disable" /\ main.at = "unmark" => ~Applies(main.rule)

\* The handler is still going to remove r's mark.
UnmarkAhead(r) ==
    /\ main.rule = r
    /\ \/ main.job = "edit" /\ main.at = "unmark"
       \/ main.job = "delete" /\ main.at \in RemovalSteps \cup {"unmark"}

\* No mark without its rule and its cgroup, but for the rule at hand; and the
\* mark goes before the cgroup, or at the latest before the row.
MarkInv ==
    /\ main.at # "down" => \A r \in RuleIds : marks[r] > 0 =>
          UnmarkAhead(r) \/ (r \in cgroups /\ Exists(db, r) /\ MaySetUp(db[r]))
    /\ \/ main.at \in RemovalSteps /\ main.job # "delete"
       \/ main.at = "delete"
       => marks[main.rule] = 0

\* The handler is still going to set r up, or to delete it.
SetUpAhead(r) ==
    \/ main.rule = r /\ main.at \in SetUpSteps
    \/ main.rule = r /\ main.job = "edit" /\ main.at \in RemovalSteps \cup {"unmark"}
    \/ main.rule = r /\ main.at = "delete"
    \/ main.job \in {"enable", "start"} /\ r \in main.rest

\* A rule that applies is marked or about to be.
ActiveInv ==
    main.at # "down" => \A r \in RuleIds :
        Applies(r) /\ r \notin undone => marks[r] > 0 \/ SetUpAhead(r)

\* Nothing has an id that was not handed out.
IdInv ==
    /\ \A r \in RuleIds : Exists(db, r) \/ r \in cgroups => r <= lastId
    /\ \A p \in Pids : proc[p].cg <= lastId

\* The inductive invariant.
SyncInv == TypeOK /\ StepInv /\ TargetInv /\ MarkInv /\ ActiveInv /\ IdInv

-----------------------------------------------------------------------------
(* Records. *)

\* What TypeOK says of the main thread, of processes and of events.
MainRecords == [at : Steps, job : Jobs, rule : RuleIds \cup {0}, rest : SUBSET RuleIds,
                pids : SUBSET Pids, ids : Seq(RuleIds), n : Nat, ok : BOOLEAN]
ProcRecords == [exe : Apps \cup {NoApp}, cg : RuleIds \cup {Elsewhere}]
EventRecords == [pid : Pids, exec : BOOLEAN]

\* The fields of the main thread's positions.
LEMMA IdleIsTyped ==
    /\ Idle \in MainRecords /\ Idle.at = "loop" /\ Idle.job = "none" /\ Idle.rest = {}
    /\ Down \in MainRecords /\ Down.at = "down" /\ Down.job = "none" /\ Down.rest = {}
<1>1. <<>> \in Seq(RuleIds)  OBVIOUS
<1> QED  BY <1>1 DEF Idle, Down, MainRecords, Steps, Jobs

\* A handler's calls about one rule.
LEMMA TaskFields ==
    ASSUME NEW job \in Jobs, NEW r \in RuleIds \cup {0}, NEW step \in Steps
    PROVE  LET t == Task(job, r, step)
           IN /\ t \in MainRecords /\ t.job = job /\ t.rule = r /\ t.at = step /\ t.rest = {}
<1>1. <<>> \in Seq(RuleIds)  OBVIOUS
<1> QED  BY <1>1 DEF Task, Idle, MainRecords, Steps, Jobs

\* A walk over rules.
LEMMA WalkFields ==
    ASSUME NEW job \in Jobs, NEW S \in SUBSET RuleIds
    PROVE  LET t == Walk(job, S)
           IN t \in MainRecords /\ t.job = job /\ t.rest = S /\ t.at = "each"
<1>1. <<>> \in Seq(RuleIds)  OBVIOUS
<1> QED  BY <1>1 DEF Walk, Idle, MainRecords, Steps, Jobs

\* Going to another call of the same handler.
LEMMA GotoFields ==
    ASSUME main \in MainRecords, NEW step \in Steps, Goto(step)
    PROVE  /\ main' \in MainRecords /\ main'.at = step
           /\ main'.job = main.job /\ main'.rule = main.rule /\ main'.rest = main.rest
BY DEF Goto, MainRecords

-----------------------------------------------------------------------------
(* The calls. *)

\* What may be set up is in the table.
LEMMA SetUpExists ==
    ASSUME NEW rules \in [RuleIds -> StoredRules], NEW r \in RuleIds, MaySetUp(rules[r])
    PROVE  Exists(rules, r)
<1>1. rules[r] # NoRule  BY DEF MaySetUp, NoRule
<1>2. rules[r].act \in Actions  BY <1>1 DEF StoredRules
<1> QED  BY <1>2 DEF Exists, Actions

\* Removing a mark by its tag removes it.
LEMMA PrefixOfItself == ASSUME NEW r \in RuleIds PROVE HasPrefix(r, r)
<1>1. r \div 1 = r  BY SyncAssumption
<1> QED  BY <1>1 DEF HasPrefix, Powers

\* mkdir only adds the cgroup that the mark to come refers to.
LEMMA MkdirStep == ASSUME SyncInv, DoMkdir PROVE SyncInv'
<1>1. main \in MainRecords
  BY DEF SyncInv, TypeOK, MainRecords
<1>2. /\ main' \in MainRecords /\ main'.at = "mark"
      /\ main'.job = main.job /\ main'.rule = main.rule /\ main'.rest = main.rest
  BY <1>1, GotoFields DEF DoMkdir, Steps
<1>3. /\ main.at = "mkdir" /\ cgroups' = cgroups \cup {main.rule}
      /\ UNCHANGED <<db, lastId, proxyOn, ruleset, marks, proc, events, undone>>
  BY DEF DoMkdir, dbVars
<1>4. TypeOK'
  BY <1>2, <1>3 DEF SyncInv, TypeOK, MainRecords, StepInv, SetUpSteps
<1>5. StepInv'
  BY <1>2, <1>3 DEF SyncInv, StepInv, SetUpSteps, RemovalSteps
<1>6. TargetInv'
  BY <1>2, <1>3 DEF SyncInv, TargetInv, SetUpSteps, Applies
<1>7. MarkInv'
  BY <1>2, <1>3 DEF SyncInv, MarkInv, UnmarkAhead, RemovalSteps
<1>8. ActiveInv'
  BY <1>2, <1>3 DEF SyncInv, ActiveInv, SetUpAhead, SetUpSteps, Applies
<1>9. IdInv'
  BY <1>3 DEF SyncInv, IdInv, TargetInv, SetUpSteps
<1> QED  BY <1>4, <1>5, <1>6, <1>7, <1>8, <1>9 DEF SyncInv

\* The rule at hand is marked, and its cgroup is there.
LEMMA MarkStep == ASSUME SyncInv, DoMark PROVE SyncInv'
<1>1. main \in MainRecords
  BY DEF SyncInv, TypeOK, MainRecords
<1>2. /\ main' \in MainRecords /\ main'.at = (IF main.job = "start" THEN "each" ELSE "assign")
      /\ main'.job = main.job /\ main'.rule = main.rule /\ main'.rest = main.rest
  BY <1>1, GotoFields DEF DoMark, Steps
<1>3. /\ main.at = "mark" /\ cgroups' = cgroups \cup {main.rule}
      /\ marks' = [marks EXCEPT ![main.rule] = @ + 1] /\ undone' = undone \ {main.rule}
      /\ UNCHANGED <<db, lastId, proxyOn, ruleset, proc, events>>
  BY DEF DoMark, dbVars
<1>4. main.rule \in RuleIds /\ marks \in [RuleIds -> Nat]
  BY <1>3 DEF SyncInv, TypeOK, StepInv, SetUpSteps
<1>5. /\ marks'[main.rule] > 0 /\ marks' \in [RuleIds -> Nat]
      /\ \A r \in RuleIds : r # main.rule => marks'[r] = marks[r]
  BY <1>3, <1>4
<1>6. TypeOK'
  BY <1>2, <1>3, <1>5 DEF SyncInv, TypeOK, MainRecords
<1>7. StepInv'
  BY <1>2, <1>3 DEF SyncInv, StepInv, SetUpSteps, RemovalSteps
<1>8. TargetInv'
  BY <1>2, <1>3 DEF SyncInv, TargetInv, SetUpSteps, Applies
<1>9. MarkInv'
  BY <1>2, <1>3 DEF SyncInv, MarkInv, TargetInv, UnmarkAhead, SetUpSteps, RemovalSteps
<1>10. ActiveInv'
  BY <1>2, <1>3, <1>5 DEF SyncInv, ActiveInv, SetUpAhead, Applies
<1>11. IdInv'
  BY <1>3 DEF SyncInv, IdInv, TargetInv, SetUpSteps
<1> QED  BY <1>6, <1>7, <1>8, <1>9, <1>10, <1>11 DEF SyncInv

\* Processes move only into the cgroup of the rule at hand.
LEMMA AssignStep == ASSUME SyncInv, DoAssign PROVE SyncInv'
<1>1. main \in MainRecords
  BY DEF SyncInv, TypeOK, MainRecords
<1>2. /\ main' \in MainRecords /\ main'.at = (IF main.job = "enable" THEN "each" ELSE "reload")
      /\ main'.job = main.job /\ main'.rule = main.rule /\ main'.rest = main.rest
  BY <1>1, GotoFields DEF DoAssign, Steps
<1>3. /\ main.at = "assign"
      /\ UNCHANGED <<db, lastId, proxyOn, ruleset, cgroups, marks, events, undone>>
  BY DEF DoAssign, dbVars
<1>4. main.rule \in RuleIds /\ proc \in [Pids -> ProcRecords]
  BY <1>3 DEF SyncInv, TypeOK, ProcRecords, StepInv
<1>5. \A p \in Pids : /\ proc'[p] \in ProcRecords
                      /\ \/ proc'[p].cg = proc[p].cg
                         \/ proc'[p].cg = main.rule /\ main.rule \in cgroups
  <2> TAKE p \in Pids
  <2>1. \/ proc'[p] = [proc[p] EXCEPT !.cg = main.rule] /\ main.rule \in cgroups
        \/ proc'[p] = proc[p]
    BY DEF DoAssign
  <2> QED  BY <1>4, <2>1 DEF ProcRecords
<1>6. proc' \in [Pids -> ProcRecords]
  <2>1. proc' = [p \in Pids |-> proc'[p]]  BY DEF DoAssign
  <2>2. \A p \in Pids : proc'[p] \in ProcRecords  BY <1>5
  <2> QED  BY <2>1, <2>2, Zenon
<1>7. TypeOK'
  BY <1>2, <1>3, <1>6 DEF SyncInv, TypeOK, MainRecords, ProcRecords
<1>8. StepInv'
  BY <1>2, <1>3 DEF SyncInv, StepInv, RemovalSteps
<1>9. TargetInv'
  BY <1>2, <1>3 DEF SyncInv, TargetInv, SetUpSteps, Applies
<1>10. MarkInv'
  BY <1>2, <1>3 DEF SyncInv, MarkInv, UnmarkAhead, RemovalSteps
<1>11. ActiveInv'
  BY <1>2, <1>3 DEF SyncInv, ActiveInv, SetUpAhead, SetUpSteps, RemovalSteps, Applies
<1>12. IdInv'
  BY <1>3, <1>4, <1>5 DEF SyncInv, IdInv
<1> QED  BY <1>7, <1>8, <1>9, <1>10, <1>11, <1>12 DEF SyncInv

\* The rule at hand is unmarked; what else lost its mark is in undone.
LEMMA UnmarkStep == ASSUME SyncInv, DoUnmark PROVE SyncInv'
<1>1. main \in MainRecords
  BY DEF SyncInv, TypeOK, MainRecords
<1>2. /\ main' \in MainRecords /\ main'.at = (IF main.job = "delete" THEN "delete" ELSE "list")
      /\ main'.job = main.job /\ main'.rule = main.rule /\ main'.rest = main.rest
  BY <1>1, GotoFields DEF DoUnmark, Steps
<1>3. /\ main.at = "unmark"
      /\ UNCHANGED <<db, lastId, proxyOn, ruleset, cgroups, proc, events>>
  BY DEF DoUnmark, dbVars
<1>4. main.rule \in RuleIds /\ marks \in [RuleIds -> Nat]
  BY <1>3 DEF SyncInv, TypeOK, StepInv
<1>5. /\ marks' \in [RuleIds -> Nat] /\ marks'[main.rule] = 0
      /\ \A r \in RuleIds : marks'[r] # marks[r] => marks'[r] = 0 /\ HasPrefix(r, main.rule)
  <2>1. HasPrefix(main.rule, main.rule)  BY <1>4, PrefixOfItself
  <2> QED  BY <1>4, <2>1 DEF DoUnmark
<1>6. /\ undone' \subseteq RuleIds
      /\ \A r \in RuleIds \ {main.rule} : r \in undone => r \in undone'
      /\ \A r \in RuleIds \ {main.rule} : HasPrefix(r, main.rule) /\ Applies(r) => r \in undone'
  BY DEF DoUnmark, SyncInv, TypeOK
<1>7. TypeOK'
  BY <1>2, <1>3, <1>5, <1>6 DEF SyncInv, TypeOK, MainRecords
<1>8. StepInv'
  BY <1>2, <1>3 DEF SyncInv, StepInv, SetUpSteps
<1>9. TargetInv'
  BY <1>2, <1>3 DEF SyncInv, TargetInv, SetUpSteps, Applies
<1>10. MarkInv'
  BY <1>2, <1>3, <1>5 DEF SyncInv, MarkInv, UnmarkAhead
<1>11. ActiveInv'
  BY <1>2, <1>3, <1>5, <1>6
     DEF SyncInv, ActiveInv, StepInv, TargetInv, SetUpAhead, RemovalSteps, Applies
<1>12. IdInv'
  BY <1>3 DEF SyncInv, IdInv
<1> QED  BY <1>7, <1>8, <1>9, <1>10, <1>11, <1>12 DEF SyncInv

\* Listing the members changes nothing else.
LEMMA ListStep == ASSUME SyncInv, DoList PROVE SyncInv'
<1>1. main \in MainRecords
  BY DEF SyncInv, TypeOK, MainRecords
<1>2. /\ main.at = "list"
      /\ UNCHANGED <<db, lastId, proxyOn, ruleset, cgroups, marks, proc, events, undone>>
  BY DEF DoList, dbVars, kernelVars
<1>3. /\ main' \in MainRecords /\ main'.at = "drain"
      /\ main'.job = main.job /\ main'.rule = main.rule /\ main'.rest = main.rest
  BY <1>1 DEF DoList, MainRecords, Steps, Members
<1>4. TypeOK'
  BY <1>2, <1>3 DEF SyncInv, TypeOK, MainRecords
<1>5. StepInv'
  BY <1>2, <1>3 DEF SyncInv, StepInv, SetUpSteps, RemovalSteps
<1>6. TargetInv'
  BY <1>2, <1>3 DEF SyncInv, TargetInv, SetUpSteps, Applies
<1>7. MarkInv'
  BY <1>2, <1>3 DEF SyncInv, MarkInv, UnmarkAhead, RemovalSteps
<1>8. ActiveInv'
  BY <1>2, <1>3 DEF SyncInv, ActiveInv, SetUpAhead, SetUpSteps, RemovalSteps, Applies
<1>9. IdInv'
  BY <1>2 DEF SyncInv, IdInv
<1> QED  BY <1>4, <1>5, <1>6, <1>7, <1>8, <1>9 DEF SyncInv

\* The listed processes leave every rule.
LEMMA DrainStep == ASSUME SyncInv, DoDrain PROVE SyncInv'
<1>1. main \in MainRecords
  BY DEF SyncInv, TypeOK, MainRecords
<1>2. /\ main.at = "drain"
      /\ UNCHANGED <<db, lastId, proxyOn, ruleset, cgroups, marks, events, undone>>
  BY DEF DoDrain, dbVars
<1>3. /\ main' \in MainRecords /\ main'.at = "rmdir"
      /\ main'.job = main.job /\ main'.rule = main.rule /\ main'.rest = main.rest
  BY <1>1 DEF DoDrain, MainRecords, Steps
<1>4. /\ proc \in [Pids -> ProcRecords]
      /\ lastId \in Nat
  BY SyncAssumption DEF SyncInv, TypeOK, ProcRecords
<1>5. \A p \in Pids : /\ proc'[p] \in ProcRecords
                      /\ proc'[p].cg = proc[p].cg \/ proc'[p].cg = 0
  <2> TAKE p \in Pids
  <2>1. proc'[p] = [proc[p] EXCEPT !.cg = Elsewhere] \/ proc'[p] = proc[p]
    BY DEF DoDrain
  <2> QED  BY <1>4, <2>1 DEF ProcRecords, Elsewhere
<1>6. proc' \in [Pids -> ProcRecords]
  <2>1. proc' = [p \in Pids |-> proc'[p]]  BY DEF DoDrain
  <2>2. \A p \in Pids : proc'[p] \in ProcRecords  BY <1>5
  <2> QED  BY <2>1, <2>2, Zenon
<1>7. TypeOK'
  BY <1>2, <1>3, <1>6 DEF SyncInv, TypeOK, MainRecords, ProcRecords
<1>8. StepInv'
  BY <1>2, <1>3 DEF SyncInv, StepInv, SetUpSteps, RemovalSteps
<1>9. TargetInv'
  BY <1>2, <1>3 DEF SyncInv, TargetInv, SetUpSteps, Applies
<1>10. MarkInv'
  BY <1>2, <1>3 DEF SyncInv, MarkInv, UnmarkAhead, RemovalSteps
<1>11. ActiveInv'
  BY <1>2, <1>3 DEF SyncInv, ActiveInv, SetUpAhead, SetUpSteps, RemovalSteps, Applies
<1>12. IdInv'
  BY <1>2, <1>4, <1>5 DEF SyncInv, IdInv
<1> QED  BY <1>7, <1>8, <1>9, <1>10, <1>11, <1>12 DEF SyncInv

\* When the cgroup goes the mark is gone, or rule.delete removes it next.
LEMMA RmdirStep == ASSUME SyncInv, DoRmdir PROVE SyncInv'
<1>1. main \in MainRecords
  BY DEF SyncInv, TypeOK, MainRecords
<1>2. AfterRmdir \in Steps
  BY DEF AfterRmdir, Steps
<1>3. /\ main' \in MainRecords /\ main'.at = AfterRmdir
      /\ main'.job = main.job /\ main'.rule = main.rule /\ main'.rest = main.rest
  BY <1>1, <1>2, GotoFields DEF DoRmdir
<1>4. /\ main.at = "rmdir" /\ cgroups' \in {cgroups, cgroups \ {main.rule}}
      /\ UNCHANGED <<db, lastId, proxyOn, ruleset, marks, proc, events, undone>>
  BY DEF DoRmdir, dbVars
<1>5. \/ main.job = "delete" /\ AfterRmdir = "unmark"
      \/ main.job = "disable" /\ AfterRmdir = "each"
      \/ main.job = "edit" /\ AfterRmdir = "mkdir" /\ MaySetUp(db[main.rule])
         /\ Exists(db, main.rule)
      \/ main.job = "edit" /\ AfterRmdir = "reload" /\ ~Applies(main.rule)
  <2>1. main.rule \in RuleIds /\ db \in [RuleIds -> StoredRules]
    BY <1>4 DEF SyncInv, TypeOK, StepInv, RemovalSteps
  <2>2. MaySetUp(db[main.rule]) => Exists(db, main.rule)  BY <2>1, SetUpExists
  <2> QED  BY <1>4, <2>2 DEF AfterRmdir, SyncInv, StepInv, RemovalSteps, Applies
<1>6. TypeOK'
  BY <1>3, <1>4 DEF SyncInv, TypeOK, MainRecords
<1>7. StepInv'
  BY <1>3, <1>4, <1>5 DEF SyncInv, StepInv, SetUpSteps, RemovalSteps
<1>8. TargetInv'
  BY <1>3, <1>4, <1>5 DEF SyncInv, TargetInv, SetUpSteps, Applies
<1>9. MarkInv'
  BY <1>3, <1>4, <1>5 DEF SyncInv, MarkInv, UnmarkAhead, RemovalSteps
<1>10. ActiveInv'
  BY <1>3, <1>4, <1>5 DEF SyncInv, ActiveInv, SetUpAhead, SetUpSteps, Applies
<1>11. IdInv'
  BY <1>4 DEF SyncInv, IdInv
<1> QED  BY <1>6, <1>7, <1>8, <1>9, <1>10, <1>11 DEF SyncInv

\* A handler that reloads has nothing left to set up.
LEMMA ReloadStep == ASSUME SyncInv, DoReload PROVE SyncInv'
<1>1. main \in MainRecords
  BY DEF SyncInv, TypeOK, MainRecords
<1>2. /\ main.at = "reload" /\ main' = Idle /\ ruleset' = db
      /\ UNCHANGED <<db, lastId, proxyOn, cgroups, marks, proc, events, undone>>
  BY DEF DoReload, RulesLoad, dbVars, kernelVars
<1>3. main' \in MainRecords /\ main'.at = "loop" /\ main'.job = "none" /\ main'.rest = {}
  BY <1>2, IdleIsTyped
<1>4. TypeOK'
  BY <1>2, <1>3 DEF SyncInv, TypeOK, MainRecords
<1>5. StepInv'
  BY <1>3 DEF SyncInv, StepInv, SetUpSteps, RemovalSteps
<1>6. TargetInv'
  BY <1>3 DEF SyncInv, TargetInv, SetUpSteps
<1>7. MarkInv'
  BY <1>2, <1>3 DEF SyncInv, MarkInv, UnmarkAhead, RemovalSteps
<1>8. ActiveInv'
  BY <1>2 DEF SyncInv, ActiveInv, StepInv, SetUpAhead, SetUpSteps, RemovalSteps, Applies
<1>9. IdInv'
  BY <1>2 DEF SyncInv, IdInv
<1> QED  BY <1>4, <1>5, <1>6, <1>7, <1>8, <1>9 DEF SyncInv

\* The next rule of a walk is one it may set up, or one that does not apply.
LEMMA NextRuleStep == ASSUME SyncInv, NextRule PROVE SyncInv'
<1>1. main \in MainRecords
  BY DEF SyncInv, TypeOK, MainRecords
<1>2. /\ main.at = "each"
      /\ UNCHANGED <<db, lastId, proxyOn, ruleset, cgroups, marks, proc, events, undone>>
  BY DEF NextRule, dbVars, kernelVars
<1>3. PICK r \in main.rest :
        main' = [main EXCEPT !.rule = r, !.rest = @ \ {r},
                             !.at = IF main.job = "disable" THEN "unmark" ELSE "mkdir"]
  BY DEF NextRule, FirstOf
<1>4. /\ main' \in MainRecords /\ main'.job = main.job /\ main'.rule = r /\ r \in RuleIds
      /\ main'.rest = main.rest \ {r}
      /\ main'.at = IF main.job = "disable" THEN "unmark" ELSE "mkdir"
  BY <1>1, <1>3 DEF MainRecords, Steps
<1>5. TypeOK'
  BY <1>2, <1>4 DEF SyncInv, TypeOK, MainRecords
<1>6. StepInv'
  BY <1>2, <1>4 DEF SyncInv, StepInv, SetUpSteps, RemovalSteps
<1>7. TargetInv'
  BY <1>2, <1>4 DEF SyncInv, TargetInv, StepInv, SetUpSteps, Applies
<1>8. MarkInv'
  BY <1>2, <1>4 DEF SyncInv, MarkInv, UnmarkAhead, RemovalSteps
<1>9. ActiveInv'
  BY <1>2, <1>4 DEF SyncInv, ActiveInv, SetUpAhead, SetUpSteps, RemovalSteps, Applies
<1>10. IdInv'
  BY <1>2 DEF SyncInv, IdInv
<1> QED  BY <1>5, <1>6, <1>7, <1>8, <1>9, <1>10 DEF SyncInv

\* A walk ends when it has no rule left.
LEMMA EndOfRulesStep == ASSUME SyncInv, EndOfRules PROVE SyncInv'
<1>1. main \in MainRecords
  BY DEF SyncInv, TypeOK, MainRecords
<1>2. /\ main.at = "each" /\ main.rest = {}
      /\ UNCHANGED <<db, lastId, proxyOn, ruleset, cgroups, marks, proc, events, undone>>
  BY DEF EndOfRules, dbVars, kernelVars
<1>3. /\ main' \in MainRecords /\ main'.rest = {}
      /\ \/ main'.at = "loop" /\ main'.job = "none"
         \/ main'.at = "listen" /\ main'.job = "start"
  <2>1. Task("start", 0, "listen") \in MainRecords /\ Task("start", 0, "listen").rest = {}
        /\ Task("start", 0, "listen").at = "listen" /\ Task("start", 0, "listen").job = "start"
    BY TaskFields DEF Jobs, Steps
  <2> QED  BY <2>1, IdleIsTyped DEF EndOfRules
<1>4. TypeOK'
  BY <1>2, <1>3 DEF SyncInv, TypeOK, MainRecords
<1>5. StepInv'
  BY <1>3 DEF SyncInv, StepInv, SetUpSteps, RemovalSteps
<1>6. TargetInv'
  BY <1>3 DEF SyncInv, TargetInv, SetUpSteps
<1>7. MarkInv'
  BY <1>2, <1>3 DEF SyncInv, MarkInv, UnmarkAhead, RemovalSteps
<1>8. ActiveInv'
  BY <1>2 DEF SyncInv, ActiveInv, SetUpAhead, SetUpSteps, RemovalSteps, Applies
<1>9. IdInv'
  BY <1>2 DEF SyncInv, IdInv
<1> QED  BY <1>4, <1>5, <1>6, <1>7, <1>8, <1>9 DEF SyncInv

\* Start-up ends with every rule set up.
LEMMA ListenStep == ASSUME SyncInv, DoListen PROVE SyncInv'
<1>1. main \in MainRecords
  BY DEF SyncInv, TypeOK, MainRecords
<1>2. /\ main.at = "listen" /\ main' = Idle
      /\ UNCHANGED <<db, lastId, proxyOn, ruleset, cgroups, marks, proc, events, undone>>
  BY DEF DoListen, dbVars, kernelVars
<1>3. main' \in MainRecords /\ main'.at = "loop" /\ main'.job = "none" /\ main'.rest = {}
  BY <1>2, IdleIsTyped
<1>4. main.rest = {}
  BY <1>2 DEF SyncInv, StepInv
<1>5. TypeOK'
  BY <1>2, <1>3 DEF SyncInv, TypeOK, MainRecords
<1>6. StepInv'
  BY <1>3 DEF SyncInv, StepInv, SetUpSteps, RemovalSteps
<1>7. TargetInv'
  BY <1>3 DEF SyncInv, TargetInv, SetUpSteps
<1>8. MarkInv'
  BY <1>2, <1>3 DEF SyncInv, MarkInv, UnmarkAhead, RemovalSteps
<1>9. ActiveInv'
  BY <1>2, <1>4 DEF SyncInv, ActiveInv, SetUpAhead, SetUpSteps, RemovalSteps, Applies
<1>10. IdInv'
  BY <1>2 DEF SyncInv, IdInv
<1> QED  BY <1>5, <1>6, <1>7, <1>8, <1>9, <1>10 DEF SyncInv

\* The row goes after its mark; if the DELETE fails the rule is in undone.
LEMMA DeleteStep == ASSUME SyncInv, DoDelete PROVE SyncInv'
<1>1. main \in MainRecords
  BY DEF SyncInv, TypeOK, MainRecords
<1>2. /\ main.at = "delete" /\ main.job = "delete" /\ main.rule \in RuleIds
      /\ UNCHANGED <<lastId, proxyOn, ruleset, cgroups, marks, proc, events>>
  BY DEF DoDelete, kernelVars, SyncInv, StepInv
<1>3. /\ main' \in MainRecords
      /\ \/ main'.at = "loop" /\ main'.job = "none" /\ main'.rest = {}
         \/ main'.at = "reload" /\ main'.job = "delete"
  BY <1>1, <1>2, IdleIsTyped, GotoFields DEF DoDelete, Steps
<1>4. \/ /\ db' = [db EXCEPT ![main.rule] = NoRule] /\ undone' = undone
      \/ /\ db' = db /\ undone' \in {undone, undone \cup {main.rule}}
         /\ Applies(main.rule) => main.rule \in undone'
  BY DEF DoDelete
<1>5. db \in [RuleIds -> StoredRules] /\ db' \in [RuleIds -> StoredRules]
  BY <1>2, <1>4 DEF SyncInv, TypeOK, StoredRules
<1>6. \A r \in RuleIds : Exists(db, r)' => db'[r] = db[r]
                        /\ (r # main.rule \/ (Applies(r) => r \in undone'))
  <2>1. NoRule.act = "none"  BY DEF NoRule
  <2> QED  BY <1>2, <1>4, <1>5, <2>1 DEF Exists
<1>7. TypeOK'
  BY <1>2, <1>3, <1>4, <1>5 DEF SyncInv, TypeOK, MainRecords
<1>8. StepInv'
  BY <1>3 DEF SyncInv, StepInv, SetUpSteps, RemovalSteps
<1>9. TargetInv'
  BY <1>3 DEF SyncInv, TargetInv, SetUpSteps
<1>10. MarkInv'
  BY <1>2, <1>3, <1>4, <1>5 DEF SyncInv, MarkInv, UnmarkAhead, RemovalSteps, Exists
<1>11. ActiveInv'
  <2> SUFFICES ASSUME NEW r \in RuleIds, Applies(r)', r \notin undone', main'.at # "down"
               PROVE  (marks[r] > 0 \/ SetUpAhead(r))'
    BY DEF ActiveInv
  <2>1. db'[r] = db[r] /\ (r # main.rule \/ (Applies(r) => r \in undone'))
    BY <1>6 DEF Applies
  <2>2. Applies(r)  BY <1>2, <2>1 DEF Applies, Exists
  <2>3. r # main.rule /\ r \notin undone  BY <1>4, <2>1, <2>2
  <2>4. marks[r] > 0 \/ SetUpAhead(r)  BY <1>2, <2>2, <2>3 DEF SyncInv, ActiveInv
  <2>5. ~SetUpAhead(r)  BY <1>2, <2>3 DEF SetUpAhead, SetUpSteps, RemovalSteps
  <2> QED  BY <1>2, <2>4, <2>5
<1>12. IdInv'
  BY <1>2, <1>6 DEF SyncInv, IdInv, Exists
<1> QED  BY <1>7, <1>8, <1>9, <1>10, <1>11, <1>12 DEF SyncInv

\* An UPDATE of a priority changes no rule's effect.
LEMMA PriorityStep == ASSUME SyncInv, DoPriority PROVE SyncInv'
<1>1. main \in MainRecords
  BY DEF SyncInv, TypeOK, MainRecords
<1>2. /\ main.at = "prio" /\ main.n \in 1..Len(main.ids) /\ main.ids \in Seq(RuleIds)
      /\ UNCHANGED <<lastId, proxyOn, ruleset, cgroups, marks, proc, events, undone>>
  BY DEF DoPriority, kernelVars, SyncInv, StepInv, TypeOK
<1>3. PICK ok \in BOOLEAN :
        /\ db' = IF ok THEN [db EXCEPT ![main.ids[main.n]].prio = main.n - 1] ELSE db
        /\ main' = IF main.n < Len(main.ids)
                   THEN [main EXCEPT !.n = @ + 1, !.ok = @ /\ ok]
                   ELSE IF main.ok /\ ok THEN Task("reorder", 0, "reload") ELSE Idle
  BY SyncAssumption DEF DoPriority
<1>4. PICK id \in RuleIds : id = main.ids[main.n] /\ Exists(db, id)
  BY <1>2 DEF SyncInv, StepInv
<1>5. /\ db \in [RuleIds -> StoredRules] /\ db[id] # NoRule /\ main.n \in Nat
      /\ main.n - 1 \in Nat
  BY <1>2, <1>4 DEF SyncInv, TypeOK, Exists, NoRule
<1>6. /\ db' \in [RuleIds -> StoredRules]
      /\ \A r \in RuleIds : /\ db'[r].app = db[r].app /\ db'[r].act = db[r].act
                            /\ db'[r].on = db[r].on /\ db'[r].proxy = db[r].proxy
  <2>1. CASE ok
    <3>1. db[id] \in [app : Apps \cup {NoApp}, on : BOOLEAN, act : Actions,
                       prio : Nat, proxy : Proxies]
      BY <1>5 DEF StoredRules
    <3>2. [db[id] EXCEPT !.prio = main.n - 1] \in StoredRules  BY <1>5, <3>1 DEF StoredRules
    <3>3. db' = [db EXCEPT ![id] = [db[id] EXCEPT !.prio = main.n - 1]]
      BY <1>3, <1>4, <2>1
    <3> QED  BY <1>5, <3>1, <3>2, <3>3
  <2>2. CASE ~ok  BY <1>3, <1>5, <2>2
  <2> QED  BY <2>1, <2>2
<1>7. \A r \in RuleIds : /\ Exists(db, r) => Exists(db, r)'
                         /\ Exists(db, r)' => Exists(db, r)
                         /\ MaySetUp(db[r]) => MaySetUp(db[r])'
                         /\ Applies(r)' => Applies(r)
  BY <1>2, <1>6 DEF Exists, MaySetUp, Applies
<1>8. /\ main' \in MainRecords
      /\ \/ /\ main'.at = "prio" /\ main'.job = main.job /\ main'.ids = main.ids
            /\ main'.rest = main.rest /\ main'.n \in 1..Len(main.ids)
         \/ main'.at = "reload" /\ main'.job = "reorder" /\ main'.rest = {}
         \/ main'.at = "loop" /\ main'.job = "none" /\ main'.rest = {}
  <2>1. CASE main.n < Len(main.ids)
    <3>1. main' = [main EXCEPT !.n = main.n + 1, !.ok = main.ok /\ ok]  BY <1>3, <2>1, Zenon
    <3>2. PICK b \in BOOLEAN : b = (main.ok /\ ok)  BY Zenon
    <3>3. main' = [main EXCEPT !.n = main.n + 1, !.ok = b]  BY <3>1, <3>2, Zenon
    <3>4. PICK k \in Nat : k = main.n + 1 /\ k \in 1..Len(main.ids)  BY <1>2, <2>1
    <3>5. main' = [main EXCEPT !.n = k, !.ok = b]  BY <3>3, <3>4
    <3>6. main' \in MainRecords  BY <1>1, <3>5 DEF MainRecords
    <3>7. /\ main'.at = main.at /\ main'.job = main.job /\ main'.ids = main.ids
          /\ main'.rest = main.rest /\ main'.n = k
      BY <1>1, <3>5 DEF MainRecords
    <3> QED  BY <1>2, <3>4, <3>6, <3>7
  <2>2. CASE ~(main.n < Len(main.ids))
    <3>1. main' = Task("reorder", 0, "reload") \/ main' = Idle  BY <1>3, <2>2
    <3>2. /\ Task("reorder", 0, "reload") \in MainRecords
          /\ Task("reorder", 0, "reload").at = "reload"
          /\ Task("reorder", 0, "reload").job = "reorder"
          /\ Task("reorder", 0, "reload").rest = {}
      BY TaskFields DEF Jobs, Steps
    <3> QED  BY <3>1, <3>2, IdleIsTyped
  <2> QED  BY <2>1, <2>2
<1>9. TypeOK'
  BY <1>2, <1>6, <1>8 DEF SyncInv, TypeOK, MainRecords
<1>10. StepInv'
  <2>1. main'.at = "prio" => \A i \in 1..Len(main.ids) : Exists(db, main.ids[i])'
    BY <1>2, <1>7, <1>8 DEF SyncInv, StepInv
  <2> QED  BY <1>2, <1>8, <2>1 DEF SyncInv, StepInv, SetUpSteps, RemovalSteps
<1>11. TargetInv'
  BY <1>7, <1>8 DEF SyncInv, TargetInv, SetUpSteps, TypeOK
<1>12. MarkInv'
  BY <1>2, <1>7, <1>8 DEF SyncInv, MarkInv, UnmarkAhead, RemovalSteps
<1>13. ActiveInv'
  BY <1>2, <1>7 DEF SyncInv, ActiveInv, StepInv, SetUpAhead
<1>14. IdInv'
  BY <1>2, <1>7 DEF SyncInv, IdInv
<1> QED  BY <1>9, <1>10, <1>11, <1>12, <1>13, <1>14 DEF SyncInv

-----------------------------------------------------------------------------
(* The handlers. *)

\* In the loop nothing is pending: what the two invariants leave to the rest of
\* a handler has happened.
LEMMA NothingPending ==
    ASSUME SyncInv, Quiet
    PROVE  /\ main.job = "none"
           /\ \A r \in RuleIds : marks[r] > 0 =>
                r \in cgroups /\ Exists(db, r) /\ MaySetUp(db[r])
           /\ \A r \in RuleIds : Applies(r) /\ r \notin undone => marks[r] > 0
<1>1. main.at = "loop" /\ main.job = "none"  BY DEF SyncInv, StepInv, Quiet
<1>2. \A r \in RuleIds : ~UnmarkAhead(r) /\ ~SetUpAhead(r)
  BY <1>1 DEF UnmarkAhead, SetUpAhead, SetUpSteps, RemovalSteps
<1> QED  BY <1>1, <1>2 DEF SyncInv, MarkInv, ActiveInv

\* A new rule has an id above all others, hence no mark, and is set up next.
LEMMA RuleAddStep == ASSUME SyncInv, NEW rule \in Rules, RuleAdd(rule) PROVE SyncInv'
<1>1. /\ main.at = "loop" /\ main.job = "none" /\ db \in [RuleIds -> StoredRules]
      /\ marks \in [RuleIds -> Nat]
      /\ \A r \in RuleIds : marks[r] > 0 => r \in cgroups /\ Exists(db, r) /\ MaySetUp(db[r])
      /\ \A r \in RuleIds : Applies(r) /\ r \notin undone => marks[r] > 0
  BY NothingPending DEF RuleAdd, Quiet, SyncInv, TypeOK
<1>2. PICK r \in RuleIds :
        /\ r > lastId /\ db' = [db EXCEPT ![r] = rule] /\ lastId' = r
        /\ main' = Task("add", r, IF MaySetUp(rule) THEN "mkdir" ELSE "reload")
  BY DEF RuleAdd
<1>3. UNCHANGED <<proxyOn, ruleset, cgroups, marks, proc, events, undone>>
  BY DEF RuleAdd, kernelVars
<1>4. /\ main' \in MainRecords /\ main'.job = "add" /\ main'.rule = r
      /\ main'.at = (IF MaySetUp(rule) THEN "mkdir" ELSE "reload") /\ main'.rest = {}
  BY <1>2, TaskFields DEF Jobs, Steps
<1>5. /\ r \in Nat /\ lastId \in Nat /\ ~Exists(db, r) /\ marks[r] = 0
      /\ \A p \in Pids : proc[p].cg \in Nat
  <2>1. r \in Nat /\ lastId \in Nat  BY SyncAssumption DEF SyncInv, TypeOK
  <2>2. ~Exists(db, r)  BY <1>2, <2>1 DEF SyncInv, IdInv
  <2>3. \A p \in Pids : proc[p].cg \in RuleIds \cup {0}  BY DEF SyncInv, TypeOK, Elsewhere
  <2>4. \A k \in RuleIds \cup {0} : k \in Nat  BY SyncAssumption
  <2>5. marks[r] = 0  BY <1>1, <2>2
  <2> QED  BY <2>1, <2>2, <2>3, <2>4, <2>5
<1>6. /\ rule \in StoredRules /\ rule.act # "none" /\ db' \in [RuleIds -> StoredRules]
      /\ db'[r] = rule /\ \A q \in RuleIds : q # r => db'[q] = db[q]
  <2>1. rule \in [app : Apps \cup {NoApp}, on : BOOLEAN, act : Actions,
                  prio : Nat, proxy : Proxies]
    BY SyncAssumption
  <2>2. rule \in StoredRules /\ rule.act # "none"  BY <2>1 DEF StoredRules, Actions
  <2> QED  BY <1>1, <1>2, <2>2
<1>7. TypeOK'
  BY <1>2, <1>3, <1>4, <1>6 DEF SyncInv, TypeOK, MainRecords
<1>8. StepInv'
  BY <1>4 DEF SyncInv, StepInv, RemovalSteps
<1>9. TargetInv'
  BY <1>4, <1>6 DEF SyncInv, TargetInv, SetUpSteps, Exists
<1>10. MarkInv'
  BY <1>1, <1>3, <1>4, <1>5, <1>6 DEF SyncInv, MarkInv, Exists
<1>11. ActiveInv'
  BY <1>1, <1>3, <1>4, <1>6 DEF ActiveInv, SetUpAhead, SetUpSteps, Applies, Exists, MaySetUp
<1>12. IdInv'
  BY <1>2, <1>3, <1>5, <1>6 DEF SyncInv, IdInv, Exists
<1> QED  BY <1>7, <1>8, <1>9, <1>10, <1>11, <1>12 DEF SyncInv

\* The edited rule is unmarked next, and set up again if it applies.
LEMMA RuleEditStep ==
    ASSUME SyncInv, NEW r \in RuleIds, NEW rule \in Rules, RuleEdit(r, rule)
    PROVE  SyncInv'
<1>1. /\ main.at = "loop" /\ main.job = "none" /\ db \in [RuleIds -> StoredRules]
      /\ marks \in [RuleIds -> Nat]
      /\ \A q \in RuleIds : marks[q] > 0 => q \in cgroups /\ Exists(db, q) /\ MaySetUp(db[q])
      /\ \A q \in RuleIds : Applies(q) /\ q \notin undone => marks[q] > 0
  BY NothingPending DEF RuleEdit, Quiet, SyncInv, TypeOK
<1>2. /\ Exists(db, r) /\ db' = [db EXCEPT ![r] = rule] /\ main' = Task("edit", r, "unmark")
      /\ UNCHANGED <<lastId, proxyOn, ruleset, cgroups, marks, proc, events, undone>>
  BY DEF RuleEdit, kernelVars
<1>3. /\ main' \in MainRecords /\ main'.job = "edit" /\ main'.rule = r
      /\ main'.at = "unmark" /\ main'.rest = {}
  BY <1>2, TaskFields DEF Jobs, Steps
<1>4. /\ rule \in StoredRules /\ rule.act # "none" /\ db' \in [RuleIds -> StoredRules]
      /\ db'[r] = rule /\ \A q \in RuleIds : q # r => db'[q] = db[q]
  <2>1. rule \in [app : Apps \cup {NoApp}, on : BOOLEAN, act : Actions,
                  prio : Nat, proxy : Proxies]
    BY SyncAssumption
  <2>2. rule \in StoredRules /\ rule.act # "none"  BY <2>1 DEF StoredRules, Actions
  <2> QED  BY <1>1, <1>2, <2>2
<1>5. TypeOK'
  BY <1>2, <1>3, <1>4 DEF SyncInv, TypeOK, MainRecords
<1>6. StepInv'
  BY <1>3 DEF SyncInv, StepInv
<1>7. TargetInv'
  BY <1>3 DEF SyncInv, TargetInv, SetUpSteps
<1>8. MarkInv'
  BY <1>1, <1>2, <1>3 DEF SyncInv, MarkInv, UnmarkAhead, RemovalSteps, Exists
<1>9. ActiveInv'
  BY <1>1, <1>2, <1>3 DEF SyncInv, ActiveInv, SetUpAhead, Applies, Exists
<1>10. IdInv'
  BY <1>2 DEF SyncInv, IdInv, Exists
<1> QED  BY <1>5, <1>6, <1>7, <1>8, <1>9, <1>10 DEF SyncInv

\* The mark of the rule to be deleted is removed before the row.
LEMMA RuleDeleteStep == ASSUME SyncInv, NEW r \in RuleIds, RuleDelete(r) PROVE SyncInv'
<1>1. /\ main.at = "loop" /\ main.job = "none" /\ db \in [RuleIds -> StoredRules]
      /\ marks \in [RuleIds -> Nat]
      /\ \A q \in RuleIds : marks[q] > 0 => q \in cgroups /\ Exists(db, q) /\ MaySetUp(db[q])
      /\ \A q \in RuleIds : Applies(q) /\ q \notin undone => marks[q] > 0
  BY NothingPending DEF RuleDelete, Quiet, SyncInv, TypeOK
<1>2. /\ main' = Task("delete", r, "list")
      /\ UNCHANGED <<db, lastId, proxyOn, ruleset, cgroups, marks, proc, events, undone>>
  BY DEF RuleDelete, dbVars, kernelVars
<1>3. /\ main' \in MainRecords /\ main'.job = "delete" /\ main'.rule = r
      /\ main'.at = "list" /\ main'.rest = {}
  BY <1>2, TaskFields DEF Jobs, Steps
<1>4. TypeOK'
  BY <1>2, <1>3 DEF SyncInv, TypeOK, MainRecords
<1>5. StepInv'
  BY <1>3 DEF SyncInv, StepInv, SetUpSteps
<1>6. TargetInv'
  BY <1>3 DEF SyncInv, TargetInv, SetUpSteps
<1>7. MarkInv'
  BY <1>1, <1>2, <1>3 DEF SyncInv, MarkInv
<1>8. ActiveInv'
  BY <1>1, <1>2 DEF SyncInv, ActiveInv, Applies
<1>9. IdInv'
  BY <1>2 DEF SyncInv, IdInv
<1> QED  BY <1>4, <1>5, <1>6, <1>7, <1>8, <1>9 DEF SyncInv

\* The ids a client sends are those of stored rules.
LEMMA RuleReorderStep ==
    ASSUME SyncInv, NEW order \in Orders, RuleReorder(order)
    PROVE  SyncInv'
<1>1. /\ main.at = "loop" /\ main.job = "none" /\ db \in [RuleIds -> StoredRules]
      /\ marks \in [RuleIds -> Nat]
      /\ \A r \in RuleIds : marks[r] > 0 => r \in cgroups /\ Exists(db, r) /\ MaySetUp(db[r])
      /\ \A r \in RuleIds : Applies(r) /\ r \notin undone => marks[r] > 0
  BY NothingPending DEF RuleReorder, Quiet, SyncInv, TypeOK
<1>2. UNCHANGED <<db, lastId, proxyOn, ruleset, cgroups, marks, proc, events, undone>>
  BY DEF RuleReorder, dbVars, kernelVars
<1>3. /\ order \in Seq(RuleIds) /\ \A i \in 1..Len(order) : Exists(db, order[i])
      /\ order # <<>> => 1 \in 1..Len(order)
  <2> DEFINE stored == {r \in RuleIds : Exists(db, r)}
  <2>1. PICK k : k = Cardinality(stored)  OBVIOUS
  <2>2. k \in Nat  BY <2>1, SyncAssumption, FS_Subset, FS_CardinalityType
  <2>3. order \in [1..k -> stored]  BY <2>1 DEF Orders
  <2>4. order \in Seq(stored) /\ Len(order) = k  BY <2>2, <2>3
  <2> QED  BY <2>2, <2>3, <2>4
<1>4. /\ main' \in MainRecords /\ main'.job = "reorder" /\ main'.rest = {}
      /\ \/ main'.at = "reload"
         \/ main'.at = "prio" /\ main'.ids = order /\ main'.n = 1 /\ order # <<>>
  <2>1. CASE order = <<>>
    BY <2>1, TaskFields DEF RuleReorder, Jobs, Steps
  <2>2. CASE order # <<>>
    <3>1. main' = [Task("reorder", 0, "prio") EXCEPT !.ids = order]  BY <2>2 DEF RuleReorder
    <3> QED  BY <1>3, <2>2, <3>1 DEF Task, Idle, MainRecords, Jobs, Steps
  <2> QED  BY <2>1, <2>2
<1>5. TypeOK'
  BY <1>2, <1>4 DEF SyncInv, TypeOK, MainRecords
<1>6. StepInv'
  BY <1>2, <1>3, <1>4 DEF SyncInv, StepInv, SetUpSteps, RemovalSteps
<1>7. TargetInv'
  BY <1>4 DEF SyncInv, TargetInv, SetUpSteps
<1>8. MarkInv'
  BY <1>1, <1>2, <1>4 DEF SyncInv, MarkInv, RemovalSteps
<1>9. ActiveInv'
  BY <1>1, <1>2 DEF SyncInv, ActiveInv, Applies
<1>10. IdInv'
  BY <1>2 DEF SyncInv, IdInv
<1> QED  BY <1>5, <1>6, <1>7, <1>8, <1>9, <1>10 DEF SyncInv

\* Only rules of the toggled proxy begin or cease to apply: the walk has them.
LEMMA ProxyEditStep == ASSUME SyncInv, NEW x \in Proxies, ProxyEdit(x) PROVE SyncInv'
<1>1. /\ main.at = "loop" /\ main.job = "none" /\ db \in [RuleIds -> StoredRules]
      /\ marks \in [RuleIds -> Nat]
      /\ \A r \in RuleIds : marks[r] > 0 => r \in cgroups /\ Exists(db, r) /\ MaySetUp(db[r])
      /\ \A r \in RuleIds : Applies(r) /\ r \notin undone => marks[r] > 0
  BY NothingPending DEF ProxyEdit, Quiet, SyncInv, TypeOK
<1>2. /\ proxyOn' = [proxyOn EXCEPT ![x] = ~@]
      /\ UNCHANGED <<db, lastId, ruleset, cgroups, marks, proc, events, undone>>
  BY DEF ProxyEdit, kernelVars
<1>3. /\ main' \in MainRecords /\ main'.at = "each"
      /\ main'.job = (IF proxyOn[x] THEN "disable" ELSE "enable")
      /\ main'.rest = {r \in RuleIds : UsesProxy(r, x)}
  BY WalkFields DEF ProxyEdit, Jobs
<1>4. /\ proxyOn \in [Proxies -> BOOLEAN] /\ proxyOn' \in [Proxies -> BOOLEAN]
      /\ proxyOn'[x] = ~proxyOn[x]
      /\ \A y \in Proxies : y # x => proxyOn'[y] = proxyOn[y]
  BY <1>2 DEF SyncInv, TypeOK
<1>5. TypeOK'
  BY <1>2, <1>3 DEF SyncInv, TypeOK, MainRecords
<1>6. StepInv'
  BY <1>3 DEF SyncInv, StepInv, SetUpSteps, RemovalSteps
<1>7. TargetInv'
  <2>1. \A r \in RuleIds : UsesProxy(r, x) => Exists(db, r) /\ MaySetUp(db[r])
    BY DEF UsesProxy, Exists, MaySetUp
  <2>2. proxyOn[x] => \A r \in RuleIds : UsesProxy(r, x) => ~Applies(r)'
    BY <1>2, <1>4 DEF UsesProxy, Applies
  <2> QED  BY <1>2, <1>3, <2>1, <2>2 DEF TargetInv, SetUpSteps
<1>8. MarkInv'
  BY <1>1, <1>2, <1>3 DEF SyncInv, MarkInv, RemovalSteps
<1>9. ActiveInv'
  <2> SUFFICES ASSUME NEW r \in RuleIds, Applies(r)', r \notin undone
               PROVE  marks[r] > 0 \/ (~proxyOn[x] /\ UsesProxy(r, x))
    BY <1>2, <1>3 DEF ActiveInv, SetUpAhead
  <2>1. CASE Applies(r)  BY <1>1, <2>1
  <2>2. CASE ~Applies(r)
    <3>1. /\ Exists(db, r) /\ MaySetUp(db[r]) /\ db[r].on
          /\ db[r].act = "PROXY" => proxyOn'[db[r].proxy]
      BY <1>2 DEF Applies
    <3>2. db[r].act = "PROXY" /\ ~proxyOn[db[r].proxy]  BY <2>2, <3>1 DEF Applies
    <3>3. db[r].proxy \in Proxies
      <4>1. db[r] # NoRule  BY <3>2 DEF NoRule
      <4> QED  BY <1>1, <4>1 DEF StoredRules
    <3>4. db[r].proxy = x  BY <1>4, <3>1, <3>2, <3>3
    <3> QED  BY <3>1, <3>2, <3>4 DEF UsesProxy, MaySetUp
  <2> QED  BY <2>1, <2>2
<1>10. IdInv'
  BY <1>2 DEF SyncInv, IdInv
<1> QED  BY <1>5, <1>6, <1>7, <1>8, <1>9, <1>10 DEF SyncInv

\* SIGHUP only reloads.
LEMMA HangupStep == ASSUME SyncInv, Hangup PROVE SyncInv'
<1>1. /\ main.at = "loop" /\ main.job = "none" /\ db \in [RuleIds -> StoredRules]
      /\ marks \in [RuleIds -> Nat]
      /\ \A r \in RuleIds : marks[r] > 0 => r \in cgroups /\ Exists(db, r) /\ MaySetUp(db[r])
      /\ \A r \in RuleIds : Applies(r) /\ r \notin undone => marks[r] > 0
  BY NothingPending DEF Hangup, Quiet, SyncInv, TypeOK
<1>2. /\ main' = Task("hangup", 0, "reload")
      /\ UNCHANGED <<db, lastId, proxyOn, ruleset, cgroups, marks, proc, events, undone>>
  BY DEF Hangup, dbVars, kernelVars
<1>3. /\ main' \in MainRecords /\ main'.job = "hangup" /\ main'.rule = 0
      /\ main'.at = "reload" /\ main'.rest = {}
  BY <1>2, TaskFields DEF Jobs, Steps
<1>4. TypeOK'
  BY <1>2, <1>3 DEF SyncInv, TypeOK, MainRecords
<1>5. StepInv'
  BY <1>3 DEF SyncInv, StepInv, SetUpSteps, RemovalSteps
<1>6. TargetInv'
  BY <1>3 DEF SyncInv, TargetInv, SetUpSteps
<1>7. MarkInv'
  BY <1>1, <1>2, <1>3 DEF SyncInv, MarkInv, RemovalSteps
<1>8. ActiveInv'
  BY <1>1, <1>2 DEF SyncInv, ActiveInv, Applies
<1>9. IdInv'
  BY <1>2 DEF SyncInv, IdInv
<1> QED  BY <1>4, <1>5, <1>6, <1>7, <1>8, <1>9 DEF SyncInv

-----------------------------------------------------------------------------
(* Processes and the monitor. *)

\* A step that only moves processes and queues events.
LEMMA ProcessStep ==
    ASSUME SyncInv,
           UNCHANGED <<db, lastId, proxyOn, ruleset, cgroups, marks, main, undone>>,
           proc' \in [Pids -> ProcRecords], \A p \in Pids : proc'[p].cg <= lastId,
           events' \in Seq(EventRecords)
    PROVE  SyncInv'
<1>1. TypeOK'  BY DEF SyncInv, TypeOK, ProcRecords, EventRecords
<1>2. StepInv'  BY DEF SyncInv, StepInv, Exists
<1>3. TargetInv'  BY DEF SyncInv, TargetInv, Exists, MaySetUp, Applies
<1>4. MarkInv'  BY DEF SyncInv, MarkInv, UnmarkAhead, Exists, MaySetUp
<1>5. ActiveInv'  BY DEF SyncInv, ActiveInv, SetUpAhead, Applies, Exists, MaySetUp
<1>6. IdInv'  BY DEF SyncInv, IdInv, Exists
<1> QED  BY <1>1, <1>2, <1>3, <1>4, <1>5, <1>6 DEF SyncInv

\* Where the processes are.
LEMMA ProcessesTyped ==
    ASSUME SyncInv
    PROVE  /\ proc \in [Pids -> ProcRecords] /\ lastId \in Nat
           /\ \A p \in Pids : proc[p].cg <= lastId
           /\ \A r \in cgroups : r \in RuleIds /\ r <= lastId
           /\ events \in Seq(EventRecords)
BY SyncAssumption DEF SyncInv, TypeOK, IdInv, ProcRecords, EventRecords

\* One process moved to a cgroup that exists, or to none.
LEMMA MoveIsTyped ==
    ASSUME SyncInv, NEW p \in Pids, NEW r \in cgroups \cup {Elsewhere},
           proc' = [proc EXCEPT ![p].cg = r]
    PROVE  proc' \in [Pids -> ProcRecords] /\ \A o \in Pids : proc'[o].cg <= lastId
<1>1. /\ proc \in [Pids -> ProcRecords] /\ lastId \in Nat
      /\ r \in RuleIds \cup {Elsewhere} /\ r <= lastId
  BY ProcessesTyped DEF Elsewhere
<1>2. [proc[p] EXCEPT !.cg = r] \in ProcRecords /\ [proc[p] EXCEPT !.cg = r].cg = r
  BY <1>1 DEF ProcRecords
<1>3. proc' = [proc EXCEPT ![p] = [proc[p] EXCEPT !.cg = r]]  OBVIOUS
<1> QED  BY <1>1, <1>2, <1>3, ProcessesTyped

\* exec moves a process into a cgroup that exists, exit out of all.
LEMMA MonitorStep == ASSUME SyncInv, MonitorEvent PROVE SyncInv'
<1>1. /\ events \in Seq(EventRecords) /\ events # <<>>
      /\ events' = Tail(events)
      /\ UNCHANGED <<db, lastId, proxyOn, ruleset, cgroups, marks, main, undone>>
  BY ProcessesTyped DEF MonitorEvent, dbVars
<1>2. PICK p \in Pids : p = Head(events).pid
  <2>1. Head(events) \in EventRecords  BY <1>1
  <2> QED  BY <2>1 DEF EventRecords
<1>3. \/ UNCHANGED proc
      \/ \E r \in cgroups \cup {Elsewhere} : proc' = [proc EXCEPT ![p].cg = r]
  <2>1. OnExec(p) \/ OnExit(p)  BY <1>2 DEF MonitorEvent
  <2>2. CASE OnExec(p)  BY <2>2 DEF OnExec
  <2>3. CASE OnExit(p)  BY <2>3 DEF OnExit
  <2> QED  BY <2>1, <2>2, <2>3
<1>4. proc' \in [Pids -> ProcRecords] /\ \A o \in Pids : proc'[o].cg <= lastId
  BY <1>3, MoveIsTyped, ProcessesTyped
<1>5. events' \in Seq(EventRecords)  BY <1>1
<1> QED  BY <1>1, <1>4, <1>5, ProcessStep

\* A queued event names a process.
LEMMA TellIsTyped ==
    ASSUME SyncInv, NEW p \in Pids, NEW b \in BOOLEAN, Tell(p, b)
    PROVE  events' \in Seq(EventRecords)
<1>1. events \in Seq(EventRecords)  BY ProcessesTyped
<1>2. [pid |-> p, exec |-> b] \in EventRecords  BY DEF EventRecords
<1>3. events' = events \/ events' = Append(events, [pid |-> p, exec |-> b])  BY DEF Tell
<1> QED  BY <1>1, <1>2, <1>3

\* A process that execs keeps its cgroup.
LEMMA ExecStep ==
    ASSUME SyncInv, NEW p \in Pids, NEW a \in Apps, Exec(p, a)
    PROVE  SyncInv'
<1>1. /\ UNCHANGED <<db, lastId, proxyOn, ruleset, cgroups, marks, main, undone>>
      /\ proc' = [proc EXCEPT ![p] = [proc[p] EXCEPT !.exe = a]] /\ Tell(p, TRUE)
  BY DEF Exec, dbVars
<1>2. /\ [proc[p] EXCEPT !.exe = a] \in ProcRecords
      /\ [proc[p] EXCEPT !.exe = a].cg = proc[p].cg
  BY ProcessesTyped DEF ProcRecords
<1>3. proc' \in [Pids -> ProcRecords] /\ \A o \in Pids : proc'[o].cg <= lastId
  BY <1>1, <1>2, ProcessesTyped
<1> QED  BY <1>1, <1>3, TellIsTyped, ProcessStep

\* A child is in its parent's cgroup.
LEMMA ForkStep ==
    ASSUME SyncInv, NEW p \in Pids, NEW q \in Pids, Fork(p, q)
    PROVE  SyncInv'
<1>1. /\ UNCHANGED <<db, lastId, proxyOn, ruleset, cgroups, marks, events, main, undone>>
      /\ proc' = [proc EXCEPT ![q] = proc[p]]
  BY DEF Fork, dbVars
<1>2. proc' \in [Pids -> ProcRecords] /\ \A o \in Pids : proc'[o].cg <= lastId
  BY <1>1, ProcessesTyped
<1> QED  BY <1>1, <1>2, ProcessesTyped, ProcessStep

\* A dead process is in no cgroup.
LEMMA ExitStep ==
    ASSUME SyncInv, NEW p \in Pids, Exit(p)
    PROVE  SyncInv'
<1>1. /\ UNCHANGED <<db, lastId, proxyOn, ruleset, cgroups, marks, main, undone>>
      /\ proc' = [proc EXCEPT ![p] = Dead] /\ Tell(p, FALSE)
  BY DEF Exit, dbVars
<1>2. Dead \in ProcRecords /\ Dead.cg = 0  BY DEF Dead, ProcRecords, Elsewhere
<1>3. proc' \in [Pids -> ProcRecords] /\ \A o \in Pids : proc'[o].cg <= lastId
  BY <1>1, <1>2, ProcessesTyped
<1> QED  BY <1>1, <1>3, TellIsTyped, ProcessStep

-----------------------------------------------------------------------------
(* The daemon's life. *)

\* A rule set that is empty.
LEMMA EmptyTable ==
    /\ [r \in RuleIds |-> NoRule] \in [RuleIds -> StoredRules]
    /\ [r \in RuleIds |-> 0] \in [RuleIds -> Nat]
    /\ <<>> \in Seq(EventRecords)
BY DEF StoredRules

\* With the daemon down only the kernel's and the database's state counts.
LEMMA EndStep == ASSUME SyncInv, Crash \/ Shutdown PROVE SyncInv'
<1>1. /\ main' = Down /\ events' = <<>> /\ marks' \in {marks, [r \in RuleIds |-> 0]}
      /\ cgroups' \subseteq cgroups /\ ruleset' = [r \in RuleIds |-> NoRule] /\ undone' = {}
      /\ UNCHANGED <<db, lastId, proxyOn, proc>>
  BY DEF Crash, Shutdown, dbVars
<1>2. main' \in MainRecords /\ main'.at = "down" /\ main'.job = "none"  BY <1>1, IdleIsTyped
<1>3. TypeOK'
  <2>1. marks' \in [RuleIds -> Nat] /\ events' \in Seq(EventRecords)
        /\ ruleset' \in [RuleIds -> StoredRules]
    BY <1>1, EmptyTable DEF SyncInv, TypeOK
  <2> QED  BY <1>1, <1>2, <2>1 DEF SyncInv, TypeOK, MainRecords, EventRecords
<1>4. StepInv' /\ TargetInv' /\ MarkInv' /\ ActiveInv'
  BY <1>2 DEF StepInv, TargetInv, MarkInv, ActiveInv, SetUpSteps, RemovalSteps
<1>5. IdInv'  BY <1>1 DEF SyncInv, IdInv, Exists
<1> QED  BY <1>3, <1>4, <1>5 DEF SyncInv

\* Every rule that applies is in start-up's walk.
LEMMA StartStep == ASSUME SyncInv, Start PROVE SyncInv'
<1>1. /\ ruleset' = db /\ marks' = [r \in RuleIds |-> 0]
      /\ UNCHANGED <<db, lastId, proxyOn, cgroups, proc, events, undone>>
  BY DEF Start, RulesLoad, dbVars
<1>2. /\ main' \in MainRecords /\ main'.at = "each" /\ main'.job = "start"
      /\ main'.rest = {r \in RuleIds : Exists(db, r) /\ MaySetUp(db[r]) /\ db[r].on}
  BY WalkFields DEF Start, Jobs
<1>3. TypeOK'
  BY <1>1, <1>2 DEF SyncInv, TypeOK, MainRecords
<1>4. StepInv'
  BY <1>2 DEF SyncInv, StepInv, SetUpSteps, RemovalSteps
<1>5. TargetInv'
  BY <1>1, <1>2 DEF SyncInv, TargetInv, SetUpSteps
<1>6. MarkInv'
  BY <1>1, <1>2 DEF SyncInv, MarkInv, RemovalSteps
<1>7. ActiveInv'
  BY <1>1, <1>2 DEF SyncInv, ActiveInv, SetUpAhead, Applies
<1>8. IdInv'
  BY <1>1 DEF SyncInv, IdInv
<1> QED  BY <1>3, <1>4, <1>5, <1>6, <1>7, <1>8 DEF SyncInv

-----------------------------------------------------------------------------
(* The theorems. *)

\* The empty system.
LEMMA InitInv == Init => SyncInv
<1> SUFFICES ASSUME Init PROVE SyncInv  OBVIOUS
<1>1. main \in MainRecords /\ main.at = "loop" /\ main.job = "none"  BY IdleIsTyped DEF Init
<1>2. \A r \in RuleIds : ~Exists(db, r) /\ marks[r] = 0  BY DEF Init, Exists, NoRule
<1>3. Dead \in ProcRecords /\ Dead.cg = 0  BY DEF Dead, ProcRecords, Elsewhere
<1>4. TypeOK
  <2>1. proc \in [Pids -> ProcRecords]  BY <1>3 DEF Init
  <2> QED  BY <1>1, <2>1, EmptyTable DEF Init, TypeOK, MainRecords, ProcRecords,
          EventRecords
<1>5. StepInv /\ TargetInv
  BY <1>1 DEF StepInv, TargetInv, SetUpSteps, RemovalSteps
<1>6. MarkInv /\ ActiveInv
  BY <1>1, <1>2 DEF MarkInv, ActiveInv, Applies, RemovalSteps
<1>7. IdInv  BY <1>2, <1>3 DEF Init, IdInv
<1> QED  BY <1>4, <1>5, <1>6, <1>7 DEF SyncInv

\* Nothing changes.
LEMMA StutterStep == ASSUME SyncInv, UNCHANGED vars PROVE SyncInv'
<1>1. UNCHANGED <<db, lastId, proxyOn, ruleset, cgroups, marks, proc, events, main, undone>>
  BY DEF vars
<1> QED  BY <1>1, ProcessesTyped, ProcessStep

\* Every step keeps the invariant.
LEMMA NextInv == SyncInv /\ [Next]_vars => SyncInv'
<1> SUFFICES ASSUME SyncInv, [Next]_vars PROVE SyncInv'  OBVIOUS
<1>1. CASE Calls
  BY <1>1, MkdirStep, MarkStep, AssignStep, UnmarkStep, ListStep, DrainStep, RmdirStep,
     ReloadStep, DeleteStep, PriorityStep, NextRuleStep, EndOfRulesStep, ListenStep DEF Calls
<1>2. CASE \E rule \in Rules : RuleAdd(rule)  BY <1>2, RuleAddStep
<1>3. CASE \E r \in RuleIds, rule \in Rules : RuleEdit(r, rule)  BY <1>3, RuleEditStep
<1>4. CASE \E r \in RuleIds : RuleDelete(r)  BY <1>4, RuleDeleteStep
<1>5. CASE \E order \in Orders : RuleReorder(order)  BY <1>5, RuleReorderStep
<1>6. CASE \E x \in Proxies : ProxyEdit(x)  BY <1>6, ProxyEditStep
<1>7. CASE Hangup \/ MonitorEvent  BY <1>7, HangupStep, MonitorStep
<1>8. CASE \E p \in Pids, a \in Apps : Exec(p, a)  BY <1>8, ExecStep
<1>9. CASE \E p, q \in Pids : Fork(p, q)  BY <1>9, ForkStep
<1>10. CASE \E p \in Pids : Exit(p)  BY <1>10, ExitStep
<1>11. CASE Crash \/ Shutdown \/ Start  BY <1>11, EndStep, StartStep
<1>12. CASE UNCHANGED vars  BY <1>12, StutterStep
<1> QED
  BY <1>1, <1>2, <1>3, <1>4, <1>5, <1>6, <1>7, <1>8, <1>9, <1>10, <1>11, <1>12 DEF Next

\* The positions of the main thread, the marks, the cgroups and the ids are
\* tied together in every state.
THEOREM SyncInvariant == Spec => []SyncInv
<1> QED  BY InitInv, NextInv, PTL DEF Spec

\* Every state of the database, the kernel and the main thread is well typed.
THEOREM SyncTypes == Spec => []TypeOK
<1>1. SyncInv => TypeOK  BY DEF SyncInv
<1> QED  BY <1>1, SyncInvariant, PTL

\* Back in the loop no mark is without its rule and its cgroup.
THEOREM NoMarkIsOrphaned == Spec => []NoOrphanMark
<1>1. SyncInv => NoOrphanMark  BY NothingPending DEF NoOrphanMark
<1> QED  BY <1>1, SyncInvariant, PTL

\* Back in the loop every rule that applies is marked.
THEOREM EveryActiveRuleIsMarked == Spec => []ActiveRuleIsMarked
<1>1. SyncInv => ActiveRuleIsMarked  BY NothingPending DEF ActiveRuleIsMarked
<1> QED  BY <1>1, SyncInvariant, PTL

\* A rule enters the table under an id above all that were handed out, and no
\* process is in a cgroup above them.
LEMMA CreationIsFresh ==
    ASSUME SyncInv, Next, NEW r \in RuleIds, ~Exists(db, r), Exists(db, r)'
    PROVE  Members(r) = {}
<1>1. PICK rule \in Rules : RuleAdd(rule)
  <2>1. db' # db  BY DEF Exists
  <2>2. CASE DoDelete
    <3>1. db' = [db EXCEPT ![main.rule] = NoRule]  BY <2>1, <2>2 DEF DoDelete
    <3>2. main.rule \in RuleIds /\ db \in [RuleIds -> StoredRules]
      BY <2>2 DEF DoDelete, SyncInv, StepInv, TypeOK
    <3> QED  BY <3>1, <3>2 DEF Exists, NoRule
  <2>3. CASE DoPriority
    <3>1. PICK k : db' = [db EXCEPT ![main.ids[main.n]].prio = k]
      BY <2>1, <2>3 DEF DoPriority
    <3>2. db'[r].act = db[r].act  BY <3>1 DEF SyncInv, TypeOK, StoredRules, NoRule
    <3> QED  BY <3>2 DEF Exists
  <2>4. CASE \E q \in RuleIds, rule \in Rules : RuleEdit(q, rule)
    BY <2>4 DEF RuleEdit, Exists, SyncInv, TypeOK
  <2> QED
    BY <2>1, <2>2, <2>3, <2>4 DEF Next, Calls, DoMkdir, DoMark, DoUnmark, DoList, DoDrain,
       DoRmdir, DoAssign, DoReload, NextRule, EndOfRules, DoListen, RuleDelete, RuleReorder,
       ProxyEdit, Hangup, MonitorEvent, Exec, Fork, Exit, Crash, Shutdown, Start, dbVars
<1>2. r > lastId
  BY <1>1 DEF RuleAdd, Exists, SyncInv, TypeOK
<1>3. \A p \in Pids : proc[p].cg # r
  <2>1. r \in Nat /\ lastId \in Nat  BY SyncAssumption, ProcessesTyped
  <2>2. \A p \in Pids : proc[p].cg \in RuleIds \cup {0}
    BY ProcessesTyped DEF ProcRecords, Elsewhere
  <2>3. \A k \in RuleIds \cup {0} : k \in Nat  BY SyncAssumption
  <2> QED  BY <1>2, <2>1, <2>2, <2>3, ProcessesTyped
<1> QED  BY <1>3 DEF Members

\* No process ever falls under a rule that is only being created.
THEOREM NewRuleIsEmpty == Spec => FreshRuleHasFreshCgroup
<1>1. SyncInv /\ [Next]_vars =>
        [\A r \in RuleIds : ~Exists(db, r) /\ Exists(db', r) => Members(r) = {}]_vars
  BY CreationIsFresh DEF Exists
<1> QED  BY <1>1, SyncInvariant, PTL DEF Spec, FreshRuleHasFreshCgroup
=============================================================================
