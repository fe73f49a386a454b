----------------------------- MODULE MCRuleSync -----------------------------
(***************************************************************************)
(* Instances of RuleSync for TLC.  Process ids are interchangeable.        *)
(***************************************************************************)
EXTENDS RuleSync, TLC

\* One application, and the rules a client may send for it: to the proxy,
\* the same switched off, and an explicit DIRECT.
Plain == [app |-> CHOOSE a \in Apps : TRUE, on |-> TRUE, act |-> "PROXY", prio |-> 0,
          proxy |-> CHOOSE x \in Proxies : TRUE]
ClientRules == {Plain, [Plain EXCEPT !.on = FALSE], [Plain EXCEPT !.act = "DIRECT"]}

PidSymmetry == Permutations(Pids)
=============================================================================
