---------------------------- MODULE MCRuleRouting ---------------------------
(***************************************************************************)
(* Instances of RuleRouting for TLC: one application that is known and one *)
(* that is not, one domain and one address that rules name, one proxy, one *)
(* ssh proxy and one chain.                                                *)
(***************************************************************************)
EXTENDS RuleRouting

CONSTANTS app, other, dom, addr, x, ssh, ch

Rule(a, d, h, on, act, via) ==
    [app |-> a, dom |-> d, addr |-> h, on |-> on, act |-> act, via |-> via]
\* Rules for every application and rules of one, with and without a criterion
\* on the destination, one of each action and one that is disabled.
MCRules ==
    {Rule(Blank, dom, Blank, TRUE, "DIRECT", Blank), Rule(Blank, Blank, Blank, TRUE, "BLOCK", Blank),
     Rule(Blank, Blank, addr, TRUE, "REJECT", Blank), Rule(Blank, dom, Blank, TRUE, "CHAIN", ch),
     Rule(Blank, Blank, addr, TRUE, "PROXY", Blank),
     Rule(app, Blank, Blank, TRUE, "PROXY", x), Rule(app, dom, Blank, TRUE, "PROXY", ssh),
     Rule(app, Blank, addr, FALSE, "PROXY", x), Rule(app, Blank, Blank, TRUE, "PROXY", Blank),
     Rule(app, dom, Blank, TRUE, "BLOCK", Blank)}
MCConnections == [app : {app}, name : {dom, Unknown}, addr : {addr, other}]
\* Every PROXY and CHAIN rule with its target.
ProperRules == {r \in MCRules : r.act \in {"PROXY", "CHAIN"} => r.via # Blank}
TwoApps == [app : {app, other}, name : {dom}, addr : {addr}]
=============================================================================
