--------------------------- MODULE MCProxyConnect ---------------------------
(***************************************************************************)
(* Instances of ProxyConnect for TLC: a proxy of every type, and chains    *)
(* with each of SOCKS5, SOCKS4 and HTTP before and after another hop, and  *)
(* with an ssh hop.                                                        *)
(***************************************************************************)
EXTENDS ProxyConnect

CONSTANTS s5, s4, http, ssh

MCType == (s5 :> "socks5") @@ (s4 :> "socks4") @@ (http :> "http") @@ (ssh :> "ssh")
MCHasAuth == [p \in Proxies |-> p = s5]
MCChains == {<<s5, http>>, <<http, s4, s5>>, <<s4, ssh>>}
=============================================================================
