----------------------------- MODULE MCDnsMode ------------------------------
(* Instance of DnsMode for TLC: two servers. *)
EXTENDS DnsMode

CONSTANTS s1, s2
=============================================================================
