--------------------------- MODULE MCDnsResolver ----------------------------
(* Instance of DnsResolver for TLC: two threads, two names. *)
EXTENDS DnsResolver

CONSTANTS q1, q2, a, b
=============================================================================
