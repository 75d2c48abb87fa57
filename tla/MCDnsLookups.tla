---------------------------- MODULE MCDnsLookups ----------------------------
(* Bounded instances of DnsLookups for TLC: empty and two-byte answers.    *)
EXTENDS DnsLookups

MCBodyLens == {0, 2}
=============================================================================
