----------------------------- MODULE Collector -----------------------------
(***************************************************************************)
(* `DiscoveryConfigCollector' (compose/collect.rs): the pure half of a     *)
(* compose. A consumer feeds it configs, mechanism by mechanism in         *)
(* priority order; it drops the services nobody asked for and merges       *)
(* duplicates. `fed' is what the consumer handed over so far.              *)
(***************************************************************************)
EXTENDS Configs, FiniteSets

CONSTANTS
  Offered,    \* configs a mechanism may hand over
  Requested,  \* the services the collector is restricted to, {} for all
  MaxFed      \* bound on the number of distinct configs fed

ASSUME OfferedAssumption == Offered \subseteq Config

VARIABLES configs, fed

vars == <<configs, fed>>

Init ==
  /\ configs = <<>>
  /\ fed = {}

CollectUnfiltered(c) ==
  /\ Cardinality(fed \cup {c}) <= MaxFed
  /\ fed' = fed \cup {c}
  /\ Collected(configs, c, configs')

Collect(c) ==
  /\ Cardinality(fed \cup {c}) <= MaxFed
  /\ fed' = fed \cup {c}
  /\ IF Wants(Requested, c.service)
     THEN Collected(configs, c, configs')
     ELSE UNCHANGED configs

Next == \E c \in Offered : Collect(c)

Spec == Init /\ [][Next]_vars

-----------------------------------------------------------------------------
Wanted == {c \in fed : Wants(Requested, c.service)}

(* The collected list is a list of configs of requested services.         *)
TypeOK ==
  /\ fed \subseteq Offered
  /\ configs \in Seq(Config)
  /\ \A k \in DOMAIN configs : Wants(Requested, configs[k].service)

(* Endpoint, source and the resolved mark move together: whatever was      *)
(* merged, an entry shows an endpoint as the mechanism named by its source *)
(* offered it, resolved or not as that mechanism said.                     *)
Provenance ==
  \A k \in DOMAIN configs : \E c \in Wanted :
    /\ c.service = configs[k].service /\ c.user = configs[k].user
    /\ c.endpoint = configs[k].endpoint
    /\ c.source = configs[k].source
    /\ c.resolved = configs[k].resolved

(* No mechanism is forgotten: every config handed over lives on in an      *)
(* entry of its service and user that accepts all its authentication       *)
(* methods, and that is resolved if it was.                                *)
NothingForgotten ==
  \A c \in Wanted : \E k \in DOMAIN configs :
    /\ configs[k].service = c.service /\ configs[k].user = c.user
    /\ c.auth \subseteq configs[k].auth
    /\ c.resolved => configs[k].resolved

(* An entry that changes its endpoint only improves: from advertised to    *)
(* resolved, or to a parent host of the same kind. A bare parent never     *)
(* displaces the context root an RFC 6764 walk found.                      *)
OnlyImproves ==
  [][\A k \in DOMAIN configs :
       configs'[k].endpoint # configs[k].endpoint =>
         IF configs'[k].resolved = configs[k].resolved
         THEN SubdomainOf(configs[k].endpoint, configs'[k].endpoint)
         ELSE configs'[k].resolved]_vars

(* "Pure accumulator reducing per-mechanism config lists into one          *)
(* deduplicated list" (collect.rs:15-16), where "a subdomain of an already *)
(* collected host counts as the same service" (collect.rs:43-46).          *)
Deduplicated ==
  \A j, k \in DOMAIN configs : j # k => ~SameService(configs[j], configs[k])
=============================================================================
