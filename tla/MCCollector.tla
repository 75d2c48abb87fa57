---------------------------- MODULE MCCollector ----------------------------
(* Two shards of a provider's stable host and an unrelated host, published *)
(* in two spellings, by an advertising and by a resolving mechanism.       *)
EXTENDS Collector

CONSTANTS parent, shard1, shard2, other

MCHosts == {parent, shard1, shard2, other}
MCSubdomain == {<<shard1, parent>>, <<shard2, parent>>}

Offer(service, host, text, method, source) ==
  [service |-> service, user |-> "none",
   endpoint |-> [proto |-> "https", host |-> host, path |-> "/", text |-> text],
   auth |-> {method}, source |-> source, resolved |-> source = "dav"]

MCOffered ==
  {Offer("caldav", h, "u", "issuer", "pacc") : h \in MCHosts}
    \cup {Offer("caldav", h, "u", "password", "dav") : h \in MCHosts}
    \cup {Offer("caldav", parent, "u/", "bearer", "pacc"),
          Offer("jmap", parent, "u", "password", "jmap")}

MCEndpoints == {c.endpoint : c \in MCOffered}
MCServices == {"caldav", "jmap"}
MCUsers == {"none"}
MCMethods == {"issuer", "password", "bearer"}
MCSources == {"pacc", "dav", "jmap"}
MCRequested == {"caldav"}
=============================================================================
