------------------------------ MODULE Configs ------------------------------
(***************************************************************************)
(* Service configs (compose/config.rs) and how a new one meets those       *)
(* already collected (compose/collect.rs). Strings are abstracted: a host  *)
(* is a model value, Subdomain relates it to its parent domains, and an    *)
(* endpoint keeps its published spelling apart from what its URL means.    *)
(*                                                                         *)
(*   endpoint: [proto, host, path, text]                                   *)
(*   config:   [service, user, endpoint, auth, source, resolved]           *)
(*                                                                         *)
(* `auth' is a set: the order of methods and their repetition are left out.*)
(***************************************************************************)
EXTENDS Naturals, Sequences

CONSTANTS
  Services,   \* "imap", "caldav", ...
  Users,      \* usernames, or none
  Methods,    \* authentication methods
  Sources,    \* the mechanisms a config may come from
  Endpoints,  \* records as above
  Hosts,
  Subdomain   \* pairs <<h, p>>: the name h ends with a dot and then p

Config == [service : Services, user : Users, endpoint : Endpoints,
           auth : SUBSET Methods, source : Sources, resolved : BOOLEAN]

(* "Ends with" is a strict order.                                          *)
ASSUME SubdomainAssumption ==
  /\ Subdomain \subseteq Hosts \X Hosts
  /\ \A h \in Hosts : <<h, h>> \notin Subdomain
  /\ \A h, p, q \in Hosts :
       <<h, p>> \in Subdomain /\ <<p, q>> \in Subdomain => <<h, q>> \in Subdomain

(* `Tcp' endpoints are "tls", "starttls" or "plain". The proto of an       *)
(* `Http' one is the scheme of its URL, which may be "tcp", and "opaque"   *)
(* when its string does not parse as a URL.                                *)
HasUrl(e) == e.proto \in {"https", "http", "tcp"}

Url(e) == <<e.proto, e.host, e.path>>

(* `equivalent': byte equality, or equal URLs however they are spelled.    *)
Equivalent(a, b) == a = b \/ (HasUrl(a) /\ HasUrl(b) /\ Url(a) = Url(b))

SubdomainOf(a, b) == HasUrl(a) /\ HasUrl(b) /\ <<a.host, b.host>> \in Subdomain

IsSecure(c) == c.endpoint.proto \in {"tls", "starttls", "https"}

(* An empty set of requested services means all of them.                   *)
Wants(services, service) == services = {} \/ service \in services

(***************************************************************************)
(* The collector.                                                          *)
(***************************************************************************)

SameService(c, d) ==
  /\ c.service = d.service
  /\ c.user = d.user
  /\ \/ Equivalent(c.endpoint, d.endpoint)
     \/ SubdomainOf(c.endpoint, d.endpoint)
     \/ SubdomainOf(d.endpoint, c.endpoint)

(* Plausible bug: a parent host always wins.                               *)
TakesOverParent(existing, c) ==
  c.resolved \/ SubdomainOf(existing.endpoint, c.endpoint)

(* Resolved wins over advertised; between two of a kind, the parent host.  *)
TakesOver(existing, c) ==
  IF existing.resolved # c.resolved
  THEN c.resolved
  ELSE SubdomainOf(existing.endpoint, c.endpoint)

(* Plausible bugs: the source, or the new methods, stay behind.            *)
MergedSourceless(existing, c) ==
  IF TakesOver(existing, c)
  THEN [existing EXCEPT !.endpoint = c.endpoint, !.resolved = c.resolved,
                        !.auth = @ \cup c.auth]
  ELSE [existing EXCEPT !.auth = @ \cup c.auth]

MergedNoAuth(existing, c) ==
  IF TakesOver(existing, c)
  THEN [c EXCEPT !.auth = existing.auth]
  ELSE existing

Merged(existing, c) ==
  [IF TakesOver(existing, c) THEN c ELSE existing
     EXCEPT !.auth = existing.auth \cup c.auth]

(* `collect' of one config: merge it into the first entry it matches, or   *)
(* push it. `new' is the list afterwards.                                  *)
Collected(list, c, new) ==
  LET matches == {k \in DOMAIN list : SameService(list[k], c)}
  IN  \/ /\ matches = {}
         /\ new = Append(list, c)
      \/ \E k \in matches :
           /\ \A j \in matches : k <= j
           /\ new = [list EXCEPT ![k] = Merged(@, c)]
=============================================================================
