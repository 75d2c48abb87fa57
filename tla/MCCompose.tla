----------------------------- MODULE MCCompose -----------------------------
(***************************************************************************)
(* A bounded instance of Compose for TLC: a domain whose PACC document and *)
(* DAV records publish calendars, and whose JMAP endpoints speak OAuth.    *)
(***************************************************************************)
EXTENDS Compose, FiniteSets

CONSTANTS As1, As2  \* OAuth servers

Http(proto, host, path) == [proto |-> proto, host |-> host, path |-> path, text |-> "u"]

Entry(service, endpoint, auth, source) ==
  [service |-> service, user |-> "none", endpoint |-> endpoint, auth |-> auth,
   source |-> source, resolved |-> source = "dav"]

Request(mode, service, known, secure) ==
  [mode |-> mode, services |-> {service}, email |-> TRUE, known |-> known,
   secure |-> secure, plainDns |-> FALSE]

MCHosts == {"domain", "shard", "google", "other"}
MCSubdomain == {<<"shard", "domain">>}
MCServices == {"caldav", "carddav", "jmap", "gmail", "imap"}
MCUsers == {"none"}
MCSources == {"provider", "pacc", "dav", "jmap"}
Resources_ == {"none", "resource", "elsewhere"}
MCMethods ==
  {Password, Bearer, Issuer(As1), Issuer(As2)} \cup
  [kind : {"grant"}, server : {"google", As1, As2}, resource : Resources_,
   scopes : {"none", "scope"}]
MCEndpoints ==
  [proto : {"https", "http", "tcp"}, host : MCHosts, path : {"/", "/dav", "/jmap"}, text : {"u"}]

GoogleCaldav == Entry("caldav", Http("https", "google", "/dav"), {Grant("google")}, "provider")
Gmail == Entry("gmail", Http("https", "google", "/"), {Grant("google")}, "provider")

MCProvider == <<Gmail, GoogleCaldav>>

(***************************************************************************)
(* A JMAP service is published twice, by documents that claim little or    *)
(* much, and its endpoint advertises schemes and resource metadata.        *)
(***************************************************************************)
Jmap(auth, source) == Entry("jmap", Http("https", "domain", "/jmap"), auth, source)

(* The PACC document names a CalDAV and a CardDAV origin, over TLS or not. *)
PaccDocument(proto, services) ==
  <<Entry("carddav", Http(proto, "domain", "/"), {Password}, "pacc"),
    Entry("caldav", Http(proto, "domain", "/"), {Password}, "pacc")>> \o services

MCFound(mechanism) ==
  CASE mechanism = "mx" -> {<<>>, <<Gmail>>}
    [] mechanism = "pacc" ->
         {<<>>,
          PaccDocument("http", <<Jmap({Issuer(As1)}, "pacc")>>),
          PaccDocument("https",
            <<Jmap({Password}, "pacc"),
              Entry("jmap", Http("https", "other", "/jmap"), {Issuer(As1), Password}, "pacc")>>)}
    [] mechanism = "caldav" ->
         {<<>>, <<Entry("caldav", Http("https", "shard", "/dav"), {Password}, "dav")>>}
    [] mechanism = "jmap" -> {<<>>, <<Jmap({Bearer}, "jmap")>>}
    [] OTHER -> {<<>>}

(* A walk ends on a root over TLS or on one that is not.                   *)
MCRoots(target) ==
  IF target.service = "caldav"
  THEN {Http("https", "shard", "/dav"), Http("tcp", "domain", "/dav")}
  ELSE {Http("https", "other", "/dav"), Http("http", "domain", "/dav")}

MCRequests ==
  {Request(m, "caldav", k, s) :
     m \in {"all", "within", "first", "raw"}, k \in BOOLEAN, s \in BOOLEAN}
  \cup {[Request(m, "caldav", TRUE, s) EXCEPT !.email = e, !.plainDns = TRUE] :
          m \in {"all", "within"}, s \in BOOLEAN, e \in BOOLEAN}
  \cup {Request(m, "jmap", TRUE, s) : m \in {"all", "within", "raw"}, s \in BOOLEAN}

MCSchemes(endpoint) ==
  IF endpoint.path = "/jmap"
  THEN {{}, {"basic"}, {"bearer", "digest"}, {"digest"}}
  ELSE {{}}

MCMetadata(endpoint) ==
  CASE endpoint.path # "/jmap" -> {}
    [] endpoint.host = "domain" ->
         {[resource |-> "resource", servers |-> {As1, As2}, scopes |-> "scope"]}
    [] OTHER -> {[resource |-> "elsewhere", servers |-> {}, scopes |-> "none"]}

MCGrants(server) == {{Grant(server)}}

(* One JMAP endpoint, published by a PACC document, is enough to be late.  *)
LateRequests == {Request("within", "jmap", TRUE, s) : s \in BOOLEAN}
LateFound(mechanism) == IF mechanism = "pacc" THEN MCFound("pacc") ELSE {<<>>}
=============================================================================
