----------------------------- MODULE Documents -----------------------------
(***************************************************************************)
(* From what a provider publishes to service configs: the tables of the    *)
(* fixed providers (compose/providers.rs), the conversions of documents,   *)
(* SRV reports and URLs (the from_* functions of compose/config.rs), the   *)
(* choice of an SRV record (rfc6186) and the JSON form of a config.        *)
(*                                                                         *)
(* A name is the sequence of its labels, a text that of its parts; the     *)
(* port of a TCP endpoint stands in its path. An Option is a set of at     *)
(* most one element, and the configs of a document are a set.              *)
(***************************************************************************)
EXTENDS Configs, Auth, SequencesExt

The(option) == CHOOSE x \in option : TRUE

Tcp(host, port, security) ==
  [proto |-> security, host |-> host, path |-> <<port>>, text |-> "tcp"]
Https(host, path) == [proto |-> "https", host |-> host, path |-> path, text |-> "url"]

Source(kind) == [kind |-> kind, provider |-> "none"]
Provider(provider) == [kind |-> "provider", provider |-> provider]

Advertise(service, user, endpoint, auth, source) ==
  [service |-> service, user |-> user, endpoint |-> endpoint, auth |-> auth,
   source |-> source, resolved |-> FALSE]

(***************************************************************************)
(* An input is an address, or a bare domain when it holds no @.            *)
(*   input: [local : Option, domain]                                       *)
(***************************************************************************)
Text(input) ==
  IF input.local = {} THEN input.domain ELSE <<The(input.local), "@">> \o input.domain

(* Without an @ the whole text is the local part, and the domain is empty. *)
Expanded(part, input) ==
  CASE part = "%EMAILADDRESS%" -> Text(input)
    [] part = "%EMAILLOCALPART%" ->
         IF input.local = {} THEN input.domain ELSE <<The(input.local)>>
    [] part = "%EMAILDOMAIN%" -> IF input.local = {} THEN <<>> ELSE input.domain
    [] OTHER -> <<part>>

Substitute(text, input) == FlattenSeq([k \in DOMAIN text |-> Expanded(text[k], input)])

(***************************************************************************)
(* Mozilla autoconfig.                                                     *)
(*   document: [servers, oauth2 : Option of an OAuth server]               *)
(*   server: [type, hostname, port, socket, username : Options, auth]      *)
(***************************************************************************)
DefaultPort(service, security) ==
  CASE service = "imap" -> IF security = "tls" THEN "993" ELSE "143"
    [] service = "pop3" -> IF security = "tls" THEN "995" ELSE "110"
    [] service = "smtp" /\ security = "tls" -> "465"
    [] service = "smtp" /\ security = "starttls" -> "587"
    [] service = "smtp" /\ security = "plain" -> "25"

(* A server that names no socket type is reached over implicit TLS.        *)
Security(server) == IF server.socket = {} THEN "tls" ELSE The(server.socket)

(* Plausible bug: the port of a server without socket type is looked up    *)
(* before its security is decided.                                         *)
PortBeforeSecurity(server) ==
  CASE server.port # {} -> The(server.port)
    [] server.socket = {} -> DefaultPort(server.type, "starttls")
    [] OTHER -> DefaultPort(server.type, The(server.socket))

Port(server) ==
  IF server.port = {} THEN DefaultPort(server.type, Security(server)) ELSE The(server.port)

(* Kerberos, NTLM, client certificates and addresses are left out.         *)
ServerAuth(server, oauth2) ==
  {Password : a \in server.auth \cap {"passwordCleartext", "passwordEncrypted"}}
    \cup {Grant(s) : s \in {t \in oauth2 : "oAuth2" \in server.auth}}

FromAutoconfig(document, input, kind) ==
  {Advertise(s.type, {Substitute(u, input) : u \in s.username},
             Tcp(Substitute(The(s.hostname), input), Port(s), Security(s)),
             ServerAuth(s, document.oauth2), Source(kind)) :
     s \in {t \in document.servers : t.hostname # {}}}

(***************************************************************************)
(* PACC.                                                                   *)
(*   document: [hosts, urls : functions of the protocols it offers,        *)
(*              issuer : Option, password : Option of a Boolean]           *)
(***************************************************************************)
PaccPort == [imap |-> "993", pop3 |-> "995", smtp |-> "465", managesieve |-> "4190"]
PaccHttp == {"jmap", "caldav", "carddav", "webdav"}

PaccAuth(document) ==
  {Issuer(i) : i \in document.issuer} \cup {Password : p \in document.password \cap {TRUE}}

(* The text protocols are implicit TLS; a URL is taken as it is.           *)
FromPacc(document) ==
  {Advertise(s, {}, Tcp(document.hosts[s], PaccPort[s], "tls"), PaccAuth(document),
             Source("pacc")) : s \in DOMAIN document.hosts \cap DOMAIN PaccPort}
  \cup
  {Advertise(s, {}, document.urls[s], PaccAuth(document), Source("pacc")) :
     s \in DOMAIN document.urls \cap PaccHttp}

(***************************************************************************)
(* SRV records (RFC 6186 and RFC 8314).                                    *)
(*   record: [host, port, priority, weight], in the order of the answer    *)
(***************************************************************************)
SrvService ==
  [imaps |-> "imap", imap |-> "imap", submissions |-> "smtp", submission |-> "smtp"]

(* Plausible bug: the names without an s are taken for unencrypted ones.   *)
SrvSecurityPlain ==
  [imaps |-> "tls", imap |-> "plain", submissions |-> "tls", submission |-> "plain"]

SrvSecurity ==
  [imaps |-> "tls", imap |-> "starttls", submissions |-> "tls", submission |-> "starttls"]
Names == DOMAIN SrvService

(* The target "." says that the service is not available.                  *)
Root == <<>>

(* Lowest priority first, then highest weight; the sort is stable.         *)
Precedes(records, i, j) ==
  \/ records[i].priority < records[j].priority
  \/ /\ records[i].priority = records[j].priority
     /\ \/ records[i].weight > records[j].weight
        \/ records[i].weight = records[j].weight /\ i < j

Foremost(records, indices) ==
  {records[k] : k \in {i \in indices : \A j \in indices \ {i} : Precedes(records, i, j)}}

(* Plausible bug: a "." record is sorted with the others, and picked.      *)
BestOrRoot(records) == Foremost(records, DOMAIN records)

Best(records) == Foremost(records, {k \in DOMAIN records : records[k].host # Root})

Report(answers) == [name \in Names |-> Best(answers[name])]

(* No authentication is advertised: a password is assumed.                 *)
SrvConfig(name, record) ==
  Advertise(SrvService[name], {}, Tcp(record.host, record.port, SrvSecurity[name]),
            {Password}, Source("srv"))

FromSrv(report) ==
  UNION {{SrvConfig(name, r) : r \in {s \in report[name] : s.host # Root}} : name \in Names}

(***************************************************************************)
(* URLs.                                                                   *)
(***************************************************************************)
FromDav(service, url) ==
  [Advertise(service, {}, url, {Password}, Source("dav")) EXCEPT !.resolved = TRUE]

FromJmap(url, schemes) ==
  Advertise("jmap", {}, url, Advertised(schemes), Source("jmap"))

(***************************************************************************)
(* Fixed providers. An authorization code and a device grant of one server *)
(* are one grant here, whatever their scopes.                              *)
(***************************************************************************)
Microsoft365 == <<"outlook", "office365", "com">>
Graph == Https(<<"graph", "microsoft", "com">>, <<"v1.0">>)
GoogleApis(name) == <<name, "googleapis", "com">>

GoogleConfigs(input) ==
  LET mail(service, host, port) ==
        Advertise(service, {Text(input)}, Tcp(<<host, "gmail", "com">>, port, "tls"),
                  {Grant("google"), Password}, Provider("google"))
      api(service, host, path) ==
        Advertise(service, {Text(input)}, Https(host, path), {Grant("google")},
                  Provider("google"))
  IN  {mail("imap", "imap", "993"), mail("pop3", "pop", "995"), mail("smtp", "smtp", "465"),
       api("caldav", <<"apidata", "googleusercontent", "com">>,
           <<"caldav", "v2">> \o Text(input) \o <<"user">>),
       api("carddav", GoogleApis("www"), <<"carddav", "v1", "principals">> \o Text(input)),
       api("gmail", GoogleApis("gmail"), <<>>),
       api("gcal", GoogleApis("www"), <<"calendar", "v3">>),
       api("gpeople", GoogleApis("people"), <<>>)}

MicrosoftConfigs(input) ==
  LET at(service, endpoint) ==
        Advertise(service, {Text(input)}, endpoint, {Grant("microsoft")}, Provider("microsoft"))
  IN  {at("imap", Tcp(Microsoft365, "993", "tls")), at("pop3", Tcp(Microsoft365, "995", "tls")),
       at("smtp", Tcp(<<"smtp", "office365", "com">>, "587", "starttls"))}
      \cup {at(s, Graph) : s \in {"msgraph", "msgraphCalendar", "msgraphContacts"}}

Providers == {"google", "microsoft"}

ProviderConfigs(provider, input) ==
  IF provider = "google" THEN GoogleConfigs(input) ELSE MicrosoftConfigs(input)

(* Microsoft has a domain per country: its first label decides.            *)
FromDomain(domain) ==
  CASE domain \in {<<"gmail", "com">>, <<"googlemail", "com">>} -> {"google"}
    [] domain = <<"msn", "com">> \/ Head(domain) \in {"outlook", "hotmail", "live"} ->
         {"microsoft"}
    [] OTHER -> {}

(* The provider of a mail host, which is a name under its own.             *)
FromMx(exchange) ==
  CASE \/ IsStrictSuffix(<<"google", "com">>, exchange)
       \/ IsStrictSuffix(<<"googlemail", "com">>, exchange) -> {"google"}
    [] IsStrictSuffix(<<"protection", "outlook", "com">>, exchange) -> {"microsoft"}
    [] OTHER -> {}

(* The first record that matches decides.                                  *)
ProviderFromMx(exchanges) ==
  LET matches == {k \in DOMAIN exchanges : FromMx(exchanges[k]) # {}}
  IN  UNION {FromMx(exchanges[k]) : k \in {j \in matches : \A i \in matches : j <= i}}

(***************************************************************************)
(* The JSON form of a config: a provider has a field of its own, and the   *)
(* resolved mark may be missing.                                           *)
(***************************************************************************)
ToWire(c) ==
  [service |-> c.service, endpoint |-> c.endpoint, username |-> c.user, auth |-> c.auth,
   source |-> c.source.kind, resolved |-> {c.resolved},
   provider |-> IF c.source.kind = "provider" THEN {c.source.provider} ELSE {}]

(* An Option: a provider source without a provider is an error.            *)
FromWire(w) ==
  IF w.source = "provider" /\ w.provider = {}
  THEN {}
  ELSE {[service |-> w.service, user |-> w.username, endpoint |-> w.endpoint,
         auth |-> w.auth,
         source |-> IF w.source = "provider" THEN Provider(The(w.provider)) ELSE Source(w.source),
         resolved |-> w.resolved = {TRUE}]}

(***************************************************************************)
(* Services of the command line.                                           *)
(***************************************************************************)
EmailServices == {"imap", "pop3", "smtp", "jmap", "managesieve", "gmail", "msgraph"}
CalendarServices == {"caldav", "jmap", "gcal", "msgraphCalendar"}
ContactServices == {"carddav", "jmap", "gpeople", "msgraphContacts"}
FileServices == {"webdav"}

(* The sections of `all': JMAP is listed once, with the mail.              *)
Sections ==
  <<EmailServices, CalendarServices \ {"jmap"}, ContactServices \ {"jmap"}, FileServices>>
=============================================================================
