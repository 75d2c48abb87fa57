------------------------------ MODULE Runners ------------------------------
(***************************************************************************)
(* The mechanism runners of the compose client (compose/client.rs): the    *)
(* autoconfig locations, the mailconf redirect, the MX fall-backs, the     *)
(* detection of a fixed provider, PACC, the OAuth server metadata and the  *)
(* probe of an endpoint. Each is a list of calls made one after the other  *)
(* until one finds something; a lookup may put more calls in front of the  *)
(* list. A call is one `run' of a coroutine over a fresh pool, and one     *)
(* step here.                                                              *)
(*                                                                         *)
(* A document is the set of configs it holds, and is its own digest; for a *)
(* probe, it is the set of schemes the response advertises. An error, a    *)
(* redirect and an unreadable document hold none.                          *)
(***************************************************************************)
EXTENDS Integers, Sequences, FiniteSets, SequencesExt

CONSTANTS
  Domain,        \* domain of the address
  Exchanges,     \* names of mail hosts, numbered in their own order
  Preferences,   \* preferences of MX records
  BaseOf,        \* exchange -> its registrable domain, "none" for a public suffix
  ProviderOf,    \* exchange -> the fixed provider it belongs to, or "none"
  Aliases,       \* hosts other than autoconfig.<domain> in CNAME records
  MailconfUrls,  \* URLs a mailconf TXT record names
  MaxMx,         \* bound: records of an MX answer
  MaxRecords     \* bound: records of a CNAME or TXT answer

ASSUME ExchangesAssumption ==
  /\ Exchanges \subseteq Nat /\ Preferences \subseteq Nat
  /\ BaseOf \in [Exchanges -> STRING] /\ ProviderOf \in [Exchanges -> STRING]
  /\ MaxMx \in Nat /\ MaxRecords \in Nat

VARIABLES
  runner,      \* the runner under way
  secureOnly,
  todo,        \* calls left, in order
  log,         \* calls made, each with the document it got
  found,       \* configs found
  opened,      \* schemes of the HTTP streams opened
  mx,          \* records of the MX answer
  txt,         \* records of the PACC TXT answer, in order
  chain        \* CNAME records the next call follows, in order

inputs == <<runner, secureOnly>>
answers == <<mx, txt, chain>>
vars == <<inputs, todo, log, found, opened, answers>>

None == "none"

Url(scheme, host, path) == [scheme |-> scheme, host |-> host, path |-> path]
(* A call tells a URL of the list from one that stands in for an alias.    *)
Get(url) == [op |-> "get", url |-> url, via |-> "list"]
Target(url) == [op |-> "get", url |-> url, via |-> "alias"]
Alias(host) == [op |-> "alias", host |-> host]
Mx == [op |-> "mx"]
Txt == [op |-> "txt"]

Autoconfig(domain) == <<"autoconfig", domain>>
MainUrl(host) == Url("https", host, "mail")
FallbackUrl == Url("https", <<"", Domain>>, "well-known")
DbUrl(domain) == Url("https", <<"", "ispdb">>, domain)
PaccUrl == Url("https", <<"ua-auto-config", Domain>>, "well-known")
MetadataUrl(scheme, path) == Url(scheme, <<"", "issuer">>, path)
EndpointUrl(scheme, path) == Url(scheme, <<"", "endpoint">>, path)

(* Probes of a JMAP or WebDAV, a CalDAV and a CardDAV endpoint.            *)
Probes == {"probe", "probeCaldav", "probeCarddav"}

(* What a pool has a factory for: tcp, for DNS lookups, http and https.    *)
Factories == {"tcp", "http", "https"}

(* The calls a runner starts with. Nothing checks the scheme of an issuer, *)
(* a resource or an endpoint, which may be any of these. A DAV endpoint is *)
(* probed at its URL, then at the well-known path of its service: some     *)
(* servers guard only one of them.                                         *)
Calls(r) ==
  CASE r = "ispMain" -> {<<Get(MainUrl(Autoconfig(Domain))), Alias(Autoconfig(Domain))>>}
    [] r = "ispFallback" -> {<<Get(FallbackUrl)>>}
    [] r = "ispdb" -> {<<Get(DbUrl(Domain))>>}
    [] r = "mailconf" -> {<<Txt>>}
    [] r \in {"mxAutoconfig", "provider"} -> {<<Mx>>}
    [] r = "pacc" -> {<<Get(PaccUrl), Txt>>}
    [] r = "oauthServer" ->
         {<<Get(MetadataUrl(s, "oauth")), Get(MetadataUrl(s, "openid"))>> : s \in Factories}
    [] r = "oauthResource" -> {<<Get(MetadataUrl(s, "resource"))>> : s \in Factories}
    [] r = "probe" -> {<<Get(EndpointUrl(s, "root"))>> : s \in Factories}
    [] r \in {"probeCaldav", "probeCarddav"} ->
         {<<Get(EndpointUrl(s, "root")), Get(EndpointUrl(s, r))>> : s \in Factories}

Runners == {"ispMain", "ispFallback", "ispdb", "mailconf", "mxAutoconfig", "provider", "pacc",
            "oauthServer", "oauthResource"} \cup Probes

Init ==
  /\ runner \in Runners /\ secureOnly \in BOOLEAN
  /\ todo \in Calls(runner)
  /\ log = <<>> /\ found = {} /\ opened = {}
  /\ mx = {} /\ txt = <<>> /\ chain = <<>>

-----------------------------------------------------------------------------
Asks(op) == todo # <<>> /\ Head(todo).op = op

Logged(doc) == log' = Append(log, [call |-> Head(todo), doc |-> doc])

(* `keep_secure': OAuth metadata and schemes are handed out as they are.   *)
Usable(doc) == IF secureOnly THEN doc \ {"plain"} ELSE doc

(* What a URL may serve to the runner under way.                           *)
Docs ==
  CASE runner \in {"oauthServer", "oauthResource"} -> {{}, {"metadata"}}
    [] runner \in Probes -> SUBSET {"basic", "bearer"}
    [] OTHER -> SUBSET {"tls", "plain"}

(* A secure-only pool forgets its http factory, and no other.              *)
Pool == IF secureOnly THEN Factories \ {"http"} ELSE Factories
Opens(url) == url.scheme \in Pool

(* The schemes of the streams that redirects make a call open: a probe     *)
(* follows them wherever they lead, the others take them for an error.     *)
Redirects == IF runner \in Probes THEN SUBSET Pool ELSE {{}}

(* The first document with a usable config ends the runner.                *)
Document(doc) ==
  /\ Asks("get") /\ runner # "pacc" /\ Opens(Head(todo).url)
  /\ \E hops \in Redirects : opened' = opened \cup {Head(todo).url.scheme} \cup hops
  /\ Logged(doc)
  /\ found' = Usable(doc)
  /\ todo' = IF Usable(doc) = {} THEN Tail(todo) ELSE <<>>
  /\ chain' = <<>>
  /\ UNCHANGED <<inputs, mx, txt>>

(* A URL that cannot be built, no factory, no connection or an exchange    *)
(* cut short. PACC is one coroutine, which ends with its document.         *)
NoDocument ==
  /\ Asks("get")
  /\ \/ UNCHANGED opened
     \/ /\ Opens(Head(todo).url)
        /\ \E hops \in Redirects : opened' = opened \cup {Head(todo).url.scheme} \cup hops
  /\ Logged({})
  /\ todo' = IF runner = "pacc" THEN <<>> ELSE Tail(todo)
  /\ chain' = <<>>
  /\ UNCHANGED <<inputs, found, mx, txt>>

-----------------------------------------------------------------------------
(* Plausible bug: the records are sorted by name only.                     *)
ByName(records) ==
  CHOOSE sorted \in [1 .. Cardinality(records) -> records] :
    \A i, j \in DOMAIN sorted : i < j => /\ sorted[i] # sorted[j]
                                       /\ sorted[i].exchange <= sorted[j].exchange

Before(r, s) ==
  r.preference < s.preference \/ (r.preference = s.preference /\ r.exchange < s.exchange)

(* Records are sorted by preference, then by name.                         *)
BestFirst(records) ==
  CHOOSE sorted \in [1 .. Cardinality(records) -> records] :
    \A i, j \in DOMAIN sorted : i < j => Before(sorted[i], sorted[j])

(* Plausible bug: a public suffix is kept.                                 *)
SkipDomain == {Domain}

(* What is not the registrable domain of another mail host.                *)
Skipped == {Domain, None}

(* Plausible bug: a base is listed once per record.                        *)
BasesAgain(records) ==
  LET upto[k \in 0 .. Len(records)] ==
        IF k = 0 THEN <<>>
        ELSE IF BaseOf[records[k].exchange] \in Skipped THEN upto[k - 1]
        ELSE Append(upto[k - 1], BaseOf[records[k].exchange])
  IN  upto[Len(records)]

(* Registrable domains of the records other than the domain, each once.    *)
Bases(records) ==
  LET upto[k \in 0 .. Len(records)] ==
        IF k = 0 THEN <<>>
        ELSE IF BaseOf[records[k].exchange] \in Skipped \cup ToSet(upto[k - 1]) THEN upto[k - 1]
        ELSE Append(upto[k - 1], BaseOf[records[k].exchange])
  IN  upto[Len(records)]

Locations(base) ==
  <<Get(MainUrl(Autoconfig(base))), Alias(Autoconfig(base)), Get(DbUrl(base))>>

(* The locations of one base after those of another.                       *)
Rounds(bases) ==
  [k \in 1 .. 3 * Len(bases) |-> Locations(bases[(k + 2) \div 3])[((k + 2) % 3) + 1]]

(* The provider of the first record that matches one, as a set.            *)
FirstProvider(records) ==
  LET matches == {i \in DOMAIN records : ProviderOf[records[i].exchange] # None}
  IN  {ProviderOf[records[i].exchange] : i \in {j \in matches : \A k \in matches : j <= k}}

MxRecords(records) ==
  /\ Asks("mx")
  /\ mx' = records
  /\ Logged({})
  /\ IF runner = "provider"
     THEN /\ found' = FirstProvider(BestFirst(records))
          /\ todo' = <<>>
     ELSE /\ todo' = Rounds(Bases(BestFirst(records)))
          /\ UNCHANGED found
  /\ UNCHANGED <<inputs, opened, txt, chain>>

IsAlias(host, records) == \E i \in DOMAIN records : records[i].owner = host

(* The target of the first record of a host.                               *)
TargetOf(host, records) ==
  records[CHOOSE i \in DOMAIN records :
            /\ records[i].owner = host
            /\ \A j \in 1 .. i - 1 : records[j].owner # host].target

(* Plausible bug: only the first record is followed.                       *)
FollowOnce(host, records) == TargetOf(host, records)

(* As many hops as there are records, so that a loop ends.                 *)
Follow(host, records) ==
  LET at[hop \in 0 .. Len(records)] ==
        IF hop = 0 THEN host
        ELSE IF IsAlias(at[hop - 1], records) THEN TargetOf(at[hop - 1], records)
        ELSE at[hop - 1]
  IN  at[Len(records)]

AliasRecords(records) ==
  LET host == Head(todo).host
  IN  /\ Asks("alias")
      /\ Logged({})
      /\ IF IsAlias(host, records)
         THEN /\ todo' = <<Target(MainUrl(Follow(host, records)))>> \o Tail(todo)
              /\ chain' = records
         ELSE todo' = Tail(todo) /\ chain' = <<>>
      /\ UNCHANGED <<inputs, found, opened, mx, txt>>

(* Plausible bug: a plain URL is left to the pool.                         *)
MailconfAny(url) ==
  /\ Asks("txt") /\ runner = "mailconf"
  /\ Logged({})
  /\ todo' = <<Get(url)>>
  /\ UNCHANGED <<inputs, found, opened, answers>>

(* The first TXT record that holds a mailconf URL; in secure-only mode it  *)
(* is skipped unless it is an https one.                                   *)
Mailconf(url) ==
  /\ Asks("txt") /\ runner = "mailconf"
  /\ Logged({})
  /\ todo' = IF secureOnly /\ url.scheme # "https" THEN <<>> ELSE <<Get(url)>>
  /\ UNCHANGED <<inputs, found, opened, answers>>

(* Plausible bug: a lookup that fails ends the runner.                     *)
NoRecordsGivesUp ==
  /\ Asks("alias") \/ Asks("mx") \/ Asks("txt")
  /\ Logged({})
  /\ todo' = <<>>
  /\ UNCHANGED <<inputs, found, opened, answers>>

(* A lookup that fails, or without a record of use.                        *)
NoRecords ==
  /\ Asks("alias") \/ Asks("mx") \/ Asks("txt")
  /\ Logged({})
  /\ todo' = Tail(todo)
  /\ UNCHANGED <<inputs, found, opened, answers>>

-----------------------------------------------------------------------------
(* The PACC document is held back until it is verified.                    *)
PaccDocument(doc) ==
  /\ Asks("get") /\ runner = "pacc"
  /\ opened' = opened \cup {PaccUrl.scheme}
  /\ Logged(doc)
  /\ todo' = Tail(todo)
  /\ UNCHANGED <<inputs, found, answers>>

(* Plausible bug: the algorithm is not checked.                            *)
VouchesAnyAlgorithm(record, doc) == record.v = "UAAC1" /\ record.d = <<doc>>

(* A tag may be missing (None), something else, or what is expected; the   *)
(* digest may be unreadable or missing, or that of a document.             *)
Vouches(record, doc) == record.v = "UAAC1" /\ record.a = "sha256" /\ record.d = <<doc>>

PaccRecords(records) ==
  LET doc == log[1].doc
  IN  /\ Asks("txt") /\ runner = "pacc"
      /\ txt' = records
      /\ Logged({})
      /\ found' = IF \E i \in DOMAIN records : Vouches(records[i], doc) THEN Usable(doc) ELSE {}
      /\ todo' = <<>>
      /\ UNCHANGED <<inputs, opened, mx, chain>>

-----------------------------------------------------------------------------
MxAnswers ==
  {ToSet(records) : records \in SeqOf([preference : Preferences, exchange : Exchanges], MaxMx)}

AliasAnswers(host) ==
  LET names == {host} \cup Aliases
  IN  SeqOf([owner : names, target : names], MaxRecords)

PaccAnswers ==
  SeqOf([v : {"UAAC1", "other", None}, a : {"sha256", "other", None},
         d : {<<>>} \cup {<<doc>> : doc \in {{"tls"}, {"tls", "plain"}}}], MaxRecords)

Next ==
  \/ \E doc \in Docs : Document(doc)
  \/ NoDocument
  \/ \E records \in MxAnswers : MxRecords(records)
  \/ Asks("alias") /\ \E records \in AliasAnswers(Head(todo).host) : AliasRecords(records)
  \/ \E url \in MailconfUrls : Mailconf(url)
  \/ NoRecords
  \/ \E doc \in Docs : PaccDocument(doc)
  \/ \E records \in PaccAnswers : PaccRecords(records)

Spec == Init /\ [][Next]_vars

-----------------------------------------------------------------------------
Asked == {log[i].call : i \in DOMAIN log}

BaseSet == {BaseOf[r.exchange] : r \in mx} \ {Domain, None}

AutoconfigHosts == {Autoconfig(Domain)} \cup {Autoconfig(b) : b \in BaseSet}

Urls ==
  {MainUrl(h) : h \in AutoconfigHosts} \cup {DbUrl(b) : b \in BaseSet \cup {Domain}}
    \cup {FallbackUrl, PaccUrl} \cup MailconfUrls
    \cup {MetadataUrl(s, p) : s \in Factories, p \in {"oauth", "openid", "resource"}}
    \cup {EndpointUrl(s, p) : s \in Factories, p \in {"root"} \cup Probes}

CallSet ==
  {Get(u) : u \in Urls} \cup {Target(MainUrl(h)) : h \in AutoconfigHosts \cup Aliases}
    \cup {Alias(h) : h \in AutoconfigHosts} \cup {Mx, Txt}

(* Calls are only made to the domain, to the registrable domains of other  *)
(* mail hosts and to alias targets: never to a public suffix.              *)
TypeOK ==
  /\ runner \in Runners /\ secureOnly \in BOOLEAN
  /\ todo \in Seq(CallSet)
  /\ log \in Seq([call : CallSet, doc : Docs])
  /\ found \subseteq {"tls", "plain", "metadata", "basic", "bearer"} \cup {ProviderOf[e] : e \in Exchanges}
  /\ opened \subseteq Factories

(* Where a runner must have looked before it finds nothing, failed         *)
(* exchanges and lookups notwithstanding.                                  *)
Places ==
  CASE runner = "mxAutoconfig" -> UNION {ToSet(Locations(b)) : b \in BaseSet}
    [] runner \in {"mailconf", "provider", "pacc"} -> {}
    [] OTHER -> UNION {ToSet(calls) : calls \in
                         {c \in Calls(runner) : log # <<>> => c[1] = log[1].call}}

(* What a runner finds is what the last document it asked for holds, and   *)
(* no document before that had anything of use.                            *)
FirstOfUse ==
  runner \notin {"pacc", "provider"} =>
    \A i \in DOMAIN log :
      IF i = Len(log) THEN found = Usable(log[i].doc) ELSE Usable(log[i].doc) = {}

(* First fit: the first document of use ends the search, and the runner    *)
(* finds nothing only once it has looked everywhere, whatever failed on    *)
(* the way.                                                                *)
FirstFit ==
  /\ FirstOfUse
  /\ todo = <<>> /\ found = {} => Places \subseteq Asked

(* a is better than b: the best record naming one beats all those naming   *)
(* the other.                                                              *)
Better(a, b, name) ==
  \E r \in mx : name[r.exchange] = a /\ \A s \in mx : name[s.exchange] = b => Before(r, s)

(* Mail hosts are tried in the order of preference of their records: the   *)
(* locations of one are exhausted before the next one is asked, and the    *)
(* provider detected is that of the best record that matches one.          *)
Preference ==
  /\ \A a, b \in BaseSet : Better(a, b, BaseOf) =>
       \A j \in DOMAIN log : log[j].call \in ToSet(Locations(b)) =>
         ToSet(Locations(a)) \subseteq {log[i].call : i \in 1 .. j - 1}
  /\ runner = "provider" => \A p \in found : \A q \in {ProviderOf[e] : e \in Exchanges} \ {None, p} :
       ~Better(q, p, ProviderOf)

(* The host asked in place of an alias ends its chain of CNAME records, or *)
(* the chain loops.                                                        *)
EndOfChain ==
  chain # <<>> =>
    LET target == Head(todo).url.host
        host == log[Len(log)].call.host
        loops(hosts) == host \in hosts /\ \A h \in hosts :
                          IsAlias(h, chain) /\ TargetOf(h, chain) \in hosts
    IN  /\ \E i \in DOMAIN chain : chain[i].target = target
        /\ ~IsAlias(target, chain) \/ \E hosts \in SUBSET {r.owner : r \in ToSet(chain)} : loops(hosts)

(* In secure-only mode no runner opens an http stream, wherever a TXT      *)
(* record, an issuer or a redirect points, and one that asks no URL it was *)
(* given, nor follows redirects, opens https streams only. No plain config *)
(* is handed out, the tables of the fixed providers excepted.              *)
SecureOnly ==
  secureOnly =>
    /\ "http" \notin opened
    /\ runner \notin {"oauthServer", "oauthResource"} \cup Probes => opened \subseteq {"https"}
    /\ runner # "provider" => "plain" \notin found

(* PACC configs come from a document whose digest a well-formed TXT record *)
(* of the domain holds.                                                    *)
Verified ==
  runner = "pacc" /\ found # {} =>
    \E r \in ToSet(txt) : r.v = "UAAC1" /\ r.a = "sha256" /\ r.d = <<log[1].doc>>

(* The calls of a runner are bounded by the mail hosts, whatever the       *)
(* number of their records and aliases.                                    *)
BoundedCalls == Len(log) + Len(todo) <= 3 + 4 * Cardinality(BaseSet)
=============================================================================
