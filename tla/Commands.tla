------------------------------ MODULE Commands ------------------------------
(***************************************************************************)
(* The commands of the command line that search one domain of services     *)
(* (cli/domain.rs): a check of the resolver, then the mechanisms of the    *)
(* command in their order, on one thread, until one finds a config of its  *)
(* services. A mechanism asks its locations one after the other, hit or    *)
(* not. Asking a location is one run of a coroutine (modules Runners,      *)
(* Resolve and DnsLookups), or several in a row, and one step here.        *)
(***************************************************************************)
EXTENDS Documents

CONSTANTS
  Inputs,        \* addresses and domains
  Autoconfigs,   \* autoconfig documents
  Paccs,         \* PACC documents
  Exchanges,     \* MX answers: names of mail hosts, best first
  SrvAnswers,    \* SRV answers, one sequence of records for each name
  Urls,          \* context roots and session URLs
  SchemeSets,    \* schemes that a JMAP session advertises
  Pending, Refused  \* no output yet, and none at all

(* The types of a server and of its socket are enumerations.               *)
ASSUME AutoconfigsAssumption ==
  \A d \in Autoconfigs : \A s \in d.servers :
    s.type \in {"imap", "pop3", "smtp"} /\ s.socket \subseteq {"plain", "starttls", "tls"}

(* Priorities and weights are u16.                                         *)
MaxU16 == 65535
U16 == 0 .. MaxU16
ASSUME SrvAssumption ==
  \A answers \in SrvAnswers : \A name \in Names :
    /\ answers[name] \in Seq(Range(answers[name]))
    /\ \A r \in Range(answers[name]) : r.priority \in U16 /\ r.weight \in U16

VARIABLES
  command, secureOnly, plainDns, input,   \* the command line
  pc,        \* "check", "run", "done" or "failed"
  left,      \* locations of the current mechanism still to ask
  got,       \* configs the current mechanism has found
  log,       \* what the mechanisms before it have found
  printed,   \* the output
  documents, \* autoconfig documents received
  srv        \* SRV answers received, as a set of at most one

arguments == <<command, secureOnly, plainDns, input>>
heard == <<documents, srv>>
vars == <<arguments, pc, left, got, log, printed, heard>>

Command(order, services) == [order |-> order, services |-> services, providers |-> Providers]

(* `is-google' and `is-microsoft' print every config of their provider.    *)
Is(provider) == [order |-> <<"provider">>, services |-> {}, providers |-> {provider}]

FirstEmail == <<"provider", "autoconfig", "pacc", "srv", "jmap">>
FirstDav(service) == <<service, "pacc", "jmap">>

Commands ==
  {Is("google"), Is("microsoft"), Command(FirstEmail, EmailServices),
   Command(FirstDav("caldav"), CalendarServices), Command(<<"caldav">>, CalendarServices),
   Command(FirstDav("carddav"), ContactServices), Command(<<"carddav">>, ContactServices)}
  \cup {Command(<<m>>, EmailServices) : m \in {"autoconfig", "srv", "pacc", "jmap"}}
  \cup {Command(<<m>>, s) : m \in {"pacc", "jmap"}, s \in {CalendarServices, ContactServices}}
  \cup {Command(<<"pacc">>, FileServices)}

Only(configs, services) == {c \in configs : Wants(services, c.service)}

KeepSecure(configs) == {c \in configs : secureOnly => IsSecure(c)}

(* A domain rule spares the provider mechanism its MX lookup.              *)
Locations(mechanism) ==
  CASE mechanism = "provider" -> IF FromDomain(input.domain) = {} THEN <<"mx">> ELSE <<>>
    [] mechanism = "autoconfig" ->
         <<"ispMain", "ispFallback", "ispdb", "mailconf", "mxAutoconfig">>
    [] OTHER -> <<mechanism>>

(* The fixed configs of a provider, unless the command asks about another. *)
FixedConfigs(providers) ==
  UNION {ProviderConfigs(p, input) : p \in providers \cap command.providers}

ByDomain(mechanism) ==
  IF mechanism = "provider" THEN FixedConfigs(FromDomain(input.domain)) ELSE {}

Init ==
  /\ command \in Commands /\ input \in Inputs
  /\ secureOnly \in BOOLEAN /\ plainDns \in BOOLEAN
  /\ pc = "check"
  /\ left = <<>> /\ got = {} /\ log = <<>> /\ printed = Pending
  /\ documents = {} /\ srv = {}

Begin(mechanism) ==
  /\ left' = Locations(mechanism)
  /\ got' = ByDomain(mechanism)

Fail ==
  /\ pc' = "failed"
  /\ printed' = Refused
  /\ UNCHANGED <<left, got>>

(* NXDOMAIN is an answer too.                                              *)
NoError == 0
NxDomain == 3
IsAnswer(rcode) == rcode \in {NoError, NxDomain}

(* No answer in time, or one too short to hold a response code.            *)
NoAnswer == 16

(* A plain HTTP resolver is refused in secure-only mode without asking it. *)
CheckResolver(rcode) ==
  /\ pc = "check"
  /\ IF (secureOnly /\ plainDns) \/ ~IsAnswer(rcode)
     THEN Fail
     ELSE /\ pc' = "run"
          /\ Begin(command.order[1])
          /\ UNCHANGED printed
  /\ UNCHANGED <<arguments, log, heard>>

-----------------------------------------------------------------------------
(* A location that fails finds no config.                                  *)
Hear(location, configs) ==
  /\ pc = "run" /\ left # <<>> /\ Head(left) = location
  /\ left' = Tail(left)
  /\ got' = got \cup configs
  /\ UNCHANGED <<arguments, pc, log, printed>>

NoDocument ==
  /\ left # <<>> /\ Hear(Head(left), {})
  /\ UNCHANGED heard

(* The tables of the providers are not filtered.                           *)
AskMx(exchanges) ==
  /\ Hear("mx", FixedConfigs(ProviderFromMx(exchanges)))
  /\ UNCHANGED heard

AskAutoconfig(location, document) ==
  /\ Hear(location, KeepSecure(FromAutoconfig(document, input, location)))
  /\ documents' = documents \cup {document}
  /\ UNCHANGED srv

AskPacc(document) ==
  /\ Hear("pacc", KeepSecure(FromPacc(document)))
  /\ UNCHANGED heard

(* Neither are SRV records, encrypted by their names.                      *)
AskSrv(answers) ==
  /\ Hear("srv", FromSrv(Report(answers)))
  /\ srv' = {answers}
  /\ UNCHANGED documents

AskDav(service, url) ==
  /\ Hear(service, KeepSecure({FromDav(service, url)}))
  /\ UNCHANGED heard

AskJmap(url, schemes) ==
  /\ Hear("jmap", KeepSecure({FromJmap(url, schemes)}))
  /\ UNCHANGED heard

(* Plausible bug: a mechanism that found configs of other services only    *)
(* ends the search.                                                        *)
ConcludeUnfiltered ==
  /\ pc = "run" /\ left = <<>>
  /\ log' = Append(log, got)
  /\ IF got # {} \/ Len(log') = Len(command.order)
     THEN /\ pc' = "done"
          /\ printed' = Only(got, command.services)
          /\ UNCHANGED <<left, got>>
     ELSE /\ Begin(command.order[Len(log') + 1])
          /\ UNCHANGED <<pc, printed>>
  /\ UNCHANGED <<arguments, heard>>

(* The mechanism has asked all its locations: print what it has found of   *)
(* the services of the command, or go on.                                  *)
Conclude ==
  /\ pc = "run" /\ left = <<>>
  /\ log' = Append(log, got)
  /\ IF Only(got, command.services) # {} \/ Len(log') = Len(command.order)
     THEN /\ pc' = "done"
          /\ printed' = Only(got, command.services)
          /\ UNCHANGED <<left, got>>
     ELSE /\ Begin(command.order[Len(log') + 1])
          /\ UNCHANGED <<pc, printed>>
  /\ UNCHANGED <<arguments, heard>>

AutoconfigLocations == {"ispMain", "ispFallback", "ispdb", "mailconf", "mxAutoconfig"}

Next ==
  \/ \E rcode \in 0 .. NoAnswer : CheckResolver(rcode)
  \/ NoDocument
  \/ \E exchanges \in Exchanges : AskMx(exchanges)
  \/ \E l \in AutoconfigLocations, d \in Autoconfigs : AskAutoconfig(l, d)
  \/ \E d \in Paccs : AskPacc(d)
  \/ \E answers \in SrvAnswers : AskSrv(answers)
  \/ \E s \in {"caldav", "carddav"}, url \in Urls : AskDav(s, url)
  \/ \E url \in Urls, schemes \in SchemeSets : AskJmap(url, schemes)
  \/ Conclude

Spec == Init /\ [][Next]_vars

-----------------------------------------------------------------------------
(* Every command is a lazy search: its mechanisms in order, none skipped,  *)
(* none run past the first that found a config of its services, and that   *)
(* one's configs printed; or it fails before the first one.                *)
AsSearch == INSTANCE Search WITH
  order <- command.order,
  heard <- [k \in DOMAIN log |-> Only(log[k], command.services)],
  result <- printed

SearchSpec == AsSearch!Spec

Output == IF pc = "done" THEN printed ELSE {}

(* In secure-only mode no command prints an endpoint reached in the clear, *)
(* though neither the tables of the providers nor SRV records are filtered *)
(* as documents and URLs are.                                              *)
SecureOnly == secureOnly => \A c \in Output : IsSecure(c)

(* Preferred over another record of its name.                              *)
Preferred(r, s) ==
  r.priority < s.priority \/ (r.priority = s.priority /\ r.weight >= s.weight)

(* Of an SRV name, the record that no other is preferred to is printed,    *)
(* whatever the order of the answer and the records that only say that the *)
(* service is not available; the service is left out if all say that.      *)
BestSrv ==
  \A answers \in srv : pc = "done" =>
    \A name \in Names :
      LET usable == {r \in Range(answers[name]) : r.host # Root}
          shown == {c \in printed : /\ c.source = Source("srv")
                                    /\ c.service = SrvService[name]
                                    /\ c.endpoint.proto = SrvSecurity[name]}
      IN  IF usable = {} THEN shown = {}
          ELSE \E r \in usable : /\ shown = {SrvConfig(name, r)}
                                 /\ \A s \in usable : Preferred(r, s)

(* A port that no document names fits the security it is printed with: one *)
(* of implicit TLS with TLS and no other, even if the server names neither.*)
PortFitsSecurity ==
  LET named == UNION {s.port : s \in UNION {d.servers : d \in documents}}
  IN  \A c \in Output :
        c.source.kind \in AutoconfigLocations /\ c.endpoint.path[1] \notin named =>
          c.endpoint.proto = "tls" <=> c.endpoint.path[1] \in {"993", "995", "465"}
=============================================================================
