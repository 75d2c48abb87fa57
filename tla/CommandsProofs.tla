--------------------------- MODULE CommandsProofs ---------------------------
(***************************************************************************)
(* Theorems about the commands of the command line, for any addresses and  *)
(* anything the locations may publish, of SRV records any number.          *)
(***************************************************************************)
EXTENDS Commands, WellFoundedInduction, TLAPS

(***************************************************************************)
(* Conversions.                                                            *)
(***************************************************************************)

(* SRV records are encrypted by their names.                               *)
LEMMA SrvSecure == \A report : \A c \in FromSrv(report) : IsSecure(c)
BY DEF FromSrv, SrvConfig, SrvSecurity, Names, SrvService, Advertise, Tcp, IsSecure

LEMMA GoogleSecure == \A c \in GoogleConfigs(input) : IsSecure(c)
BY DEF GoogleConfigs, Advertise, Tcp, Https, IsSecure

LEMMA MicrosoftSecure == \A c \in MicrosoftConfigs(input) : IsSecure(c)
BY DEF MicrosoftConfigs, Graph, Advertise, Tcp, Https, IsSecure

LEMMA FixedSecure == \A providers : \A c \in FixedConfigs(providers) : IsSecure(c)
BY GoogleSecure, MicrosoftSecure DEF FixedConfigs, ProviderConfigs

LEMMA KeptSecure == secureOnly => \A configs : \A c \in KeepSecure(configs) : IsSecure(c)
BY DEF KeepSecure

(* What may be saved: a config of any mechanism.                           *)
Saved ==
  [service : STRING, user : SUBSET {Text(i) : i \in Inputs}, endpoint : Endpoints,
   auth : SUBSET Methods,
   source : {Provider(p) : p \in Providers} \cup
            {Source(k) : k \in AutoconfigLocations \cup {"pacc", "srv", "dav", "jmap"}},
   resolved : BOOLEAN]

(* A config that is saved and loaded is the same, whichever mechanism it   *)
(* came from: the provider has a field of its own, and no other source     *)
(* needs one.                                                              *)
THEOREM RoundTrip == \A c \in Saved : FromWire(ToWire(c)) = {c}
<1> SUFFICES ASSUME NEW c \in Saved PROVE FromWire(ToWire(c)) = {c}
  OBVIOUS
<1>1. c = [service |-> c.service, user |-> c.user, endpoint |-> c.endpoint, auth |-> c.auth,
           source |-> c.source, resolved |-> c.resolved]
  BY DEF Saved
<1>2. c.resolved = ({c.resolved} = {TRUE})
  BY DEF Saved
<1>3. CASE \E p \in Providers : c.source = Provider(p)
  <2>1. PICK p \in Providers : c.source = Provider(p)
    BY <1>3
  <2>2. The({p}) = p
    BY DEF The
  <2>3. c.source.kind = "provider" /\ c.source.provider = p
    BY <2>1 DEF Provider
  <2>4. ToWire(c).source = "provider" /\ ToWire(c).provider = {p}
    BY <2>3 DEF ToWire
  <2>5. FromWire(ToWire(c)) =
          {[service |-> c.service, user |-> c.user, endpoint |-> c.endpoint, auth |-> c.auth,
            source |-> Provider(p), resolved |-> {c.resolved} = {TRUE}]}
    BY <2>2, <2>4 DEF FromWire, ToWire
  <2> QED
    BY <1>1, <1>2, <2>1, <2>5
<1>4. CASE \E k \in AutoconfigLocations \cup {"pacc", "srv", "dav", "jmap"} : c.source = Source(k)
  <2>1. PICK k \in AutoconfigLocations \cup {"pacc", "srv", "dav", "jmap"} : c.source = Source(k)
    BY <1>4
  <2>2. k # "provider"
    BY <2>1 DEF AutoconfigLocations
  <2>3. c.source.kind = k
    BY <2>1 DEF Source
  <2>4. ToWire(c).source = k
    BY <2>3 DEF ToWire
  <2>5. FromWire(ToWire(c)) =
          {[service |-> c.service, user |-> c.user, endpoint |-> c.endpoint, auth |-> c.auth,
            source |-> Source(k), resolved |-> {c.resolved} = {TRUE}]}
    BY <2>2, <2>3, <2>4 DEF FromWire, ToWire
  <2> QED
    BY <1>1, <1>2, <2>1, <2>5
<1> QED
  BY <1>3, <1>4 DEF Saved

(* `all' lists a config in the section of its service, and in no other.    *)
LEMMA SectionsListOnce ==
  ASSUME NEW s \in EmailServices \cup CalendarServices \cup ContactServices \cup FileServices
  PROVE  \E k \in 1 .. 4 : \A n \in 1 .. 4 : s \in Sections[n] <=> n = k
<1>1. \/ s \in Sections[1] /\ s \notin Sections[2] \cup Sections[3] \cup Sections[4]
      \/ s \in Sections[2] /\ s \notin Sections[1] \cup Sections[3] \cup Sections[4]
      \/ s \in Sections[3] /\ s \notin Sections[1] \cup Sections[2] \cup Sections[4]
      \/ s \in Sections[4] /\ s \notin Sections[1] \cup Sections[2] \cup Sections[3]
  BY DEF Sections, EmailServices, CalendarServices, ContactServices, FileServices
<1> QED
  BY <1>1

-----------------------------------------------------------------------------
(* What a mechanism has found so far is as secure as what is printed.      *)
SecureInv ==
  secureOnly => /\ \A c \in got : IsSecure(c)
                /\ \A c \in Output : IsSecure(c)

LEMMA ByDomainSecure == \A mechanism : \A c \in ByDomain(mechanism) : IsSecure(c)
BY FixedSecure DEF ByDomain

(* A location leaves the output alone, and adds its configs to the others. *)
LEMMA HearSecure ==
  ASSUME SecureInv, NEW location, NEW configs, Hear(location, configs),
         secureOnly => \A c \in configs : IsSecure(c)
  PROVE  SecureInv'
BY DEF Hear, SecureInv, Output, arguments

(* In secure-only mode no command prints an endpoint reached in the clear: *)
(* what is not filtered is encrypted to begin with.                        *)
THEOREM SecureOnlyCorrect == Spec => []SecureOnly
<1>1. Init => SecureInv
  BY DEF Init, SecureInv, Output
<1>2. SecureInv /\ [Next]_vars => SecureInv'
  <2> SUFFICES ASSUME SecureInv, [Next]_vars PROVE SecureInv'
    OBVIOUS
  <2>1. ASSUME NEW rcode \in 0 .. NoAnswer, CheckResolver(rcode) PROVE SecureInv'
    BY <2>1, ByDomainSecure DEF CheckResolver, Fail, Begin, SecureInv, Output, arguments
  <2>2. CASE NoDocument
    BY <2>2, HearSecure DEF NoDocument
  <2>3. ASSUME NEW exchanges \in Exchanges, AskMx(exchanges) PROVE SecureInv'
    BY <2>3, HearSecure, FixedSecure DEF AskMx
  <2>4. ASSUME NEW l, NEW d, AskAutoconfig(l, d) PROVE SecureInv'
    BY <2>4, HearSecure, KeptSecure DEF AskAutoconfig
  <2>5. ASSUME NEW d, AskPacc(d) PROVE SecureInv'
    BY <2>5, HearSecure, KeptSecure DEF AskPacc
  <2>6. ASSUME NEW answers, AskSrv(answers) PROVE SecureInv'
    BY <2>6, HearSecure, SrvSecure DEF AskSrv
  <2>7. ASSUME NEW s, NEW url, AskDav(s, url) PROVE SecureInv'
    BY <2>7, HearSecure, KeptSecure DEF AskDav
  <2>8. ASSUME NEW url, NEW schemes, AskJmap(url, schemes) PROVE SecureInv'
    BY <2>8, HearSecure, KeptSecure DEF AskJmap
  <2>9. CASE Conclude
    BY <2>9, ByDomainSecure DEF Conclude, Begin, Only, SecureInv, Output, arguments
  <2>10. CASE UNCHANGED vars
    BY <2>10 DEF vars, arguments, SecureInv, Output
  <2> QED
    BY <2>1, <2>2, <2>3, <2>4, <2>5, <2>6, <2>7, <2>8, <2>9, <2>10 DEF Next
<1>3. SecureInv => SecureOnly
  BY DEF SecureInv, SecureOnly
<1> QED
  BY <1>1, <1>2, <1>3, PTL DEF Spec

-----------------------------------------------------------------------------
(* The commands implement the lazy search.                                 *)
Heard == [k \in DOMAIN log |-> Only(log[k], command.services)]

(* What has been heard, for the step that hears more.                      *)
SearchInv ==
  /\ command \in Commands
  /\ \E S : log \in Seq(S)
  /\ pc = "check" => log = <<>>
  /\ pc \in {"check", "run"} => printed = Pending
  /\ pc = "run" => /\ Len(log) < Len(command.order)
                  /\ \A k \in DOMAIN log : Only(log[k], command.services) = {}

LEMMA OrderNonempty == \A c \in Commands : Len(c.order) \in Nat /\ Len(c.order) > 0
<1> SUFFICES ASSUME NEW c \in Commands PROVE Len(c.order) \in Nat /\ Len(c.order) > 0
  OBVIOUS
<1>1. c.order \in {<<"provider">>, FirstEmail, FirstDav("caldav"), FirstDav("carddav")}
                   \cup {<<m>> : m \in {"caldav", "carddav", "autoconfig", "srv", "pacc", "jmap"}}
  BY DEF Commands, Command, Is
<1>2. \A m : Len(<<m>>) = 1
  OBVIOUS
<1>3. \A m : Len(FirstDav(m)) = 3
  BY DEF FirstDav
<1>4. Len(FirstEmail) = 5
  BY DEF FirstEmail
<1>5. Len(c.order) \in {1, 3, 5}
  <2> HIDE DEF FirstDav, FirstEmail
  <2>1. CASE c.order \in {<<m>> : m \in {"caldav", "carddav", "autoconfig", "srv", "pacc", "jmap"}}
    BY <1>2, <2>1
  <2>2. CASE c.order \in {<<"provider">>, FirstEmail, FirstDav("caldav"), FirstDav("carddav")}
    BY <1>2, <1>3, <1>4, <2>2
  <2> QED
    BY <1>1, <2>1, <2>2
<1> QED
  BY <1>5

(* Hearing one more.                                                       *)
LEMMA AppendHeard ==
  ASSUME NEW S, log \in Seq(S), log' = Append(log, got), UNCHANGED command
  PROVE  /\ log' \in Seq(S \cup {got})
         /\ Len(log') = Len(log) + 1
         /\ DOMAIN log' = 1 .. Len(log) + 1
         /\ \A k \in DOMAIN log : log'[k] = log[k]
         /\ log'[Len(log) + 1] = got
         /\ Len(Heard) = Len(log) /\ Len(Heard') = Len(log) + 1
         /\ Heard' = Append(Heard, Only(got, command.services))
         /\ Heard'[Len(log) + 1] = Only(got, command.services)
<1>1. /\ log \in Seq(S \cup {got})
      /\ Len(log) \in Nat /\ DOMAIN log = 1 .. Len(log)
  OBVIOUS
<1>2. /\ log' \in Seq(S \cup {got})
      /\ Len(log') = Len(log) + 1
      /\ DOMAIN log' = 1 .. Len(log) + 1
      /\ \A k \in DOMAIN log : log'[k] = log[k]
      /\ log'[Len(log) + 1] = got
  BY <1>1
<1> DEFINE T == {Only(c, command.services) : c \in S \cup {got}}
<1>3. Heard \in Seq(T) /\ Len(Heard) = Len(log)
  BY <1>1 DEF Heard
<1>4. Heard' = [k \in 1 .. Len(log) + 1 |-> Only(log'[k], command.services)]
  BY <1>2 DEF Heard
<1>5. Heard' = Append(Heard, Only(got, command.services))
  BY <1>1, <1>2, <1>3, <1>4 DEF Heard
<1>6. Len(Heard') = Len(log) + 1
  BY <1>1, <1>4
<1>7. Heard'[Len(log) + 1] = Only(got, command.services)
  BY <1>1, <1>2, <1>4
<1> QED
  BY <1>2, <1>3, <1>5, <1>6, <1>7

LEMMA InitSearchInv == Init => SearchInv
<1> SUFFICES ASSUME Init PROVE SearchInv
  OBVIOUS
<1>1. log \in Seq({})
  BY DEF Init
<1> QED
  BY <1>1 DEF Init, SearchInv

LEMMA NextSearchInv == SearchInv /\ [Next]_vars => SearchInv'
<1> SUFFICES ASSUME SearchInv, [Next]_vars PROVE SearchInv'
  OBVIOUS
<1>1. ASSUME UNCHANGED <<arguments, pc, log, printed>> PROVE SearchInv'
  BY <1>1 DEF SearchInv, arguments, Only
<1>2. ASSUME NEW rcode \in 0 .. NoAnswer, CheckResolver(rcode) PROVE SearchInv'
  <2>1. command' = command /\ log' = log /\ log = <<>>
    BY <1>2 DEF CheckResolver, SearchInv, arguments
  <2>2. \/ pc' = "failed"
        \/ pc' = "run" /\ printed' = printed
    BY <1>2 DEF CheckResolver, Fail
  <2>3. printed = Pending
    BY <1>2 DEF CheckResolver, SearchInv
  <2>4. Len(log) = 0 /\ DOMAIN log = {}
    BY <2>1
  <2> QED
    BY <2>1, <2>2, <2>3, <2>4, OrderNonempty DEF SearchInv
<1>3. ASSUME NEW l, NEW configs, Hear(l, configs) PROVE SearchInv'
  BY <1>1, <1>3 DEF Hear
<1>4. CASE Conclude
  <2>1. PICK S : log \in Seq(S)
    BY DEF SearchInv
  <2>2. command' = command /\ log' = Append(log, got) /\ pc = "run" /\ printed = Pending
    BY <1>4 DEF Conclude, SearchInv, arguments
  <2>3. CASE pc' = "done"
    BY <2>1, <2>2, <2>3, AppendHeard DEF SearchInv
  <2>4. CASE pc' # "done"
    <3>1. /\ Only(got, command.services) = {} /\ Len(log') # Len(command.order)
          /\ pc' = pc /\ printed' = printed
      BY <1>4, <2>4 DEF Conclude
    <3>2. Len(log) < Len(command.order) /\ Len(command.order) \in Nat /\ Len(log) \in Nat
      BY <2>1, <2>2, OrderNonempty DEF SearchInv
    <3>3. Len(log') < Len(command.order)
      BY <2>1, <2>2, <3>1, <3>2, AppendHeard
    <3>4. \A k \in DOMAIN log' : Only(log'[k], command.services) = {}
      BY <2>1, <2>2, <3>1, AppendHeard DEF SearchInv
    <3> QED
      BY <2>1, <2>2, <3>1, <3>3, <3>4, AppendHeard DEF SearchInv, Only
  <2> QED
    BY <2>3, <2>4
<1> QED
  BY <1>1, <1>2, <1>3, <1>4
     DEF Next, NoDocument, AskMx, AskAutoconfig, AskPacc, AskSrv, AskDav, AskJmap, vars

(* A step of a command is a step of the search, or none.                   *)
LEMMA NextSearch == SearchInv /\ [Next]_vars => [AsSearch!Next]_(AsSearch!vars)
<1> SUFFICES ASSUME SearchInv, [Next]_vars PROVE AsSearch!Next \/ UNCHANGED AsSearch!vars
  OBVIOUS
<1>1. ASSUME UNCHANGED <<arguments, pc, log, printed>> PROVE UNCHANGED AsSearch!vars
  BY <1>1 DEF AsSearch!vars, arguments, Only
<1>2. ASSUME NEW rcode \in 0 .. NoAnswer, CheckResolver(rcode)
      PROVE  AsSearch!Next \/ UNCHANGED AsSearch!vars
  <2>1. command' = command /\ log' = log /\ log = <<>> /\ printed = Pending
    BY <1>2 DEF CheckResolver, SearchInv, arguments
  <2>2. printed' = printed \/ printed' = Refused
    BY <1>2 DEF CheckResolver, Fail
  <2> QED
    BY <2>1, <2>2 DEF AsSearch!Next, AsSearch!Refuse, AsSearch!vars, Only
<1>3. ASSUME NEW l, NEW configs, Hear(l, configs) PROVE UNCHANGED AsSearch!vars
  BY <1>1, <1>3 DEF Hear
<1>4. CASE Conclude
  <2>1. PICK S : log \in Seq(S)
    BY DEF SearchInv
  <2>2. /\ command' = command /\ log' = Append(log, got)
        /\ pc = "run" /\ printed = Pending
    BY <1>4 DEF Conclude, SearchInv, arguments
  <2>3. /\ Len(log) < Len(command.order) /\ Len(command.order) \in Nat
        /\ Len(log) \in Nat /\ DOMAIN log = 1 .. Len(log)
    BY <2>1, <2>2, OrderNonempty DEF SearchInv
  <2>4. /\ Len(Heard) = Len(log) /\ Len(Heard') = Len(log) + 1
        /\ Heard' = Append(Heard, Heard'[Len(Heard) + 1])
        /\ Heard'[Len(Heard')] = Only(got, command.services)
    BY <2>1, <2>2, AppendHeard
  <2>5. ~(Heard # <<>> /\ Heard[Len(Heard)] # {})
    <3>1. CASE Len(log) = 0
      BY <2>3, <3>1 DEF Heard
    <3>2. CASE Len(log) > 0
      <4>1. Len(log) \in DOMAIN log
        BY <2>3, <3>2
      <4>2. Heard[Len(log)] = Only(log[Len(log)], command.services)
        BY <4>1 DEF Heard
      <4> QED
        BY <2>2, <2>4, <4>1, <4>2 DEF SearchInv
    <3> QED
      BY <2>3, <3>1, <3>2
  <2>6. printed' = IF \/ Only(got, command.services) # {}
                      \/ Len(Heard') = Len(command.order)
                   THEN Only(got, command.services) ELSE Pending
    BY <1>4, <2>1, <2>2, <2>4, AppendHeard DEF Conclude
  <2>7. Heard' # <<>>
    BY <2>3, <2>4
  <2>8. ~AsSearch!Hit /\ ~AsSearch!Exhausted
    BY <2>3, <2>4, <2>5 DEF AsSearch!Hit, AsSearch!Exhausted, Heard
  <2>9. /\ AsSearch!Hit' <=> Only(got, command.services) # {}
        /\ AsSearch!Exhausted' <=> Len(Heard') = Len(command.order)
    BY <2>2, <2>4, <2>7 DEF AsSearch!Hit, AsSearch!Exhausted, Heard
  <2>10. printed' = IF AsSearch!Hit' \/ AsSearch!Exhausted' THEN Heard'[Len(Heard')] ELSE Pending
    BY <2>4, <2>6, <2>9
  <2>11. AsSearch!Ask
    BY <2>2, <2>4, <2>8, <2>10 DEF AsSearch!Ask, Heard
  <2> QED
    BY <2>11 DEF AsSearch!Next
<1> QED
  BY <1>1, <1>2, <1>3, <1>4
     DEF Next, NoDocument, AskMx, AskAutoconfig, AskPacc, AskSrv, AskDav, AskJmap, vars

(* Every command is a lazy search: no mechanism is skipped, and none runs  *)
(* past the first that found something the command asks for.               *)
THEOREM ImplementsSearch == Spec => SearchSpec
<1>1. Init => AsSearch!Init
  BY DEF Init, AsSearch!Init
<1> QED
  BY <1>1, InitSearchInv, NextSearchInv, NextSearch, PTL
     DEF Spec, SearchSpec, AsSearch!Spec

(* What the user of a command relies on: what is printed was found by the  *)
(* last mechanism asked, those before it had nothing of the services of    *)
(* the command, and nothing is printed only once all have been asked.      *)
FirstHitOnly ==
  pc = "done" =>
    /\ Len(log) \in 1 .. Len(command.order)
    /\ printed = Only(log[Len(log)], command.services)
    /\ \A k \in 1 .. Len(log) - 1 : Only(log[k], command.services) = {}
    /\ printed = {} => Len(log) = Len(command.order)

(* A command that ends has printed the first hit in the order of its       *)
(* mechanisms, whatever the locations published and whichever failed.      *)
THEOREM FirstHitOnlyCorrect == Spec => []FirstHitOnly
<1>1. Init => FirstHitOnly
  BY DEF Init, FirstHitOnly
<1>2. SearchInv /\ FirstHitOnly /\ [Next]_vars => FirstHitOnly'
  <2> SUFFICES ASSUME SearchInv, FirstHitOnly, [Next]_vars PROVE FirstHitOnly'
    OBVIOUS
  <2>1. ASSUME UNCHANGED <<arguments, pc, log, printed>> PROVE FirstHitOnly'
    BY <2>1 DEF FirstHitOnly, arguments, Only
  <2>2. ASSUME NEW rcode \in 0 .. NoAnswer, CheckResolver(rcode) PROVE FirstHitOnly'
    BY <2>2 DEF CheckResolver, Fail, FirstHitOnly
  <2>3. ASSUME NEW l, NEW configs, Hear(l, configs) PROVE FirstHitOnly'
    BY <2>1, <2>3 DEF Hear
  <2>4. CASE Conclude
    <3>1. PICK S : log \in Seq(S)
      BY DEF SearchInv
    <3>2. /\ command' = command /\ log' = Append(log, got) /\ pc = "run"
          /\ Len(log) < Len(command.order) /\ Len(command.order) \in Nat /\ Len(log) \in Nat
          /\ \A k \in DOMAIN log : Only(log[k], command.services) = {}
      BY <2>4, <3>1, OrderNonempty DEF Conclude, SearchInv, arguments
    <3>3. /\ Len(log') = Len(log) + 1 /\ DOMAIN log = 1 .. Len(log)
          /\ \A k \in DOMAIN log : log'[k] = log[k]
          /\ log'[Len(log) + 1] = got
      BY <3>1, <3>2, AppendHeard
    <3>4. CASE pc' # "done"
      BY <3>4 DEF FirstHitOnly
    <3>5. CASE /\ printed' = Only(got, command.services)
               /\ Only(got, command.services) # {} \/ Len(log') = Len(command.order)
      <4>1. Len(log') \in 1 .. Len(command'.order)
        BY <3>2, <3>3
      <4>2. printed' = Only(log'[Len(log')], command'.services)
        BY <3>2, <3>3, <3>5
      <4>3. \A k \in 1 .. Len(log') - 1 : Only(log'[k], command'.services) = {}
        BY <3>2, <3>3
      <4>4. printed' = {} => Len(log') = Len(command'.order)
        BY <3>2, <3>5
      <4> QED
        BY <4>1, <4>2, <4>3, <4>4 DEF FirstHitOnly, Only
    <3> QED
      BY <2>4, <3>2, <3>4, <3>5 DEF Conclude
  <2> QED
    BY <2>1, <2>2, <2>3, <2>4
       DEF Next, NoDocument, AskMx, AskAutoconfig, AskPacc, AskSrv, AskDav, AskJmap, vars
<1> QED
  BY <1>1, <1>2, InitSearchInv, NextSearchInv, PTL DEF Spec

-----------------------------------------------------------------------------
(* A config of an autoconfig location is that of a server received.        *)
Published(c) ==
  c.source.kind \in AutoconfigLocations =>
    \E d \in documents : \E s \in d.servers :
      c.endpoint.path = <<Port(s)>> /\ c.endpoint.proto = Security(s)

PublishedInv ==
  /\ documents \subseteq Autoconfigs
  /\ \A c \in got : Published(c)
  /\ \A c \in Output : Published(c)

(* No other mechanism names an autoconfig location as its source.          *)
LEMMA FixedSource == \A p : \A c \in ProviderConfigs(p, input) : c.source.kind = "provider"
BY DEF ProviderConfigs, GoogleConfigs, MicrosoftConfigs, Advertise, Provider

LEMMA FixedPublished == \A providers : \A c \in FixedConfigs(providers) : Published(c)
BY FixedSource DEF FixedConfigs, Published, AutoconfigLocations

LEMMA PaccPublished == \A d : \A c \in FromPacc(d) : Published(c)
BY DEF FromPacc, Advertise, Source, Published, AutoconfigLocations

LEMMA SrvPublished == \A report : \A c \in FromSrv(report) : Published(c)
BY DEF FromSrv, SrvConfig, Advertise, Source, Published, AutoconfigLocations

LEMMA DavPublished == \A service, url : Published(FromDav(service, url))
BY DEF FromDav, Advertise, Source, Published, AutoconfigLocations

LEMMA JmapPublished == \A url, schemes : Published(FromJmap(url, schemes))
BY DEF FromJmap, Advertise, Source, Published, AutoconfigLocations

(* A location that received no document adds configs to the others.        *)
LEMMA HearPublished ==
  ASSUME PublishedInv, NEW location, NEW configs, Hear(location, configs),
         UNCHANGED documents, \A c \in configs : Published(c)
  PROVE  PublishedInv'
BY DEF Hear, PublishedInv, Published, Output, arguments

LEMMA AutoconfigPublished ==
  ASSUME PublishedInv, NEW l, NEW d \in Autoconfigs, AskAutoconfig(l, d)
  PROVE  PublishedInv'
<1>1. /\ got' = got \cup KeepSecure(FromAutoconfig(d, input, l))
      /\ documents' = documents \cup {d} /\ Output' = Output
  BY DEF AskAutoconfig, Hear, Output
<1>2. ASSUME NEW c \in FromAutoconfig(d, input, l) PROVE Published(c)'
  <2>1. PICK s \in d.servers : c.endpoint.path = <<Port(s)>> /\ c.endpoint.proto = Security(s)
    BY <1>2 DEF FromAutoconfig, Advertise, Tcp
  <2> QED
    BY <1>1, <2>1 DEF Published
<1>3. ASSUME NEW c, Published(c) PROVE Published(c)'
  BY <1>1, <1>3 DEF Published
<1> QED
  BY <1>1, <1>2, <1>3 DEF PublishedInv, KeepSecure

(* A default port fits the security that the server is reached with.       *)
LEMMA DefaultFits ==
  ASSUME NEW d \in Autoconfigs, NEW s \in d.servers, s.port = {}
  PROVE  Security(s) = "tls" <=> Port(s) \in {"993", "995", "465"}
<1>1. s.type \in {"imap", "pop3", "smtp"} /\ Security(s) \in {"plain", "starttls", "tls"}
  BY AutoconfigsAssumption DEF Security, The
<1>2. Port(s) = DefaultPort(s.type, Security(s))
  BY DEF Port
<1> QED
  BY <1>1, <1>2 DEF DefaultPort

(* A port that no document names fits the security it is printed with.     *)
THEOREM PortFitsSecurityCorrect == Spec => []PortFitsSecurity
<1>1. Init => PublishedInv
  BY DEF Init, PublishedInv, Output
<1>2. PublishedInv /\ [Next]_vars => PublishedInv'
  <2> SUFFICES ASSUME PublishedInv, [Next]_vars PROVE PublishedInv'
    OBVIOUS
  <2>1. ASSUME NEW rcode \in 0 .. NoAnswer, CheckResolver(rcode) PROVE PublishedInv'
    BY <2>1, FixedPublished
       DEF CheckResolver, Fail, Begin, ByDomain, PublishedInv, Published, Output, heard
  <2>2. CASE NoDocument
    BY <2>2, HearPublished DEF NoDocument, heard
  <2>3. ASSUME NEW exchanges \in Exchanges, AskMx(exchanges) PROVE PublishedInv'
    BY <2>3, HearPublished, FixedPublished DEF AskMx, heard
  <2>4. ASSUME NEW l, NEW d \in Autoconfigs, AskAutoconfig(l, d) PROVE PublishedInv'
    BY <2>4, AutoconfigPublished
  <2>5. ASSUME NEW d, AskPacc(d) PROVE PublishedInv'
    BY <2>5, HearPublished, PaccPublished DEF AskPacc, KeepSecure, heard
  <2>6. ASSUME NEW answers, AskSrv(answers) PROVE PublishedInv'
    BY <2>6, HearPublished, SrvPublished DEF AskSrv
  <2>7. ASSUME NEW s, NEW url, AskDav(s, url) PROVE PublishedInv'
    BY <2>7, HearPublished, DavPublished DEF AskDav, KeepSecure, heard
  <2>8. ASSUME NEW url, NEW schemes, AskJmap(url, schemes) PROVE PublishedInv'
    BY <2>8, HearPublished, JmapPublished DEF AskJmap, KeepSecure, heard
  <2>9. CASE Conclude
    BY <2>9, FixedPublished
       DEF Conclude, Begin, ByDomain, Only, PublishedInv, Published, Output, heard
  <2>10. CASE UNCHANGED vars
    BY <2>10 DEF vars, heard, PublishedInv, Published, Output
  <2> QED
    BY <2>1, <2>2, <2>3, <2>4, <2>5, <2>6, <2>7, <2>8, <2>9, <2>10 DEF Next
<1>3. PublishedInv => PortFitsSecurity
  <2> SUFFICES ASSUME PublishedInv, NEW c \in Output, c.source.kind \in AutoconfigLocations,
                      c.endpoint.path[1] \notin
                        UNION {s.port : s \in UNION {d.servers : d \in documents}}
               PROVE  c.endpoint.proto = "tls" <=> c.endpoint.path[1] \in {"993", "995", "465"}
    BY DEF PortFitsSecurity
  <2>1. PICK d \in documents : \E s \in d.servers :
          c.endpoint.path = <<Port(s)>> /\ c.endpoint.proto = Security(s)
    BY DEF PublishedInv, Published
  <2>2. PICK s \in d.servers : c.endpoint.path = <<Port(s)>> /\ c.endpoint.proto = Security(s)
    BY <2>1
  <2>3. c.endpoint.path[1] = Port(s)
    BY <2>2
  <2>4. s.port = {}
    <3>1. s.port # {} => Port(s) \in s.port
      BY DEF Port, The
    <3> QED
      BY <2>2, <2>3, <3>1
  <2> QED
    BY <2>2, <2>3, <2>4, DefaultFits DEF PublishedInv
<1> QED
  BY <1>1, <1>2, <1>3, PTL DEF Spec
-----------------------------------------------------------------------------
(* A set of naturals has a least element.                                 *)
LEMMA LeastNatural ==
  ASSUME NEW S \in SUBSET Nat, S # {}
  PROVE  \E m \in S : \A k \in S : m <= k
<1>1. PICK m \in S : \A k \in S : ~(<<k, m>> \in OpToRel(<, Nat))
  BY NatLessThanWellFounded, WFMin
<1>2. ASSUME NEW k \in S PROVE m <= k
  <2>1. ~(k < m)
    BY <1>1 DEF OpToRel
  <2> QED
    BY <2>1
<1> QED
  BY <1>2

LEMMA U16Natural == MaxU16 \in Nat /\ \A x \in U16 : x \in Nat /\ x <= MaxU16
<1>1. MaxU16 \in Nat
  BY DEF MaxU16
<1> QED
  BY <1>1 DEF U16

(* The first of the best of any number of records: the lowest priority,    *)
(* of those the highest weight, of those the first of the answer.          *)
LEMMA ForemostExists ==
  ASSUME NEW records, NEW indices \in SUBSET Nat, indices # {},
         \A k \in indices : records[k].priority \in U16 /\ records[k].weight \in U16
  PROVE  \E i \in indices : \A j \in indices \ {i} : Precedes(records, i, j)
<1> DEFINE Priorities == {records[k].priority : k \in indices}
<1>1. Priorities \in SUBSET Nat /\ Priorities # {}
  <2>1. Priorities \in SUBSET Nat
    BY U16Natural
  <2>2. Priorities # {}
    OBVIOUS
  <2> QED
    BY <2>1, <2>2
<1>2. PICK p \in Priorities : \A q \in Priorities : p <= q
  <2> HIDE DEF Priorities
  <2> QED
    BY <1>1, LeastNatural
<1> DEFINE First == {k \in indices : records[k].priority = p}
           Lacks == {MaxU16 - records[k].weight : k \in First}
<1>3. Lacks \in SUBSET Nat /\ Lacks # {}
  <2>1. \A k \in indices : MaxU16 - records[k].weight \in Nat
    BY U16Natural
  <2>2. PICK k \in indices : records[k].priority = p
    BY <1>2
  <2>3. MaxU16 - records[k].weight \in Lacks
    BY <2>2
  <2>4. \A m \in Lacks : m \in Nat
    BY <2>1
  <2> QED
    BY <2>3, <2>4
<1>4. PICK l \in Lacks : \A m \in Lacks : l <= m
  <2> HIDE DEF Lacks
  <2> QED
    BY <1>3, LeastNatural
<1> DEFINE Heaviest == {k \in First : MaxU16 - records[k].weight = l}
<1>5. Heaviest \in SUBSET Nat /\ Heaviest # {}
  <2>1. First \subseteq indices
    OBVIOUS
  <2>2. PICK k \in First : l = MaxU16 - records[k].weight
    BY <1>4
  <2>3. k \in Heaviest
    BY <2>2
  <2>4. Heaviest \subseteq First
    OBVIOUS
  <2> HIDE DEF First, Heaviest
  <2> QED
    BY <2>1, <2>3, <2>4
<1>6. PICK i \in Heaviest : \A j \in Heaviest : i <= j
  <2> HIDE DEF Heaviest
  <2> QED
    BY <1>5, LeastNatural
<1>7. ASSUME NEW j \in indices \ {i} PROVE Precedes(records, i, j)
  <2>1. /\ i \in Nat /\ j \in Nat
        /\ records[i].priority \in Nat /\ records[j].priority \in Nat
        /\ records[i].weight \in Nat /\ records[j].weight \in Nat
    BY U16Natural
  <2>2. records[i].priority <= records[j].priority
    <3>1. records[i].priority = p
      OBVIOUS
    <3>2. records[j].priority \in Priorities
      OBVIOUS
    <3> QED
      BY <1>2, <3>1, <3>2
  <2>3. CASE records[j].priority = records[i].priority
    <3>1. j \in First
      BY <2>3
    <3>2. records[i].weight >= records[j].weight
      <4>1. MaxU16 - records[j].weight \in Lacks
        BY <3>1
      <4>2. l <= MaxU16 - records[j].weight /\ l = MaxU16 - records[i].weight
        BY <1>4, <1>6, <4>1
      <4> QED
        BY <2>1, <4>2, U16Natural
    <3>3. CASE records[i].weight = records[j].weight
      <4>1. j \in Heaviest
        BY <3>1, <3>3
      <4> QED
        BY <1>6, <2>1, <2>3, <3>3, <4>1 DEF Precedes
    <3> QED
      BY <2>1, <2>3, <3>2, <3>3 DEF Precedes
  <2> QED
    BY <2>1, <2>2, <2>3 DEF Precedes
<1> QED
  BY <1>7

LEMMA PrecedesOneWay ==
  ASSUME NEW records, NEW i \in Nat, NEW j \in Nat,
         \A k \in {i, j} : records[k].priority \in U16 /\ records[k].weight \in U16,
         Precedes(records, i, j), Precedes(records, j, i)
  PROVE  FALSE
BY U16Natural DEF Precedes

(* Of the records of a name, the one picked is usable, and no other usable *)
(* one is preferred to it; none is picked if none is usable.               *)
LEMMA BestIsPreferred ==
  ASSUME NEW answers \in SrvAnswers, NEW name \in Names,
         NEW usable, usable = {r \in Range(answers[name]) : r.host # Root}
  PROVE  \/ usable = {} /\ Best(answers[name]) = {}
         \/ \E r \in usable : Best(answers[name]) = {r} /\ \A s \in usable : Preferred(r, s)
<1> DEFINE records == answers[name]
           indices == {k \in DOMAIN records : records[k].host # Root}
<1>1. /\ DOMAIN records \in SUBSET Nat
      /\ \A k \in DOMAIN records : records[k].priority \in U16 /\ records[k].weight \in U16
  <2>1. /\ records \in Seq(Range(records))
        /\ \A r \in Range(records) : r.priority \in U16 /\ r.weight \in U16
    BY SrvAssumption
  <2>2. DOMAIN records = 1 .. Len(records) /\ Len(records) \in Nat
    BY <2>1
  <2>3. \A k \in DOMAIN records : records[k] \in Range(records)
    BY DEF Range
  <2>4. DOMAIN records \in SUBSET Nat
    BY <2>2
  <2> QED
    BY <2>1, <2>3, <2>4
<1>2. usable = {records[k] : k \in indices}
  BY DEF Range
<1>3. Best(records) = {records[k] :
        k \in {i \in indices : \A j \in indices \ {i} : Precedes(records, i, j)}}
  BY DEF Best, Foremost
<1> HIDE DEF records
<1>4. CASE indices = {}
  BY <1>2, <1>3, <1>4 DEF records
<1>5. CASE indices # {}
  <2>1. PICK i \in indices : \A j \in indices \ {i} : Precedes(records, i, j)
    <3> HIDE DEF indices
    <3>1. /\ indices \in SUBSET Nat
          /\ \A k \in indices : records[k].priority \in U16 /\ records[k].weight \in U16
      BY <1>1 DEF indices
    <3> QED
      BY <1>5, <3>1, ForemostExists
  <2>2. ASSUME NEW k \in indices, \A j \in indices \ {k} : Precedes(records, k, j)
        PROVE  k = i
    BY <1>1, <2>1, <2>2, PrecedesOneWay
  <2>3. Best(records) = {records[i]}
    BY <1>3, <2>1, <2>2
  <2>4. ASSUME NEW k \in indices PROVE Preferred(records[i], records[k])
    BY <1>1, <2>1, U16Natural DEF Preferred, Precedes
  <2> QED
    BY <1>2, <2>1, <2>3, <2>4 DEF records
<1> QED
  BY <1>4, <1>5

-----------------------------------------------------------------------------
(* SRV records are asked for once, by a search for email services, and no  *)
(* other mechanism finds a config of theirs.                               *)
OfSrv(configs) == {c \in configs : c.source = Source("srv")}

Answered == UNION {FromSrv(Report(answers)) : answers \in srv}

AskedOnce ==
  /\ \E S : left \in Seq(S)
  /\ \A k \in DOMAIN left : left[k] = "srv" =>
       left = <<"srv">> /\ OfSrv(got) = {} /\ command.services = EmailServices

SrvInv ==
  /\ command \in Commands
  /\ \E S : log \in Seq(S)
  /\ pc = "run" => Len(log) < Len(command.order)
  /\ srv \subseteq SrvAnswers /\ \A a, b \in srv : a = b
  /\ srv # {} => command.services = EmailServices
  /\ pc = "check" => srv = {} /\ log = <<>>
  /\ pc = "run" => AskedOnce /\ OfSrv(got) = Answered
  /\ pc = "done" => OfSrv(printed) = Answered

(* Only searches for email services ask for SRV records.                   *)
LEMMA OrderSrv ==
  ASSUME NEW c \in Commands, NEW k \in 1 .. Len(c.order)
  PROVE  c.order[k] = "srv" => c.services = EmailServices
<1>1. CASE c \in {Is("google"), Is("microsoft")}
  BY <1>1 DEF Is
<1>2. CASE c = Command(FirstEmail, EmailServices)
  BY <1>2 DEF Command
<1>3. CASE \E m \in {"caldav", "carddav"}, s \in {CalendarServices, ContactServices} :
             c = Command(FirstDav(m), s)
  BY <1>3 DEF Command, FirstDav
<1>4. CASE \E m : c = Command(<<m>>, EmailServices)
  BY <1>4 DEF Command
<1>5. CASE \E m \in {"caldav", "carddav", "pacc", "jmap"},
              s \in {CalendarServices, ContactServices, FileServices} : c = Command(<<m>>, s)
  BY <1>5 DEF Command
<1>6. CASE c \in {Command(FirstDav("caldav"), CalendarServices),
                 Command(FirstDav("carddav"), ContactServices)}
  BY <1>3, <1>6
<1>7. CASE c \in {Command(<<"caldav">>, CalendarServices), Command(<<"carddav">>, ContactServices),
                 Command(<<"pacc">>, FileServices)}
  BY <1>5, <1>7
<1>8. CASE c \in {Command(<<m>>, EmailServices) : m \in {"autoconfig", "srv", "pacc", "jmap"}}
  BY <1>4, <1>8
<1>9. CASE c \in {Command(<<m>>, s) :
                 m \in {"pacc", "jmap"}, s \in {CalendarServices, ContactServices}}
  BY <1>5, <1>9
<1>10. \/ c \in {Is("google"), Is("microsoft")}
       \/ c = Command(FirstEmail, EmailServices)
       \/ c \in {Command(FirstDav("caldav"), CalendarServices),
                Command(FirstDav("carddav"), ContactServices)}
       \/ c \in {Command(<<"caldav">>, CalendarServices), Command(<<"carddav">>, ContactServices),
                Command(<<"pacc">>, FileServices)}
       \/ c \in {Command(<<m>>, EmailServices) : m \in {"autoconfig", "srv", "pacc", "jmap"}}
       \/ c \in {Command(<<m>>, s) :
                m \in {"pacc", "jmap"}, s \in {CalendarServices, ContactServices}}
  <2>1. \/ c \in {Is("google"), Is("microsoft"), Command(FirstEmail, EmailServices),
                 Command(FirstDav("caldav"), CalendarServices), Command(<<"caldav">>, CalendarServices),
                 Command(FirstDav("carddav"), ContactServices), Command(<<"carddav">>, ContactServices)}
        \/ c \in {Command(<<m>>, EmailServices) : m \in {"autoconfig", "srv", "pacc", "jmap"}}
        \/ c \in {Command(<<m>>, s) :
                 m \in {"pacc", "jmap"}, s \in {CalendarServices, ContactServices}}
        \/ c = Command(<<"pacc">>, FileServices)
    BY DEF Commands
  <2> QED
    BY <2>1
<1> QED
  BY <1>1, <1>2, <1>6, <1>7, <1>8, <1>9, <1>10

(* Which locations a mechanism has.                                        *)
LEMMA LocationsSrv ==
  ASSUME NEW mechanism
  PROVE  /\ \E S : Locations(mechanism) \in Seq(S)
         /\ \A k \in DOMAIN Locations(mechanism) : Locations(mechanism)[k] = "srv" =>
              Locations(mechanism) = <<"srv">> /\ mechanism = "srv"
<1>1. CASE mechanism = "provider"
  <2>1. Locations(mechanism) \in {<<"mx">>, <<>>}
    BY <1>1 DEF Locations
  <2>2. <<"mx">> \in Seq({"mx"}) /\ <<>> \in Seq({"mx"})
    OBVIOUS
  <2>3. \A k \in DOMAIN Locations(mechanism) : Locations(mechanism)[k] # "srv"
    BY <2>1
  <2> QED
    BY <2>1, <2>2, <2>3
<1>2. CASE mechanism = "autoconfig"
  <2>1. Locations(mechanism) = <<"ispMain", "ispFallback", "ispdb", "mailconf", "mxAutoconfig">>
    BY <1>2 DEF Locations
  <2>2. Locations(mechanism) \in Seq(AutoconfigLocations)
    BY <2>1 DEF AutoconfigLocations
  <2>3. \A k \in DOMAIN Locations(mechanism) : Locations(mechanism)[k] # "srv"
    BY <2>1
  <2> QED
    BY <2>2, <2>3
<1>3. CASE mechanism \notin {"provider", "autoconfig"}
  <2>1. Locations(mechanism) = <<mechanism>>
    BY <1>3 DEF Locations
  <2>2. <<mechanism>> \in Seq({mechanism})
    OBVIOUS
  <2>3. \A k \in DOMAIN <<mechanism>> : <<mechanism>>[k] = mechanism
    OBVIOUS
  <2> QED
    BY <2>1, <2>2, <2>3
<1> QED
  BY <1>1, <1>2, <1>3

(* Sources of the other mechanisms.                                        *)
LEMMA OthersNotSrv ==
  /\ \A providers : OfSrv(FixedConfigs(providers)) = {}
  /\ \A d : \A l \in AutoconfigLocations : OfSrv(KeepSecure(FromAutoconfig(d, input, l))) = {}
  /\ \A d : OfSrv(KeepSecure(FromPacc(d))) = {}
  /\ \A s, url : OfSrv(KeepSecure({FromDav(s, url)})) = {}
  /\ \A url, schemes : OfSrv(KeepSecure({FromJmap(url, schemes)})) = {}
<1>1. ASSUME NEW configs, \A c \in configs : c.source.kind # "srv"
      PROVE  OfSrv(configs) = {} /\ OfSrv(KeepSecure(configs)) = {}
  BY <1>1 DEF OfSrv, KeepSecure, Source
<1>2. \A providers : \A c \in FixedConfigs(providers) : c.source.kind # "srv"
  BY FixedSource DEF FixedConfigs
<1>3. \A d : \A l \in AutoconfigLocations : \A c \in FromAutoconfig(d, input, l) :
        c.source.kind # "srv"
  BY DEF FromAutoconfig, Advertise, Source, AutoconfigLocations
<1>4. \A d : \A c \in FromPacc(d) : c.source.kind # "srv"
  BY DEF FromPacc, Advertise, Source
<1>5. \A s, url : \A c \in {FromDav(s, url)} : c.source.kind # "srv"
  BY DEF FromDav, Advertise, Source
<1>6. \A url, schemes : \A c \in {FromJmap(url, schemes)} : c.source.kind # "srv"
  BY DEF FromJmap, Advertise, Source
<1> QED
  BY <1>1, <1>2, <1>3, <1>4, <1>5, <1>6

(* What a report is made into: configs of SRV, of email services.          *)
LEMMA FromSrvEmail ==
  ASSUME NEW report
  PROVE  \A c \in FromSrv(report) : c.source = Source("srv") /\ c.service \in EmailServices
<1>1. \A name \in Names : SrvService[name] \in EmailServices
  BY DEF Names, SrvService, EmailServices
<1> QED
  BY <1>1 DEF FromSrv, SrvConfig, Advertise

LEMMA AnsweredEmail ==
  \A c \in Answered : c.source = Source("srv") /\ c.service \in EmailServices
BY FromSrvEmail DEF Answered

(* A mechanism begins with no config of SRV, and its first location.       *)
LEMMA BeginSrv ==
  ASSUME SrvInv, NEW k \in 1 .. Len(command.order), Begin(command.order[k]), UNCHANGED command
  PROVE  AskedOnce' /\ OfSrv(got') = {}
<1>1. OfSrv(got') = {}
  <2>1. OfSrv({}) = {}
    BY DEF OfSrv
  <2> QED
    BY <2>1, OthersNotSrv DEF Begin, ByDomain
<1>2. command.order[k] = "srv" => command.services = EmailServices
  BY OrderSrv DEF SrvInv
<1> QED
  BY <1>1, <1>2, LocationsSrv DEF Begin, AskedOnce, OfSrv

(* A location that is not that of SRV records is asked.                    *)
LEMMA HearSrv ==
  ASSUME SrvInv, NEW location, NEW configs, Hear(location, configs), UNCHANGED srv,
         OfSrv(configs) = {}
  PROVE  SrvInv'
<1>1. /\ pc = "run" /\ left # <<>> /\ AskedOnce /\ OfSrv(got) = Answered
      /\ left' = Tail(left) /\ got' = got \cup configs
      /\ UNCHANGED <<command, pc, log, printed, srv>>
  BY DEF Hear, SrvInv, arguments
<1>2. OfSrv(got') = OfSrv(got) /\ Answered' = Answered
  BY <1>1 DEF OfSrv, Answered
<1>3. AskedOnce'
  <2>1. PICK S : left \in Seq(S)
    BY <1>1 DEF AskedOnce
  <2>2. left' \in Seq(S) /\ Len(left') = Len(left) - 1 /\ Len(left) \in Nat /\ Len(left) > 0
    BY <1>1, <2>1
  <2>3. ASSUME NEW k \in DOMAIN left', left'[k] = "srv" PROVE FALSE
    <3>1. k \in 1 .. Len(left) - 1 /\ left[k + 1] = "srv" /\ k + 1 \in DOMAIN left
      BY <1>1, <2>1, <2>2, <2>3
    <3>2. left = <<"srv">>
      BY <1>1, <3>1 DEF AskedOnce
    <3> QED
      BY <3>1, <3>2
  <2> QED
    BY <2>2, <2>3 DEF AskedOnce
<1> QED
  BY <1>1, <1>2, <1>3 DEF SrvInv

(* SRV records are received: nothing was before.                           *)
LEMMA AskSrvSrv ==
  ASSUME SrvInv, NEW answers \in SrvAnswers, AskSrv(answers)
  PROVE  SrvInv'
<1>1. /\ pc = "run" /\ left # <<>> /\ Head(left) = "srv" /\ AskedOnce
      /\ left' = Tail(left) /\ got' = got \cup FromSrv(Report(answers))
      /\ UNCHANGED <<command, pc, log, printed>> /\ srv' = {answers}
  BY DEF AskSrv, Hear, SrvInv, arguments
<1>2. /\ 1 \in DOMAIN left /\ left[1] = "srv"
  <2>1. PICK S : left \in Seq(S)
    BY <1>1 DEF AskedOnce
  <2> QED
    BY <1>1, <2>1
<1>3. left = <<"srv">> /\ OfSrv(got) = {} /\ command.services = EmailServices
  BY <1>1, <1>2 DEF AskedOnce
<1>4. Answered' = FromSrv(Report(answers))
  BY <1>1 DEF Answered
<1>5. OfSrv(got') = FromSrv(Report(answers))
  BY <1>1, <1>3, FromSrvEmail DEF OfSrv
<1>6. left' = <<>>
  BY <1>1, <1>3
<1>7. AskedOnce'
  <2>1. left' \in Seq({}) /\ DOMAIN left' = {}
    BY <1>6
  <2> QED
    BY <2>1 DEF AskedOnce
<1> QED
  BY <1>1, <1>3, <1>4, <1>5, <1>7 DEF SrvInv

(* Configs of SRV are printed if there are any; a mechanism that finds     *)
(* nothing of the services of the command has found none of SRV.           *)
LEMMA ConcludeSrv ==
  ASSUME SrvInv, Conclude
  PROVE  SrvInv'
<1>1. PICK S : log \in Seq(S)
  BY DEF SrvInv
<1>2. /\ pc = "run" /\ AskedOnce /\ OfSrv(got) = Answered
      /\ log' = Append(log, got) /\ UNCHANGED <<command, srv>>
      /\ Len(log) < Len(command.order)
  BY DEF Conclude, SrvInv, arguments, heard
<1>3. /\ log' \in Seq(S \cup {got}) /\ Len(log') = Len(log) + 1
      /\ Len(log) \in Nat /\ Len(command.order) \in Nat
  BY <1>1, <1>2, OrderNonempty, AppendHeard DEF SrvInv
<1>4. Answered' = Answered
  BY <1>2 DEF Answered
<1>5. OfSrv(Only(got, command.services)) = Answered
  <2>1. CASE srv = {}
    <3>1. OfSrv(got) = {}
      BY <1>2, <2>1 DEF Answered
    <3> QED
      BY <1>2, <3>1 DEF OfSrv, Only
  <2>2. CASE srv # {}
    <3>1. \A service \in EmailServices : Wants(command.services, service)
      BY <2>2 DEF SrvInv, Wants
    <3> QED
      BY <1>2, <3>1, AnsweredEmail DEF OfSrv, Only
  <2> QED
    BY <2>1, <2>2
<1>6. CASE pc' = "done" /\ printed' = Only(got, command.services)
  BY <1>2, <1>3, <1>4, <1>5, <1>6 DEF SrvInv
<1>7. CASE /\ Only(got, command.services) = {} /\ Len(log') # Len(command.order)
           /\ Begin(command.order[Len(log') + 1]) /\ pc' = pc
  <2>1. Answered = {}
    BY <1>5, <1>7 DEF OfSrv
  <2>2. Len(log') + 1 \in 1 .. Len(command.order)
    BY <1>2, <1>3, <1>7
  <2>3. AskedOnce' /\ OfSrv(got') = {}
    BY <1>2, <1>7, <2>2, BeginSrv
  <2>4. Len(log') < Len(command.order)
    BY <2>2, <1>3
  <2> QED
    BY <1>2, <1>3, <1>4, <1>7, <2>1, <2>3, <2>4 DEF SrvInv
<1> QED
  BY <1>6, <1>7 DEF Conclude

LEMMA CheckResolverSrv ==
  ASSUME SrvInv, NEW rcode, CheckResolver(rcode)
  PROVE  SrvInv'
<1>1. /\ UNCHANGED <<command, log, srv>> /\ srv = {} /\ log = <<>> /\ command \in Commands
  BY DEF CheckResolver, SrvInv, arguments, heard
<1>2. Answered' = {}
  BY <1>1 DEF Answered
<1>3. CASE pc' = "failed"
  BY <1>1, <1>3 DEF SrvInv
<1>4. CASE pc' = "run" /\ Begin(command.order[1])
  <2>1. 1 \in 1 .. Len(command.order)
    BY <1>1, OrderNonempty
  <2>2. AskedOnce' /\ OfSrv(got') = {}
    BY <1>1, <1>4, <2>1, BeginSrv
  <2>3. Len(log') < Len(command.order)
    BY <1>1, OrderNonempty
  <2> QED
    BY <1>1, <1>2, <1>4, <2>2, <2>3 DEF SrvInv
<1> QED
  BY <1>3, <1>4 DEF CheckResolver, Fail

(* The configs printed of a name are that of the record picked, if any.    *)
LEMMA ShownOfName ==
  ASSUME SrvInv, pc = "done", NEW answers \in srv, NEW name \in Names
  PROVE  {c \in printed : /\ c.source = Source("srv")
                          /\ c.service = SrvService[name]
                          /\ c.endpoint.proto = SrvSecurity[name]}
         = {SrvConfig(name, r) : r \in Best(answers[name])}
<1> DEFINE shown == {c \in printed : /\ c.source = Source("srv")
                                     /\ c.service = SrvService[name]
                                     /\ c.endpoint.proto = SrvSecurity[name]}
<1>1. OfSrv(printed) = FromSrv(Report(answers))
  <2>1. srv = {answers}
    BY DEF SrvInv
  <2> QED
    BY <2>1 DEF SrvInv, Answered
<1>2. \A other \in Names :
        SrvService[other] = SrvService[name] /\ SrvSecurity[other] = SrvSecurity[name] =>
          other = name
  BY DEF Names, SrvService, SrvSecurity
<1>3. \A other \in Names : \A r :
        /\ SrvConfig(other, r).source = Source("srv")
        /\ SrvConfig(other, r).service = SrvService[other]
        /\ SrvConfig(other, r).endpoint.proto = SrvSecurity[other]
  BY DEF SrvConfig, Advertise, Tcp
<1>4. \A other \in Names : Report(answers)[other] = Best(answers[other])
  BY DEF Report
<1>5. \A r \in Best(answers[name]) : r.host # Root
  BY DEF Best, Foremost
<1>6. ASSUME NEW c \in shown PROVE c \in {SrvConfig(name, r) : r \in Best(answers[name])}
  <2>1. c \in FromSrv(Report(answers))
    BY <1>1 DEF OfSrv
  <2>2. PICK other \in Names : \E r \in Best(answers[other]) : c = SrvConfig(other, r)
    BY <1>4, <2>1 DEF FromSrv
  <2> QED
    BY <1>2, <1>3, <2>2
<1>7. ASSUME NEW r \in Best(answers[name]) PROVE SrvConfig(name, r) \in shown
  <2>1. SrvConfig(name, r) \in FromSrv(Report(answers))
    BY <1>4, <1>5 DEF FromSrv
  <2> QED
    BY <1>1, <1>3, <2>1 DEF OfSrv
<1> QED
  BY <1>6, <1>7

(* Of an SRV name, the record that no other is preferred to is printed.    *)
THEOREM BestSrvCorrect == Spec => []BestSrv
<1>1. Init => SrvInv
  <2> SUFFICES ASSUME Init PROVE SrvInv
    OBVIOUS
  <2>1. log \in Seq({})
    BY DEF Init
  <2> QED
    BY <2>1 DEF Init, SrvInv
<1>2. SrvInv /\ [Next]_vars => SrvInv'
  <2> SUFFICES ASSUME SrvInv, [Next]_vars PROVE SrvInv'
    OBVIOUS
  <2>1. ASSUME NEW rcode \in 0 .. NoAnswer, CheckResolver(rcode) PROVE SrvInv'
    BY <2>1, CheckResolverSrv
  <2>2. CASE NoDocument
    <3>1. OfSrv({}) = {}
      BY DEF OfSrv
    <3> QED
      BY <2>2, <3>1, HearSrv DEF NoDocument, heard
  <2>3. ASSUME NEW exchanges \in Exchanges, AskMx(exchanges) PROVE SrvInv'
    BY <2>3, HearSrv, OthersNotSrv DEF AskMx, heard
  <2>4. ASSUME NEW l \in AutoconfigLocations, NEW d, AskAutoconfig(l, d) PROVE SrvInv'
    BY <2>4, HearSrv, OthersNotSrv DEF AskAutoconfig
  <2>5. ASSUME NEW d, AskPacc(d) PROVE SrvInv'
    BY <2>5, HearSrv, OthersNotSrv DEF AskPacc, heard
  <2>6. ASSUME NEW answers \in SrvAnswers, AskSrv(answers) PROVE SrvInv'
    BY <2>6, AskSrvSrv
  <2>7. ASSUME NEW s, NEW url, AskDav(s, url) PROVE SrvInv'
    BY <2>7, HearSrv, OthersNotSrv DEF AskDav, heard
  <2>8. ASSUME NEW url, NEW schemes, AskJmap(url, schemes) PROVE SrvInv'
    BY <2>8, HearSrv, OthersNotSrv DEF AskJmap, heard
  <2>9. CASE Conclude
    BY <2>9, ConcludeSrv
  <2>10. CASE UNCHANGED vars
    BY <2>10 DEF vars, arguments, heard, SrvInv, AskedOnce, Answered, OfSrv
  <2> QED
    BY <2>1, <2>2, <2>3, <2>4, <2>5, <2>6, <2>7, <2>8, <2>9, <2>10 DEF Next
<1>3. SrvInv => BestSrv
  <2> SUFFICES ASSUME SrvInv, NEW answers \in srv, pc = "done", NEW name \in Names
               PROVE  LET usable == {r \in Range(answers[name]) : r.host # Root}
                          shown == {c \in printed : /\ c.source = Source("srv")
                                                    /\ c.service = SrvService[name]
                                                    /\ c.endpoint.proto = SrvSecurity[name]}
                      IN  IF usable = {} THEN shown = {}
                          ELSE \E r \in usable : /\ shown = {SrvConfig(name, r)}
                                                 /\ \A s \in usable : Preferred(r, s)
    BY Zenon DEF BestSrv
  <2> DEFINE usable == {r \in Range(answers[name]) : r.host # Root}
             shown == {c \in printed : /\ c.source = Source("srv")
                                       /\ c.service = SrvService[name]
                                       /\ c.endpoint.proto = SrvSecurity[name]}
  <2>1. shown = {SrvConfig(name, r) : r \in Best(answers[name])}
    BY ShownOfName
  <2>2. answers \in SrvAnswers
    BY DEF SrvInv
  <2>3. \/ usable = {} /\ Best(answers[name]) = {}
        \/ \E r \in usable : Best(answers[name]) = {r} /\ \A s \in usable : Preferred(r, s)
    BY <2>2, BestIsPreferred
  <2> QED
    BY <2>1, <2>3
<1> QED
  BY <1>1, <1>2, <1>3, PTL DEF Spec
=============================================================================
