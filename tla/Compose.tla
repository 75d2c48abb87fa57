------------------------------ MODULE Compose ------------------------------
(***************************************************************************)
(* `DiscoveryComposeClientStd' (compose/client.rs): one call of            *)
(* `compose_all', `compose_all_within', `compose_first' or `compose_raw'.  *)
(* The calling thread goes through six fan-outs:                           *)
(*                                                                         *)
(*   "resolver"    does the DNS resolver answer?                           *)
(*   "mechanisms"  one task per discovery mechanism                        *)
(*   "roots"       one task per advertised DAV origin without a path       *)
(*   "probe"       one task per collected config                           *)
(*   "resources"   one task per distinct HTTP endpoint                     *)
(*   "issuers"     one task per distinct OAuth issuer                      *)
(*                                                                         *)
(* Each fan-out is an instance of module Gather: what a task answers, when *)
(* and in which order is up to the network. The first three are bounded by *)
(* the deadline of `compose_all_within'; an exchange of the other three    *)
(* goes on until it gives up by itself, which an http(s) stream does after *)
(* a minute without a byte and a plain tcp stream never. Time is what the  *)
(* caller of `compose_all_within' spends waiting: its own computations     *)
(* take none.                                                              *)
(*                                                                         *)
(* Fan-outs: see Gather. Merging: see Configs. Auth methods: see Auth.     *)
(***************************************************************************)
EXTENDS Configs, Auth, FiniteSets, Functions, SequencesExt

CONSTANTS
  Requests,         \* [mode, services, email, known, secure, plainDns]
  Deadline,         \* of `compose_all_within', in clock ticks
  Patience,         \* ticks counted after it; a bound of the model
  Provider,         \* the configs of the fixed provider of a known domain
  Found(_),         \* mechanism -> the lists its documents may yield
  Roots(_),         \* DAV target -> the context roots a walk may end on
  Schemes(_),       \* endpoint -> sets of schemes it may advertise
  Metadata(_),      \* endpoint -> RFC 9728 documents, [resource, servers, scopes]
  Grants(_),        \* issuer -> sets of grants its RFC 8414 document may name
  None, Running, Panicked

VARIABLES
  req,       \* the call
  pc,        \* "plan", a fan-out, "reduce", "done" or "failed"
  now,       \* clock
  until,     \* end of the bounded wait
  tasks,     \* what the tasks of the fan-out are about, in order
  outcome,   \* task -> how its thread ended
  results,   \* task -> the slot the caller reads
  outputs,   \* priority -> the output of that mechanism; see Priority
  at,        \* reduction: <<output, config>> collected last
  list,      \* the collected configs
  schemes,   \* config -> schemes its probe brought home
  metadata,  \* endpoint -> set of at most one resource metadata
  error

waiting == <<pc, until, tasks, outcome, results>>
data == <<outputs, at, list, schemes, metadata, error>>
vars == <<req, now, waiting, data>>

-----------------------------------------------------------------------------
(* The mechanisms, in the priority order of the reduction. Position 0 is   *)
(* the fixed provider of a known domain.                                   *)
Priority ==
  <<"mx", "pacc", "ispMain", "ispFallback", "mailconf", "ispdb", "mxAutoconfig",
    "srv", "caldav", "carddav", "jmap">>

(* What the documents of a mechanism may hold, before any filter.          *)
Published == {Provider} \cup UNION {Found(Priority[p]) : p \in DOMAIN Priority}

(***************************************************************************)
(* What the code guarantees of its inputs. The fixed providers, MX         *)
(* detection and SRV records name encrypted endpoints (see Documents), and *)
(* no document binds a grant to a resource. A walk ends on an endpoint.    *)
(* Methods is closed under the rewriting passes, and an issuer resolves to *)
(* at least one grant, bound to nothing yet.                               *)
(***************************************************************************)
ASSUME DeadlineAssumption == Deadline \in Nat /\ Patience \in Nat

ASSUME PublishedAssumption ==
  /\ Published \subseteq Seq(Config)
  /\ \A f \in Published : \A k \in DOMAIN f : \A m \in f[k].auth :
       m.kind = "grant" => m.resource = "none"
  /\ \A f \in {Provider} \cup Found("mx") \cup Found("srv") :
       \A k \in DOMAIN f : IsSecure(f[k])

ASSUME RootsAssumption ==
  \A s \in Services, e \in Endpoints :
    Roots([service |-> s, proto |-> e.proto, host |-> e.host]) \subseteq Endpoints

ASSUME MethodsAssumption ==
  /\ {Password, Bearer} \subseteq Methods
  /\ \A m \in Methods :
       m = [kind |-> m.kind, server |-> m.server, resource |-> m.resource, scopes |-> m.scopes]
  /\ \A e \in Endpoints : \A d \in Metadata(e) :
       {Issuer(s) : s \in d.servers} \cup BindGrants(Methods, d) \subseteq Methods
  /\ \A m \in Methods : m.kind = "issuer" =>
       /\ m = Issuer(m.server)
       /\ \A G \in Grants(m.server) :
            /\ G # {} /\ G \subseteq Methods
            /\ \A g \in G : g.kind = "grant" /\ g.resource = "none"

-----------------------------------------------------------------------------
(* What a task may answer. A set with at most one element stands for an    *)
(* Option: a failure anywhere in the exchange comes back as an empty one.  *)

Option(S) == {{}} \cup {{x} : x \in S}

(* A plain HTTP resolver is refused in secure-only mode without asking it. *)
ResolverAnswers ==
  IF req.secure /\ req.plainDns THEN {{"PlainResolver"}} ELSE Option({"Resolver"})

(* A filtered list keeps the positions of what is left: only their order   *)
(* is read.                                                                *)
KeepSecure(configs) ==
  IF req.secure
  THEN Restrict(configs, {k \in DOMAIN configs : IsSecure(configs[k])})
  ELSE configs

(* In secure-only mode the stream pool opens no http stream; it keeps the  *)
(* tcp factory that DNS needs, and a redirect may name a tcp URL.          *)
Reachable(e) == req.secure => e.proto # "http"

(* Plausible bug: no runner filters.                                       *)
RunMechanismUnfiltered(mechanism, found) == found

(* MX detection and SRV records name encrypted endpoints by construction:  *)
(* they are the two runners that do not filter.                            *)
RunMechanism(mechanism, found) ==
  IF mechanism \in {"mx", "srv"} THEN found ELSE KeepSecure(found)

(* Only the endpoints of these services are asked.                         *)
Probed(c) == HasUrl(c.endpoint) /\ c.service \in {"jmap", "caldav", "carddav", "webdav"}

Answers(t) ==
  CASE pc = "resolver" -> ResolverAnswers
    [] pc = "mechanisms" -> {RunMechanism(tasks[t], f) : f \in Found(tasks[t])}
    [] pc = "roots" -> Option({e \in Roots(tasks[t]) : Reachable(e)})
    [] pc = "probe" -> IF Probed(list[t]) THEN Schemes(list[t].endpoint) ELSE {{}}
    [] pc = "resources" -> Option(Metadata(tasks[t]))
    [] pc = "issuers" -> {{Issuer(tasks[t])}} \cup Grants(tasks[t])
    [] OTHER -> {}

(* Plausible bug: the DAV walks have no deadline.                          *)
BoundedMechanisms == req.mode = "within" /\ pc \in {"resolver", "mechanisms"}

Bounded == req.mode = "within" /\ pc \in {"resolver", "mechanisms", "roots"}
Expired == Bounded /\ now >= until

(* Only `compose_all_within' runs the resolver check on another thread.    *)
Threaded == pc # "resolver" \/ Bounded

FanOut == INSTANCE Gather WITH
  Values <- {},   \* see Answers
  expired <- Expired,
  returned <- pc \in {"plan", "reduce", "done", "failed"}

(* The caller has its slots back.                                          *)
Ready == Expired \/ FanOut!NothingLeft

(* The slot of task t, d when it is empty.                                 *)
Slot(t, d) == IF results[t] = None THEN d ELSE results[t]

Launch(fanout, ts) ==
  /\ pc' = fanout
  /\ tasks' = ts
  /\ outcome' = [t \in DOMAIN ts |-> Running]
  /\ results' = [t \in DOMAIN ts |-> None]

(* Leave the fan-outs.                                                     *)
Proceed(label) == Launch(label, <<>>)

Init ==
  /\ req \in Requests
  /\ pc = "plan"
  /\ now = 0 /\ until = 0
  /\ tasks = <<>> /\ outcome = <<>> /\ results = <<>>
  /\ outputs = <<>> /\ at = <<0, 0>> /\ list = <<>>
  /\ schemes = <<>> /\ metadata = <<>>
  /\ error = "none"

(***************************************************************************)
(* Plan and resolver check.                                                *)
(***************************************************************************)

Fail(e) ==
  /\ error' = e
  /\ Proceed("failed")
  /\ UNCHANGED <<until, outputs, at, list, schemes, metadata>>

Plan ==
  /\ pc = "plan"
  /\ IF ~req.email
     THEN Fail("InvalidEmail")
     ELSE /\ Launch("resolver", <<"resolver">>)
          /\ until' = now + Deadline
          /\ UNCHANGED data
  /\ UNCHANGED <<req, now>>

(* The mechanisms a call runs.                                             *)
Planned(mechanism) ==
  LET wants(service) == Wants(req.services, service)
  IN  CASE mechanism = "mx" -> ~req.known
        [] mechanism = "pacc" -> TRUE
        [] mechanism = "srv" -> wants("imap") \/ wants("smtp")
        [] mechanism \in {"caldav", "carddav", "jmap"} -> wants(mechanism)
        [] OTHER -> wants("imap") \/ wants("pop3") \/ wants("smtp")

Mechanisms == Restrict(Priority, {p \in DOMAIN Priority : Planned(Priority[p])})

(* Plausible bug: the mechanisms get the whole deadline again.             *)
CheckResolverRestart ==
  /\ pc = "resolver" /\ Ready
  /\ IF Slot(1, {"Resolver"}) # {}
     THEN \E e \in Slot(1, {"Resolver"}) : Fail(e)
     ELSE /\ Launch("mechanisms", Mechanisms)
          /\ until' = now + Deadline
          /\ UNCHANGED data
  /\ UNCHANGED <<req, now>>

(* The probe counts against the deadline: no answer in time is a failure,  *)
(* and the mechanisms get what is left.                                    *)
CheckResolver ==
  /\ pc = "resolver" /\ Ready
  /\ IF Slot(1, {"Resolver"}) # {}
     THEN \E e \in Slot(1, {"Resolver"}) : Fail(e)
     ELSE /\ Launch("mechanisms", Mechanisms)
          /\ until' = now + (IF now < Deadline THEN Deadline - now ELSE 0)
          /\ UNCHANGED data
  /\ UNCHANGED <<req, now>>

(***************************************************************************)
(* Mechanisms and DAV context roots.                                       *)
(***************************************************************************)

(* `dav_root_target': an advertised CalDAV or CardDAV URL without a path.  *)
IsDavTarget(c) ==
  /\ c.service \in {"caldav", "carddav"}
  /\ ~c.resolved
  /\ c.endpoint.proto \in {"https", "http"}
  /\ c.endpoint.path = "/"

DavTarget(c) ==
  [service |-> c.service, proto |-> c.endpoint.proto, host |-> c.endpoint.host]

(* The distinct targets of some outputs.                                   *)
DavTargets(outs) ==
  SetToSeq({DavTarget(c) : c \in {d \in UNION {Range(outs[o]) : o \in DOMAIN outs} :
                                    IsDavTarget(d)}})

(* Outputs in priority order, whatever the order of completion; the fixed  *)
(* provider of a known domain comes first.                                 *)
CollectOutputs ==
  /\ pc = "mechanisms" /\ Ready
  /\ outputs' = [p \in DOMAIN tasks \cup (IF req.known THEN {0} ELSE {}) |->
                   IF p = 0 THEN Provider ELSE Slot(p, <<>>)]
  /\ Launch("roots", DavTargets(outputs'))
  /\ until' = now + (IF now < Deadline THEN Deadline - now ELSE 0)
  /\ UNCHANGED <<req, now, at, list, schemes, metadata, error>>

(* Plausible bug: the root of whatever service was probed at the origin.   *)
RootOfAnyService(c) ==
  UNION {Slot(t, {}) : t \in {u \in DOMAIN tasks :
    IsDavTarget(c) /\ tasks[u] = [DavTarget(c) EXCEPT !.service = tasks[u].service]}}

(* The root its walk found for c, as a set of at most one endpoint.        *)
RootOf(c) ==
  {e \in UNION {Slot(t, {}) : t \in {u \in DOMAIN tasks :
                                       IsDavTarget(c) /\ tasks[u] = DavTarget(c)}} :
     ~req.secure \/ e.proto = "https"}

Rooted(c) ==
  IF RootOf(c) = {}
  THEN c
  ELSE [c EXCEPT !.endpoint = CHOOSE e \in RootOf(c) : TRUE, !.resolved = TRUE]

HttpEndpoints(configs) ==
  {e \in {configs[k].endpoint : k \in DOMAIN configs} : HasUrl(e)}

(* Every config of some outputs, by its place: <<output, position>>.       *)
Flattened(outs) ==
  [p \in UNION {{o} \X DOMAIN outs[o] : o \in DOMAIN outs} |-> outs[p[1]][p[2]]]

(* The configs of a flattened list that the call asked for.                *)
OnlyWanted(all) == Restrict(all, {p \in DOMAIN all : Wants(req.services, all[p].service)})

(* `compose_raw' neither merges nor probes.                                *)
ApplyRoots ==
  /\ pc = "roots" /\ Ready
  /\ outputs' = [o \in DOMAIN outputs |->
                   [k \in DOMAIN outputs[o] |-> Rooted(outputs[o][k])]]
  /\ IF req.mode = "raw"
     THEN /\ list' = OnlyWanted(Flattened(outputs'))
          /\ Launch("resources", SetToSeq(HttpEndpoints(list')))
     ELSE /\ Proceed("reduce")
          /\ UNCHANGED list
  /\ UNCHANGED <<req, now, until, at, schemes, metadata, error>>

(***************************************************************************)
(* Reduction.                                                              *)
(***************************************************************************)

(* The configs of the current output that have not been collected yet.     *)
Rest ==
  IF at[1] \in DOMAIN outputs
  THEN {k \in DOMAIN outputs[at[1]] : k > at[2]}
  ELSE {}

(* Plausible bug: services nobody asked for are collected.                 *)
CollectUnfiltered ==
  /\ pc = "reduce"
  /\ \E k \in Rest :
       /\ \A j \in Rest : k <= j
       /\ at' = <<at[1], k>>
       /\ Collected(list, outputs[at[1]][k], list')
  /\ UNCHANGED <<req, now, waiting, outputs, schemes, metadata, error>>

(* The next config of the current output meets the collected ones.         *)
Collect ==
  /\ pc = "reduce"
  /\ \E k \in Rest :
       /\ \A j \in Rest : k <= j
       /\ at' = <<at[1], k>>
       /\ LET c == outputs[at[1]][k]
          IN  IF Wants(req.services, c.service)
              THEN Collected(list, c, list')
              ELSE UNCHANGED list
  /\ UNCHANGED <<req, now, waiting, outputs, schemes, metadata, error>>

(* To the output after this one, or past the last.                         *)
Advance(last) == at' = <<IF last THEN Len(Priority) + 1 ELSE at[1] + 1, 0>>

(* Plausible bug: `first' stops after any output, of any service.          *)
NextOutputOfAny ==
  /\ pc = "reduce"
  /\ at[1] <= Len(Priority) /\ Rest = {}
  /\ Advance(req.mode = "first" /\ at[1] \in DOMAIN outputs /\ outputs[at[1]] # <<>>)
  /\ UNCHANGED <<req, now, waiting, outputs, list, schemes, metadata, error>>

(* Plausible bug: an empty output is not stepped over.                     *)
NextOutputStuck ==
  /\ pc = "reduce"
  /\ at[1] <= Len(Priority) /\ Rest = {} /\ at[2] > 0
  /\ Advance(req.mode = "first" /\ list # <<>>)
  /\ UNCHANGED <<req, now, waiting, outputs, list, schemes, metadata, error>>

(* An output is reduced; `compose_first' stops once it collected anything. *)
NextOutput ==
  /\ pc = "reduce"
  /\ at[1] <= Len(Priority) /\ Rest = {}
  /\ Advance(req.mode = "first" /\ list # <<>>)
  /\ UNCHANGED <<req, now, waiting, outputs, list, schemes, metadata, error>>

Finish ==
  /\ pc = "reduce"
  /\ at[1] > Len(Priority)
  /\ Launch("probe", [k \in DOMAIN list |-> "probe"])
  /\ UNCHANGED <<req, now, until, data>>

(***************************************************************************)
(* Authentication: probe, resource metadata, issuers.                      *)
(***************************************************************************)

Probe ==
  /\ pc = "probe" /\ Ready
  /\ schemes' = [k \in DOMAIN list |-> Slot(k, {})]
  /\ list' = [k \in DOMAIN list |-> [list[k] EXCEPT !.auth = RefineAuth(@, Slot(k, {}))]]
  /\ Launch("resources", SetToSeq(HttpEndpoints(list')))
  /\ UNCHANGED <<req, now, until, outputs, at, metadata, error>>

(* The metadata a map of documents holds for the endpoint of c.            *)
MetadataOf(docs, c) == IF c.endpoint \in DOMAIN docs THEN docs[c.endpoint] ELSE {}

BindAll(configs, docs) ==
  [k \in DOMAIN configs |->
     IF MetadataOf(docs, configs[k]) = {} THEN configs[k]
     ELSE [configs[k] EXCEPT !.auth =
             BindGrants(@, CHOOSE m \in MetadataOf(docs, configs[k]) : TRUE)]]

Issuers(configs) ==
  {m.server : m \in {n \in UNION {configs[k].auth : k \in DOMAIN configs} : n.kind = "issuer"}}

FetchedResources ==
  [e \in {tasks[t] : t \in DOMAIN tasks} |->
     UNION {Slot(t, {}) : t \in {u \in DOMAIN tasks : tasks[u] = e}}]

WithServers(c, docs) ==
  [c EXCEPT !.auth = AddResourceIssuers(@, UNION {m.servers : m \in MetadataOf(docs, c)})]

(* Issuers come before the binding: it must reach the grants they become.  *)
Resources ==
  /\ pc = "resources" /\ Ready
  /\ metadata' = FetchedResources
  /\ list' = [k \in DOMAIN list |-> WithServers(list[k], metadata')]
  /\ Launch("issuers", SetToSeq(Issuers(list')))
  /\ UNCHANGED <<req, now, until, outputs, at, schemes, error>>

(* What the issuer threads brought home; a panicked one nothing.           *)
ResolvedIssuers ==
  [s \in {tasks[t] : t \in {u \in DOMAIN tasks : results[u] # None}} |->
     UNION {Slot(t, {}) : t \in {u \in DOMAIN tasks : tasks[u] = s}}]

WithGrants(c) == [c EXCEPT !.auth = ReplaceIssuers(@, ResolvedIssuers)]

(* Plausible bug: grants are bound before the issuers become grants.       *)
IssuersAfterBinding ==
  /\ pc = "issuers" /\ Ready
  /\ list' = [k \in DOMAIN list |-> WithGrants(BindAll(list, metadata)[k])]
  /\ Proceed("done")
  /\ UNCHANGED <<req, now, until, outputs, at, schemes, metadata, error>>

ResolveIssuers ==
  /\ pc = "issuers" /\ Ready
  /\ list' = BindAll([k \in DOMAIN list |-> WithGrants(list[k])], metadata)
  /\ Proceed("done")
  /\ UNCHANGED <<req, now, until, outputs, at, schemes, metadata, error>>

(***************************************************************************)
(* The threads of the current fan-out and the clock. A thread left behind  *)
(* by an expired wait shares nothing with the caller: it is forgotten.     *)
(***************************************************************************)

End(t) ==
  /\ UNCHANGED <<req, now, pc, until, tasks, data>>
  /\ \E o \in Answers(t) \cup (IF Threaded THEN {Panicked} ELSE {}) : FanOut!End(t, o)

Deliver(t) ==
  /\ UNCHANGED <<req, now, pc, until, tasks, data>>
  /\ FanOut!Deliver(t)

(* Once the mechanisms and the walks are over, only the exchanges that the *)
(* caller still joins make it wait, whatever is left of the deadline.      *)
Overtime ==
  /\ req.mode = "within" /\ pc \in {"probe", "resources", "issuers"}
  /\ ~FanOut!NothingLeft

Tick ==
  /\ \/ Bounded /\ now < until
     \/ Overtime /\ now < Deadline + Patience
  /\ now' = now + 1
  /\ UNCHANGED <<req, waiting, data>>

Caller ==
  \/ Plan \/ CheckResolver \/ CollectOutputs \/ ApplyRoots
  \/ Collect \/ NextOutput \/ Finish
  \/ Probe \/ Resources \/ ResolveIssuers

Next ==
  \/ Caller
  \/ \E t \in DOMAIN tasks : End(t) \/ Deliver(t)
  \/ Tick

Delivery == \E t \in DOMAIN tasks : Deliver(t)
Threads == \E t \in DOMAIN tasks : End(t)

Spec == Init /\ [][Next]_vars

(* The caller and the clock make progress. Nothing is asked of the tasks:  *)
(* a DNS exchange on a plain tcp stream may hang for ever.                 *)
FairSpec ==
  Spec /\ WF_vars(Caller) /\ WF_vars(Delivery) /\ WF_vars(Tick)

-----------------------------------------------------------------------------
(* Every variable stays in its range; a collected list, like the list      *)
(* handed to the caller, holds configs of requested services only.         *)
TypeOK ==
  /\ req \in Requests
  /\ pc \in {"plan", "resolver", "mechanisms", "roots", "reduce", "probe",
             "resources", "issuers", "done", "failed"}
  /\ now \in Nat /\ until \in Nat
  /\ DOMAIN outcome = DOMAIN tasks /\ DOMAIN results = DOMAIN tasks
  /\ \A k \in DOMAIN list : list[k] \in Config /\ Wants(req.services, list[k].service)
  /\ \A o \in DOMAIN outputs : \A k \in DOMAIN outputs[o] : outputs[o][k] \in Config
  /\ schemes # <<>> => DOMAIN schemes = DOMAIN list
  /\ error \in {"none", "InvalidEmail", "PlainResolver", "Resolver"}
  /\ error # "none" <=> pc = "failed"

(* The resolver check, the mechanisms and the DAV walks share one budget:  *)
(* no bounded wait may end later than the deadline counted from the call,  *)
(* however the time was spent before it.                                   *)
Budget == Bounded => until <= Deadline

(* In secure-only mode no returned config is reached in the clear, whoever *)
(* published it and whatever a DAV walk or a merge made of it.             *)
SecureOnly ==
  pc = "done" /\ req.secure => \A k \in DOMAIN list : IsSecure(list[k])

(* Outputs with a config of a requested service, and among them those the  *)
(* call reduces: all, or the one of highest priority.                      *)
Producing ==
  {o \in DOMAIN outputs :
     \E k \in DOMAIN outputs[o] : Wants(req.services, outputs[o][k].service)}
Reduced ==
  IF req.mode = "first" THEN {o \in Producing : \A p \in Producing : o <= p} ELSE Producing

(* Priority decides, never the order of completion: `compose_first' keeps  *)
(* exactly the services of the best output that has any, `compose_all'     *)
(* those of every output, and each entry shows an endpoint one of those    *)
(* outputs published. An output of other services does not end the search. *)
Reduction ==
  pc \in {"probe", "resources", "issuers", "done"} /\ req.mode # "raw" =>
    /\ \A k \in DOMAIN list : \E o \in Reduced : \E c \in Range(outputs[o]) :
         /\ c.service = list[k].service /\ c.user = list[k].user
         /\ c.endpoint = list[k].endpoint /\ c.source = list[k].source
    /\ \A o \in Reduced : \A c \in Range(outputs[o]) :
         Wants(req.services, c.service) =>
           \E k \in DOMAIN list :
             /\ list[k].service = c.service /\ list[k].user = c.user
             /\ c.resolved => list[k].resolved

(* A walk's context root goes to the configs of the service and origin it  *)
(* was started for and to no other, and never to a config that names a     *)
(* collection or was resolved already.                                     *)
OwnRoot ==
  [][pc = "roots" /\ pc' # "roots" =>
       \A o \in DOMAIN outputs : \A k \in DOMAIN outputs[o] :
         LET before == outputs[o][k]
             after == outputs'[o][k]
         IN  after # before =>
               /\ IsDavTarget(before)
               /\ after.resolved
               /\ \E t \in DOMAIN tasks :
                    tasks[t] = DavTarget(before) /\ outcome[t] = {after.endpoint}]_vars

(* "The endpoint's own advertisement beats any account-level claim": a     *)
(* config whose endpoint advertised basic or bearer offers the advertised  *)
(* logins and no other, through every later pass.                          *)
ProbeWins ==
  \A k \in DOMAIN schemes :
    Advertised(schemes[k]) # {} =>
      {m \in list[k].auth : IsLogin(m)} = Advertised(schemes[k])

(* A config never loses its way to a token: what a mechanism or a resource *)
(* said of OAuth survives the merge, the probe and every later pass.       *)
OauthKept ==
  [][\A k \in DOMAIN list :
       (\E m \in list[k].auth : IsOauth(m)) => \E m \in list'[k].auth : IsOauth(m)]_vars

(* Every grant is bound to the resource that its own endpoint's metadata   *)
(* names, including the grants an issuer turned into in the last pass, and *)
(* to nothing when there is no metadata.                                   *)
GrantsBound ==
  pc = "done" =>
    \A k \in DOMAIN list : \A m \in list[k].auth :
      m.kind = "grant" =>
        m.resource \in IF MetadataOf(metadata, list[k]) = {}
                       THEN {"none"}
                       ELSE {d.resource : d \in MetadataOf(metadata, list[k])}

(* Even if every mechanism hangs, the bounded part of `compose_all_within' *)
(* ends.                                                                   *)
MechanismsCannotStall ==
  req.mode = "within" => <>(pc \notin {"plan", "resolver", "mechanisms", "roots"})

(* A call returns when every exchange with the network ends, which is what *)
(* fairness of the threads says.                                           *)
Returns == <>(pc \in {"done", "failed"})
AnsweredReturns == WF_vars(Threads) => Returns

(***************************************************************************)
(* What comments say of a call, and the code does not do.                  *)
(***************************************************************************)

(* `compose_all_within' is "meant for interactive callers (a setup wizard) *)
(* where a single unreachable endpoint must not stall the whole discovery" *)
(* (client.rs:203-205), and takes a deadline for that.                     *)
WithinDeadline == req.mode = "within" => now <= Deadline
=============================================================================
