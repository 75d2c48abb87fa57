--------------------------- MODULE ComposeProofs ---------------------------
(***************************************************************************)
(* Theorems about a call of the compose client, for every request, every   *)
(* set of documents and answers, and any deadline.                         *)
(***************************************************************************)
EXTENDS Compose, ConfigsProofs

-----------------------------------------------------------------------------
(* The fan-outs: a slot is empty or holds what its own task answered.      *)
Slots ==
  /\ DOMAIN outcome = DOMAIN tasks /\ DOMAIN results = DOMAIN tasks
  /\ pc \in {"plan", "reduce", "done", "failed"} => DOMAIN tasks = {}
  /\ \A t \in DOMAIN tasks :
       /\ outcome[t] \in Answers(t) \cup {Running, Panicked}
       /\ results[t] # None =>
            /\ results[t] = outcome[t]
            /\ outcome[t] \in Answers(t) \ {Running, Panicked}

LEMMA SlotFacts ==
  ASSUME Slots, NEW t \in DOMAIN tasks, NEW d
  PROVE  Slot(t, d) = d \/ (Slot(t, d) = outcome[t] /\ outcome[t] \in Answers(t))
  BY DEF Slots, Slot

(* What a task may answer is settled when it is launched.                  *)
LEMMA AnswersStay ==
  ASSUME UNCHANGED <<req, pc, tasks, list>>, NEW t
  PROVE  Answers(t)' = Answers(t)
  BY DEF Answers, ResolverAnswers, RunMechanism, KeepSecure, Reachable

LEMMA LaunchSlots ==
  ASSUME NEW fanout, NEW ts, Launch(fanout, ts),
         fanout \in {"reduce", "done", "failed"} => ts = <<>>, fanout # "plan"
  PROVE  Slots'
<1>1. DOMAIN (<<>>) = {}
  BY EmptySeq
<1> QED
  BY <1>1 DEF Launch, Slots

LEMMA SlotsStep ==
  ASSUME Slots, [Next]_vars
  PROVE  Slots'
<1>1. ASSUME NEW t \in DOMAIN tasks, End(t)
      PROVE  Slots'
  <2>1. PICK o \in Answers(t) \cup {Panicked} : FanOut!End(t, o)
    BY <1>1 DEF End
  <2>2. /\ outcome[t] = Running /\ outcome' = [outcome EXCEPT ![t] = o]
        /\ results' = results
    BY <2>1 DEF FanOut!End
  <2>3. UNCHANGED <<req, pc, tasks, list>>
    BY <1>1 DEF End, data
  <2>4. \A u : Answers(u)' = Answers(u)
    BY <2>3, AnswersStay
  <2>5. ASSUME NEW u \in DOMAIN tasks
        PROVE  /\ outcome'[u] \in Answers(u) \cup {Running, Panicked}
               /\ results[u] # None =>
                    /\ results[u] = outcome'[u]
                    /\ outcome'[u] \in Answers(u) \ {Running, Panicked}
    <3>1. CASE u = t
      BY <2>1, <2>2, <3>1 DEF Slots
    <3>2. CASE u # t
      BY <2>2, <3>2 DEF Slots
    <3> QED
      BY <3>1, <3>2
  <2> QED
    BY <2>2, <2>3, <2>4, <2>5 DEF Slots
<1>2. ASSUME NEW t \in DOMAIN tasks, Deliver(t)
      PROVE  Slots'
  <2>1. /\ outcome[t] \notin {Running, Panicked}
        /\ results' = [results EXCEPT ![t] = outcome[t]]
        /\ outcome' = outcome
    BY <1>2 DEF Deliver, FanOut!Deliver
  <2>2. UNCHANGED <<req, pc, tasks, list>>
    BY <1>2 DEF Deliver, data
  <2>3. \A u : Answers(u)' = Answers(u)
    BY <2>2, AnswersStay
  <2>4. ASSUME NEW u \in DOMAIN tasks, results'[u] # None
        PROVE  results'[u] = outcome[u] /\ outcome[u] \in Answers(u) \ {Running, Panicked}
    <3>1. CASE u = t
      BY <2>1, <3>1 DEF Slots
    <3>2. CASE u # t
      BY <2>1, <2>4, <3>2 DEF Slots
    <3> QED
      BY <3>1, <3>2
  <2> QED
    BY <2>1, <2>2, <2>3, <2>4 DEF Slots
<1>3. CASE Collect \/ NextOutput
  <2>1. pc = "reduce" /\ UNCHANGED waiting
    BY <1>3 DEF Collect, NextOutput
  <2> QED
    BY <2>1 DEF Slots, waiting
<1>4. CASE Tick \/ UNCHANGED vars
  <2>1. UNCHANGED <<req, waiting, list>>
    BY <1>4 DEF Tick, vars, data
  <2>2. UNCHANGED <<req, pc, tasks, list>> /\ UNCHANGED <<outcome, results>>
    BY <2>1 DEF waiting
  <2> QED
    BY <2>2, AnswersStay DEF Slots
<1>5. CASE Plan \/ CheckResolver \/ CollectOutputs \/ ApplyRoots \/ Finish
           \/ Probe \/ Resources \/ ResolveIssuers
  BY <1>5, LaunchSlots
  DEF Plan, CheckResolver, CollectOutputs, ApplyRoots, Finish, Probe, Resources,
      ResolveIssuers, Fail, Proceed
<1> QED
  BY <1>1, <1>2, <1>3, <1>4, <1>5 DEF Next, Caller

-----------------------------------------------------------------------------
(* What the rewriting passes make of the methods of a config.              *)

LEMMA Kinds ==
  ASSUME NEW s
  PROVE  /\ Issuer(s).kind = "issuer" /\ Issuer(s).server = s
         /\ Password.kind = "password" /\ Bearer.kind = "bearer"
  BY DEF Issuer, Password, Bearer

(* Two configs that differ in their methods only.                          *)
SameConfig(c, d) ==
  /\ d.service = c.service /\ d.user = c.user
  /\ d.endpoint = c.endpoint /\ d.source = c.source /\ d.resolved = c.resolved

LEMMA WithAuth ==
  ASSUME NEW c \in Config, NEW A \in SUBSET Methods
  PROVE  LET d == [c EXCEPT !.auth = A]
         IN  /\ d \in Config /\ d.auth = A
             /\ SameConfig(c, d)
  BY DEF Config, SameConfig

LEMMA RefineAuthFacts ==
  ASSUME NEW A \in SUBSET Methods, NEW s
  PROVE  /\ RefineAuth(A, s) \subseteq Methods
         /\ \A m \in A : ~IsLogin(m) => m \in RefineAuth(A, s)
         /\ \A m \in RefineAuth(A, s) : m \in A \/ m \in {Password, Bearer}
         /\ Advertised(s) # {} => {m \in RefineAuth(A, s) : IsLogin(m)} = Advertised(s)
  BY MethodsAssumption, Kinds DEF RefineAuth, Advertised, IsLogin

(* What the metadata of an endpoint may be.                                *)
Fetched(docs) == \A e \in DOMAIN docs : docs[e] \subseteq Metadata(e)

LEMMA MetadataFacts ==
  ASSUME NEW docs, Fetched(docs), NEW c \in Config, NEW d \in MetadataOf(docs, c)
  PROVE  d \in Metadata(c.endpoint) /\ c.endpoint \in Endpoints
  BY DEF MetadataOf, Fetched, Config

LEMMA WithServersFacts ==
  ASSUME NEW docs, Fetched(docs), NEW c \in Config
  PROVE  LET d == WithServers(c, docs)
         IN  /\ d \in Config
             /\ SameConfig(c, d)
             /\ c.auth \subseteq d.auth
             /\ \A m \in d.auth : m \in c.auth \/ m.kind = "issuer"
<1> DEFINE servers == UNION {m.servers : m \in MetadataOf(docs, c)}
           A == AddResourceIssuers(c.auth, servers)
<1>1. \A s \in servers : Issuer(s) \in Methods
  <2> SUFFICES ASSUME NEW d \in MetadataOf(docs, c), NEW s \in d.servers
               PROVE  Issuer(s) \in Methods
    OBVIOUS
  <2> QED
    BY MetadataFacts, MethodsAssumption
<1>2. c.auth \subseteq Methods
  BY DEF Config
<1>3. /\ A \subseteq Methods /\ c.auth \subseteq A
      /\ \A m \in A : m \in c.auth \/ m.kind = "issuer"
  BY <1>1, <1>2, Kinds DEF AddResourceIssuers
<1>4. WithServers(c, docs) = [c EXCEPT !.auth = A]
  BY DEF WithServers
<1> HIDE DEF A
<1> QED
  BY <1>3, <1>4, WithAuth

LEMMA BindFacts ==
  ASSUME NEW docs, Fetched(docs), NEW configs,
         NEW k \in DOMAIN configs, configs[k] \in Config
  PROVE  LET c == configs[k]
             d == BindAll(configs, docs)[k]
         IN  /\ d \in Config
             /\ SameConfig(c, d)
             /\ IF MetadataOf(docs, c) = {}
                THEN d.auth = c.auth
                ELSE \E m \in MetadataOf(docs, c) : d.auth = BindGrants(c.auth, m)
<1> DEFINE c == configs[k]
           docsOf == MetadataOf(docs, c)
           doc == CHOOSE m \in docsOf : TRUE
<1>1. CASE docsOf = {}
  BY <1>1 DEF BindAll, SameConfig
<1>2. CASE docsOf # {}
  <2>1. doc \in docsOf
    BY <1>2
  <2>2. BindGrants(Methods, doc) \subseteq Methods
    <3>1. doc \in Metadata(c.endpoint) /\ c.endpoint \in Endpoints
      BY <2>1, MetadataFacts
    <3> QED
      BY <3>1, MethodsAssumption
  <2>3. BindGrants(c.auth, doc) \subseteq Methods
    <3>1. c.auth \subseteq Methods
      BY DEF Config
    <3> QED
      BY <2>2, <3>1 DEF BindGrants
  <2>4. BindAll(configs, docs)[k] = [c EXCEPT !.auth = BindGrants(c.auth, doc)]
    BY <1>2 DEF BindAll
  <2> HIDE DEF doc
  <2> QED
    BY <1>2, <2>1, <2>3, <2>4, WithAuth
<1> QED
  BY <1>1, <1>2

(* What becomes of one method when grants are bound.                       *)
LEMMA BindGrantsFacts ==
  ASSUME NEW A \in SUBSET Methods, NEW d
  PROVE  /\ \A m \in BindGrants(A, d) :
              \/ m.kind # "grant" /\ m \in A
              \/ m.kind = "grant" /\ m.resource = d.resource /\ \E n \in A : n.kind = "grant"
         /\ \A m \in A : m.kind # "grant" => m \in BindGrants(A, d)
         /\ \A m \in A : m.kind = "grant" => \E n \in BindGrants(A, d) : n.kind = "grant"
<1> DEFINE Bound(m) == [m EXCEPT !.resource = d.resource,
                                 !.scopes = IF d.scopes = "none" THEN @ ELSE d.scopes]
<1>1. ASSUME NEW m \in A
      PROVE  Bound(m).kind = m.kind /\ Bound(m).resource = d.resource
  <2>1. m = [kind |-> m.kind, server |-> m.server, resource |-> m.resource, scopes |-> m.scopes]
    BY MethodsAssumption
  <2> QED
    BY <2>1
<1>2. BindGrants(A, d) = {IF m.kind = "grant" THEN Bound(m) ELSE m : m \in A}
  BY DEF BindGrants
<1> HIDE DEF Bound
<1> QED
  BY <1>1, <1>2

(* What an issuer may become.                                              *)
IsWay(m) == m.kind = "issuer" \/ (m.kind = "grant" /\ m.resource = "none")

(* What the issuer threads brought home for one issuer: at least one way   *)
(* to a token, and no login.                                               *)
LEMMA ResolvedIssuersFacts ==
  ASSUME Slots, pc = "issuers",
         NEW m \in Methods, m.kind = "issuer", m.server \in DOMAIN ResolvedIssuers
  PROVE  LET R == ResolvedIssuers[m.server]
         IN  /\ R # {} /\ R \subseteq Methods
             /\ \A n \in R : IsWay(n)
<1> DEFINE s == m.server
           own == {t \in DOMAIN tasks : tasks[t] = s}
           R == UNION {Slot(t, {}) : t \in own}
           Ways(G) == /\ G # {} /\ G \subseteq Methods
                      /\ \A n \in G : IsWay(n)
<1>1. ResolvedIssuers[s] = R
  BY DEF ResolvedIssuers
<1>2. ASSUME NEW t \in own, NEW G \in Answers(t)
      PROVE  Ways(G)
  <2>1. G \in {{Issuer(s)}} \cup Grants(s)
    BY <1>2 DEF Answers
  <2>2. CASE G = {Issuer(s)}
    <3>1. m = Issuer(s)
      BY MethodsAssumption
    <3> QED
      BY <2>2, <3>1 DEF IsWay
  <2>3. CASE G \in Grants(s)
    BY <2>3, MethodsAssumption DEF IsWay
  <2> QED
    BY <2>1, <2>2, <2>3
<1>3. ASSUME NEW t \in own
      PROVE  Slot(t, {}) = {} \/ Ways(Slot(t, {}))
  <2>1. Slot(t, {}) = {} \/ Slot(t, {}) \in Answers(t)
    BY SlotFacts
  <2> QED
    BY <1>2, <2>1
<1>4. PICK t \in own : results[t] # None
  BY DEF ResolvedIssuers
<1>5. Slot(t, {}) \in Answers(t)
  BY <1>4 DEF Slot, Slots
<1>6. Ways(Slot(t, {}))
  BY <1>2, <1>5
<1> QED
  BY <1>1, <1>3, <1>6

LEMMA WithGrantsFacts ==
  ASSUME Slots, pc = "issuers", NEW c \in Config
  PROVE  LET d == WithGrants(c)
         IN  /\ d \in Config
             /\ SameConfig(c, d)
             /\ \A m \in d.auth : m \in c.auth \/ IsWay(m)
             /\ \A m \in c.auth : m.kind # "issuer" => m \in d.auth
             /\ (\E m \in c.auth : IsOauth(m)) => \E m \in d.auth : IsOauth(m)
<1> DEFINE resolved == ResolvedIssuers
           Known(m) == m.kind = "issuer" /\ m.server \in DOMAIN resolved
           Becomes(m) == IF Known(m) THEN resolved[m.server] ELSE {m}
           A == UNION {Becomes(m) : m \in c.auth}
<1>1. WithGrants(c) = [c EXCEPT !.auth = A]
  BY DEF WithGrants, ReplaceIssuers
<1>2. ASSUME NEW m \in c.auth
      PROVE  /\ Becomes(m) \subseteq Methods
             /\ \A n \in Becomes(m) : n \in c.auth \/ IsWay(n)
             /\ m.kind # "issuer" => Becomes(m) = {m}
             /\ IsOauth(m) => \E n \in Becomes(m) : IsOauth(n)
  <2>1. m \in Methods
    BY DEF Config
  <2>2. CASE Known(m)
    <3>1. /\ resolved[m.server] # {} /\ resolved[m.server] \subseteq Methods
          /\ \A n \in resolved[m.server] : IsWay(n)
      BY <2>1, <2>2, ResolvedIssuersFacts
    <3> DEFINE G == resolved[m.server]
    <3>2. Becomes(m) = G /\ m.kind = "issuer"
      BY <2>2
    <3> HIDE DEF G, Becomes
    <3>3. \A n \in G : IsOauth(n)
      BY <3>1 DEF IsOauth, IsWay, G
    <3> QED
      BY <3>1, <3>2, <3>3 DEF G
  <2>3. CASE ~Known(m)
    BY <2>1, <2>3
  <2> QED
    BY <2>2, <2>3
<1> HIDE DEF Becomes
<1>3. A \in SUBSET Methods
  BY <1>2
<1>4. /\ \A n \in A : n \in c.auth \/ IsWay(n)
      /\ \A m \in c.auth : m.kind # "issuer" => m \in A
      /\ (\E m \in c.auth : IsOauth(m)) => \E m \in A : IsOauth(m)
  BY <1>2
<1> HIDE DEF A
<1> QED
  BY <1>1, <1>3, <1>4, WithAuth

-----------------------------------------------------------------------------
(***************************************************************************)
(* The inductive invariant: the slots, the types, and what each stage has  *)
(* to work with.                                                           *)
(***************************************************************************)
Typed ==
  /\ req \in Requests
  /\ pc \in {"plan", "resolver", "mechanisms", "roots", "reduce", "probe",
             "resources", "issuers", "done", "failed"}
  /\ now \in Nat /\ until \in Nat
  /\ \A o \in DOMAIN outputs : \A k \in DOMAIN outputs[o] : outputs[o][k] \in Config
  /\ \A k \in DOMAIN list : list[k] \in Config /\ Wants(req.services, list[k].service)
  /\ error \in {"none", "InvalidEmail", "PlainResolver", "Resolver"}
  /\ error # "none" <=> pc = "failed"

Early == {"plan", "resolver", "mechanisms", "roots", "failed"}

Stages ==
  /\ pc \in Early => list = <<>> /\ schemes = <<>> /\ metadata = <<>>
  /\ pc = "resolver" => tasks = <<"resolver">>
  /\ pc = "mechanisms" => tasks = Mechanisms
  /\ pc = "reduce" => list \in Seq(Config) /\ schemes = <<>>
  /\ pc = "probe" => DOMAIN tasks = DOMAIN list /\ schemes = <<>>
  /\ schemes # <<>> => DOMAIN schemes = DOMAIN list
  /\ Fetched(metadata)

IInv == Slots /\ Typed /\ Stages

LEMMA InitIInv == Init => IInv
<1>1. DOMAIN (<<>>) = {} /\ <<>> \in Seq(Config)
  BY EmptySeq
<1> QED
  BY <1>1 DEF Init, IInv, Slots, Typed, Stages, Fetched

(* A fan-out starts: only its own variables change.                        *)
LEMMA LaunchFacts ==
  ASSUME NEW fanout, NEW ts, Launch(fanout, ts)
  PROVE  pc' = fanout /\ tasks' = ts
  BY DEF Launch

LEMMA PlanStep ==
  ASSUME IInv, Plan
  PROVE  Typed' /\ Stages'
<1>1. CASE Fail("InvalidEmail")
  <2>1. pc' = "failed" /\ error' = "InvalidEmail"
    BY <1>1, LaunchFacts DEF Fail, Proceed
  <2>2. UNCHANGED <<req, now, until, outputs, list, schemes, metadata>>
    BY <1>1 DEF Fail, Plan
  <2> QED
    BY <2>1, <2>2 DEF IInv, Typed, Stages, Early, Plan
<1>2. CASE Launch("resolver", <<"resolver">>) /\ until' = now + Deadline /\ UNCHANGED data
  <2>1. pc' = "resolver" /\ tasks' = <<"resolver">>
    BY <1>2, LaunchFacts
  <2>2. until' \in Nat /\ UNCHANGED <<req, now, outputs, list, schemes, metadata, error>>
    BY <1>2, DeadlineAssumption DEF data, Plan, IInv, Typed
  <2> QED
    BY <2>1, <2>2 DEF IInv, Typed, Stages, Early, Plan
<1> QED
  BY <1>1, <1>2 DEF Plan

LEMMA CheckResolverStep ==
  ASSUME IInv, CheckResolver
  PROVE  Typed' /\ Stages'
<1>1. ASSUME NEW e \in Slot(1, {"Resolver"}), Fail(e)
      PROVE  Typed' /\ Stages'
  <2>1. e \in {"PlainResolver", "Resolver"}
    <3>1. tasks = <<"resolver">> /\ 1 \in DOMAIN tasks
      BY DEF CheckResolver, IInv, Stages
    <3>2. Slot(1, {"Resolver"}) = {"Resolver"} \/ Slot(1, {"Resolver"}) \in Answers(1)
      BY <3>1, SlotFacts DEF IInv
    <3>3. Answers(1) \subseteq {{}, {"PlainResolver"}, {"Resolver"}}
      BY DEF CheckResolver, Answers, ResolverAnswers, Option
    <3> QED
      BY <1>1, <3>2, <3>3
  <2>2. pc' = "failed" /\ error' = e
    BY <1>1, LaunchFacts DEF Fail, Proceed
  <2>3. UNCHANGED <<req, now, until, outputs, list, schemes, metadata>>
    BY <1>1 DEF Fail, CheckResolver
  <2> QED
    BY <2>1, <2>2, <2>3 DEF IInv, Typed, Stages, Early, CheckResolver
<1>2. CASE /\ Launch("mechanisms", Mechanisms)
           /\ until' = now + (IF now < Deadline THEN Deadline - now ELSE 0)
           /\ UNCHANGED data
  <2>1. UNCHANGED <<req, now, outputs, list, schemes, metadata, error>>
    BY <1>2 DEF data, CheckResolver
  <2>2. pc' = "mechanisms" /\ tasks' = Mechanisms /\ Mechanisms' = Mechanisms
    BY <1>2, <2>1, LaunchFacts DEF Mechanisms, Planned
  <2>3. until' \in Nat
    BY <1>2, DeadlineAssumption DEF IInv, Typed
  <2> QED
    BY <2>1, <2>2, <2>3 DEF IInv, Typed, Stages, Early, CheckResolver
<1> QED
  BY <1>1, <1>2 DEF CheckResolver

(* A filter forgets configs and changes none.                              *)
LEMMA RunMechanismFacts ==
  ASSUME NEW mechanism, NEW f \in Seq(Config), NEW k \in DOMAIN RunMechanism(mechanism, f)
  PROVE  /\ k \in DOMAIN f /\ RunMechanism(mechanism, f)[k] = f[k]
         /\ req.secure /\ mechanism \notin {"mx", "srv"} => IsSecure(f[k])
  BY DEF RunMechanism, KeepSecure, Restrict

(* What comes out of the mechanisms was published, and is encrypted when   *)
(* the call asks for it.                                                   *)
LEMMA OutputFacts ==
  ASSUME IInv, CollectOutputs,
         NEW o \in DOMAIN outputs', NEW k \in DOMAIN outputs'[o]
  PROVE  \E f \in Published :
           /\ k \in DOMAIN f /\ outputs'[o][k] = f[k]
           /\ req.secure => IsSecure(f[k])
<1> USE DEF CollectOutputs
<1>1. CASE o = 0
  <2>1. outputs'[o] = Provider /\ Provider \in Published
    BY <1>1 DEF Published
  <2> QED
    BY <2>1, PublishedAssumption
<1>2. CASE o # 0
  <2>1. o \in DOMAIN tasks /\ outputs'[o] = Slot(o, <<>>)
    BY <1>2
  <2>2. outputs'[o] # <<>>
    BY EmptySeq
  <2>3. outputs'[o] \in Answers(o)
    BY <2>1, <2>2, SlotFacts DEF IInv
  <2>4. tasks[o] = Priority[o] /\ o \in DOMAIN Priority
    BY <2>1 DEF IInv, Stages, Mechanisms, Restrict
  <2>5. PICK f \in Found(Priority[o]) : outputs'[o] = RunMechanism(Priority[o], f)
    BY <2>3, <2>4 DEF Answers
  <2>6. f \in Published /\ f \in Seq(Config)
    BY <2>4, <2>5, PublishedAssumption DEF Published
  <2>7. k \in DOMAIN f /\ outputs'[o][k] = f[k]
    BY <2>5, <2>6, RunMechanismFacts
  <2>8. req.secure => IsSecure(f[k])
    <3>1. CASE Priority[o] \in {"mx", "srv"}
      BY <2>5, <2>7, <3>1, PublishedAssumption
    <3>2. CASE Priority[o] \notin {"mx", "srv"}
      BY <2>5, <2>6, <3>2, RunMechanismFacts
    <3> QED
      BY <3>1, <3>2
  <2> QED
    BY <2>6, <2>7, <2>8
<1> QED
  BY <1>1, <1>2

LEMMA CollectOutputsStep ==
  ASSUME IInv, CollectOutputs
  PROVE  Typed' /\ Stages'
<1>1. pc' = "roots"
  BY LaunchFacts DEF CollectOutputs
<1>2. UNCHANGED <<req, now, list, schemes, metadata, error>> /\ until' \in Nat
  BY DeadlineAssumption DEF CollectOutputs, IInv, Typed
<1>3. ASSUME NEW o \in DOMAIN outputs', NEW k \in DOMAIN outputs'[o]
      PROVE  outputs'[o][k] \in Config
  <2>1. PICK f \in Published : k \in DOMAIN f /\ outputs'[o][k] = f[k]
    BY OutputFacts
  <2> QED
    BY <2>1, PublishedAssumption, ElementOfSeq, LenProperties
<1> QED
  BY <1>1, <1>2, <1>3 DEF IInv, Typed, Stages, Early, CollectOutputs

(* A context root replaces the endpoint of a config, or nothing changes.   *)
LEMMA RootedFacts ==
  ASSUME Slots, pc = "roots", NEW c \in Config
  PROVE  \/ Rooted(c) = c
         \/ \E t \in DOMAIN tasks :
              LET e == Rooted(c).endpoint
              IN  /\ IsDavTarget(c) /\ tasks[t] = DavTarget(c)
                  /\ outcome[t] = {e} /\ e \in Endpoints
                  /\ req.secure => e.proto = "https"
                  /\ Rooted(c) = [c EXCEPT !.endpoint = e, !.resolved = TRUE]
                  /\ Rooted(c) \in Config /\ Rooted(c).resolved
                  /\ Rooted(c).service = c.service /\ Rooted(c).auth = c.auth
<1>1. CASE RootOf(c) = {}
  BY <1>1 DEF Rooted
<1>2. CASE RootOf(c) # {}
  <2> DEFINE e == CHOOSE x \in RootOf(c) : TRUE
  <2>1. e \in RootOf(c)
    BY <1>2
  <2>2. Rooted(c) = [c EXCEPT !.endpoint = e, !.resolved = TRUE]
    BY <1>2 DEF Rooted
  <2> HIDE DEF e
  <2>3. PICK t \in DOMAIN tasks :
          IsDavTarget(c) /\ tasks[t] = DavTarget(c) /\ e \in Slot(t, {})
    BY <2>1 DEF RootOf
  <2>4. Slot(t, {}) = outcome[t] /\ outcome[t] \in Answers(t)
    BY <2>3, SlotFacts
  <2>5. outcome[t] = {e} /\ e \in Roots(DavTarget(c))
    BY <2>3, <2>4 DEF Answers, Option
  <2>6. e \in Endpoints
    BY <2>5, RootsAssumption DEF DavTarget, Config
  <2>7. req.secure => e.proto = "https"
    BY <2>1 DEF RootOf
  <2>8. /\ Rooted(c) \in Config /\ Rooted(c).endpoint = e /\ Rooted(c).resolved
        /\ Rooted(c).service = c.service /\ Rooted(c).auth = c.auth
    BY <2>2, <2>6 DEF Config
  <2> QED
    BY <2>2, <2>3, <2>5, <2>6, <2>7, <2>8
<1> QED
  BY <1>1, <1>2

(* The configs of a raw list are those of the outputs.                     *)
LEMMA OnlyWantedFacts ==
  ASSUME NEW outs, NEW p \in DOMAIN OnlyWanted(Flattened(outs))
  PROVE  \E o \in DOMAIN outs : \E k \in DOMAIN outs[o] :
           /\ OnlyWanted(Flattened(outs))[p] = outs[o][k]
           /\ Wants(req.services, outs[o][k].service)
<1>1. p \in DOMAIN Flattened(outs) /\ OnlyWanted(Flattened(outs))[p] = Flattened(outs)[p]
      /\ Wants(req.services, Flattened(outs)[p].service)
  BY DEF OnlyWanted, Restrict
<1>2. PICK o \in DOMAIN outs : p \in {o} \X DOMAIN outs[o]
  BY <1>1 DEF Flattened
<1>3. p[1] = o /\ p[2] \in DOMAIN outs[o]
  BY <1>2
<1>4. Flattened(outs)[p] = outs[p[1]][p[2]]
  BY <1>1 DEF Flattened
<1> QED
  BY <1>1, <1>3, <1>4

(* What a step of "roots" makes of the outputs and of a raw list.          *)
LEMMA ApplyRootsFacts ==
  ASSUME IInv, ApplyRoots
  PROVE  /\ DOMAIN outputs' = DOMAIN outputs
         /\ \A o \in DOMAIN outputs :
              /\ DOMAIN outputs'[o] = DOMAIN outputs[o]
              /\ \A k \in DOMAIN outputs[o] :
                   outputs'[o][k] = Rooted(outputs[o][k]) /\ outputs'[o][k] \in Config
         /\ \/ req.mode = "raw" /\ pc' = "resources" /\ list' = OnlyWanted(Flattened(outputs'))
            \/ pc' = "reduce" /\ list' = <<>>
         /\ UNCHANGED <<req, now, until, at, schemes, metadata, error>>
<1>0. Slots /\ pc = "roots"
  BY DEF IInv, ApplyRoots
<1>1. ASSUME NEW o \in DOMAIN outputs, NEW k \in DOMAIN outputs[o]
      PROVE  Rooted(outputs[o][k]) \in Config
  <2> DEFINE c == outputs[o][k]
  <2>1. c \in Config
    BY DEF IInv, Typed
  <2> HIDE DEF c
  <2>2. Rooted(c) = c \/ Rooted(c) \in Config
    BY <1>0, <2>1, RootedFacts
  <2>3. Rooted(c) \in Config
    BY <2>1, <2>2
  <2> QED
    BY <2>3 DEF c
<1>2. /\ DOMAIN outputs' = DOMAIN outputs
      /\ \A o \in DOMAIN outputs :
           /\ DOMAIN outputs'[o] = DOMAIN outputs[o]
           /\ \A k \in DOMAIN outputs[o] : outputs'[o][k] = Rooted(outputs[o][k])
  BY DEF ApplyRoots
<1>3. \/ req.mode = "raw" /\ pc' = "resources" /\ list' = OnlyWanted(Flattened(outputs'))
      \/ pc' = "reduce" /\ list' = <<>>
  BY LaunchFacts DEF ApplyRoots, Proceed, IInv, Stages, Early
<1> QED
  BY <1>1, <1>2, <1>3 DEF ApplyRoots

LEMMA ApplyRootsStep ==
  ASSUME IInv, ApplyRoots
  PROVE  Typed' /\ Stages'
<1>1. \A o \in DOMAIN outputs' : \A k \in DOMAIN outputs'[o] : outputs'[o][k] \in Config
  BY ApplyRootsFacts
<1>2. UNCHANGED <<req, now, until, schemes, metadata, error>> /\ pc = "roots"
  BY ApplyRootsFacts DEF ApplyRoots
<1>3. CASE pc' = "reduce" /\ list' = <<>>
  <2>1. DOMAIN (<<>>) = {} /\ <<>> \in Seq(Config)
    BY EmptySeq
  <2> QED
    BY <1>1, <1>2, <1>3, <2>1 DEF IInv, Typed, Stages, Early
<1>4. CASE pc' = "resources" /\ list' = OnlyWanted(Flattened(outputs'))
  <2>1. ASSUME NEW p \in DOMAIN list'
        PROVE  list'[p] \in Config /\ Wants(req.services, list'[p].service)
    <3>1. PICK o \in DOMAIN outputs' : \E k \in DOMAIN outputs'[o] :
            list'[p] = outputs'[o][k] /\ Wants(req.services, outputs'[o][k].service)
      BY <1>4, OnlyWantedFacts
    <3> QED
      BY <1>1, <3>1
  <2> QED
    BY <1>1, <1>2, <1>4, <2>1 DEF IInv, Typed, Stages, Early
<1> QED
  BY <1>3, <1>4, ApplyRootsFacts

(* One step of the reduction: a config lands in the list, or is left out.  *)
LEMMA CollectFacts ==
  ASSUME IInv, Collect
  PROVE  \E k \in Rest :
           LET c == outputs[at[1]][k]
           IN  /\ \A j \in Rest : k <= j
               /\ at' = <<at[1], k>> /\ at[1] \in DOMAIN outputs
               /\ k \in DOMAIN outputs[at[1]] /\ c \in Config
               /\ \/ ~Wants(req.services, c.service) /\ list' = list
                  \/ /\ Wants(req.services, c.service)
                     /\ list' \in Seq(Config) /\ DOMAIN list \subseteq DOMAIN list'
                     /\ \E j \in DOMAIN list' : LandsAt(list, c, list', j)
<1>1. PICK k \in Rest :
        /\ \A j \in Rest : k <= j
        /\ at' = <<at[1], k>>
        /\ IF Wants(req.services, outputs[at[1]][k].service)
           THEN Collected(list, outputs[at[1]][k], list')
           ELSE UNCHANGED list
  BY DEF Collect
<1>2. at[1] \in DOMAIN outputs /\ k \in DOMAIN outputs[at[1]]
  BY DEF Rest
<1>3. outputs[at[1]][k] \in Config /\ list \in Seq(Config)
  BY <1>2 DEF IInv, Typed, Stages, Collect
<1>4. CASE ~Wants(req.services, outputs[at[1]][k].service)
  BY <1>1, <1>2, <1>3, <1>4
<1>5. CASE Wants(req.services, outputs[at[1]][k].service)
  BY <1>1, <1>2, <1>3, <1>5, CollectedFacts
<1> QED
  BY <1>4, <1>5

LEMMA CollectStep ==
  ASSUME IInv, Collect
  PROVE  Typed' /\ Stages'
<1>1. UNCHANGED <<req, now, until, pc, tasks, outputs, schemes, metadata, error>>
      /\ pc = "reduce"
  BY DEF Collect, waiting
<1>2. PICK c \in Config :
        \/ list' = list
        \/ /\ Wants(req.services, c.service)
           /\ list' \in Seq(Config)
           /\ \E j \in DOMAIN list' : LandsAt(list, c, list', j)
  BY CollectFacts
<1>3. CASE list' = list
  BY <1>1, <1>3 DEF IInv, Typed, Stages, Early
<1>4. ASSUME Wants(req.services, c.service), list' \in Seq(Config),
             NEW j \in DOMAIN list', LandsAt(list, c, list', j)
      PROVE  Typed' /\ Stages'
  <2>1. ASSUME NEW k \in DOMAIN list'
        PROVE  list'[k] \in Config /\ Wants(req.services, list'[k].service)
    <3>1. CASE list'[k] = c
      BY <1>4, <3>1
    <3>2. CASE k \in DOMAIN list /\ list'[k] = list[k]
      BY <3>2 DEF IInv, Typed
    <3>3. CASE k \in DOMAIN list /\ SameService(list[k], c) /\ list'[k] = Merged(list[k], c)
      BY <1>4, <3>3, MergedFacts, MergedKeeps DEF IInv, Typed
    <3> QED
      BY <1>4, <3>1, <3>2, <3>3 DEF LandsAt
  <2> QED
    BY <1>1, <1>4, <2>1 DEF IInv, Typed, Stages, Early
<1> QED
  BY <1>2, <1>3, <1>4

LEMMA QuietStep ==
  ASSUME IInv, \/ NextOutput \/ Tick \/ UNCHANGED vars
               \/ \E t \in DOMAIN tasks : End(t) \/ Deliver(t)
  PROVE  Typed' /\ Stages'
<1>1. UNCHANGED <<req, pc, until, tasks, outputs, list, schemes, metadata, error>>
  BY DEF NextOutput, Tick, vars, End, Deliver, waiting, data
<1>2. now' \in Nat
  BY DEF NextOutput, Tick, vars, End, Deliver, IInv, Typed
<1>3. Mechanisms' = Mechanisms
  BY <1>1 DEF Mechanisms, Planned
<1> QED
  BY <1>1, <1>2, <1>3 DEF IInv, Typed, Stages, Early

LEMMA FinishStep ==
  ASSUME IInv, Finish
  PROVE  Typed' /\ Stages'
<1>1. pc' = "probe" /\ DOMAIN tasks' = DOMAIN list
  BY LaunchFacts DEF Finish
<1>2. UNCHANGED <<req, now, until, outputs, list, schemes, metadata, error>>
  BY DEF Finish, data
<1> QED
  BY <1>1, <1>2 DEF IInv, Typed, Stages, Early, Finish

(* The authentication passes change the methods of each config, in place.  *)
LEMMA ProbeFacts ==
  ASSUME IInv, Probe
  PROVE  /\ DOMAIN list' = DOMAIN list
         /\ schemes' = [k \in DOMAIN list |-> Slot(k, {})]
         /\ \A k \in DOMAIN list :
              /\ list[k] \in Config /\ list[k].auth \in SUBSET Methods
              /\ list'[k] = [list[k] EXCEPT !.auth = RefineAuth(list[k].auth, schemes'[k])]
              /\ list'[k] \in Config /\ SameConfig(list[k], list'[k])
              /\ list'[k].auth = RefineAuth(list[k].auth, schemes'[k])
<1>1. /\ DOMAIN list' = DOMAIN list
      /\ schemes' = [k \in DOMAIN list |-> Slot(k, {})]
      /\ \A k \in DOMAIN list :
           list'[k] = [list[k] EXCEPT !.auth = RefineAuth(list[k].auth, schemes'[k])]
  BY DEF Probe
<1>2. ASSUME NEW k \in DOMAIN list
      PROVE  /\ list[k] \in Config /\ list[k].auth \in SUBSET Methods
             /\ list'[k] \in Config /\ SameConfig(list[k], list'[k])
             /\ list'[k].auth = RefineAuth(list[k].auth, schemes'[k])
  <2> DEFINE A == RefineAuth(list[k].auth, schemes'[k])
  <2>1. list[k] \in Config
    BY DEF IInv, Typed
  <2>2. list[k].auth \in SUBSET Methods
    BY <2>1 DEF Config
  <2>3. A \in SUBSET Methods
    BY <2>2, RefineAuthFacts
  <2>4. list'[k] = [list[k] EXCEPT !.auth = A]
    BY <1>1
  <2> HIDE DEF A
  <2>5. list'[k] \in Config /\ SameConfig(list[k], list'[k]) /\ list'[k].auth = A
    BY <2>1, <2>3, <2>4, WithAuth
  <2> QED
    BY <2>1, <2>2, <2>5 DEF A
<1> QED
  BY <1>1, <1>2

LEMMA ProbeStep ==
  ASSUME IInv, Probe
  PROVE  Typed' /\ Stages'
<1>1. pc' = "resources" /\ pc = "probe"
  BY LaunchFacts DEF Probe
<1>2. UNCHANGED <<req, now, until, outputs, metadata, error>>
  BY DEF Probe
<1>3. \A k \in DOMAIN list' : list'[k] \in Config /\ Wants(req.services, list'[k].service)
  BY ProbeFacts DEF IInv, Typed, SameConfig
<1>4. DOMAIN schemes' = DOMAIN list'
  BY ProbeFacts
<1> QED
  BY <1>1, <1>2, <1>3, <1>4 DEF IInv, Typed, Stages, Early

(* What the resource threads brought home belongs to its endpoint.         *)
LEMMA FetchedFacts ==
  ASSUME Slots, pc = "resources"
  PROVE  Fetched(FetchedResources)
<1> SUFFICES ASSUME NEW e \in DOMAIN FetchedResources, NEW d \in FetchedResources[e]
             PROVE  d \in Metadata(e)
  BY DEF Fetched
<1>1. PICK t \in DOMAIN tasks : tasks[t] = e /\ d \in Slot(t, {})
  BY DEF FetchedResources
<1>2. Slot(t, {}) \in Answers(t)
  BY <1>1, SlotFacts
<1> QED
  BY <1>1, <1>2 DEF Answers, Option

LEMMA ResourcesFacts ==
  ASSUME IInv, Resources
  PROVE  /\ Fetched(metadata')
         /\ DOMAIN list' = DOMAIN list
         /\ \A k \in DOMAIN list :
              /\ list[k] \in Config /\ list'[k] \in Config
              /\ list'[k] = WithServers(list[k], metadata')
              /\ SameConfig(list[k], list'[k])
              /\ list[k].auth \subseteq list'[k].auth
              /\ \A m \in list'[k].auth : m \in list[k].auth \/ m.kind = "issuer"
<1>1. Fetched(metadata')
  BY FetchedFacts DEF Resources, IInv
<1>2. DOMAIN list' = DOMAIN list /\ \A k \in DOMAIN list : list'[k] = WithServers(list[k], metadata')
  BY DEF Resources
<1>3. \A k \in DOMAIN list : list[k] \in Config
  BY DEF IInv, Typed
<1> QED
  BY <1>1, <1>2, <1>3, WithServersFacts

LEMMA ResourcesStep ==
  ASSUME IInv, Resources
  PROVE  Typed' /\ Stages'
<1>1. pc' = "issuers" /\ pc = "resources"
  BY LaunchFacts DEF Resources
<1>2. UNCHANGED <<req, now, until, outputs, schemes, error>>
  BY DEF Resources
<1>3. \A k \in DOMAIN list' : list'[k] \in Config /\ Wants(req.services, list'[k].service)
  BY ResourcesFacts DEF IInv, Typed, SameConfig
<1>4. DOMAIN list' = DOMAIN list /\ Fetched(metadata')
  BY ResourcesFacts
<1> QED
  BY <1>1, <1>2, <1>3, <1>4 DEF IInv, Typed, Stages, Early

(* A config goes through the last pass: its issuers become grants, and its *)
(* grants are bound to what its own endpoint's metadata says, if any.      *)
LEMMA ResolveIssuersFacts ==
  ASSUME IInv, ResolveIssuers
  PROVE  /\ DOMAIN list' = DOMAIN list
         /\ \A k \in DOMAIN list :
              LET c == WithGrants(list[k])
              IN  /\ list[k] \in Config /\ c \in Config /\ list'[k] \in Config
                  /\ SameConfig(list[k], list'[k])
                  /\ \/ MetadataOf(metadata, list[k]) = {} /\ list'[k].auth = c.auth
                     \/ \E d \in MetadataOf(metadata, list[k]) :
                          list'[k].auth = BindGrants(c.auth, d)
<1> DEFINE resolved == [k \in DOMAIN list |-> WithGrants(list[k])]
<1>1. list' = BindAll(resolved, metadata) /\ Fetched(metadata) /\ Slots /\ pc = "issuers"
  BY DEF ResolveIssuers, IInv, Stages
<1>2. DOMAIN list' = DOMAIN list
  BY <1>1 DEF BindAll
<1>3. ASSUME NEW k \in DOMAIN list
      PROVE  LET c == WithGrants(list[k])
             IN  /\ list[k] \in Config /\ c \in Config /\ list'[k] \in Config
                 /\ SameConfig(list[k], list'[k])
                 /\ \/ MetadataOf(metadata, list[k]) = {} /\ list'[k].auth = c.auth
                    \/ \E d \in MetadataOf(metadata, list[k]) :
                         list'[k].auth = BindGrants(c.auth, d)
  <2>1. list[k] \in Config
    BY DEF IInv, Typed
  <2>2. /\ WithGrants(list[k]) \in Config
        /\ SameConfig(list[k], WithGrants(list[k]))
    BY <1>1, <2>1, WithGrantsFacts
  <2>3. k \in DOMAIN resolved /\ resolved[k] = WithGrants(list[k])
    OBVIOUS
  <2> HIDE DEF resolved
  <2>4. /\ list'[k] \in Config
        /\ SameConfig(resolved[k], list'[k])
        /\ IF MetadataOf(metadata, resolved[k]) = {}
           THEN list'[k].auth = resolved[k].auth
           ELSE \E m \in MetadataOf(metadata, resolved[k]) :
                  list'[k].auth = BindGrants(resolved[k].auth, m)
    BY <1>1, <2>2, <2>3, BindFacts
  <2>5. MetadataOf(metadata, resolved[k]) = MetadataOf(metadata, list[k])
    BY <2>2, <2>3 DEF MetadataOf, SameConfig
  <2>6. SameConfig(list[k], list'[k])
    BY <2>2, <2>3, <2>4 DEF SameConfig
  <2> QED
    BY <2>1, <2>2, <2>3, <2>4, <2>5, <2>6
<1> QED
  BY <1>2, <1>3

LEMMA ResolveIssuersStep ==
  ASSUME IInv, ResolveIssuers
  PROVE  Typed' /\ Stages'
<1>1. pc' = "done" /\ pc = "issuers"
  BY LaunchFacts DEF ResolveIssuers, Proceed
<1>2. UNCHANGED <<req, now, until, outputs, schemes, metadata, error>>
  BY DEF ResolveIssuers
<1>3. \A k \in DOMAIN list' : list'[k] \in Config /\ Wants(req.services, list'[k].service)
  BY ResolveIssuersFacts DEF IInv, Typed, SameConfig
<1>4. DOMAIN list' = DOMAIN list
  BY ResolveIssuersFacts
<1> QED
  BY <1>1, <1>2, <1>3, <1>4 DEF IInv, Typed, Stages, Early

(* The inductive invariant: slots hold what their own tasks answered, data *)
(* is of its type, and each stage starts from what the one before left.    *)
THEOREM IInvCorrect == Spec => []IInv
<1>1. Init => IInv
  BY InitIInv
<1>2. IInv /\ [Next]_vars => IInv'
  <2> SUFFICES ASSUME IInv, [Next]_vars PROVE IInv'
    OBVIOUS
  <2>1. Slots'
    BY SlotsStep DEF IInv
  <2>2. Typed' /\ Stages'
    <3>1. CASE \/ NextOutput \/ Tick \/ UNCHANGED vars
               \/ \E t \in DOMAIN tasks : End(t) \/ Deliver(t)
      BY <3>1, QuietStep
    <3>2. CASE Plan \/ CheckResolver \/ CollectOutputs \/ ApplyRoots
      BY <3>2, PlanStep, CheckResolverStep, CollectOutputsStep, ApplyRootsStep
    <3>3. CASE Collect \/ Finish \/ Probe \/ Resources \/ ResolveIssuers
      BY <3>3, CollectStep, FinishStep, ProbeStep, ResourcesStep, ResolveIssuersStep
    <3> QED
      BY <3>1, <3>2, <3>3 DEF Next, Caller
  <2> QED
    BY <2>1, <2>2 DEF IInv
<1> QED
  BY <1>1, <1>2, PTL DEF Spec

(* The collected configs, like the returned ones, are configs of requested *)
(* services, whatever was published, merged and rewritten.                 *)
THEOREM TypeCorrect == Spec => []TypeOK
<1>1. IInv => TypeOK
  BY DEF IInv, Slots, Typed, Stages, TypeOK
<1> QED
  BY <1>1, IInvCorrect, PTL

-----------------------------------------------------------------------------
(* The clock itself has to be bounded: a wait that starts late would       *)
(* otherwise end late.                                                     *)
Clock ==
  /\ until <= Deadline
  /\ pc \in {"plan", "resolver", "mechanisms", "roots"} => now <= Deadline
  /\ pc = "plan" => now = 0

(* No bounded wait ends later than the deadline, counted from the call.    *)
THEOREM BudgetCorrect == Spec => []Budget
<1>1. Init => Clock
  BY DeadlineAssumption DEF Init, Clock
<1>2. IInv /\ Clock /\ [Next]_vars => Clock'
  <2> SUFFICES ASSUME IInv, Clock, [Next]_vars PROVE Clock'
    OBVIOUS
  <2> USE DeadlineAssumption
  <2>0. now \in Nat /\ until \in Nat
    BY DEF IInv, Typed
  <2>1. CASE Plan
    <3>1. pc' \in {"failed", "resolver"}
      BY <2>1, LaunchFacts DEF Plan, Fail, Proceed
    <3> QED
      BY <2>0, <2>1, <3>1 DEF Plan, Fail, Clock
  <2>2. CASE CheckResolver
    <3>1. pc' \in {"failed", "mechanisms"}
      BY <2>2, LaunchFacts DEF CheckResolver, Fail, Proceed
    <3>2. until' = until \/ until' = now + (IF now < Deadline THEN Deadline - now ELSE 0)
      BY <2>2 DEF CheckResolver, Fail
    <3> QED
      BY <2>0, <2>2, <3>1, <3>2 DEF CheckResolver, Clock
  <2>3. CASE CollectOutputs
    <3>1. pc' = "roots"
      BY <2>3, LaunchFacts DEF CollectOutputs
    <3> QED
      BY <2>0, <2>3, <3>1 DEF CollectOutputs, Clock
  <2>4. CASE Tick
    BY <2>0, <2>4 DEF Tick, Bounded, Overtime, waiting, Clock
  <2>5. CASE \/ Collect \/ NextOutput \/ UNCHANGED vars
             \/ \E t \in DOMAIN tasks : End(t) \/ Deliver(t)
    BY <2>5 DEF Collect, NextOutput, vars, End, Deliver, waiting, Clock
  <2>6. CASE ApplyRoots \/ Finish \/ Probe \/ Resources \/ ResolveIssuers
    <3>1. /\ pc' \notin {"plan", "resolver", "mechanisms", "roots"}
          /\ now' = now /\ until' = until
      BY <2>6, LaunchFacts
      DEF ApplyRoots, Finish, Probe, Resources, ResolveIssuers, Proceed
    <3> QED
      BY <3>1 DEF Clock
  <2> QED
    BY <2>1, <2>2, <2>3, <2>4, <2>5, <2>6 DEF Next, Caller
<1>3. Clock => Budget
  BY DEF Clock, Budget
<1> QED
  BY <1>1, <1>2, <1>3, IInvCorrect, PTL DEF Spec

-----------------------------------------------------------------------------
(* The steps that leave the outputs and the list alone.                    *)
Idle ==
  \/ Plan \/ CheckResolver \/ NextOutput \/ Finish \/ Tick \/ UNCHANGED vars
  \/ \E t \in DOMAIN tasks : End(t) \/ Deliver(t)

LEMMA IdleFacts ==
  ASSUME Idle
  PROVE  UNCHANGED <<req, outputs, list, schemes, metadata>>
  BY DEF Idle, Plan, CheckResolver, Fail, NextOutput, Finish, Tick, vars, End, Deliver,
         waiting, data

LEMMA NextCases ==
  ASSUME [Next]_vars
  PROVE  \/ Idle \/ CollectOutputs \/ ApplyRoots \/ Collect
         \/ Probe \/ Resources \/ ResolveIssuers
  BY DEF Next, Caller, Idle

(* In secure-only mode everything handed from stage to stage is encrypted: *)
(* the outputs, the roots that replace their endpoints, and what is merged.*)
Secure ==
  req.secure =>
    /\ \A o \in DOMAIN outputs : \A k \in DOMAIN outputs[o] : IsSecure(outputs[o][k])
    /\ \A k \in DOMAIN list : IsSecure(list[k])

(* In secure-only mode no endpoint reached in the clear is returned, though*)
(* two of the mechanisms do not filter what they find.                     *)
THEOREM SecureOnlyCorrect == Spec => []SecureOnly
<1>1. Init => Secure
  <2>1. DOMAIN (<<>>) = {}
    BY EmptySeq
  <2> QED
    BY <2>1 DEF Init, Secure
<1>2. IInv /\ Secure /\ [Next]_vars => Secure'
  <2> SUFFICES ASSUME IInv, Secure, [Next]_vars PROVE Secure'
    OBVIOUS
  <2>1. CASE Idle
    BY <2>1, IdleFacts DEF Secure
  <2>2. CASE CollectOutputs
    <3>1. req' = req /\ list' = list
      BY <2>2 DEF CollectOutputs
    <3>2. ASSUME req.secure, NEW o \in DOMAIN outputs', NEW k \in DOMAIN outputs'[o]
          PROVE  IsSecure(outputs'[o][k])
      BY <2>2, <3>2, OutputFacts DEF IsSecure
    <3> QED
      BY <3>1, <3>2 DEF Secure
  <2>3. CASE ApplyRoots
    <3>1. ASSUME req.secure, NEW o \in DOMAIN outputs', NEW k \in DOMAIN outputs'[o]
          PROVE  IsSecure(outputs'[o][k])
      <4> DEFINE c == outputs[o][k]
      <4>1. outputs'[o][k] = Rooted(c) /\ c \in Config /\ IsSecure(c)
        BY <2>3, <3>1, ApplyRootsFacts DEF IInv, Typed, Secure
      <4>2. Slots /\ pc = "roots"
        BY <2>3 DEF IInv, ApplyRoots
      <4> HIDE DEF c
      <4>3. Rooted(c) = c \/ Rooted(c).endpoint.proto = "https"
        BY <3>1, <4>1, <4>2, RootedFacts
      <4> QED
        BY <4>1, <4>3 DEF IsSecure
    <3>2. req' = req
      BY <2>3 DEF ApplyRoots
    <3>3. CASE list' = <<>>
      <4>1. DOMAIN (<<>>) = {}
        BY EmptySeq
      <4> QED
        BY <3>1, <3>2, <3>3, <4>1 DEF Secure
    <3>4. CASE list' = OnlyWanted(Flattened(outputs'))
      <4>1. ASSUME req.secure, NEW p \in DOMAIN list'
            PROVE  IsSecure(list'[p])
        <5>1. PICK o \in DOMAIN outputs' : \E k \in DOMAIN outputs'[o] :
                list'[p] = outputs'[o][k]
          BY <3>4, OnlyWantedFacts
        <5> QED
          BY <3>1, <4>1, <5>1
      <4> QED
        BY <3>1, <3>2, <4>1 DEF Secure
    <3> QED
      BY <2>3, <3>3, <3>4, ApplyRootsFacts
  <2>4. CASE Collect
    <3>1. req' = req /\ outputs' = outputs
      BY <2>4 DEF Collect
    <3>2. PICK k \in DOMAIN outputs[at[1]] :
            /\ at[1] \in DOMAIN outputs
            /\ outputs[at[1]][k] \in Config
            /\ list' # list => \E j \in DOMAIN list' : LandsAt(list, outputs[at[1]][k], list', j)
      BY <2>4, CollectFacts
    <3> DEFINE c == outputs[at[1]][k]
    <3>3. ASSUME req.secure, NEW i \in DOMAIN list', list' # list
          PROVE  IsSecure(list'[i])
      <4>1. IsSecure(c) /\ c \in Config
        BY <3>2, <3>3 DEF Secure
      <4>2. PICK j \in DOMAIN list' : LandsAt(list, c, list', j)
        BY <3>2, <3>3
      <4> HIDE DEF c
      <4>3. CASE list'[i] = c
        BY <4>1, <4>3
      <4>4. CASE i \in DOMAIN list /\ list'[i] = list[i]
        BY <3>3, <4>4 DEF Secure
      <4>5. CASE i \in DOMAIN list /\ list'[i] = Merged(list[i], c)
        <5>1. list[i] \in Config /\ IsSecure(list[i])
          BY <3>3, <4>5 DEF IInv, Typed, Secure
        <5>2. Merged(list[i], c).endpoint \in {list[i].endpoint, c.endpoint}
          BY <4>1, <5>1, MergedFacts
        <5> QED
          BY <4>1, <4>5, <5>1, <5>2 DEF IsSecure
      <4> QED
        BY <4>2, <4>3, <4>4, <4>5 DEF LandsAt
    <3> QED
      BY <3>1, <3>3 DEF Secure
  <2>5. CASE Probe \/ Resources \/ ResolveIssuers
    <3>1. req' = req /\ outputs' = outputs
      BY <2>5 DEF Probe, Resources, ResolveIssuers
    <3>2. DOMAIN list' = DOMAIN list /\ \A k \in DOMAIN list : list'[k].endpoint = list[k].endpoint
      BY <2>5, ProbeFacts, ResourcesFacts, ResolveIssuersFacts DEF SameConfig
    <3> QED
      BY <3>1, <3>2 DEF Secure, IsSecure
  <2> QED
    BY <2>1, <2>2, <2>3, <2>4, <2>5, NextCases
<1>3. Secure => SecureOnly
  BY DEF Secure, SecureOnly
<1> QED
  BY <1>1, <1>2, <1>3, IInvCorrect, PTL DEF Spec

-----------------------------------------------------------------------------
(* A context root goes to the configs of the target its walk was started   *)
(* for. It follows from the slots: what task t brought home is read by     *)
(* task t's target only.                                                   *)
THEOREM OwnRootCorrect == Spec => OwnRoot
<1> DEFINE Step ==
      pc = "roots" /\ pc' # "roots" =>
       \A o \in DOMAIN outputs : \A k \in DOMAIN outputs[o] :
         LET before == outputs[o][k]
             after == outputs'[o][k]
         IN  after # before =>
               /\ IsDavTarget(before)
               /\ after.resolved
               /\ \E t \in DOMAIN tasks :
                    tasks[t] = DavTarget(before) /\ outcome[t] = {after.endpoint}
<1>1. IInv /\ [Next]_vars => [Step]_vars
  <2> SUFFICES ASSUME IInv, [Next]_vars, pc = "roots", pc' # "roots",
                      NEW o \in DOMAIN outputs, NEW k \in DOMAIN outputs[o],
                      outputs'[o][k] # outputs[o][k]
               PROVE  /\ IsDavTarget(outputs[o][k])
                      /\ outputs'[o][k].resolved
                      /\ \E t \in DOMAIN tasks :
                           /\ tasks[t] = DavTarget(outputs[o][k])
                           /\ outcome[t] = {outputs'[o][k].endpoint}
    OBVIOUS
  <2>1. CASE ApplyRoots
    <3> DEFINE c == outputs[o][k]
    <3>1. outputs'[o][k] = Rooted(c) /\ c \in Config
      BY <2>1, ApplyRootsFacts DEF IInv, Typed
    <3>2. Slots
      BY DEF IInv
    <3> HIDE DEF c
    <3>3. \/ Rooted(c) = c
          \/ \E t \in DOMAIN tasks :
               /\ IsDavTarget(c) /\ tasks[t] = DavTarget(c)
               /\ outcome[t] = {Rooted(c).endpoint} /\ Rooted(c).resolved
      BY <3>1, <3>2, RootedFacts
    <3> QED
      BY <3>1, <3>3 DEF c
  <2>2. CASE Idle \/ CollectOutputs \/ Collect \/ Probe \/ Resources \/ ResolveIssuers
    BY <2>2 DEF Idle, Plan, CheckResolver, CollectOutputs, Collect, NextOutput, Finish,
                Probe, Resources, ResolveIssuers, Tick, vars, waiting, End, Deliver
  <2> QED
    BY <2>1, <2>2, NextCases
<1> QED
  BY <1>1, IInvCorrect, PTL DEF Spec, OwnRoot

(* The logins an endpoint advertised stay its only logins: resource        *)
(* metadata adds issuers, an issuer becomes grants, and neither is a login.*)
THEOREM ProbeWinsCorrect == Spec => []ProbeWins
<1> DEFINE Logins(A) == {m \in A : IsLogin(m)}
<1>1. Init => ProbeWins
  <2>1. DOMAIN (<<>>) = {}
    BY EmptySeq
  <2> QED
    BY <2>1 DEF Init, ProbeWins
<1>2. IInv /\ ProbeWins /\ [Next]_vars => ProbeWins'
  <2> SUFFICES ASSUME IInv, ProbeWins, [Next]_vars PROVE ProbeWins'
    OBVIOUS
  <2>1. CASE Idle
    BY <2>1, IdleFacts DEF ProbeWins
  <2>2. CASE CollectOutputs \/ ApplyRoots \/ Collect
    <3>1. schemes' = schemes /\ schemes = <<>> /\ DOMAIN (<<>>) = {}
      BY <2>2, EmptySeq DEF CollectOutputs, ApplyRoots, Collect, IInv, Stages, Early
    <3> QED
      BY <3>1 DEF ProbeWins
  <2>3. CASE Probe
    <3>1. DOMAIN schemes' = DOMAIN list
      BY <2>3, ProbeFacts
    <3>2. ASSUME NEW k \in DOMAIN list, Advertised(schemes'[k]) # {}
          PROVE  Logins(list'[k].auth) = Advertised(schemes'[k])
      <4>1. list[k].auth \in SUBSET Methods /\ list'[k].auth = RefineAuth(list[k].auth, schemes'[k])
        BY <2>3, ProbeFacts
      <4> QED
        BY <3>2, <4>1, RefineAuthFacts
    <3> QED
      BY <3>1, <3>2 DEF ProbeWins
  <2>4. CASE Resources
    <3>1. schemes' = schemes
      BY <2>4 DEF Resources
    <3>2. ASSUME NEW k \in DOMAIN schemes
          PROVE  Logins(list'[k].auth) = Logins(list[k].auth)
      <4>1. k \in DOMAIN list
        BY <3>2, EmptySeq DEF IInv, Stages
      <4>2. /\ list[k].auth \subseteq list'[k].auth
            /\ \A m \in list'[k].auth : m \in list[k].auth \/ m.kind = "issuer"
        BY <2>4, <4>1, ResourcesFacts
      <4> QED
        BY <4>2 DEF IsLogin
    <3> QED
      BY <3>1, <3>2 DEF ProbeWins
  <2>5. CASE ResolveIssuers
    <3>1. schemes' = schemes
      BY <2>5 DEF ResolveIssuers
    <3>2. ASSUME NEW k \in DOMAIN schemes
          PROVE  Logins(list'[k].auth) = Logins(list[k].auth)
      <4> DEFINE c == WithGrants(list[k])
      <4>1. k \in DOMAIN list
        BY <3>2, EmptySeq DEF IInv, Stages
      <4>2. /\ list[k] \in Config /\ c \in Config
            /\ \/ list'[k].auth = c.auth
               \/ \E d \in MetadataOf(metadata, list[k]) : list'[k].auth = BindGrants(c.auth, d)
        BY <2>5, <4>1, ResolveIssuersFacts
      <4>3. Slots /\ pc = "issuers"
        BY <2>5 DEF IInv, ResolveIssuers
      <4>4. /\ \A m \in c.auth : m \in list[k].auth \/ IsWay(m)
            /\ \A m \in list[k].auth : m.kind # "issuer" => m \in c.auth
        BY <4>2, <4>3, WithGrantsFacts
      <4> HIDE DEF c
      <4>5. Logins(c.auth) = Logins(list[k].auth)
        BY <4>4 DEF IsLogin, IsWay
      <4>6. ASSUME NEW d
            PROVE  Logins(BindGrants(c.auth, d)) = Logins(c.auth)
        <5>1. c.auth \in SUBSET Methods
          BY <4>2 DEF Config
        <5> QED
          BY <5>1, BindGrantsFacts DEF IsLogin
      <4> QED
        BY <4>2, <4>5, <4>6
    <3> QED
      BY <3>1, <3>2 DEF ProbeWins
  <2> QED
    BY <2>1, <2>2, <2>3, <2>4, <2>5, NextCases
<1> QED
  BY <1>1, <1>2, IInvCorrect, PTL DEF Spec

(* Until the last pass no grant is bound to anything, so that what a       *)
(* returned grant is bound to comes from the metadata of its own endpoint. *)
UnboundIn(A) == \A m \in A : m.kind = "grant" => m.resource = "none"

Unbound ==
  pc # "done" =>
    /\ \A o \in DOMAIN outputs : \A k \in DOMAIN outputs[o] : UnboundIn(outputs[o][k].auth)
    /\ \A k \in DOMAIN list : UnboundIn(list[k].auth)

(* A returned grant is bound to the resource its own endpoint published,   *)
(* or to none.                                                             *)
THEOREM GrantsBoundCorrect == Spec => []GrantsBound
<1>1. Init => Unbound /\ GrantsBound
  <2>1. DOMAIN (<<>>) = {}
    BY EmptySeq
  <2> QED
    BY <2>1 DEF Init, Unbound, GrantsBound
<1>2. IInv /\ Unbound /\ GrantsBound /\ [Next]_vars => Unbound' /\ GrantsBound'
  <2> SUFFICES ASSUME IInv, Unbound, GrantsBound, [Next]_vars
               PROVE  Unbound' /\ GrantsBound'
    OBVIOUS
  <2>1. CASE Idle
    <3>1. pc' = "done" <=> pc = "done"
      BY <2>1, LaunchFacts
      DEF Idle, Plan, CheckResolver, Fail, Proceed, NextOutput, Finish, Tick, vars, waiting,
          End, Deliver
    <3> QED
      BY <2>1, <3>1, IdleFacts DEF Unbound, GrantsBound, MetadataOf
  <2>2. CASE CollectOutputs
    <3>1. pc = "mechanisms" /\ pc' = "roots" /\ list' = list
      BY <2>2, LaunchFacts DEF CollectOutputs
    <3>2. ASSUME NEW o \in DOMAIN outputs', NEW k \in DOMAIN outputs'[o]
          PROVE  UnboundIn(outputs'[o][k].auth)
      <4>1. PICK f \in Published : k \in DOMAIN f /\ outputs'[o][k] = f[k]
        BY <2>2, OutputFacts
      <4> QED
        BY <4>1, PublishedAssumption DEF UnboundIn
    <3> QED
      BY <3>1, <3>2 DEF Unbound, GrantsBound
  <2>3. CASE ApplyRoots
    <3>1. pc = "roots" /\ pc' # "done"
      BY <2>3, ApplyRootsFacts DEF ApplyRoots
    <3>2. ASSUME NEW o \in DOMAIN outputs', NEW k \in DOMAIN outputs'[o]
          PROVE  UnboundIn(outputs'[o][k].auth)
      <4> DEFINE c == outputs[o][k]
      <4>1. outputs'[o][k] = Rooted(c) /\ c \in Config /\ UnboundIn(c.auth)
        BY <2>3, <3>1, ApplyRootsFacts DEF IInv, Typed, Unbound
      <4>2. Slots
        BY DEF IInv
      <4> HIDE DEF c
      <4>3. Rooted(c) = c \/ Rooted(c).auth = c.auth
        BY <3>1, <4>1, <4>2, RootedFacts
      <4> QED
        BY <4>1, <4>3
    <3>3. CASE list' = <<>>
      <4>1. DOMAIN (<<>>) = {}
        BY EmptySeq
      <4> QED
        BY <3>1, <3>2, <3>3, <4>1 DEF Unbound, GrantsBound
    <3>4. CASE list' = OnlyWanted(Flattened(outputs'))
      <4>1. ASSUME NEW p \in DOMAIN list'
            PROVE  UnboundIn(list'[p].auth)
        <5>1. PICK o \in DOMAIN outputs' : \E k \in DOMAIN outputs'[o] :
                list'[p] = outputs'[o][k]
          BY <3>4, OnlyWantedFacts
        <5> QED
          BY <3>2, <5>1
      <4> QED
        BY <3>1, <3>2, <4>1 DEF Unbound, GrantsBound
    <3> QED
      BY <2>3, <3>3, <3>4, ApplyRootsFacts
  <2>4. CASE Collect
    <3>1. pc = "reduce" /\ pc' = pc /\ outputs' = outputs
      BY <2>4 DEF Collect, waiting
    <3>2. PICK k \in DOMAIN outputs[at[1]] :
            /\ at[1] \in DOMAIN outputs
            /\ outputs[at[1]][k] \in Config
            /\ list' # list => \E j \in DOMAIN list' : LandsAt(list, outputs[at[1]][k], list', j)
      BY <2>4, CollectFacts
    <3> DEFINE c == outputs[at[1]][k]
    <3>3. UnboundIn(c.auth) /\ c \in Config
      BY <3>1, <3>2 DEF Unbound
    <3>4. ASSUME NEW i \in DOMAIN list', list' # list
          PROVE  UnboundIn(list'[i].auth)
      <4>1. PICK j \in DOMAIN list' : LandsAt(list, c, list', j)
        BY <3>2, <3>4
      <4> HIDE DEF c
      <4>2. CASE list'[i] = c
        BY <3>3, <4>2
      <4>3. CASE i \in DOMAIN list /\ list'[i] = list[i]
        BY <3>1, <4>3 DEF Unbound
      <4>4. CASE i \in DOMAIN list /\ list'[i] = Merged(list[i], c)
        <5>1. list[i] \in Config /\ UnboundIn(list[i].auth)
          BY <3>1, <4>4 DEF IInv, Typed, Unbound
        <5>2. list'[i].auth = list[i].auth \cup c.auth
          BY <3>3, <4>4, <5>1, MergedFacts
        <5> QED
          BY <3>3, <5>1, <5>2 DEF UnboundIn
      <4> QED
        BY <4>1, <4>2, <4>3, <4>4 DEF LandsAt
    <3>5. \A i \in DOMAIN list' : UnboundIn(list'[i].auth)
      BY <3>1, <3>4 DEF Unbound
    <3> QED
      BY <3>1, <3>5 DEF Unbound, GrantsBound
  <2>5. CASE Probe
    <3>1. pc = "probe" /\ pc' = "resources" /\ outputs' = outputs
      BY <2>5, LaunchFacts DEF Probe
    <3>2. ASSUME NEW k \in DOMAIN list'
          PROVE  UnboundIn(list'[k].auth)
      <4>1. /\ k \in DOMAIN list /\ list[k].auth \in SUBSET Methods
            /\ list'[k].auth = RefineAuth(list[k].auth, schemes'[k])
        BY <2>5, ProbeFacts
      <4>2. \A m \in list'[k].auth : m \in list[k].auth \/ m \in {Password, Bearer}
        BY <4>1, RefineAuthFacts
      <4> QED
        BY <3>1, <4>1, <4>2, Kinds DEF Unbound, UnboundIn
    <3> QED
      BY <3>1, <3>2 DEF Unbound, GrantsBound
  <2>6. CASE Resources
    <3>1. pc = "resources" /\ pc' = "issuers" /\ outputs' = outputs
      BY <2>6, LaunchFacts DEF Resources
    <3>2. ASSUME NEW k \in DOMAIN list'
          PROVE  UnboundIn(list'[k].auth)
      <4>1. k \in DOMAIN list /\ \A m \in list'[k].auth : m \in list[k].auth \/ m.kind = "issuer"
        BY <2>6, ResourcesFacts
      <4> QED
        BY <3>1, <4>1 DEF Unbound, UnboundIn
    <3> QED
      BY <3>1, <3>2 DEF Unbound, GrantsBound
  <2>7. CASE ResolveIssuers
    <3>1. pc = "issuers" /\ pc' = "done" /\ metadata' = metadata
      BY <2>7, LaunchFacts DEF ResolveIssuers, Proceed
    <3>2. ASSUME NEW k \in DOMAIN list', NEW m \in list'[k].auth, m.kind = "grant"
          PROVE  m.resource \in IF MetadataOf(metadata, list'[k]) = {}
                                THEN {"none"}
                                ELSE {d.resource : d \in MetadataOf(metadata, list'[k])}
      <4> DEFINE c == WithGrants(list[k])
                 docs == MetadataOf(metadata, list[k])
      <4>1. /\ k \in DOMAIN list /\ list[k] \in Config /\ c \in Config
            /\ SameConfig(list[k], list'[k])
            /\ \/ docs = {} /\ list'[k].auth = c.auth
               \/ \E d \in docs : list'[k].auth = BindGrants(c.auth, d)
        BY <2>7, ResolveIssuersFacts
      <4>2. MetadataOf(metadata, list'[k]) = docs
        BY <4>1 DEF MetadataOf, SameConfig
      <4>3. Slots
        BY DEF IInv
      <4>4. UnboundIn(c.auth)
        <5>1. \A n \in c.auth : n \in list[k].auth \/ IsWay(n)
          BY <3>1, <4>1, <4>3, WithGrantsFacts
        <5>2. UnboundIn(list[k].auth)
          BY <3>1, <4>1 DEF Unbound
        <5> QED
          BY <5>1, <5>2 DEF UnboundIn, IsWay
      <4>5. c.auth \in SUBSET Methods
        BY <4>1 DEF Config
      <4> HIDE DEF c, docs
      <4>6. CASE docs = {} /\ list'[k].auth = c.auth
        BY <3>2, <4>2, <4>4, <4>6 DEF UnboundIn
      <4>7. ASSUME NEW d \in docs, list'[k].auth = BindGrants(c.auth, d)
            PROVE  m.resource \in {e.resource : e \in docs}
        BY <3>2, <4>5, <4>7, BindGrantsFacts
      <4> QED
        BY <4>1, <4>2, <4>6, <4>7
    <3> QED
      BY <3>1, <3>2 DEF Unbound, GrantsBound, MetadataOf
  <2> QED
    BY <2>1, <2>2, <2>3, <2>4, <2>5, <2>6, <2>7, NextCases
<1> QED
  BY <1>1, <1>2, IInvCorrect, PTL DEF Spec

(* A config never loses its way to a token: a merge unites the methods,    *)
(* the probe replaces logins only, an issuer becomes at least one grant,   *)
(* and binding a grant leaves it a grant.                                  *)
THEOREM OauthKeptCorrect == Spec => OauthKept
<1> DEFINE Oauth(A) == \E m \in A : IsOauth(m)
           Step == \A k \in DOMAIN list : Oauth(list[k].auth) => Oauth(list'[k].auth)
<1>1. IInv /\ [Next]_vars => [Step]_vars
  <2> SUFFICES ASSUME IInv, [Next]_vars, NEW k \in DOMAIN list, Oauth(list[k].auth)
               PROVE  Oauth(list'[k].auth)
    OBVIOUS
  <2>1. CASE Idle \/ CollectOutputs
    BY <2>1, IdleFacts DEF CollectOutputs
  <2>2. CASE ApplyRoots
    <3>1. list = <<>>
      BY <2>2 DEF ApplyRoots, IInv, Stages, Early
    <3> QED
      BY <3>1, EmptySeq
  <2>3. CASE Collect
    <3>1. CASE list' = list
      BY <3>1
    <3>2. CASE list' # list
      <4>1. PICK c \in Config, j \in DOMAIN list' :
              LandsAt(list, c, list', j) /\ DOMAIN list \subseteq DOMAIN list'
        BY <2>3, <3>2, CollectFacts
      <4>2. CASE list'[k] = list[k]
        BY <4>2
      <4>3. CASE list'[k] = Merged(list[k], c)
        <5>1. list[k] \in Config
          BY DEF IInv, Typed
        <5>2. list'[k].auth = list[k].auth \cup c.auth
          BY <4>1, <4>3, <5>1, MergedFacts
        <5> QED
          BY <5>2
      <4> QED
        BY <4>1, <4>2, <4>3 DEF LandsAt
    <3> QED
      BY <3>1, <3>2
  <2>4. CASE Probe
    <3>1. /\ list[k].auth \in SUBSET Methods
          /\ list'[k].auth = RefineAuth(list[k].auth, schemes'[k])
      BY <2>4, ProbeFacts
    <3>2. \A m \in list[k].auth : ~IsLogin(m) => m \in list'[k].auth
      BY <3>1, RefineAuthFacts
    <3> QED
      BY <3>2 DEF IsLogin, IsOauth
  <2>5. CASE Resources
    BY <2>5, ResourcesFacts
  <2>6. CASE ResolveIssuers
    <3> DEFINE c == WithGrants(list[k])
    <3>1. /\ list[k] \in Config /\ c \in Config
          /\ \/ list'[k].auth = c.auth
             \/ \E d \in MetadataOf(metadata, list[k]) : list'[k].auth = BindGrants(c.auth, d)
      BY <2>6, ResolveIssuersFacts
    <3>2. Slots /\ pc = "issuers"
      BY <2>6 DEF IInv, ResolveIssuers
    <3>3. Oauth(c.auth)
      BY <3>1, <3>2, WithGrantsFacts
    <3>4. c.auth \in SUBSET Methods
      BY <3>1 DEF Config
    <3> HIDE DEF c
    <3>5. ASSUME NEW d
          PROVE  Oauth(BindGrants(c.auth, d))
      <4>1. PICK m \in c.auth : IsOauth(m)
        BY <3>3
      <4> QED
        BY <3>4, <4>1, BindGrantsFacts DEF IsOauth
    <3> QED
      BY <3>1, <3>3, <3>5
  <2> QED
    BY <2>1, <2>2, <2>3, <2>4, <2>5, <2>6, NextCases
<1> QED
  BY <1>1, IInvCorrect, PTL DEF Spec, OauthKept

-----------------------------------------------------------------------------
(***************************************************************************)
(* The reduction. While it walks through the outputs, the list is what the *)
(* places reached so far make of it; under `first' no output behind the    *)
(* walk had anything the call asked for.                                   *)
(***************************************************************************)
LEMMA PriorityFacts ==
  Len(Priority) \in Nat /\ DOMAIN Priority = 1 .. Len(Priority)
  BY DEF Priority

Places ==
  /\ \A o \in DOMAIN outputs :
       /\ o \in Nat /\ o <= Len(Priority)
       /\ \A k \in DOMAIN outputs[o] : k \in Nat /\ k > 0
  /\ at[1] \in Nat /\ at[2] \in Nat
  /\ pc \in Early => at = <<0, 0>>

Shows(c, e) ==
  c.service = e.service /\ c.user = e.user /\ c.endpoint = e.endpoint /\ c.source = e.source

LivesIn(c, e) ==
  e.service = c.service /\ e.user = c.user /\ (c.resolved => e.resolved)

Reached(o, k) == o < at[1] \/ (o = at[1] /\ k <= at[2])

Wanted(o, k) == Wants(req.services, outputs[o][k].service)

Walking ==
  /\ \A i \in DOMAIN list : \E o \in DOMAIN outputs : \E k \in DOMAIN outputs[o] :
       Reached(o, k) /\ Wanted(o, k) /\ Shows(outputs[o][k], list[i])
  /\ \A o \in DOMAIN outputs : \A k \in DOMAIN outputs[o] :
       Reached(o, k) /\ Wanted(o, k) => \E i \in DOMAIN list : LivesIn(outputs[o][k], list[i])
  /\ req.mode = "first" =>
       \A o \in DOMAIN outputs : \A k \in DOMAIN outputs[o] : o < at[1] => ~Wanted(o, k)

(* What the list holds once the outputs are reduced.                       *)
Complete ==
  /\ \A i \in DOMAIN list : \E o \in Reduced : \E k \in DOMAIN outputs[o] :
       Shows(outputs[o][k], list[i])
  /\ \A o \in Reduced : \A k \in DOMAIN outputs[o] :
       Wanted(o, k) => \E i \in DOMAIN list : LivesIn(outputs[o][k], list[i])

Reducing ==
  req.mode # "raw" =>
    /\ pc = "reduce" => IF at[1] <= Len(Priority) THEN Walking ELSE Complete
    /\ pc \in {"probe", "resources", "issuers", "done"} => Complete

LEMMA PlacesStep ==
  ASSUME IInv, Places, [Next]_vars
  PROVE  Places'
<1>1. CASE CollectOutputs
  <2>1. ASSUME NEW o \in DOMAIN outputs'
        PROVE  o \in Nat /\ o <= Len(Priority)
    <3>1. o \in DOMAIN tasks \cup {0}
      BY <1>1, <2>1 DEF CollectOutputs
    <3>2. DOMAIN tasks \subseteq DOMAIN Priority
      BY <1>1 DEF CollectOutputs, IInv, Stages, Mechanisms, Restrict
    <3> QED
      BY <3>1, <3>2, PriorityFacts
  <2>2. ASSUME NEW o \in DOMAIN outputs', NEW k \in DOMAIN outputs'[o]
        PROVE  k \in Nat /\ k > 0
    <3>1. PICK f \in Published : k \in DOMAIN f
      BY <1>1, <2>2, OutputFacts
    <3>2. f \in Seq(Config)
      BY PublishedAssumption
    <3> QED
      BY <3>1, <3>2, LenProperties
  <2>3. at' = at /\ at = <<0, 0>>
    BY <1>1 DEF CollectOutputs, Places, Early
  <2> QED
    BY <2>1, <2>2, <2>3 DEF Places
<1>2. CASE ApplyRoots
  <2>1. /\ DOMAIN outputs' = DOMAIN outputs
        /\ \A o \in DOMAIN outputs : DOMAIN outputs'[o] = DOMAIN outputs[o]
        /\ at' = at /\ at = <<0, 0>>
    BY <1>2, ApplyRootsFacts DEF ApplyRoots, Places, Early
  <2> QED
    BY <2>1 DEF Places
<1>3. CASE Collect
  <2>1. PICK k \in Rest : at' = <<at[1], k>>
    BY <1>3 DEF Collect
  <2>2. k \in Nat
    BY <2>1 DEF Rest, Places
  <2>3. outputs' = outputs /\ pc' = "reduce"
    BY <1>3 DEF Collect, waiting
  <2> QED
    BY <2>1, <2>2, <2>3 DEF Places, Early
<1>4. CASE NextOutput
  <2>1. \/ at' = <<Len(Priority) + 1, 0>>
        \/ at' = <<at[1] + 1, 0>>
    BY <1>4 DEF NextOutput, Advance
  <2>2. outputs' = outputs /\ pc' = "reduce"
    BY <1>4 DEF NextOutput, waiting
  <2> QED
    BY <2>1, <2>2, PriorityFacts DEF Places, Early
<1>5. CASE \/ Plan \/ CheckResolver \/ Finish \/ Probe \/ Resources \/ ResolveIssuers
           \/ Tick \/ UNCHANGED vars \/ \E t \in DOMAIN tasks : End(t) \/ Deliver(t)
  <2>1. outputs' = outputs /\ at' = at
    BY <1>5 DEF Plan, CheckResolver, Fail, Finish, Probe, Resources, ResolveIssuers, Tick,
                vars, End, Deliver, data
  <2>2. pc' \in Early => pc \in Early
    BY <1>5, LaunchFacts
    DEF Plan, CheckResolver, Fail, Proceed, Finish, Probe, Resources, ResolveIssuers, Tick,
        vars, End, Deliver, waiting, Early
  <2> QED
    BY <2>1, <2>2 DEF Places
<1> QED
  BY <1>1, <1>2, <1>3, <1>4, <1>5 DEF Next, Caller

(* A config lands: the places reached grow by its own.                     *)
LEMMA CollectWalks ==
  ASSUME IInv, Places, Walking, Collect
  PROVE  Walking'
<1>1. PICK k \in Rest :
        LET c == outputs[at[1]][k]
        IN  /\ \A j \in Rest : k <= j
            /\ at' = <<at[1], k>> /\ at[1] \in DOMAIN outputs
            /\ k \in DOMAIN outputs[at[1]] /\ c \in Config
            /\ \/ ~Wants(req.services, c.service) /\ list' = list
               \/ /\ Wants(req.services, c.service)
                  /\ list' \in Seq(Config) /\ DOMAIN list \subseteq DOMAIN list'
                  /\ \E j \in DOMAIN list' : LandsAt(list, c, list', j)
  BY CollectFacts
<1> DEFINE b == at[1]
           c == outputs[b][k]
<1>2. UNCHANGED <<req, outputs>>
  BY DEF Collect
<1>3. at'[1] = b /\ at'[2] = k /\ b \in Nat /\ at[2] \in Nat /\ k \in Nat
  BY <1>1 DEF Places
<1>4. ASSUME NEW o \in DOMAIN outputs, NEW j \in DOMAIN outputs[o]
      PROVE  Reached(o, j)' <=> Reached(o, j) \/ (o = b /\ j = k)
  <2>1. o \in Nat /\ j \in Nat
    BY DEF Places
  <2>2. CASE o = b
    <3>1. j > at[2] => j \in Rest
      BY <1>1, <2>2 DEF Rest
    <3>2. k > at[2]
      BY <1>1 DEF Rest
    <3> QED
      BY <1>1, <1>3, <2>1, <2>2, <3>1, <3>2 DEF Reached
  <2>3. CASE o # b
    BY <1>3, <2>1, <2>3 DEF Reached
  <2> QED
    BY <2>2, <2>3
<1>5. ASSUME NEW o, NEW j
      PROVE  Wanted(o, j)' <=> Wanted(o, j)
  BY <1>2 DEF Wanted
<1>6. req.mode = "first" =>
        \A o \in DOMAIN outputs : \A j \in DOMAIN outputs[o] : o < b => ~Wanted(o, j)
  BY DEF Walking
<1>7. CASE ~Wants(req.services, c.service) /\ list' = list
  <2>1. ~Wanted(b, k)
    BY <1>7 DEF Wanted
  <2> QED
    BY <1>1, <1>2, <1>3, <1>4, <1>5, <1>6, <1>7, <2>1 DEF Walking
<1>8. CASE /\ Wants(req.services, c.service)
           /\ list' \in Seq(Config) /\ DOMAIN list \subseteq DOMAIN list'
           /\ \E j \in DOMAIN list' : LandsAt(list, c, list', j)
  <2>1. PICK i0 \in DOMAIN list' : LandsAt(list, c, list', i0)
    BY <1>8
  <2>2. b \in DOMAIN outputs /\ k \in DOMAIN outputs[b] /\ c \in Config /\ Wanted(b, k)
    BY <1>1, <1>8 DEF Wanted
  <2>3. \A i \in DOMAIN list : list[i] \in Config
    BY DEF IInv, Typed
  <2>4. ASSUME NEW i \in DOMAIN list'
        PROVE  \E o \in DOMAIN outputs : \E j \in DOMAIN outputs[o] :
                 Reached(o, j)' /\ Wanted(o, j) /\ Shows(outputs[o][j], list'[i])
    <3>1. CASE Shows(c, list'[i])
      BY <1>4, <2>2, <3>1
    <3>2. CASE i \in DOMAIN list /\ \A d : Shows(d, list[i]) => Shows(d, list'[i])
      <4>1. PICK o \in DOMAIN outputs : \E j \in DOMAIN outputs[o] :
              Reached(o, j) /\ Wanted(o, j) /\ Shows(outputs[o][j], list[i])
        BY <3>2 DEF Walking
      <4> QED
        BY <1>4, <3>2, <4>1
    <3>3. CASE list'[i] = c
      BY <3>1, <3>3 DEF Shows
    <3>4. CASE i \in DOMAIN list /\ list'[i] = list[i]
      BY <3>2, <3>4
    <3>5. CASE i \in DOMAIN list /\ SameService(list[i], c) /\ list'[i] = Merged(list[i], c)
      <4> DEFINE e == list[i]
      <4>1. e \in Config /\ e.service = c.service /\ e.user = c.user
        BY <2>3, <3>5 DEF SameService
      <4>2. list'[i].service = e.service /\ list'[i].user = e.user
        BY <2>2, <3>5, <4>1, MergedFacts
      <4>3. CASE TakesOver(e, c)
        <5>1. list'[i].endpoint = c.endpoint /\ list'[i].source = c.source
          BY <2>2, <3>5, <4>1, <4>3, MergedFacts
        <5> QED
          BY <3>1, <4>1, <4>2, <5>1 DEF Shows
      <4>4. CASE ~TakesOver(e, c)
        <5>1. list'[i].endpoint = e.endpoint /\ list'[i].source = e.source
          BY <2>2, <3>5, <4>1, <4>4, MergedFacts
        <5> QED
          BY <3>2, <3>5, <4>2, <5>1 DEF Shows
      <4> QED
        BY <4>3, <4>4
    <3> QED
      BY <2>1, <3>3, <3>4, <3>5 DEF LandsAt
  <2>5. LivesIn(c, list'[i0])
    <3>1. CASE list'[i0] = c
      BY <3>1 DEF LivesIn
    <3>2. CASE i0 \in DOMAIN list /\ SameService(list[i0], c) /\ list'[i0] = Merged(list[i0], c)
      BY <2>2, <2>3, <3>2, MergedKeeps DEF LivesIn
    <3> QED
      BY <2>1, <3>1, <3>2 DEF LandsAt
  <2>6. ASSUME NEW i \in DOMAIN list, NEW d, LivesIn(d, list[i])
        PROVE  i \in DOMAIN list' /\ LivesIn(d, list'[i])
    <3>1. CASE list'[i] = list[i]
      BY <1>8, <2>6, <3>1
    <3>2. CASE SameService(list[i], c) /\ list'[i] = Merged(list[i], c)
      <4>1. /\ list'[i].service = list[i].service /\ list'[i].user = list[i].user
            /\ list[i].resolved => list'[i].resolved
        BY <2>2, <2>3, <3>2, MergedKeeps
      <4> QED
        BY <1>8, <2>6, <4>1 DEF LivesIn
    <3> QED
      BY <1>8, <2>1, <3>1, <3>2 DEF LandsAt
  <2>7. ASSUME NEW o \in DOMAIN outputs, NEW j \in DOMAIN outputs[o], Reached(o, j)', Wanted(o, j)
        PROVE  \E i \in DOMAIN list' : LivesIn(outputs[o][j], list'[i])
    <3>1. CASE o = b /\ j = k
      BY <2>1, <2>5, <3>1
    <3>2. CASE Reached(o, j)
      <4>1. PICK i \in DOMAIN list : LivesIn(outputs[o][j], list[i])
        BY <2>7, <3>2 DEF Walking
      <4> QED
        BY <2>6, <4>1
    <3> QED
      BY <1>4, <2>7, <3>1, <3>2
  <2> HIDE DEF b, c
  <2> QED
    BY <1>2, <1>3, <1>5, <1>6, <2>4, <2>7 DEF Walking
<1> QED
  BY <1>1, <1>7, <1>8

(* An output is left: every place of it has been reached.                  *)
LEMMA NextOutputWalks ==
  ASSUME IInv, Places, Walking, NextOutput
  PROVE  IF at'[1] <= Len(Priority) THEN Walking' ELSE Complete'
<1> DEFINE b == at[1]
           jump == req.mode = "first" /\ list # <<>>
<1>1. UNCHANGED <<req, outputs, list>> /\ Rest = {} /\ b <= Len(Priority)
  BY DEF NextOutput
<1>2. b \in Nat /\ at[2] \in Nat /\ Len(Priority) \in Nat
  BY PriorityFacts DEF Places
<1>3. IF jump THEN at' = <<Len(Priority) + 1, 0>> ELSE at' = <<b + 1, 0>>
  BY DEF NextOutput, Advance
<1>4. ASSUME NEW o \in DOMAIN outputs, NEW k \in DOMAIN outputs[o]
      PROVE  o \in Nat /\ k \in Nat /\ k > 0 /\ (Reached(o, k) <=> o <= b)
  <2>1. o \in Nat /\ k \in Nat /\ k > 0
    BY DEF Places
  <2>2. o = b => k <= at[2]
    BY <1>1, <1>2, <2>1 DEF Rest
  <2> QED
    BY <1>2, <2>1, <2>2 DEF Reached
<1>5. ASSUME NEW o, NEW k
      PROVE  Wanted(o, k)' <=> Wanted(o, k)
  BY <1>1 DEF Wanted
<1>6. Reduced' = Reduced
  BY <1>1 DEF Reduced, Producing
<1>7. ASSUME list = <<>>, NEW o \in DOMAIN outputs, NEW k \in DOMAIN outputs[o], o <= b
      PROVE  ~Wanted(o, k)
  <2>1. DOMAIN list = {}
    BY <1>7, EmptySeq
  <2> QED
    BY <1>4, <1>7, <2>1 DEF Walking
<1>8. CASE jump
  <2>1. b \in Producing /\ \A p \in Producing : b <= p
    <3>1. list \in Seq(Config) /\ list # <<>>
      BY <1>8 DEF IInv, Stages, NextOutput
    <3>2. 1 \in DOMAIN list
      BY <3>1, EmptySeq, LenProperties
    <3>3. PICK o \in DOMAIN outputs : \E k \in DOMAIN outputs[o] : Reached(o, k) /\ Wanted(o, k)
      BY <3>2 DEF Walking
    <3>4. ASSUME NEW p \in DOMAIN outputs, NEW k \in DOMAIN outputs[p], Wanted(p, k)
          PROVE  p \in Nat /\ b <= p
      BY <1>2, <1>4, <1>8, <3>4 DEF Walking
    <3>5. o = b
      BY <1>2, <1>4, <3>3, <3>4
    <3> QED
      BY <3>3, <3>4, <3>5 DEF Producing, Wanted
  <2>2. Reduced = {b}
    <3>1. \A o \in Producing : o \in Nat
      BY DEF Producing, Places
    <3> QED
      BY <1>2, <1>8, <2>1, <3>1 DEF Reduced
  <2>3. Complete
    <3>1. ASSUME NEW i \in DOMAIN list
          PROVE  \E k \in DOMAIN outputs[b] : Shows(outputs[b][k], list[i])
      <4>1. PICK o \in DOMAIN outputs : \E k \in DOMAIN outputs[o] :
              Reached(o, k) /\ Wanted(o, k) /\ Shows(outputs[o][k], list[i])
        BY DEF Walking
      <4>2. o \in Producing /\ o <= b /\ o \in Nat
        BY <1>4, <4>1 DEF Producing, Wanted
      <4>3. o = b
        BY <1>2, <2>1, <4>2
      <4> QED
        BY <4>1, <4>3
    <3>2. b \in DOMAIN outputs /\ b <= b
      BY <1>2, <2>1 DEF Producing
    <3>3. \A k \in DOMAIN outputs[b] : Wanted(b, k) =>
            \E i \in DOMAIN list : LivesIn(outputs[b][k], list[i])
      BY <1>4, <3>2 DEF Walking
    <3> QED
      BY <2>2, <3>1, <3>3 DEF Complete
  <2>4. at'[1] = Len(Priority) + 1
    BY <1>3, <1>8
  <2>5. Complete'
    BY <1>1, <1>5, <1>6, <2>3 DEF Complete
  <2> QED
    BY <1>2, <2>4, <2>5
<1>9. CASE ~jump /\ b + 1 <= Len(Priority)
  <2>1. at'[1] = b + 1 /\ at'[2] = 0
    BY <1>3, <1>9
  <2>2. ASSUME NEW o \in DOMAIN outputs, NEW k \in DOMAIN outputs[o]
        PROVE  Reached(o, k)' <=> Reached(o, k)
    BY <1>2, <1>4, <2>1 DEF Reached
  <2>3. ASSUME req.mode = "first",
               NEW o \in DOMAIN outputs, NEW k \in DOMAIN outputs[o], o < b + 1
        PROVE  ~Wanted(o, k)
    <3>1. o <= b
      BY <1>2, <1>4, <2>3
    <3> QED
      BY <1>7, <1>9, <2>3, <3>1
  <2>4. Walking'
    BY <1>1, <1>5, <2>1, <2>2, <2>3 DEF Walking
  <2> QED
    BY <1>9, <2>1, <2>4
<1>10. CASE ~jump /\ ~(b + 1 <= Len(Priority))
  <2>1. at'[1] = b + 1 /\ ~(at'[1] <= Len(Priority))
    BY <1>3, <1>10
  <2>2. \A o \in DOMAIN outputs : o <= b
    BY <1>1, <1>2, <1>10 DEF Places
  <2>3. Complete
    <3>1. CASE req.mode = "first"
      <4>1. list = <<>> /\ DOMAIN list = {}
        BY <1>10, <3>1, EmptySeq
      <4>2. Producing = {}
        BY <1>7, <2>2, <4>1 DEF Producing, Wanted
      <4>3. Reduced = {}
        BY <3>1, <4>2 DEF Reduced
      <4> QED
        BY <4>1, <4>3 DEF Complete
    <3>2. CASE req.mode # "first"
      <4>1. Reduced = Producing
        BY <3>2 DEF Reduced
      <4>2. ASSUME NEW i \in DOMAIN list
            PROVE  \E o \in Producing : \E k \in DOMAIN outputs[o] : Shows(outputs[o][k], list[i])
        BY DEF Walking, Producing, Wanted
      <4>3. ASSUME NEW o \in Producing, NEW k \in DOMAIN outputs[o], Wanted(o, k)
            PROVE  \E i \in DOMAIN list : LivesIn(outputs[o][k], list[i])
        <5>1. o \in DOMAIN outputs
          BY DEF Producing
        <5> QED
          BY <1>4, <2>2, <4>3, <5>1 DEF Walking
      <4> QED
        BY <4>1, <4>2, <4>3 DEF Complete
    <3> QED
      BY <3>1, <3>2
  <2>4. Complete'
    BY <1>1, <1>5, <1>6, <2>3 DEF Complete
  <2> QED
    BY <2>1, <2>4
<1> QED
  BY <1>8, <1>9, <1>10

(* The passes after the reduction leave the services and endpoints alone.  *)
LEMMA CompleteStays ==
  ASSUME Complete, UNCHANGED <<req, outputs>>, DOMAIN list' = DOMAIN list,
         \A k \in DOMAIN list : SameConfig(list[k], list'[k])
  PROVE  Complete'
<1>1. Reduced' = Reduced
  BY DEF Reduced, Producing
<1>2. ASSUME NEW i \in DOMAIN list, NEW c
      PROVE  /\ Shows(c, list[i]) => Shows(c, list'[i])
             /\ LivesIn(c, list[i]) => LivesIn(c, list'[i])
  BY DEF SameConfig, Shows, LivesIn
<1>3. ASSUME NEW o, NEW k
      PROVE  Wanted(o, k)' <=> Wanted(o, k)
  BY DEF Wanted
<1>4. ASSUME NEW i \in DOMAIN list'
      PROVE  \E o \in Reduced : \E k \in DOMAIN outputs[o] : Shows(outputs[o][k], list'[i])
  BY <1>2 DEF Complete
<1>5. ASSUME NEW o \in Reduced, NEW k \in DOMAIN outputs[o], Wanted(o, k)
      PROVE  \E i \in DOMAIN list' : LivesIn(outputs[o][k], list'[i])
  BY <1>2, <1>5 DEF Complete
<1> QED
  BY <1>1, <1>3, <1>4, <1>5 DEF Complete

(* Priority decides what is reduced, whatever order the threads ended in.  *)
THEOREM ReductionCorrect == Spec => []Reduction
<1>1. Init => Places /\ Reducing
  <2>1. DOMAIN (<<>>) = {}
    BY EmptySeq
  <2> QED
    BY <2>1 DEF Init, Places, Reducing
<1>2. IInv /\ Places /\ Reducing /\ [Next]_vars => Places' /\ Reducing'
  <2> SUFFICES ASSUME IInv, Places, Reducing, [Next]_vars PROVE Reducing'
    BY PlacesStep
  <2>1. CASE Collect
    <3>1. /\ req' = req /\ pc = "reduce" /\ pc' = "reduce"
          /\ \E k \in Rest : at' = <<at[1], k>>
      BY <2>1 DEF Collect, waiting
    <3>2. at'[1] = at[1]
      BY <3>1
    <3>3. req.mode # "raw" => at[1] <= Len(Priority)
      <4>1. at[1] \in DOMAIN outputs
        BY <2>1 DEF Collect, Rest
      <4> QED
        BY <4>1 DEF Places
    <3> QED
      BY <2>1, <3>1, <3>2, <3>3, CollectWalks DEF Reducing
  <2>2. CASE NextOutput
    <3>1. req' = req /\ pc = "reduce" /\ pc' = "reduce" /\ at[1] <= Len(Priority)
      BY <2>2 DEF NextOutput, waiting
    <3> QED
      BY <2>2, <3>1, NextOutputWalks DEF Reducing
  <2>3. CASE Finish
    <3>1. pc = "reduce" /\ pc' = "probe" /\ at[1] > Len(Priority)
          /\ UNCHANGED <<req, outputs, list>>
      BY <2>3, LaunchFacts DEF Finish, data
    <3>2. ~(at[1] <= Len(Priority))
      BY <3>1, PriorityFacts DEF Places
    <3>3. Complete => Complete'
      BY <3>1 DEF Complete, Reduced, Producing, Wanted
    <3> QED
      BY <3>1, <3>2, <3>3 DEF Reducing
  <2>4. CASE Probe \/ Resources \/ ResolveIssuers
    <3>1. /\ pc \in {"probe", "resources", "issuers"}
          /\ pc' \in {"resources", "issuers", "done"}
          /\ UNCHANGED <<req, outputs>>
      BY <2>4, LaunchFacts DEF Probe, Resources, ResolveIssuers, Proceed
    <3>2. DOMAIN list' = DOMAIN list /\ \A k \in DOMAIN list : SameConfig(list[k], list'[k])
      BY <2>4, ProbeFacts, ResourcesFacts, ResolveIssuersFacts
    <3> QED
      BY <3>1, <3>2, CompleteStays DEF Reducing
  <2>5. CASE ApplyRoots
    <3>1. req' = req /\ at' = at /\ at = <<0, 0>>
      BY <2>5, ApplyRootsFacts DEF ApplyRoots, Places, Early
    <3>2. CASE req.mode = "raw"
      BY <3>1, <3>2 DEF Reducing
    <3>3. CASE req.mode # "raw" /\ pc' = "reduce" /\ list' = <<>>
      <4>1. DOMAIN list' = {}
        BY <3>3, EmptySeq
      <4>2. ASSUME NEW o \in DOMAIN outputs', NEW k \in DOMAIN outputs'[o]
            PROVE  ~Reached(o, k)' /\ ~(o < at'[1])
        <5>1. Places'
          BY PlacesStep
        <5>2. o \in Nat /\ k \in Nat /\ k > 0
          BY <5>1 DEF Places
        <5> QED
          BY <3>1, <5>2 DEF Reached
      <4>3. Walking'
        BY <4>1, <4>2 DEF Walking
      <4>4. at'[1] <= Len(Priority)
        BY <3>1, PriorityFacts
      <4> QED
        BY <3>3, <4>3, <4>4 DEF Reducing
    <3> QED
      BY <2>5, <3>2, <3>3, ApplyRootsFacts
  <2>6. CASE Plan \/ CheckResolver \/ CollectOutputs
    <3>1. pc' \in {"resolver", "failed", "mechanisms", "roots"}
      BY <2>6, LaunchFacts DEF Plan, CheckResolver, CollectOutputs, Fail, Proceed
    <3> QED
      BY <3>1 DEF Reducing
  <2>7. CASE Tick \/ UNCHANGED vars \/ \E t \in DOMAIN tasks : End(t) \/ Deliver(t)
    <3>1. UNCHANGED <<req, pc, outputs, at, list>>
      BY <2>7 DEF Tick, vars, End, Deliver, waiting, data
    <3> QED
      BY <3>1 DEF Reducing, Walking, Complete, Reached, Wanted, Reduced, Producing
  <2> QED
    BY <2>1, <2>2, <2>3, <2>4, <2>5, <2>6, <2>7 DEF Next, Caller
<1>3. Reducing => Reduction
  <2> SUFFICES ASSUME Complete
               PROVE  /\ \A k \in DOMAIN list : \E o \in Reduced : \E c \in Range(outputs[o]) :
                           Shows(c, list[k])
                      /\ \A o \in Reduced : \A c \in Range(outputs[o]) :
                           Wants(req.services, c.service) =>
                             \E k \in DOMAIN list : LivesIn(c, list[k])
    BY DEF Reducing, Reduction, Shows, LivesIn
  <2> QED
    BY DEF Complete, Range, Wanted
<1> QED
  BY <1>1, <1>2, <1>3, IInvCorrect, PTL DEF Spec
=============================================================================
