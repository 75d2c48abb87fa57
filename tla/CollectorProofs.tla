-------------------------- MODULE CollectorProofs --------------------------
(***************************************************************************)
(* Theorems about the collector, for every set of configs offered in any   *)
(* order and number, and whatever the relation of hosts.                   *)
(***************************************************************************)
EXTENDS Collector, ConfigsProofs

USE OfferedAssumption

(* One step of the collector: what it is fed, and what becomes of its list.*)
LEMMA CollectStep ==
  ASSUME TypeOK, NEW c \in Offered, Collect(c)
  PROVE  /\ c \in Config
         /\ fed' = fed \cup {c}
         /\ \/ ~Wants(Requested, c.service) /\ configs' = configs
            \/ Wants(Requested, c.service) /\ Collected(configs, c, configs')
  BY DEF Collect, TypeOK

(* The list holds configs of requested services only.                      *)
THEOREM TypeCorrect == Spec => []TypeOK
<1>1. Init => TypeOK
  <2>1. DOMAIN (<<>>) = {} /\ <<>> \in Seq(Config)
    BY EmptySeq
  <2> QED
    BY <2>1 DEF Init, TypeOK
<1>2. TypeOK /\ [Next]_vars => TypeOK'
  <2> SUFFICES ASSUME TypeOK, [Next]_vars PROVE TypeOK'
    OBVIOUS
  <2>1. CASE UNCHANGED vars
    BY <2>1 DEF vars, TypeOK
  <2>2. ASSUME NEW c \in Offered, Collect(c) PROVE TypeOK'
    <3>1. CASE configs' = configs
      BY <2>2, <3>1, CollectStep DEF TypeOK
    <3>2. CASE Wants(Requested, c.service) /\ Collected(configs, c, configs')
      <4>1. c \in Config /\ fed' = fed \cup {c} /\ configs \in Seq(Config)
        BY <2>2, CollectStep DEF TypeOK
      <4>2. DOMAIN configs = 1 .. Len(configs)
            /\ \A j \in DOMAIN configs : configs[j] \in Config
        BY <4>1, LenProperties, ElementOfSeq
      <4>3. configs' \in Seq(Config)
            /\ \A k \in DOMAIN configs' : Wants(Requested, configs'[k].service)
        <5>1. PICK k \in DOMAIN configs' : LandsAt(configs, c, configs', k)
          BY <3>2, <4>1, CollectedFacts
        <5>2. Wants(Requested, configs'[k].service)
          BY <3>2, <4>1, <4>2, <5>1, MergedFacts DEF LandsAt, SameService, TypeOK
        <5> QED
          BY <3>2, <4>1, <5>1, <5>2, CollectedFacts DEF LandsAt, TypeOK
      <4> QED
        BY <2>2, <4>1, <4>3 DEF TypeOK
    <3> QED
      BY <2>2, <3>1, <3>2, CollectStep
  <2> QED
    BY <2>1, <2>2 DEF Next
<1> QED
  BY <1>1, <1>2, PTL DEF Spec

-----------------------------------------------------------------------------
(* Whatever is merged, an entry shows an endpoint as its source offered it.*)
THEOREM ProvenanceCorrect == Spec => []Provenance
<1>1. Init => Provenance
  BY EmptySeq DEF Init, Provenance
<1>2. TypeOK /\ Provenance /\ [Next]_vars => Provenance'
  <2> SUFFICES ASSUME TypeOK, Provenance, [Next]_vars PROVE Provenance'
    OBVIOUS
  <2>1. CASE UNCHANGED vars
    BY <2>1 DEF vars, Provenance, Wanted
  <2>2. ASSUME NEW c \in Offered, Collect(c) PROVE Provenance'
    <3>1. Wanted \subseteq Wanted'
      BY <2>2, CollectStep DEF Wanted
    <3>2. CASE configs' = configs
      BY <3>1, <3>2 DEF Provenance
    <3>3. CASE Wants(Requested, c.service) /\ Collected(configs, c, configs')
      <4>1. c \in Config /\ c \in Wanted'
        BY <2>2, <3>3, CollectStep DEF Wanted
      <4>2. \A j \in DOMAIN configs : configs[j] \in Config
        BY LenProperties, ElementOfSeq DEF TypeOK
      <4>3. PICK k \in DOMAIN configs' : LandsAt(configs, c, configs', k)
        BY <3>3, <4>1, CollectedFacts DEF TypeOK
      <4> SUFFICES ASSUME NEW j \in DOMAIN configs'
                   PROVE  \E d \in Wanted' :
                            /\ d.service = configs'[j].service
                            /\ d.user = configs'[j].user
                            /\ d.endpoint = configs'[j].endpoint
                            /\ d.source = configs'[j].source
                            /\ d.resolved = configs'[j].resolved
        BY DEF Provenance
      <4>4. CASE j \in DOMAIN configs /\ configs'[j] = configs[j]
        BY <3>1, <4>4 DEF Provenance
      <4>5. CASE configs'[j] = c
        BY <4>1, <4>5
      <4>6. CASE /\ j \in DOMAIN configs /\ SameService(configs[j], c)
                 /\ configs'[j] = Merged(configs[j], c)
        <5>1. PICK d \in Wanted : /\ d.service = configs[j].service
                                  /\ d.user = configs[j].user
                                  /\ d.endpoint = configs[j].endpoint
                                  /\ d.source = configs[j].source
                                  /\ d.resolved = configs[j].resolved
          BY <4>6 DEF Provenance
        <5>2. c.service = configs[j].service /\ c.user = configs[j].user
          BY <4>6 DEF SameService
        <5>3. CASE TakesOver(configs[j], c)
          BY <4>1, <4>2, <4>6, <5>2, <5>3, MergedFacts
        <5>4. CASE ~TakesOver(configs[j], c)
          BY <3>1, <4>1, <4>2, <4>6, <5>1, <5>2, <5>4, MergedFacts
        <5> QED
          BY <5>3, <5>4
      <4> QED
        BY <4>3, <4>4, <4>5, <4>6 DEF LandsAt
    <3> QED
      BY <2>2, <3>2, <3>3, CollectStep
  <2> QED
    BY <2>1, <2>2 DEF Next
<1> QED
  BY <1>1, <1>2, TypeCorrect, PTL DEF Spec

(* Every config handed over lives on in an entry: nothing is forgotten.    *)
THEOREM NothingForgottenCorrect == Spec => []NothingForgotten
<1> DEFINE LivesIn(c, e) ==
      /\ e.service = c.service /\ e.user = c.user
      /\ c.auth \subseteq e.auth
      /\ c.resolved => e.resolved
<1>1. Init => NothingForgotten
  BY DEF Init, NothingForgotten, Wanted
<1>2. TypeOK /\ NothingForgotten /\ [Next]_vars => NothingForgotten'
  <2> SUFFICES ASSUME TypeOK, NothingForgotten, [Next]_vars PROVE NothingForgotten'
    OBVIOUS
  <2>1. CASE UNCHANGED vars
    BY <2>1 DEF vars, NothingForgotten, Wanted
  <2>2. ASSUME NEW c \in Offered, Collect(c) PROVE NothingForgotten'
    <3>1. CASE ~Wants(Requested, c.service) /\ configs' = configs
      <4>1. Wanted' = Wanted
        BY <2>2, <3>1, CollectStep DEF Wanted
      <4> QED
        BY <3>1, <4>1 DEF NothingForgotten
    <3>2. CASE Wants(Requested, c.service) /\ Collected(configs, c, configs')
      <4>1. c \in Config /\ Wanted' = Wanted \cup {c}
        BY <2>2, <3>2, CollectStep DEF Wanted
      <4>2. \A j \in DOMAIN configs : configs[j] \in Config
        BY LenProperties, ElementOfSeq DEF TypeOK
      <4>3. PICK k \in DOMAIN configs' : LandsAt(configs, c, configs', k)
        BY <3>2, <4>1, CollectedFacts DEF TypeOK
      <4>4. DOMAIN configs \subseteq DOMAIN configs'
        BY <3>2, <4>1, CollectedFacts DEF TypeOK
      <4>5. LivesIn(c, configs'[k])
        <5>1. CASE configs'[k] = c
          BY <5>1
        <5>2. CASE /\ k \in DOMAIN configs /\ SameService(configs[k], c)
                   /\ configs'[k] = Merged(configs[k], c)
          BY <4>1, <4>2, <5>2, MergedKeeps
        <5> QED
          BY <4>3, <5>1, <5>2 DEF LandsAt
      <4>6. ASSUME NEW d \in Wanted PROVE \E j \in DOMAIN configs' : LivesIn(d, configs'[j])
        <5>1. PICK j \in DOMAIN configs : LivesIn(d, configs[j])
          BY DEF NothingForgotten
        <5>2. CASE configs'[j] = configs[j]
          BY <4>4, <5>1, <5>2
        <5>3. CASE SameService(configs[j], c) /\ configs'[j] = Merged(configs[j], c)
          <6> DEFINE m == Merged(configs[j], c)
          <6>1. /\ m.service = configs[j].service /\ m.user = configs[j].user
                /\ configs[j].auth \subseteq m.auth
                /\ configs[j].resolved => m.resolved
            BY <4>1, <4>2, <5>1, <5>3, MergedKeeps
          <6> HIDE DEF m
          <6>2. LivesIn(d, m)
            BY <5>1, <6>1
          <6>3. LivesIn(d, configs'[j])
            BY <5>3, <6>2 DEF m
          <6> QED
            BY <4>4, <6>3
        <5> QED
          BY <4>3, <4>4, <5>2, <5>3 DEF LandsAt
      <4> QED
        BY <4>1, <4>5, <4>6 DEF NothingForgotten
    <3> QED
      BY <2>2, <3>1, <3>2, CollectStep
  <2> QED
    BY <2>1, <2>2 DEF Next
<1> QED
  BY <1>1, <1>2, TypeCorrect, PTL DEF Spec

(* An entry that changes its endpoint only improves.                       *)
THEOREM OnlyImprovesCorrect == Spec => OnlyImproves
<1> DEFINE Improves(e, f) ==
      f.endpoint # e.endpoint =>
        IF f.resolved = e.resolved THEN SubdomainOf(e.endpoint, f.endpoint) ELSE f.resolved
<1>1. TypeOK /\ [Next]_vars =>
        [\A k \in DOMAIN configs : Improves(configs[k], configs'[k])]_vars
  <2> SUFFICES ASSUME TypeOK, NEW c \in Offered, Collect(c), NEW j \in DOMAIN configs
               PROVE  Improves(configs[j], configs'[j])
    BY DEF Next
  <2>1. CASE configs' = configs
    BY <2>1
  <2>2. CASE Collected(configs, c, configs')
    <3>1. c \in Config /\ configs[j] \in Config
      BY CollectStep, LenProperties, ElementOfSeq DEF TypeOK
    <3>2. PICK k \in DOMAIN configs' : LandsAt(configs, c, configs', k)
      BY <2>2, <3>1, CollectedFacts DEF TypeOK
    <3>3. j \in DOMAIN configs'
      BY <2>2, <3>1, CollectedFacts DEF TypeOK
    <3>4. CASE configs'[j] = configs[j]
      BY <3>4
    <3>5. CASE configs'[j] = Merged(configs[j], c)
      <4>1. CASE TakesOver(configs[j], c)
        BY <3>1, <3>5, <4>1, MergedFacts DEF TakesOver, Config
      <4>2. CASE ~TakesOver(configs[j], c)
        BY <3>1, <3>5, <4>2, MergedFacts
      <4> QED
        BY <4>1, <4>2
    <3> QED
      BY <3>2, <3>3, <3>4, <3>5 DEF LandsAt
  <2> QED
    BY <2>1, <2>2, CollectStep
<1> QED
  BY <1>1, TypeCorrect, PTL DEF Spec, OnlyImproves
=============================================================================
