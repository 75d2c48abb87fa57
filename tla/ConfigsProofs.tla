--------------------------- MODULE ConfigsProofs ---------------------------
(***************************************************************************)
(* Lemmas about the merge of configs, used wherever configs are collected. *)
(***************************************************************************)
EXTENDS Configs, SequenceTheorems, TLAPS

(* Merging keeps the service, the user and the methods, and the merged     *)
(* endpoint, source and mark are those of one of the two.                  *)
LEMMA MergedFacts ==
  ASSUME NEW e \in Config, NEW c \in Config
  PROVE  /\ Merged(e, c) \in Config
         /\ Merged(e, c).auth = e.auth \cup c.auth
         /\ c.service = e.service => Merged(e, c).service = e.service
         /\ c.user = e.user => Merged(e, c).user = e.user
         /\ LET w == IF TakesOver(e, c) THEN c ELSE e
            IN  /\ Merged(e, c).endpoint = w.endpoint
                /\ Merged(e, c).source = w.source
                /\ Merged(e, c).resolved = w.resolved
  BY DEF Merged, Config

(* A resolved config leaves its entry resolved, and so does any other.     *)
LEMMA MergedResolved ==
  ASSUME NEW e \in Config, NEW c \in Config
  PROVE  Merged(e, c).resolved <=> e.resolved \/ c.resolved
  BY MergedFacts DEF TakesOver, Config

(* A merge loses nothing of either side.                                   *)
LEMMA MergedKeeps ==
  ASSUME NEW e \in Config, NEW c \in Config, SameService(e, c)
  PROVE  /\ Merged(e, c).service = e.service /\ Merged(e, c).service = c.service
         /\ Merged(e, c).user = e.user /\ Merged(e, c).user = c.user
         /\ e.auth \subseteq Merged(e, c).auth
         /\ c.auth \subseteq Merged(e, c).auth
         /\ e.resolved => Merged(e, c).resolved
         /\ c.resolved => Merged(e, c).resolved
<1>1. c.service = e.service /\ c.user = e.user
  BY DEF SameService
<1>2. Merged(e, c).service = e.service /\ Merged(e, c).user = e.user
  BY <1>1, MergedFacts
<1>3. Merged(e, c).auth = e.auth \cup c.auth
  BY MergedFacts
<1> QED
  BY <1>1, <1>2, <1>3, MergedResolved

(* What one collected config does to the list: it lands at one position k, *)
(* as a new entry or merged into an entry of its service; the other        *)
(* entries stay.                                                           *)
LandsAt(list, c, new, k) ==
  /\ \/ k \notin DOMAIN list /\ new[k] = c
     \/ k \in DOMAIN list /\ SameService(list[k], c) /\ new[k] = Merged(list[k], c)
  /\ \A j \in DOMAIN new : j # k => j \in DOMAIN list /\ new[j] = list[j]

LEMMA CollectedFacts ==
  ASSUME NEW list \in Seq(Config), NEW c \in Config, NEW new,
         Collected(list, c, new)
  PROVE  /\ new \in Seq(Config)
         /\ DOMAIN list \subseteq DOMAIN new
         /\ \E k \in DOMAIN new : LandsAt(list, c, new, k)
<1> DEFINE matches == {k \in DOMAIN list : SameService(list[k], c)}
<1>0. /\ DOMAIN list = 1 .. Len(list) /\ Len(list) \in Nat
      /\ \A k \in DOMAIN list : list[k] \in Config
  BY LenProperties, ElementOfSeq
<1>1. CASE new = Append(list, c)
  <2>1. /\ new \in Seq(Config)
        /\ DOMAIN new = 1 .. Len(list) + 1
        /\ \A j \in DOMAIN list : new[j] = list[j]
        /\ new[Len(list) + 1] = c
    BY <1>0, <1>1, AppendProperties, LenProperties
  <2>2. LandsAt(list, c, new, Len(list) + 1)
    BY <1>0, <2>1 DEF LandsAt
  <2> QED
    BY <1>0, <2>1, <2>2
<1>2. CASE \E k \in matches : new = [list EXCEPT ![k] = Merged(@, c)]
  <2>1. PICK k \in matches : new = [list EXCEPT ![k] = Merged(@, c)]
    BY <1>2
  <2>2. k \in 1 .. Len(list) /\ list[k] \in Config
    BY <1>0, <2>1
  <2>3. Merged(list[k], c) \in Config
    BY <2>2, MergedFacts
  <2>4. new = [list EXCEPT ![k] = Merged(list[k], c)]
    BY <2>1
  <2>5. /\ new \in Seq(Config) /\ Len(new) = Len(list)
        /\ \A j \in 1 .. Len(list) : new[j] = IF j = k THEN Merged(list[k], c) ELSE list[j]
    BY <2>2, <2>3, <2>4, ExceptSeq
  <2>6. DOMAIN new = 1 .. Len(list)
    BY <2>5, LenProperties
  <2>7. LandsAt(list, c, new, k)
    BY <1>0, <2>1, <2>2, <2>5, <2>6 DEF LandsAt
  <2> QED
    BY <1>0, <2>2, <2>5, <2>6, <2>7
<1> QED
  BY <1>1, <1>2 DEF Collected

(* The entry that a config landed in is of its service still, and is left  *)
(* as it is by another merge with that config: it has the methods, the     *)
(* mark and, by the strict order of subdomains, no worse an endpoint.      *)
LEMMA MergedTwice ==
  ASSUME NEW e \in Config, NEW c \in Config, SameService(e, c)
  PROVE  /\ SameService(Merged(e, c), c)
         /\ Merged(Merged(e, c), c) = Merged(e, c)
<1> DEFINE m == Merged(e, c)
<1>1. /\ m \in Config /\ m.auth = e.auth \cup c.auth
      /\ m.service = c.service /\ m.user = c.user
      /\ m.endpoint = IF TakesOver(e, c) THEN c.endpoint ELSE e.endpoint
      /\ m.resolved <=> e.resolved \/ c.resolved
  BY MergedFacts, MergedKeeps, MergedResolved
<1>2. ~SubdomainOf(c.endpoint, c.endpoint)
  BY SubdomainAssumption DEF SubdomainOf
<1> HIDE DEF m
<1>3. SameService(m, c)
  BY <1>1 DEF SameService, Equivalent
<1>4. ~TakesOver(m, c)
  <2>1. c.resolved \in BOOLEAN /\ m.resolved \in BOOLEAN /\ e.resolved \in BOOLEAN
    BY <1>1 DEF Config
  <2>2. CASE TakesOver(e, c)
    BY <1>1, <1>2, <2>1, <2>2 DEF TakesOver
  <2>3. CASE ~TakesOver(e, c)
    BY <1>1, <2>1, <2>3 DEF TakesOver
  <2> QED
    BY <2>2, <2>3
<1>5. Merged(m, c) = m
  <2>1. Merged(m, c) = [m EXCEPT !.auth = m.auth \cup c.auth]
    BY <1>4 DEF Merged
  <2>2. m.auth \cup c.auth = m.auth
    BY <1>1
  <2> QED
    BY <1>1, <2>1, <2>2 DEF Config
<1> QED
  BY <1>3, <1>5 DEF m

(* A mechanism that hands over a config twice in a row changes nothing the *)
(* second time: merging is idempotent, whatever was collected before.      *)
THEOREM CollectTwice ==
  ASSUME NEW list \in Seq(Config), NEW c \in Config, NEW once, NEW twice,
         Collected(list, c, once), Collected(once, c, twice)
  PROVE  twice = once
<1> DEFINE matches(l) == {k \in DOMAIN l : SameService(l[k], c)}
<1>0. /\ DOMAIN list = 1 .. Len(list) /\ Len(list) \in Nat
      /\ \A k \in DOMAIN list : list[k] \in Config
  BY LenProperties, ElementOfSeq
<1>1. ASSUME NEW k \in matches(once), \A j \in matches(once) : k <= j,
             Merged(once[k], c) = once[k], once \in Seq(Config)
      PROVE  twice = once
  <2>1. PICK i \in matches(once) : /\ \A j \in matches(once) : i <= j
                                   /\ twice = [once EXCEPT ![i] = Merged(@, c)]
    BY <1>1 DEF Collected
  <2>2. DOMAIN once = 1 .. Len(once) /\ Len(once) \in Nat
    BY <1>1, LenProperties
  <2>3. i = k
    BY <1>1, <2>1, <2>2
  <2> QED
    BY <1>1, <2>1, <2>3
<1>2. CASE matches(list) = {} /\ once = Append(list, c)
  <2>1. /\ once \in Seq(Config) /\ DOMAIN once = 1 .. Len(list) + 1
        /\ \A j \in DOMAIN list : once[j] = list[j]
        /\ once[Len(list) + 1] = c
    BY <1>0, <1>2, AppendProperties, LenProperties
  <2>2. SameService(c, c)
    BY DEF SameService, Equivalent
  <2>3. Merged(c, c) = c
    <3>1. Merged(c, c) = [c EXCEPT !.auth = c.auth \cup c.auth]
      BY DEF Merged
    <3> QED
      BY <3>1 DEF Config
  <2>4. Len(list) + 1 \in matches(once) /\ \A j \in matches(once) : Len(list) + 1 <= j
    BY <1>0, <1>2, <2>1, <2>2
  <2> QED
    BY <1>1, <2>1, <2>3, <2>4
<1>3. ASSUME NEW k \in matches(list), \A j \in matches(list) : k <= j,
             once = [list EXCEPT ![k] = Merged(@, c)]
      PROVE  twice = once
  <2>1. k \in 1 .. Len(list) /\ list[k] \in Config /\ SameService(list[k], c)
    BY <1>0
  <2>2. Merged(list[k], c) \in Config
    BY <2>1, MergedFacts
  <2>3. once = [list EXCEPT ![k] = Merged(list[k], c)]
    BY <1>3
  <2>4. /\ once \in Seq(Config) /\ Len(once) = Len(list)
        /\ \A j \in 1 .. Len(list) : once[j] = IF j = k THEN Merged(list[k], c) ELSE list[j]
    BY <2>1, <2>2, <2>3, ExceptSeq
  <2>5. DOMAIN once = 1 .. Len(list) /\ once[k] = Merged(list[k], c)
    BY <2>1, <2>4, LenProperties
  <2>6. SameService(once[k], c) /\ Merged(once[k], c) = once[k]
    BY <2>1, <2>5, MergedTwice
  <2>7. \A j \in matches(once) : k <= j
    <3> SUFFICES ASSUME NEW j \in matches(once), j < k PROVE FALSE
      BY <2>1, <2>5
    <3>1. j \in matches(list)
      BY <1>0, <2>4, <2>5
    <3> QED
      BY <1>3, <2>1, <2>5, <3>1
  <2> QED
    BY <1>1, <2>1, <2>4, <2>5, <2>6, <2>7
<1> QED
  BY <1>2, <1>3 DEF Collected
=============================================================================
