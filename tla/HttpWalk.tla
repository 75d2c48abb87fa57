------------------------------ MODULE HttpWalk ------------------------------
(***************************************************************************)
(* The redirect walk of the HTTP mechanisms (shared/walk.rs), the driver   *)
(* that pumps it (`run', compose/client.rs) and the stream pool below      *)
(* (shared/pool.rs). One exchange, from writing the request to the end of  *)
(* the response, is one step: nothing else shares the pool of a walk.      *)
(*                                                                         *)
(* What a terminal response says is judged by the caller of the walk: it   *)
(* is TRUE when that caller accepts it.                                    *)
(***************************************************************************)
EXTENDS Naturals

CONSTANTS
  Urls,     \* records [scheme, host, path]
  MaxHops   \* MAX_HOPS

ASSUME HopsAssumption == MaxHops \in Nat

VARIABLES
  walk,     \* "idle", "asking", "ended", "looped" or "failed"
  url,      \* request.url
  hops,     \* redirects followed
  reply,    \* verdict on the terminal response
  schemes,  \* schemes the pool has a factory for
  streams   \* origins the pool holds a stream on

walkVars == <<walk, url, hops, reply, schemes, streams>>

(* StreamPoolKey: a stream serves a scheme, a host and a port.             *)
Origin(u) == [scheme |-> u.scheme, host |-> u.host]

(* Schemes a stream pool has a factory for: tcp from the start, for DNS    *)
(* lookups. A tcp URL is taken to name a port.                             *)
Factories == {"tcp", "http", "https"}

(* Plausible bug: the http factory is kept in secure-only mode.            *)
OpensPlain(u) == Origin(u) \in streams \/ u.scheme \in Factories

(* `pool.get' on a miss needs a factory; without one, as for http in       *)
(* secure-only mode, the driver signals the end of the stream.             *)
Opens(u) == Origin(u) \in streams \/ u.scheme \in schemes

-----------------------------------------------------------------------------
Begin(u) ==
  /\ walk' = "asking" /\ url' = u /\ hops' = 0 /\ reply' = FALSE
  /\ UNCHANGED <<schemes, streams>>

Exchanged == walk = "asking" /\ Opens(url) /\ streams' = streams \cup {Origin(url)}

(* Plausible bugs: one redirect too many; the limit is reached and the     *)
(* count starts again.                                                     *)
RedirectOneMore(next) ==
  /\ Exchanged
  /\ IF hops > MaxHops
     THEN walk' = "looped" /\ UNCHANGED <<url, hops>>
     ELSE url' = next /\ hops' = hops + 1 /\ UNCHANGED walk
  /\ UNCHANGED <<reply, schemes>>

RedirectAgain(next) ==
  /\ Exchanged
  /\ url' = next /\ hops' = (hops + 1) % (MaxHops + 1)
  /\ UNCHANGED <<walk, reply, schemes>>

Redirect(next) ==
  /\ Exchanged
  /\ IF hops >= MaxHops
     THEN walk' = "looped" /\ UNCHANGED <<url, hops>>
     ELSE url' = next /\ hops' = hops + 1 /\ UNCHANGED walk
  /\ UNCHANGED <<reply, schemes>>

Terminate(accepted) ==
  /\ Exchanged
  /\ walk' = "ended" /\ reply' = accepted
  /\ UNCHANGED <<url, hops, schemes>>

(* No factory, no connection, the end of the stream before the end of the  *)
(* response (a pooled stream the server has closed is handed out again),   *)
(* or a malformed response.                                                *)
Break ==
  /\ walk = "asking"
  /\ walk' = "failed"
  /\ UNCHANGED <<url, hops, reply, schemes>>
  /\ streams' \in {streams} \cup (IF Opens(url) THEN {streams \cup {Origin(url)}} ELSE {})

Walking ==
  \/ \E next \in Urls : Redirect(next)
  \/ \E accepted \in BOOLEAN : Terminate(accepted)
  \/ Break

WalkTypeOK ==
  /\ walk \in {"idle", "asking", "ended", "looped", "failed"}
  /\ url \in Urls
  /\ hops \in 0 .. MaxHops
  /\ reply \in BOOLEAN
  /\ schemes \subseteq Factories
  /\ streams \subseteq {Origin(u) : u \in Urls}
=============================================================================
