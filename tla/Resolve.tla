------------------------------ MODULE Resolve ------------------------------
(***************************************************************************)
(* From a domain to a CalDAV or CardDAV context root (rfc6764/resolve.rs)  *)
(* or to a JMAP session resource (rfc8620/resolve.rs). The SRV record      *)
(* fixes an origin, then candidates are walked to, in turn: for DAV the    *)
(* TXT path, the well-known URI and the origin itself, for JMAP the        *)
(* well-known URI only.                                                    *)
(***************************************************************************)
EXTENDS HttpWalk, Sequences

CONSTANTS
  Domain,  \* the host the search starts from
  Hosts,   \* hosts an SRV record names; "" is the root name "."
  Paths    \* paths a TXT record names

(* URLs are closed under what the code builds: origins, well-known URIs    *)
(* and joined paths.                                                       *)
ASSUME UrlsAssumption ==
  /\ \A h \in Hosts \ {""} : \A s \in {"http", "https"} :
       [scheme |-> s, host |-> h, path |-> "/"] \in Urls
  /\ [scheme |-> "https", host |-> Domain, path |-> "/"] \in Urls
  /\ \A u \in Urls : \A p \in Paths \cup {"well-known"} :
       [scheme |-> u.scheme, host |-> u.host, path |-> p] \in Urls
  /\ "none" \notin Hosts
  /\ \A u \in Urls : u.scheme \in Factories
  /\ Domain # ""

VARIABLES
  protocol,   \* "dav" or "jmap"
  secureOnly,
  step,       \* "srv", "txt", "wellKnown", "context", "done" or "failed"
  origin,     \* the origin fixed by the SRV step
  published,  \* the TXT record has a path
  candidate,  \* what a context check is on: "txtPath" or "origin"
  root,       \* the URL returned
  error,      \* the error returned, "none" while there is none
  tried,      \* candidates walked to so far, in order
  requests    \* HTTP requests written so far

inputs == <<protocol, secureOnly>>
resolveVars == <<inputs, step, origin, published, candidate, root, error, tried, requests>>
vars == <<walkVars, resolveVars>>

None == "none"

Url(scheme, host, path) == [scheme |-> scheme, host |-> host, path |-> path]

Home == Url("https", Domain, "/")

Init ==
  /\ protocol \in {"dav", "jmap"}
  /\ secureOnly \in BOOLEAN
  /\ schemes = IF secureOnly THEN Factories \ {"http"} ELSE Factories
  /\ walk = "idle" /\ url = Home /\ hops = 0 /\ reply = FALSE /\ streams = {}
  /\ step = "srv" /\ origin = Home /\ published = FALSE /\ candidate = None
  /\ root = Home /\ error = None /\ tried = <<>> /\ requests = 0

-----------------------------------------------------------------------------
FailWith(err) ==
  /\ step' = "failed" /\ error' = err
  /\ UNCHANGED <<walkVars, inputs, origin, candidate, root, tried, requests>>

(* Starts a walk to a candidate; its first request is written at once.     *)
WalkTo(next, name, target) ==
  /\ step' = next
  /\ Begin(target)
  /\ tried' = Append(tried, name)
  /\ requests' = requests + 1

WellKnown(base) == WalkTo("wellKnown", "wellKnown", Url(base.scheme, base.host, "well-known"))

Record(tls, plain) ==
  IF tls # None THEN "tls" ELSE IF plain # None /\ ~secureOnly THEN "plain" ELSE None

(* The SRV lookups ended; each name has a record or none.                  *)
SrvFound(tls, plain) ==
  LET record == Record(tls, plain)
      base == CASE record = "tls" -> Url("https", tls, "/")
                [] record = "plain" -> Url("http", plain, "/")
                [] OTHER -> Home
  IN  /\ step = "srv" /\ protocol = "dav"
      /\ IF base.host = "" \* the root name leaves the URL without a host
         THEN FailWith("InvalidOrigin") /\ UNCHANGED published
         ELSE /\ origin' = base
              /\ IF record = None
                 THEN WellKnown(base)
                 ELSE step' = "txt" /\ UNCHANGED <<walkVars, tried, requests>>
              /\ UNCHANGED <<inputs, published, candidate, root, error>>

(* The resolver cannot be reached: the domain itself is the origin.        *)
SrvFailed ==
  /\ step = "srv" /\ protocol = "dav"
  /\ origin' = Home
  /\ WellKnown(Home)
  /\ UNCHANGED <<inputs, published, candidate, root, error>>

(* A JMAP session is always HTTPS: there is one SRV name, and no TXT path. *)
SessionSrvFound(host) ==
  LET base == IF host = None THEN Home ELSE Url("https", host, "/")
  IN  /\ step = "srv" /\ protocol = "jmap"
      /\ IF base.host = ""
         THEN FailWith("InvalidOrigin") /\ UNCHANGED published
         ELSE /\ origin' = base
              /\ WellKnown(base)
              /\ UNCHANGED <<inputs, published, candidate, root, error>>

SessionSrvFailed ==
  /\ step = "srv" /\ protocol = "jmap"
  /\ origin' = Home
  /\ WellKnown(Home)
  /\ UNCHANGED <<inputs, published, candidate, root, error>>

(* `origin.join': a path, or a whole URL, of any scheme, that replaces the *)
(* origin.                                                                 *)
Targets == {Url(origin.scheme, origin.host, p) : p \in Paths} \cup Urls

TxtFound(target) ==
  /\ step = "txt"
  /\ published' = TRUE /\ candidate' = "txtPath"
  /\ WalkTo("context", "txtPath", target)
  /\ UNCHANGED <<inputs, origin, root, error>>

TxtInvalid ==
  /\ step = "txt"
  /\ FailWith("InvalidPath") /\ published' = TRUE

TxtNone ==
  /\ step = "txt"
  /\ WellKnown(origin)
  /\ UNCHANGED <<inputs, origin, published, candidate, root, error>>

TxtFailed ==
  /\ step = "txt"
  /\ FailWith("Txt") /\ UNCHANGED published

-----------------------------------------------------------------------------
(* The network: an exchange of the walk under way.                         *)
Network ==
  /\ Walking
  /\ requests' = IF walk' = "asking" THEN requests + 1 ELSE requests
  /\ UNCHANGED <<inputs, step, origin, published, candidate, root, error, tried>>

(* Plausible bug: a well-known URI that answers without a redirect counts. *)
LedToDavAnyHops == walk = "ended" /\ reply

(* The walk led to a DAV server, and off the well-known URI if it began    *)
(* there.                                                                  *)
LedToDav == walk = "ended" /\ reply /\ (step = "wellKnown" => hops > 0)

LedElsewhere == walk \in {"ended", "looped"} /\ ~LedToDav

Found ==
  /\ protocol = "dav" /\ step \in {"wellKnown", "context"} /\ LedToDav
  /\ step' = "done" /\ root' = url
  /\ UNCHANGED <<walkVars, inputs, origin, published, candidate, error, tried, requests>>

WellKnownLedElsewhere ==
  /\ protocol = "dav" /\ step = "wellKnown" /\ LedElsewhere
  /\ candidate' = "origin"
  /\ WalkTo("context", "origin", origin)
  /\ UNCHANGED <<inputs, origin, published, root, error>>

(* A session object or a challenged 401, which the well-known URI itself   *)
(* may answer.                                                             *)
SessionFound ==
  /\ protocol = "jmap" /\ step = "wellKnown" /\ walk = "ended" /\ reply
  /\ step' = "done" /\ root' = url
  /\ UNCHANGED <<walkVars, inputs, origin, published, candidate, error, tried, requests>>

NoSession ==
  /\ protocol = "jmap" /\ step = "wellKnown"
  /\ walk = "looped" \/ (walk = "ended" /\ ~reply)
  /\ FailWith("NotFound") /\ UNCHANGED published

(* Plausible bugs: a TXT path that leads nowhere ends the search; it is    *)
(* walked to again.                                                        *)
TxtPathGivesUp ==
  /\ step = "context" /\ candidate = "txtPath" /\ LedElsewhere
  /\ FailWith("NotFound") /\ UNCHANGED published

TxtPathRetried ==
  /\ step = "context" /\ candidate = "txtPath" /\ LedElsewhere
  /\ Begin(origin)
  /\ UNCHANGED resolveVars

TxtPathLedElsewhere ==
  /\ step = "context" /\ candidate = "txtPath" /\ LedElsewhere
  /\ WellKnown(origin)
  /\ UNCHANGED <<inputs, origin, published, candidate, root, error>>

OriginLedElsewhere ==
  /\ step = "context" /\ candidate = "origin" /\ LedElsewhere
  /\ FailWith("NotFound") /\ UNCHANGED published

(* An error of one candidate is the error of the whole resolve.            *)
WalkFailed ==
  /\ step \in {"wellKnown", "context"} /\ walk = "failed"
  /\ FailWith(IF step = "wellKnown" THEN "WellKnown" ELSE "Context")
  /\ UNCHANGED published

Dns ==
  \/ \E tls, plain \in Hosts \cup {None} : SrvFound(tls, plain)
  \/ SrvFailed
  \/ \E host \in Hosts \cup {None} : SessionSrvFound(host)
  \/ SessionSrvFailed
  \/ \E target \in Targets : TxtFound(target)
  \/ TxtInvalid
  \/ TxtNone
  \/ TxtFailed

Resume ==
  \/ Found
  \/ WellKnownLedElsewhere
  \/ SessionFound
  \/ NoSession
  \/ TxtPathLedElsewhere
  \/ OriginLedElsewhere
  \/ WalkFailed

Next == Dns \/ Network \/ Resume

Spec == Init /\ [][Next]_vars

(* The driver resumes the coroutine at once, and every exchange with the   *)
(* resolver or a server ends, be it by an error.                           *)
FairSpec == Spec /\ WF_vars(Dns) /\ WF_vars(Network) /\ WF_vars(Resume)

-----------------------------------------------------------------------------
(* What there is to walk to, in order of preference.                       *)
Candidates ==
  IF protocol = "jmap" THEN <<"wellKnown">>
  ELSE IF published THEN <<"txtPath", "wellKnown", "origin">>
  ELSE <<"wellKnown", "origin">>

TypeOK ==
  /\ WalkTypeOK
  /\ protocol \in {"dav", "jmap"} /\ secureOnly \in BOOLEAN /\ published \in BOOLEAN
  /\ step \in {"srv", "txt", "wellKnown", "context", "done", "failed"}
  /\ origin \in Urls /\ root \in Urls
  /\ candidate \in {None, "txtPath", "origin"}
  /\ error \in {None, "InvalidOrigin", "InvalidPath", "Txt", "WellKnown", "Context", "NotFound"}
  /\ \A i \in DOMAIN tried : tried[i] \in {"txtPath", "wellKnown", "origin"}
  /\ requests \in Nat

(* A root is the very URL the service answered at, at the end of the last  *)
(* walk, and for DAV never a well-known URI that answered by itself.       *)
RootAnswers ==
  step = "done" =>
    /\ walk = "ended" /\ reply /\ root = url
    /\ protocol = "dav" /\ tried[Len(tried)] = "wellKnown" => hops > 0

(* In secure-only mode no http stream is opened and no http root handed    *)
(* out, wherever records and redirects point. Until a TXT record or a      *)
(* redirect names a URL, all there is to ask is asked over HTTPS. The      *)
(* search for a JMAP session starts over HTTPS in either mode.             *)
SecureOnly ==
  /\ secureOnly =>
       /\ \A o \in streams : o.scheme # "http"
       /\ step = "done" => root.scheme # "http"
       /\ ~published /\ requests = Len(tried) => \A o \in streams : o.scheme = "https"
  /\ secureOnly \/ protocol = "jmap" => origin.scheme = "https"

(* Candidates are walked to in order of preference and never twice, so     *)
(* that the first that leads to the service is the one returned; that      *)
(* there is none is said after all of them only.                           *)
EveryCandidate ==
  /\ tried = SubSeq(Candidates, 1, Len(tried))
  /\ error = "NotFound" => tried = Candidates

(* The servers walked to get a bounded number of requests, loops included. *)
BoundedRequests == requests <= Len(tried) * (MaxHops + 1)

(* The resolve ends once every exchange does, whatever the redirects.      *)
Ends == <>(step \in {"done", "failed"})

(* Secure-only mode "refuses plain transports": "no request goes over      *)
(* plain HTTP" (client.rs:149-150), "whatever URL it was handed or         *)
(* redirected to" (cairn/log/2026-10-04-secure-only.md:11).                *)
NoPlainTransport == secureOnly => \A o \in streams : o.scheme = "https"

(* The documentation of the DAV resolve: every candidate is checked, and   *)
(* when none leads to a DAV server the resolve fails with NotFound. A      *)
(* resolve that has an origin and candidates thus never fails otherwise.   *)
FailsNotFoundOnly ==
  protocol = "dav" /\ step = "failed" /\ tried # <<>> => error = "NotFound"
=============================================================================
