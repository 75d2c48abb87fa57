--------------------------- MODULE ResolveProofs ---------------------------
(***************************************************************************)
(* Theorems about a resolve for any set of URLs, hosts and paths and   *)
(* any limit on redirects. That it ends is left to TLC.                    *)
(***************************************************************************)
EXTENDS Resolve, SequenceTheorems, TLAPS

(* Where the search is says what it has walked to.                         *)
Prefix ==
  \/ tried = <<>>
  \/ tried = <<"wellKnown">> /\ ~published
  \/ /\ protocol # "jmap" /\ published
     /\ \/ tried = <<"txtPath">>
        \/ tried = <<"txtPath", "wellKnown">>
        \/ tried = <<"txtPath", "wellKnown", "origin">>
  \/ protocol # "jmap" /\ ~published /\ tried = <<"wellKnown", "origin">>

Place ==
  /\ protocol = "jmap" => ~published /\ step \notin {"txt", "context"}
  /\ step \in {"srv", "txt"} => tried = <<>> /\ ~published
  /\ step = "wellKnown" =>
       tried = IF published THEN <<"txtPath", "wellKnown">> ELSE <<"wellKnown">>
  /\ step = "context" =>
       \/ candidate = "txtPath" /\ published /\ tried = <<"txtPath">>
       \/ candidate = "origin" /\ tried = Candidates
  /\ Prefix
  /\ error = "NotFound" => tried = Candidates
  /\ step # "failed" => error = None
  /\ published \in BOOLEAN

(* A walk under way belongs to one of the two steps that walk; one that    *)
(* has found the service stays at the URL that answered.                   *)
Landed ==
  /\ walk = "asking" => step \in {"wellKnown", "context"}
  /\ RootAnswers

(* Of the requests that a walk may make, some are left.                    *)
Allowance ==
  /\ requests \in Nat /\ hops \in 0 .. MaxHops
  /\ IF walk = "asking"
     THEN requests + (MaxHops - hops) <= Len(tried) * (MaxHops + 1)
     ELSE requests <= Len(tried) * (MaxHops + 1)

LEMMA SeqExtensional ==
  ASSUME NEW S, NEW s \in Seq(S), NEW t \in Seq(S),
         Len(s) = Len(t), \A k \in 1 .. Len(s) : s[k] = t[k]
  PROVE  s = t
OBVIOUS

LEMMA AppendSecond == ASSUME NEW a, NEW b PROVE Append(<<a>>, b) = <<a, b>>
<1>1. <<a>> \in Seq({a, b}) /\ <<a, b>> \in Seq({a, b})
  OBVIOUS
<1>2. Len(<<a>>) = 1 /\ Len(<<a, b>>) = 2
  OBVIOUS
<1>3. Append(<<a>>, b) \in Seq({a, b}) /\ Len(Append(<<a>>, b)) = 2
  BY <1>1, <1>2, AppendProperties
<1>4. \A k \in 1 .. 2 : Append(<<a>>, b)[k] = <<a, b>>[k]
  BY <1>1, <1>2, AppendProperties
<1> QED
  BY <1>1, <1>2, <1>3, <1>4, SeqExtensional

LEMMA AppendThird == ASSUME NEW a, NEW b, NEW c PROVE Append(<<a, b>>, c) = <<a, b, c>>
<1>1. <<a, b>> \in Seq({a, b, c}) /\ <<a, b, c>> \in Seq({a, b, c})
  OBVIOUS
<1>2. Len(<<a, b>>) = 2 /\ Len(<<a, b, c>>) = 3
  OBVIOUS
<1>3. Append(<<a, b>>, c) \in Seq({a, b, c}) /\ Len(Append(<<a, b>>, c)) = 3
  BY <1>1, <1>2, AppendProperties
<1>4. \A k \in 1 .. 3 : Append(<<a, b>>, c)[k] = <<a, b, c>>[k]
  BY <1>1, <1>2, AppendProperties
<1> QED
  BY <1>1, <1>2, <1>3, <1>4, SeqExtensional

LEMMA PrefixIsSubSeq ==
  ASSUME NEW S, NEW s \in Seq(S), NEW t \in Seq(S),
         Len(s) <= Len(t), \A k \in 1 .. Len(s) : s[k] = t[k]
  PROVE  s = SubSeq(t, 1, Len(s))
<1>1. /\ SubSeq(t, 1, Len(s)) \in Seq(S)
      /\ Len(SubSeq(t, 1, Len(s))) = Len(s)
      /\ \A k \in 1 .. Len(s) : SubSeq(t, 1, Len(s))[k] = t[k]
  BY SubSeqProperties
<1> QED
  BY <1>1

LEMMA PrefixOfCandidates ==
  Prefix /\ published \in BOOLEAN => tried = SubSeq(Candidates, 1, Len(tried))
<1> SUFFICES ASSUME Prefix, published \in BOOLEAN
             PROVE  tried = SubSeq(Candidates, 1, Len(tried))
  OBVIOUS
<1> DEFINE Names == {"txtPath", "wellKnown", "origin"}
           Fits(s, t) == /\ s \in Seq(Names) /\ t \in Seq(Names) /\ Len(s) <= Len(t)
                         /\ \A k \in 1 .. Len(s) : s[k] = t[k]
<1>1. CASE protocol = "jmap"
  <2>1. Fits(<<>>, <<"wellKnown">>) /\ Fits(<<"wellKnown">>, <<"wellKnown">>)
    OBVIOUS
  <2>2. Fits(tried, Candidates)
    BY <1>1, <2>1 DEF Prefix, Candidates
  <2> QED
    BY <2>2, PrefixIsSubSeq
<1>2. CASE protocol # "jmap" /\ published
  <2> DEFINE all == <<"txtPath", "wellKnown", "origin">>
  <2>1. Fits(<<>>, all) /\ Fits(<<"txtPath">>, all)
    OBVIOUS
  <2>2. Fits(<<"txtPath", "wellKnown">>, all) /\ Fits(all, all)
    OBVIOUS
  <2>3. Candidates = all
    BY <1>2 DEF Candidates
  <2>4. Fits(tried, Candidates)
    <3> HIDE DEF Fits
    <3> QED
      BY <1>2, <2>1, <2>2, <2>3 DEF Prefix
  <2> QED
    BY <2>4, PrefixIsSubSeq
<1>3. CASE protocol # "jmap" /\ ~published
  <2> DEFINE all == <<"wellKnown", "origin">>
  <2>1. Fits(<<>>, all) /\ Fits(<<"wellKnown">>, all) /\ Fits(all, all)
    OBVIOUS
  <2>2. Candidates = all
    BY <1>3 DEF Candidates
  <2>3. Fits(tried, Candidates)
    <3> HIDE DEF Fits
    <3> QED
      BY <1>3, <2>1, <2>2 DEF Prefix
  <2> QED
    BY <2>3, PrefixIsSubSeq
<1> QED
  BY <1>1, <1>2, <1>3

LEMMA InitPlace == Init => Place
BY DEF Init, Place, Prefix, None

LEMMA NextPlace == Place /\ [Next]_vars => Place'
<1> SUFFICES ASSUME Place, [Next]_vars PROVE Place'
  OBVIOUS
<1> USE DEF Place, Prefix, Candidates, None, inputs
<1>1. ASSUME NEW tls, NEW plain, SrvFound(tls, plain) PROVE Place'
  <2>1. /\ protocol' = "dav" /\ tried = <<>> /\ error = None
        /\ published = FALSE /\ published' = FALSE
    BY <1>1 DEF SrvFound, FailWith
  <2>2. \/ step' = "failed" /\ error' = "InvalidOrigin" /\ tried' = tried
        \/ step' = "wellKnown" /\ tried' = Append(tried, "wellKnown") /\ error' = error
        \/ step' = "txt" /\ tried' = tried /\ error' = error
    BY <1>1 DEF SrvFound, FailWith, WellKnown, WalkTo
  <2>3. Append(<<>>, "wellKnown") = <<"wellKnown">>
    OBVIOUS
  <2>4. CASE step' = "failed"
    BY <2>1, <2>2, <2>4
  <2>5. CASE step' = "wellKnown"
    BY <2>1, <2>2, <2>3, <2>5
  <2>6. CASE step' = "txt"
    BY <2>1, <2>2, <2>6
  <2> QED
    BY <2>2, <2>4, <2>5, <2>6
<1>2. CASE SrvFailed
  BY <1>2 DEF SrvFailed, WellKnown, WalkTo
<1>3. ASSUME NEW host, SessionSrvFound(host) PROVE Place'
  <2>1. /\ protocol' = "jmap" /\ tried = <<>> /\ error = None
        /\ published = FALSE /\ published' = FALSE
    BY <1>3 DEF SessionSrvFound, FailWith
  <2>2. \/ step' = "failed" /\ error' = "InvalidOrigin" /\ tried' = tried
        \/ step' = "wellKnown" /\ tried' = Append(tried, "wellKnown") /\ error' = error
    BY <1>3 DEF SessionSrvFound, FailWith, WellKnown, WalkTo
  <2>3. Append(<<>>, "wellKnown") = <<"wellKnown">>
    OBVIOUS
  <2>4. CASE step' = "failed"
    BY <2>1, <2>2, <2>4
  <2>5. CASE step' = "wellKnown"
    BY <2>1, <2>2, <2>3, <2>5
  <2> QED
    BY <2>2, <2>4, <2>5
<1>4. CASE SessionSrvFailed
  BY <1>4 DEF SessionSrvFailed, WellKnown, WalkTo
<1>5. ASSUME NEW target, TxtFound(target) PROVE Place'
  BY <1>5 DEF TxtFound, WalkTo
<1>6. CASE TxtInvalid
  BY <1>6 DEF TxtInvalid, FailWith
<1>7. CASE TxtNone
  BY <1>7 DEF TxtNone, WellKnown, WalkTo
<1>8. CASE TxtFailed
  BY <1>8 DEF TxtFailed, FailWith
<1>9. CASE Network
  BY <1>9 DEF Network
<1>10. CASE Found
  BY <1>10 DEF Found
<1>11. CASE WellKnownLedElsewhere
  <2>1. /\ protocol = "dav" /\ protocol' = "dav" /\ published' = published
        /\ step' = "context" /\ candidate' = "origin" /\ error' = None
        /\ tried' = Append(tried, "origin")
    BY <1>11 DEF WellKnownLedElsewhere, WalkTo
  <2>2. tried = IF published THEN <<"txtPath", "wellKnown">> ELSE <<"wellKnown">>
    BY <1>11 DEF WellKnownLedElsewhere
  <2>3. tried' = IF published THEN <<"txtPath", "wellKnown", "origin">>
                              ELSE <<"wellKnown", "origin">>
    BY <2>1, <2>2, AppendSecond, AppendThird
  <2>4. CASE published
    BY <2>1, <2>3, <2>4
  <2>5. CASE ~published
    BY <2>1, <2>3, <2>5
  <2> QED
    BY <2>4, <2>5
<1>12. CASE SessionFound
  BY <1>12 DEF SessionFound
<1>13. CASE NoSession
  BY <1>13 DEF NoSession, FailWith
<1>14. CASE TxtPathLedElsewhere
  <2>1. /\ step' = "wellKnown" /\ error' = error /\ published' = published
        /\ tried' = Append(tried, "wellKnown") /\ protocol' = protocol
    BY <1>14 DEF TxtPathLedElsewhere, WellKnown, WalkTo
  <2>2. published /\ protocol # "jmap" /\ step # "failed" /\ tried = <<"txtPath">>
    BY <1>14 DEF TxtPathLedElsewhere
  <2>3. tried' = <<"txtPath", "wellKnown">>
    BY <2>1, <2>2, AppendSecond
  <2> QED
    BY <2>1, <2>2, <2>3
<1>15. CASE OriginLedElsewhere
  BY <1>15 DEF OriginLedElsewhere, FailWith
<1>16. CASE WalkFailed
  BY <1>16 DEF WalkFailed, FailWith
<1>17. CASE UNCHANGED vars
  BY <1>17 DEF vars, resolveVars
<1> QED
  BY <1>1, <1>2, <1>3, <1>4, <1>5, <1>6, <1>7, <1>8, <1>9, <1>10, <1>11, <1>12, <1>13, <1>14,
     <1>15, <1>16, <1>17 DEF Next, Dns, Resume

(* Candidates are walked to in order, and none is given up.                *)
THEOREM EveryCandidateCorrect == Spec => []EveryCandidate
<1>1. Place => EveryCandidate
  BY PrefixOfCandidates DEF Place, EveryCandidate
<1> QED
  BY InitPlace, NextPlace, <1>1, PTL DEF Spec

-----------------------------------------------------------------------------
(* The last candidate is the one that the step is about.                   *)
LEMMA LastTried == Place /\ step = "context" => tried[Len(tried)] # "wellKnown"
BY DEF Place, Candidates

LEMMA NextLanded == Place /\ Landed /\ [Next]_vars => Landed'
<1> SUFFICES ASSUME Place, Landed, [Next]_vars PROVE Landed'
  OBVIOUS
<1> USE DEF Landed, RootAnswers, inputs
<1>1. ASSUME NEW tls, NEW plain, SrvFound(tls, plain) PROVE Landed'
  BY <1>1 DEF SrvFound, FailWith, WellKnown, WalkTo, walkVars
<1>2. CASE SrvFailed \/ SessionSrvFailed
  BY <1>2 DEF SrvFailed, SessionSrvFailed, WellKnown, WalkTo
<1>3. ASSUME NEW host, SessionSrvFound(host) PROVE Landed'
  BY <1>3 DEF SessionSrvFound, FailWith, WellKnown, WalkTo, walkVars
<1>4. ASSUME NEW target, TxtFound(target) PROVE Landed'
  BY <1>4 DEF TxtFound, WalkTo
<1>5. CASE TxtInvalid \/ TxtFailed
  BY <1>5 DEF TxtInvalid, TxtFailed, FailWith, walkVars
<1>6. CASE TxtNone \/ TxtPathLedElsewhere
  BY <1>6 DEF TxtNone, TxtPathLedElsewhere, WellKnown, WalkTo
<1>7. CASE Network
  <2>1. walk = "asking"
    BY <1>7 DEF Network, Walking, Redirect, Terminate, Break, Exchanged
  <2> QED
    BY <1>7, <2>1 DEF Network
<1>8. CASE Found
  <2>1. /\ walk = "ended" /\ reply /\ (step = "wellKnown" => hops > 0)
        /\ step \in {"wellKnown", "context"}
        /\ UNCHANGED <<walk, reply, url, hops, tried>> /\ root' = url
    BY <1>8 DEF Found, LedToDav, walkVars
  <2>2. step = "context" => tried[Len(tried)] # "wellKnown"
    BY LastTried
  <2> QED
    BY <2>1, <2>2
<1>9. CASE SessionFound
  BY <1>9 DEF SessionFound, walkVars
<1>10. CASE WellKnownLedElsewhere
  BY <1>10 DEF WellKnownLedElsewhere, WalkTo
<1>11. CASE NoSession \/ OriginLedElsewhere \/ WalkFailed
  BY <1>11 DEF NoSession, OriginLedElsewhere, WalkFailed, LedElsewhere, FailWith, walkVars
<1>12. CASE UNCHANGED vars
  BY <1>12 DEF vars, walkVars, resolveVars
<1> QED
  BY <1>1, <1>2, <1>3, <1>4, <1>5, <1>6, <1>7, <1>8, <1>9, <1>10, <1>11, <1>12
     DEF Next, Dns, Resume

(* The URL returned is the one that answered, off the well-known URI.      *)
THEOREM RootAnswersCorrect == Spec => []RootAnswers
<1>1. Init => Landed
  BY DEF Init, Landed, RootAnswers
<1>2. Landed => RootAnswers
  BY DEF Landed
<1> QED
  BY InitPlace, NextPlace, NextLanded, <1>1, <1>2, PTL DEF Spec

-----------------------------------------------------------------------------
(* A walk that begins brings its own allowance of requests.                *)
LEMMA BeginAllowance ==
  ASSUME Place, Allowance, walk # "asking", NEW next, NEW name, NEW target,
         WalkTo(next, name, target)
  PROVE  Allowance'
<1> DEFINE K == MaxHops + 1
<1>1. Len(tried) \in Nat /\ Len(Append(tried, name)) = Len(tried) + 1
  BY DEF Place, Prefix
<1>2. K \in Nat /\ (Len(tried) + 1) * K = Len(tried) * K + K
  BY <1>1, HopsAssumption
<1>3. requests \in Nat /\ requests <= Len(tried) * K
  BY DEF Allowance
<1>4. /\ walk' = "asking" /\ hops' = 0 /\ requests' = requests + 1
      /\ Len(tried') = Len(tried) + 1
  BY <1>1 DEF WalkTo, Begin
<1>5. Len(tried) * K \in Nat
  BY <1>1, <1>2
<1>6. Len(tried') * K = Len(tried) * K + K
  BY <1>2, <1>4
<1>7. requests' + (MaxHops - hops') <= Len(tried') * K
  <2> HIDE DEF K
  <2>1. MaxHops \in Nat /\ K = MaxHops + 1
    BY HopsAssumption DEF K
  <2> QED
    BY <1>3, <1>4, <1>5, <1>6, <2>1
<1> QED
  BY <1>3, <1>4, <1>7, HopsAssumption DEF Allowance

(* A walk that follows a redirect spends one, and one that ends the rest.  *)
LEMMA NetworkAllowance ==
  ASSUME Place, Allowance, Network
  PROVE  Allowance'
<1> DEFINE bound == Len(tried) * (MaxHops + 1)
<1>1. /\ MaxHops \in Nat /\ requests \in Nat /\ hops \in 0 .. MaxHops
      /\ tried' = tried
  BY HopsAssumption DEF Allowance, Network
<1>2. bound \in Nat
  <2>1. Len(tried) \in Nat
    BY DEF Place, Prefix
  <2> QED
    BY <1>1, <2>1
<1>3. walk = "asking"
  BY DEF Network, Walking, Redirect, Terminate, Break, Exchanged
<1>4. requests + (MaxHops - hops) <= bound
  BY <1>3 DEF Allowance
<1>5. \/ walk' = "asking" /\ hops < MaxHops /\ hops' = hops + 1 /\ requests' = requests + 1
      \/ walk' # "asking" /\ hops' = hops /\ requests' = requests
  BY <1>1, <1>3 DEF Network, Walking, Redirect, Terminate, Break, Exchanged
<1>6. bound' = bound
  BY <1>1
<1> HIDE DEF bound
<1>7. /\ requests' \in Nat /\ hops' \in 0 .. MaxHops
      /\ IF walk' = "asking" THEN requests' + (MaxHops - hops') <= bound' ELSE requests' <= bound'
  BY <1>1, <1>2, <1>4, <1>5, <1>6
<1> QED
  BY <1>7 DEF Allowance, bound

LEMMA NextAllowance == Place /\ Landed /\ Allowance /\ [Next]_vars => Allowance'
<1> SUFFICES ASSUME Place, Landed, Allowance, [Next]_vars PROVE Allowance'
  OBVIOUS
<1>1. ASSUME NEW next, NEW name, NEW target, WalkTo(next, name, target), walk # "asking"
      PROVE  Allowance'
  BY <1>1, BeginAllowance
<1>2. ASSUME UNCHANGED <<walkVars, tried, requests>> PROVE Allowance'
  BY <1>2 DEF Allowance, walkVars
<1>3. step \in {"srv", "txt"} => walk # "asking"
  BY DEF Landed
<1>4. ASSUME NEW tls, NEW plain, SrvFound(tls, plain) PROVE Allowance'
  BY <1>1, <1>2, <1>3, <1>4 DEF SrvFound, FailWith, WellKnown
<1>5. CASE SrvFailed \/ SessionSrvFailed
  BY <1>1, <1>3, <1>5 DEF SrvFailed, SessionSrvFailed, WellKnown
<1>6. ASSUME NEW host, SessionSrvFound(host) PROVE Allowance'
  BY <1>1, <1>2, <1>3, <1>6 DEF SessionSrvFound, FailWith, WellKnown
<1>7. ASSUME NEW target, TxtFound(target) PROVE Allowance'
  BY <1>1, <1>3, <1>7 DEF TxtFound
<1>8. CASE TxtInvalid \/ TxtFailed \/ NoSession \/ OriginLedElsewhere \/ WalkFailed
  BY <1>2, <1>8 DEF TxtInvalid, TxtFailed, NoSession, OriginLedElsewhere, WalkFailed, FailWith
<1>9. CASE TxtNone
  BY <1>1, <1>3, <1>9 DEF TxtNone, WellKnown
<1>10. CASE Network
  BY <1>10, NetworkAllowance
<1>11. CASE Found \/ SessionFound
  BY <1>2, <1>11 DEF Found, SessionFound
<1>12. CASE WellKnownLedElsewhere
  BY <1>1, <1>12 DEF WellKnownLedElsewhere, LedElsewhere
<1>13. CASE TxtPathLedElsewhere
  BY <1>1, <1>13 DEF TxtPathLedElsewhere, LedElsewhere, WellKnown
<1>14. CASE UNCHANGED vars
  BY <1>2, <1>14 DEF vars, resolveVars
<1> QED
  BY <1>4, <1>5, <1>6, <1>7, <1>8, <1>9, <1>10, <1>11, <1>12, <1>13, <1>14 DEF Next, Dns, Resume

(* However servers redirect, loops included, a search makes at most one    *)
(* request and MaxHops more for each candidate.                            *)
THEOREM BoundedRequestsCorrect == Spec => []BoundedRequests
<1>1. Init => Landed /\ Allowance
  BY HopsAssumption DEF Init, Landed, RootAnswers, Allowance
<1>2. Place /\ Allowance => BoundedRequests
  <2> SUFFICES ASSUME Place, Allowance PROVE BoundedRequests
    OBVIOUS
  <2> DEFINE bound == Len(tried) * (MaxHops + 1)
  <2>1. bound \in Nat
    <3>1. Len(tried) \in Nat
      BY DEF Place, Prefix
    <3> QED
      BY <3>1, HopsAssumption
  <2>2. /\ MaxHops \in Nat /\ requests \in Nat /\ hops \in 0 .. MaxHops
        /\ requests <= bound \/ requests + (MaxHops - hops) <= bound
    BY HopsAssumption DEF Allowance
  <2> HIDE DEF bound
  <2>3. requests <= bound
    BY <2>1, <2>2
  <2> QED
    BY <2>3 DEF BoundedRequests, bound
<1> QED
  BY InitPlace, NextPlace, NextLanded, NextAllowance, <1>1, <1>2, PTL DEF Spec

-----------------------------------------------------------------------------
(* In secure-only mode the pool has no factory for http, so that a walk    *)
(* that ended is a walk that never went there.                             *)
SecureInv ==
  /\ secureOnly =>
       /\ "http" \notin schemes
       /\ \A o \in streams : o.scheme # "http"
       /\ walk = "ended" => url.scheme # "http"
       /\ step = "done" => root.scheme # "http"
  /\ secureOnly \/ protocol = "jmap" => origin.scheme = "https"

LEMMA OpenedSecure ==
  ASSUME SecureInv, secureOnly, Opens(url)
  PROVE  url.scheme # "http" /\ Origin(url).scheme # "http"
  BY DEF SecureInv, Opens, Origin

LEMMA SecureWalking ==
  ASSUME SecureInv, Walking, UNCHANGED <<inputs, origin, step, root>>
  PROVE  SecureInv'
<1>0. CASE ~secureOnly
  BY <1>0 DEF SecureInv, inputs
<1> SUFFICES ASSUME secureOnly PROVE SecureInv'
  BY <1>0
<1> USE DEF inputs
<1>1. CASE \E next \in Urls : Redirect(next)
  <2>1. PICK next \in Urls : Redirect(next)
    BY <1>1
  <2>2. Origin(url).scheme # "http"
    BY <2>1, OpenedSecure DEF Redirect, Exchanged
  <2> QED
    BY <2>1, <2>2 DEF Redirect, Exchanged, SecureInv
<1>2. CASE \E accepted \in BOOLEAN : Terminate(accepted)
  <2>1. PICK accepted \in BOOLEAN : Terminate(accepted)
    BY <1>2
  <2>2. url.scheme # "http" /\ Origin(url).scheme # "http"
    BY <2>1, OpenedSecure DEF Terminate, Exchanged
  <2> QED
    BY <2>1, <2>2 DEF Terminate, Exchanged, SecureInv
<1>3. CASE Break
  <2>1. streams' = streams \/ (Opens(url) /\ streams' = streams \cup {Origin(url)})
    BY <1>3 DEF Break
  <2>2. Opens(url) => Origin(url).scheme # "http"
    BY OpenedSecure
  <2> QED
    BY <1>3, <2>1, <2>2 DEF Break, SecureInv
<1> QED
  BY <1>1, <1>2, <1>3 DEF Walking

LEMMA InitSecure == Init => SecureInv
BY DEF Init, SecureInv, Home, Url

LEMMA NextSecure == SecureInv /\ [Next]_vars => SecureInv'
<1> SUFFICES ASSUME SecureInv, [Next]_vars PROVE SecureInv'
  OBVIOUS
<1> USE DEF SecureInv, inputs
<1>1. ASSUME NEW tls, NEW plain, SrvFound(tls, plain) PROVE SecureInv'
  <2> DEFINE record == Record(tls, plain)
             base == CASE record = "tls" -> Url("https", tls, "/")
                       [] record = "plain" -> Url("http", plain, "/")
                       [] OTHER -> Home
  <2>1. secureOnly => base.scheme = "https"
    BY DEF Record, None, Url, Home
  <2>2. CASE base.host = ""
    BY <1>1, <2>2 DEF SrvFound, FailWith, walkVars
  <2>3. CASE base.host # ""
    <3>1. protocol = "dav" /\ origin' = base /\ UNCHANGED <<inputs, root, schemes, streams>>
      BY <1>1, <2>3 DEF SrvFound, WellKnown, WalkTo, Begin, walkVars
    <3>2. step' \in {"wellKnown", "txt"} /\ (walk' = "asking" \/ UNCHANGED <<walk, url>>)
      BY <1>1, <2>3 DEF SrvFound, WellKnown, WalkTo, Begin, walkVars
    <3> QED
      BY <2>1, <3>1, <3>2
  <2> QED
    BY <2>2, <2>3
<1>2. CASE SrvFailed \/ SessionSrvFailed
  BY <1>2 DEF SrvFailed, SessionSrvFailed, WellKnown, WalkTo, Begin, Home, Url
<1>3. ASSUME NEW target, TxtFound(target) PROVE SecureInv'
  BY <1>3 DEF TxtFound, WalkTo, Begin
<1>4. CASE TxtInvalid \/ TxtFailed \/ OriginLedElsewhere \/ NoSession \/ WalkFailed
  <2>1. step' = "failed" /\ UNCHANGED <<walkVars, inputs, origin>>
    BY <1>4 DEF TxtInvalid, TxtFailed, OriginLedElsewhere, NoSession, WalkFailed, FailWith
  <2> QED
    BY <2>1 DEF walkVars
<1>5. CASE TxtNone \/ TxtPathLedElsewhere
  BY <1>5 DEF TxtNone, TxtPathLedElsewhere, WellKnown, WalkTo, Begin
<1>6. CASE Network
  BY <1>6, SecureWalking DEF Network
<1>7. CASE Found \/ SessionFound
  BY <1>7 DEF Found, SessionFound, LedToDav, walkVars
<1>8. CASE WellKnownLedElsewhere
  BY <1>8 DEF WellKnownLedElsewhere, WalkTo, Begin
<1>9. CASE UNCHANGED vars
  BY <1>9 DEF vars, walkVars, resolveVars
<1>10. ASSUME NEW host, SessionSrvFound(host) PROVE SecureInv'
  <2> DEFINE base == IF host = None THEN Home ELSE Url("https", host, "/")
  <2>1. base.scheme = "https"
    BY DEF Home, Url
  <2>2. CASE base.host = ""
    BY <1>10, <2>2 DEF SessionSrvFound, FailWith, walkVars
  <2>3. CASE base.host # ""
    BY <1>10, <2>1, <2>3 DEF SessionSrvFound, WellKnown, WalkTo, Begin
  <2> QED
    BY <2>2, <2>3
<1> QED
  BY <1>1, <1>2, <1>3, <1>4, <1>5, <1>6, <1>7, <1>8, <1>9, <1>10 DEF Next, Dns, Resume

(* A request more than there are candidates is a redirect that was         *)
(* followed: before that, and without a TXT path, the URL under way was    *)
(* built from the origin.                                                  *)
StraightInv ==
  /\ requests \in Nat /\ Len(tried) <= requests
  /\ secureOnly /\ ~published /\ requests = Len(tried) =>
       /\ \A o \in streams : o.scheme = "https"
       /\ walk = "asking" => url.scheme = "https"

LEMMA StraightWalkTo ==
  ASSUME Place, StraightInv, NEW next, NEW name, NEW target, WalkTo(next, name, target),
         UNCHANGED inputs,
         \/ published' = TRUE
         \/ published' = published /\ (secureOnly => target.scheme = "https")
  PROVE  StraightInv'
<1>1. Len(tried) \in Nat /\ Len(Append(tried, name)) = Len(tried) + 1
  BY DEF Place, Prefix
<1>2. /\ url' = target /\ streams' = streams /\ requests' = requests + 1
      /\ Len(tried') = Len(tried) + 1
  BY <1>1 DEF WalkTo, Begin
<1> DEFINE n == Len(tried)
<1>3. n \in Nat /\ Len(tried') = n + 1 /\ requests \in Nat /\ n <= requests
  BY <1>1, <1>2 DEF StraightInv
<1>4. requests' \in Nat /\ Len(tried') <= requests'
  <2> HIDE DEF n
  <2> QED
    BY <1>2, <1>3
<1>5. requests' = Len(tried') => requests = Len(tried)
  <2> HIDE DEF n
  <2>1. requests' = Len(tried') => requests = n
    BY <1>2, <1>3
  <2> QED
    BY <2>1 DEF n
<1> QED
  BY <1>2, <1>4, <1>5 DEF StraightInv, inputs

LEMMA StraightNetwork ==
  ASSUME Place, StraightInv, Network
  PROVE  StraightInv'
<1>1. /\ walk = "asking" /\ tried' = tried /\ UNCHANGED <<inputs, published>>
      /\ requests' = IF walk' = "asking" THEN requests + 1 ELSE requests
      /\ streams' \subseteq streams \cup {Origin(url)}
  BY DEF Network, Walking, Redirect, Terminate, Break, Exchanged
<1>2. requests \in Nat /\ Len(tried) \in Nat /\ Len(tried) <= requests
  BY DEF StraightInv, Place, Prefix
<1>3. CASE walk' = "asking"
  <2>1. requests' = requests + 1
    BY <1>1, <1>3
  <2> DEFINE n == Len(tried)
  <2> HIDE DEF n
  <2>2. n \in Nat /\ n <= requests
    BY <1>2 DEF n
  <2>3. requests' \in Nat /\ n <= requests' /\ requests' # n
    BY <1>2, <2>1, <2>2
  <2> QED
    BY <1>1, <2>3 DEF StraightInv, n
<1>4. CASE walk' # "asking"
  BY <1>1, <1>2, <1>4 DEF StraightInv, Origin, inputs
<1> QED
  BY <1>3, <1>4

LEMMA NextStraight == Place /\ SecureInv /\ StraightInv /\ [Next]_vars => StraightInv'
<1> SUFFICES ASSUME Place, SecureInv, StraightInv, [Next]_vars PROVE StraightInv'
  OBVIOUS
<1>1. ASSUME UNCHANGED <<walkVars, inputs, tried, requests>>,
             published' = published \/ published' = TRUE
      PROVE  StraightInv'
  BY <1>1 DEF StraightInv, walkVars, inputs
<1>2. secureOnly => origin.scheme = "https"
  BY DEF SecureInv
<1>3. ASSUME NEW base, secureOnly => base.scheme = "https",
             WellKnown(base), UNCHANGED <<inputs, published>>
      PROVE  StraightInv'
  BY <1>3, StraightWalkTo DEF WellKnown, Url
<1>4. Home.scheme = "https"
  BY DEF Home, Url
<1>5. ASSUME NEW tls, NEW plain, SrvFound(tls, plain) PROVE StraightInv'
  <2> DEFINE record == Record(tls, plain)
             base == CASE record = "tls" -> Url("https", tls, "/")
                       [] record = "plain" -> Url("http", plain, "/")
                       [] OTHER -> Home
  <2>1. secureOnly => base.scheme = "https"
    BY DEF Record, None, Url, Home
  <2>2. CASE base.host = ""
    BY <1>1, <1>5, <2>2 DEF SrvFound, FailWith
  <2>3. CASE base.host # "" /\ record = None
    BY <1>3, <1>5, <2>1, <2>3 DEF SrvFound
  <2>4. CASE base.host # "" /\ record # None
    BY <1>1, <1>5, <2>4 DEF SrvFound
  <2> QED
    BY <2>2, <2>3, <2>4
<1>6. CASE SrvFailed \/ SessionSrvFailed
  BY <1>3, <1>4, <1>6 DEF SrvFailed, SessionSrvFailed
<1>7. ASSUME NEW host, SessionSrvFound(host) PROVE StraightInv'
  <2> DEFINE base == IF host = None THEN Home ELSE Url("https", host, "/")
  <2>1. base.scheme = "https"
    BY DEF Home, Url
  <2>2. CASE base.host = ""
    BY <1>1, <1>7, <2>2 DEF SessionSrvFound, FailWith
  <2>3. CASE base.host # ""
    BY <1>3, <1>7, <2>1, <2>3 DEF SessionSrvFound
  <2> QED
    BY <2>2, <2>3
<1>8. ASSUME NEW target, TxtFound(target) PROVE StraightInv'
  BY <1>8, StraightWalkTo DEF TxtFound
<1>9. CASE TxtInvalid \/ TxtFailed \/ NoSession \/ OriginLedElsewhere \/ WalkFailed
  BY <1>1, <1>9 DEF TxtInvalid, TxtFailed, NoSession, OriginLedElsewhere, WalkFailed, FailWith
<1>10. CASE TxtNone \/ TxtPathLedElsewhere
  BY <1>2, <1>3, <1>10 DEF TxtNone, TxtPathLedElsewhere
<1>11. CASE Network
  BY <1>11, StraightNetwork
<1>12. CASE Found \/ SessionFound
  BY <1>1, <1>12 DEF Found, SessionFound
<1>13. CASE WellKnownLedElsewhere
  BY <1>2, <1>13, StraightWalkTo DEF WellKnownLedElsewhere
<1>14. CASE UNCHANGED vars
  BY <1>1, <1>14 DEF vars, resolveVars
<1> QED
  BY <1>5, <1>6, <1>7, <1>8, <1>9, <1>10, <1>11, <1>12, <1>13, <1>14 DEF Next, Dns, Resume

(* Secure-only mode opens no http stream against every record, redirect    *)
(* and order of answers, and a stream that is not https only where one of  *)
(* them named it.                                                          *)
THEOREM SecureOnlyCorrect == Spec => []SecureOnly
<1>1. Init => StraightInv
  BY DEF Init, StraightInv
<1>2. SecureInv /\ StraightInv => SecureOnly
  BY DEF SecureInv, StraightInv, SecureOnly
<1> QED
  BY InitPlace, NextPlace, InitSecure, NextSecure, NextStraight, <1>1, <1>2, PTL DEF Spec

-----------------------------------------------------------------------------
(* Types.                                                                  *)
LEMMA HomeInUrls == Home \in Urls
BY UrlsAssumption DEF Home, Url

LEMMA WalkingTypeOK == WalkTypeOK /\ Walking => WalkTypeOK'
<1> SUFFICES ASSUME WalkTypeOK, Walking PROVE WalkTypeOK'
  OBVIOUS
<1> USE HopsAssumption DEF WalkTypeOK
<1>1. ASSUME NEW next \in Urls, Redirect(next) PROVE WalkTypeOK'
  BY <1>1 DEF Redirect, Exchanged
<1>2. ASSUME NEW accepted \in BOOLEAN, Terminate(accepted) PROVE WalkTypeOK'
  BY <1>2 DEF Terminate, Exchanged
<1>3. CASE Break
  BY <1>3 DEF Break
<1> QED
  BY <1>1, <1>2, <1>3 DEF Walking

LEMMA WalkToTypeOK ==
  ASSUME TypeOK, NEW next, NEW name \in {"txtPath", "wellKnown", "origin"}, NEW target \in Urls,
         WalkTo(next, name, target), \E S : tried \in Seq(S)
  PROVE  /\ WalkTypeOK' /\ step' = next /\ requests' \in Nat
         /\ \A i \in DOMAIN tried' : tried'[i] \in {"txtPath", "wellKnown", "origin"}
<1>0. /\ walk' = "asking" /\ url' = target /\ hops' = 0 /\ reply' = FALSE
      /\ schemes' = schemes /\ streams' = streams
      /\ step' = next /\ requests' = requests + 1
  BY DEF WalkTo, Begin
<1>1. WalkTypeOK' /\ step' = next /\ requests' \in Nat
  <2>1. requests' \in Nat
    BY <1>0 DEF TypeOK
  <2>2. hops' \in 0 .. MaxHops
    BY <1>0, HopsAssumption
  <2>3. schemes' \subseteq Factories /\ streams' \subseteq {Origin(u) : u \in Urls}
    BY <1>0 DEF TypeOK, WalkTypeOK
  <2>4. walk' \in {"idle", "asking", "ended", "looped", "failed"} /\ url' \in Urls
    BY <1>0
  <2>5. reply' \in BOOLEAN
    BY <1>0
  <2> QED
    BY <1>0, <2>1, <2>2, <2>3, <2>4, <2>5 DEF WalkTypeOK
<1>2. tried' = Append(tried, name)
  BY DEF WalkTo
<1>3. PICK S : tried \in Seq(S)
  OBVIOUS
<1>4. \A i \in DOMAIN tried' : tried'[i] \in {"txtPath", "wellKnown", "origin"}
  BY <1>2, <1>3 DEF TypeOK
<1> QED
  BY <1>1, <1>4

(* Every variable stays in its range.                                      *)
THEOREM TypeCorrect == Spec => []TypeOK
<1>1. Init => TypeOK
  <2> SUFFICES ASSUME Init PROVE TypeOK
    OBVIOUS
  <2>1. Home \in Urls /\ 0 \in 0 .. MaxHops
    BY HomeInUrls, HopsAssumption
  <2>2. schemes \subseteq Factories
    BY DEF Init
  <2>3. WalkTypeOK
    BY <2>1, <2>2 DEF Init, WalkTypeOK
  <2> QED
    <3>1. DOMAIN tried = {} /\ requests \in Nat
      BY DEF Init
    <3>2. origin \in Urls /\ root \in Urls /\ published \in BOOLEAN
      BY <2>1 DEF Init
    <3> QED
      BY <2>3, <3>1, <3>2 DEF Init, TypeOK, None
<1>2. TypeOK /\ Place /\ [Next]_vars => TypeOK'
  <2> SUFFICES ASSUME TypeOK, Place, [Next]_vars PROVE TypeOK'
    OBVIOUS
  <2>1. \E S : tried \in Seq(S)
    <3> DEFINE T == {"txtPath", "wellKnown", "origin"}
    <3>1. <<>> \in Seq(T) /\ <<"wellKnown">> \in Seq(T) /\ <<"wellKnown", "origin">> \in Seq(T)
      OBVIOUS
    <3>2. <<"txtPath">> \in Seq(T) /\ <<"txtPath", "wellKnown">> \in Seq(T)
      OBVIOUS
    <3>3. <<"txtPath", "wellKnown", "origin">> \in Seq(T)
      OBVIOUS
    <3> HIDE DEF T
    <3>4. tried \in Seq(T)
      BY <3>1, <3>2, <3>3 DEF Place, Prefix
    <3> QED
      BY <3>4
  <2>2. \A u \in Urls : Url(u.scheme, u.host, "well-known") \in Urls
    BY UrlsAssumption DEF Url
  <2> DEFINE Elsewhere == UNCHANGED <<walkVars, tried, requests>>
  <2>3. Elsewhere => WalkTypeOK'
    BY DEF TypeOK, WalkTypeOK, walkVars
  <2>4. ASSUME NEW tls \in Hosts \cup {None}, NEW plain \in Hosts \cup {None}, SrvFound(tls, plain)
        PROVE  TypeOK'
    <3> DEFINE record == Record(tls, plain)
               base == CASE record = "tls" -> Url("https", tls, "/")
                         [] record = "plain" -> Url("http", plain, "/")
                         [] OTHER -> Home
    <3>1. CASE base.host = ""
      BY <2>3, <2>4, <3>1 DEF SrvFound, FailWith, TypeOK, None, inputs
    <3>2. CASE base.host # ""
      <4>1. base \in Urls
        <5>1. record \in {"tls", "plain", None} /\ (record = "tls" => tls # None)
              /\ (record = "plain" => plain # None)
          BY DEF Record, None
        <5> QED
          BY <3>2, <5>1, HomeInUrls, UrlsAssumption DEF Url, None
      <4>2. /\ origin' = base /\ UNCHANGED <<inputs, published, candidate, root, error>>
            /\ \/ WalkTo("wellKnown", "wellKnown", Url(base.scheme, base.host, "well-known"))
               \/ step' = "txt" /\ Elsewhere
        BY <2>4, <3>2 DEF SrvFound, WellKnown
      <4>3. CASE WalkTo("wellKnown", "wellKnown", Url(base.scheme, base.host, "well-known"))
        <5> HIDE DEF base
        <5>1. Url(base.scheme, base.host, "well-known") \in Urls
          BY <2>2, <4>1
        <5>2. /\ WalkTypeOK' /\ step' = "wellKnown" /\ requests' \in Nat
              /\ \A i \in DOMAIN tried' : tried'[i] \in {"txtPath", "wellKnown", "origin"}
          BY <2>1, <4>3, <5>1, WalkToTypeOK
        <5> QED
          BY <4>1, <4>2, <5>2 DEF TypeOK, inputs
      <4>4. CASE step' = "txt" /\ Elsewhere
        <5> HIDE DEF base
        <5> QED
          BY <2>3, <4>1, <4>2, <4>4 DEF TypeOK, inputs
      <4> QED
        BY <4>2, <4>3, <4>4
    <3> QED
      BY <3>1, <3>2
  <2>5. ASSUME WellKnown(Home), origin' = Home,
               UNCHANGED <<inputs, published, candidate, root, error>>
        PROVE  TypeOK'
    <3>1. /\ WalkTypeOK' /\ step' = "wellKnown" /\ requests' \in Nat
          /\ \A i \in DOMAIN tried' : tried'[i] \in {"txtPath", "wellKnown", "origin"}
      BY <2>1, <2>2, <2>5, HomeInUrls, WalkToTypeOK DEF WellKnown
    <3> QED
      BY <2>5, <3>1, HomeInUrls DEF TypeOK, inputs
  <2>6. CASE SrvFailed \/ SessionSrvFailed
    BY <2>5, <2>6 DEF SrvFailed, SessionSrvFailed
  <2>7. ASSUME NEW host \in Hosts \cup {None}, SessionSrvFound(host) PROVE TypeOK'
    <3> DEFINE base == IF host = None THEN Home ELSE Url("https", host, "/")
    <3>1. CASE base.host = ""
      BY <2>3, <2>7, <3>1 DEF SessionSrvFound, FailWith, TypeOK, None, inputs
    <3>2. CASE base.host # ""
      <4>1. base \in Urls
        BY <3>2, HomeInUrls, UrlsAssumption DEF Url, None
      <4>2. /\ origin' = base /\ UNCHANGED <<inputs, published, candidate, root, error>>
            /\ WalkTo("wellKnown", "wellKnown", Url(base.scheme, base.host, "well-known"))
        BY <2>7, <3>2 DEF SessionSrvFound, WellKnown
      <4> HIDE DEF base
      <4>3. /\ WalkTypeOK' /\ step' = "wellKnown" /\ requests' \in Nat
            /\ \A i \in DOMAIN tried' : tried'[i] \in {"txtPath", "wellKnown", "origin"}
        BY <2>1, <2>2, <4>1, <4>2, WalkToTypeOK
      <4> QED
        BY <4>1, <4>2, <4>3 DEF TypeOK, inputs
    <3> QED
      BY <3>1, <3>2
  <2>8. ASSUME NEW target \in Targets, TxtFound(target) PROVE TypeOK'
    <3>1. target \in Urls
      BY UrlsAssumption DEF Targets, Url, TypeOK
    <3>2. /\ WalkTypeOK' /\ step' = "context" /\ requests' \in Nat
          /\ \A i \in DOMAIN tried' : tried'[i] \in {"txtPath", "wellKnown", "origin"}
      BY <2>1, <2>8, <3>1, WalkToTypeOK DEF TxtFound
    <3> QED
      BY <2>8, <3>2 DEF TxtFound, TypeOK, inputs
  <2>9. CASE TxtInvalid \/ TxtFailed \/ NoSession \/ OriginLedElsewhere
    BY <2>3, <2>9 DEF TxtInvalid, TxtFailed, NoSession, OriginLedElsewhere, FailWith, TypeOK, inputs
  <2>10. CASE WalkFailed
    BY <2>3, <2>10 DEF WalkFailed, FailWith, TypeOK, inputs
  <2>11. CASE TxtNone \/ TxtPathLedElsewhere
    <3>1. WellKnown(origin) /\ UNCHANGED <<inputs, origin, published, candidate, root, error>>
      BY <2>11 DEF TxtNone, TxtPathLedElsewhere
    <3>2. /\ WalkTypeOK' /\ step' = "wellKnown" /\ requests' \in Nat
          /\ \A i \in DOMAIN tried' : tried'[i] \in {"txtPath", "wellKnown", "origin"}
      BY <2>1, <2>2, <3>1, WalkToTypeOK DEF WellKnown, TypeOK
    <3> QED
      BY <3>1, <3>2 DEF TypeOK, inputs
  <2>12. CASE Network
    BY <2>12, WalkingTypeOK DEF Network, TypeOK, inputs
  <2>13. CASE Found \/ SessionFound
    BY <2>3, <2>13 DEF Found, SessionFound, TypeOK, WalkTypeOK, inputs
  <2>14. CASE WellKnownLedElsewhere
    <3>1. /\ WalkTypeOK' /\ step' = "context" /\ requests' \in Nat
          /\ \A i \in DOMAIN tried' : tried'[i] \in {"txtPath", "wellKnown", "origin"}
      BY <2>1, <2>14, WalkToTypeOK DEF WellKnownLedElsewhere, TypeOK
    <3> QED
      BY <2>14, <3>1 DEF WellKnownLedElsewhere, TypeOK, inputs
  <2>15. CASE UNCHANGED vars
    BY <2>15 DEF vars, walkVars, resolveVars, inputs, TypeOK, WalkTypeOK
  <2> QED
    BY <2>4, <2>6, <2>7, <2>8, <2>9, <2>10, <2>11, <2>12, <2>13, <2>14, <2>15 DEF Next, Dns, Resume
<1> QED
  BY InitPlace, NextPlace, <1>1, <1>2, PTL DEF Spec
=============================================================================
