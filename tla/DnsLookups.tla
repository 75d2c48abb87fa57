----------------------------- MODULE DnsLookups -----------------------------
(***************************************************************************)
(* A chain of DNS lookups over one pooled stream: the combined SRV         *)
(* coroutines (rfc6186/discover.rs, rfc6764/discover.rs), the exchange     *)
(* they drive (shared/dns.rs), the drivers that pump it (`run' of          *)
(* compose/client.rs, and those of the standard clients) and the stream    *)
(* pool below (shared/pool.rs). The compose driver makes one call per      *)
(* pool; a standard client keeps its pool, and its stream, from one call   *)
(* to the next.                                                            *)
(*                                                                         *)
(* Over TCP a message is a frame: two bytes of length, then the body. A    *)
(* byte is the pair <<q, i>>, the i-th byte of the answer to query q; the  *)
(* length prefix of an answer says how many bytes follow it. A read hands  *)
(* over any number of the bytes that have arrived. Queries all carry the   *)
(* same id, so that bytes of another answer would be taken for this one.   *)
(* Over HTTP an answer arrives whole. Queries are numbered over all calls. *)
(***************************************************************************)
EXTENDS Naturals, Sequences, FiniteSets

CONSTANTS
  Lookups,    \* number of lookups in the chain
  MaxCalls,   \* bound: calls on one pool
  BodyLens    \* possible lengths of an answer

ASSUME LookupsAssumption ==
  Lookups \in Nat \ {0} /\ MaxCalls \in Nat \ {0} /\ BodyLens \subseteq Nat

VARIABLES
  transport, \* "tcp" or "http", from the scheme of the resolver
  call,      \* call under way
  state,     \* its coroutine: "write", "read", "done" or "failed"
  lookup,    \* lookup under way
  buffer,    \* bytes of its answer read so far
  report,    \* bodies of the former lookups
  stream,    \* the pooled stream: "none", "open", or "closed" by the resolver
  wire,      \* bytes sent by the resolver and not read yet
  asked,     \* queries the resolver got
  lens,      \* query -> length of the body the resolver sent, once it did
  broken     \* a call gave up its stream in the midst of an exchange

coroutine == <<state, lookup, buffer, report>>
network == <<stream, wire, asked, lens>>
vars == <<transport, call, coroutine, network, broken>>

Number(lookups) == (call - 1) * Lookups + lookups
Query == Number(lookup)

Frame(q, n) == [i \in 1 .. n + 2 |-> <<q, i>>]
Body(q, n) == [i \in 1 .. n |-> <<q, i + 2>>]

(* The length the first two bytes decode to. Those of a body, on a stream  *)
(* a call left in the midst of an answer, may decode to anything.          *)
Lengths(bytes) ==
  CASE Len(bytes) < 2 -> {}
    [] Len(bytes) >= 2 /\ bytes[1][2] = 1 -> {lens[bytes[1][1]]}
    [] OTHER -> BodyLens

Init ==
  /\ transport \in {"tcp", "http"}
  /\ call = 1 /\ state = "write" /\ lookup = 1 /\ buffer = <<>> /\ report = <<>>
  /\ stream = "none" /\ wire = <<>> /\ asked = {} /\ lens = <<>>
  /\ broken = FALSE

-----------------------------------------------------------------------------
(* The answer of the lookup is known: the next one starts a new exchange,  *)
(* or the report is complete.                                              *)
Answered(body) ==
  /\ report' = Append(report, body)
  /\ buffer' = <<>>
  /\ IF lookup = Lookups
     THEN state' = "done" /\ lookup' = lookup
     ELSE state' = "write" /\ lookup' = lookup + 1

(* An error of one lookup is an error of the whole chain: what the former  *)
(* ones found is dropped with the coroutine.                               *)
Failed ==
  /\ state' = "failed"
  /\ report' = <<>>
  /\ UNCHANGED <<lookup, buffer>>

(* `pool.get' opens a stream on a miss only: a stream the resolver closed  *)
(* is handed out again. A write to it may still seem to succeed.           *)
Write ==
  /\ state = "write"
  /\ state' = "read"
  /\ stream' = IF stream = "none" THEN "open" ELSE stream
  /\ asked' = IF stream = "closed" THEN asked ELSE asked \cup {Query}
  /\ UNCHANGED <<transport, call, lookup, buffer, report, wire, lens, broken>>

(* The query cannot be built, or the stream cannot be opened or written:   *)
(* the compose driver resumes with an empty slice, which the exchange      *)
(* takes for the end of the stream, the others return the error. A stream  *)
(* that opened stays in the pool. Nothing may have been written to it, or  *)
(* half of the query.                                                      *)
WriteFails ==
  /\ state = "write"
  /\ Failed
  /\ stream' \in {stream} \cup (IF stream = "none" THEN {"open"} ELSE {})
  /\ broken' \in {broken, stream' # "none"}
  /\ UNCHANGED <<transport, call, wire, asked, lens>>

(* Plausible bugs: the prefix is not counted; the answer waits for one     *)
(* more byte.                                                              *)
CompleteNoPrefix(bytes, n) == Len(bytes) >= n

CompleteLate(bytes, n) == Len(bytes) > 2 + n

Complete(bytes, n) == Len(bytes) >= 2 + n

Truncate(s, n) == IF n < Len(s) THEN SubSeq(s, 1, n) ELSE s

(* A read returns the next n bytes; a buffer without a whole frame asks    *)
(* for more. A body that is not a DNS message is an error.                 *)
Read(n) ==
  /\ state = "read" /\ transport = "tcp"
  /\ n \in 1 .. Len(wire)
  /\ wire' = SubSeq(wire, n + 1, Len(wire))
  /\ LET bytes == buffer \o SubSeq(wire, 1, n)
     IN  \/ \E length \in Lengths(bytes) :
              /\ Complete(bytes, length)
              /\ Answered(Truncate(SubSeq(bytes, 3, Len(bytes)), length)) \/ Failed
         \/ /\ Lengths(bytes) = {} \/ \E length \in Lengths(bytes) : ~Complete(bytes, length)
            /\ buffer' = bytes
            /\ UNCHANGED <<state, lookup, report>>
  /\ UNCHANGED <<transport, call, stream, asked, lens, broken>>

(* An HTTP answer: a DNS message, or anything else.                        *)
ReadHttp ==
  /\ state = "read" /\ transport = "http"
  /\ wire # <<>>
  /\ wire' = <<>>
  /\ Answered(SubSeq(wire, 3, Len(wire))) \/ Failed
  /\ UNCHANGED <<transport, call, stream, asked, lens, broken>>

(* Plausible bug: a lookup that failed is skipped.                         *)
ReadEofSkips ==
  /\ state = "read"
  /\ wire = <<>> /\ stream = "closed"
  /\ Answered(<<>>)
  /\ UNCHANGED <<transport, call, network, broken>>

(* The end of the stream.                                                  *)
ReadEof ==
  /\ state = "read"
  /\ wire = <<>> /\ stream = "closed"
  /\ Failed
  /\ UNCHANGED <<transport, call, network, broken>>

(* A read error, or the timeout of a stream that has one: the answer may   *)
(* still arrive, or the rest of it.                                        *)
ReadFails ==
  /\ state = "read"
  /\ Failed
  /\ broken' = TRUE
  /\ UNCHANGED <<transport, call, network>>

Pump == Write \/ (\E n \in 1 .. Len(wire) : Read(n)) \/ ReadHttp \/ ReadEof

Client == Pump \/ WriteFails \/ ReadFails

(* A standard client is called again, on the stream of the former call.    *)
Again ==
  /\ state \in {"done", "failed"} /\ call < MaxCalls
  /\ call' = call + 1
  /\ state' = "write" /\ lookup' = 1 /\ buffer' = <<>> /\ report' = <<>>
  /\ UNCHANGED <<transport, network, broken>>

-----------------------------------------------------------------------------
Pending(q) == stream = "open" /\ q \in asked /\ q \notin DOMAIN lens

(* The resolver answers a query, with a frame of its own choosing.         *)
Sends(q, n, sent) ==
  /\ lens' = [p \in DOMAIN lens \cup {q} |-> IF p = q THEN n ELSE lens[p]]
  /\ wire' = wire \o SubSeq(Frame(q, n), 1, sent)

Answer ==
  /\ \E q \in asked : Pending(q) /\ \E n \in BodyLens : Sends(q, n, n + 2)
  /\ UNCHANGED <<transport, call, coroutine, stream, asked, broken>>

(* It closes the stream between two messages or in the midst of one, or    *)
(* the network does. An HTTP answer cut short is no answer.                *)
Close ==
  /\ stream = "open"
  /\ stream' = "closed"
  /\ \/ UNCHANGED <<wire, lens>>
     \/ /\ transport = "tcp"
        /\ \E q \in asked : Pending(q) /\ \E n \in BodyLens : \E sent \in 1 .. n + 1 : Sends(q, n, sent)
  /\ UNCHANGED <<transport, call, coroutine, asked, broken>>

Next == Client \/ Again \/ Answer \/ Close

Spec == Init /\ [][Next]_vars

(* The resolver answers every query it got, or closes the stream; a read   *)
(* waits for ever, unless something has arrived.                           *)
FairSpec == Spec /\ WF_vars(Pump) /\ WF_vars(Answer)

-----------------------------------------------------------------------------
(* However the answers are cut into reads, every body of the report is the *)
(* whole answer to its own lookup in its own call, and nothing but it, as  *)
(* long as no call on the pool broke off an exchange.                      *)
OwnAnswer ==
  ~broken => \A q \in DOMAIN report : report[q] = Body(Number(q), lens[Number(q)])

(* All or nothing: a report is handed out only when every lookup of the    *)
(* call got its answer. A missing record is thus a record the domain does  *)
(* not publish, never one that could not be asked for, even on a stream    *)
(* the resolver closed since the former call.                              *)
AllOrNothing ==
  /\ state = "done" /\ ~broken =>
       Len(report) = Lookups /\ Number(1) .. Number(Lookups) \subseteq DOMAIN lens
  /\ state = "failed" => report = <<>>

(* Every call ends, well or badly, once the resolver answers or hangs up:  *)
(* no byte that is still to come is waited for.                            *)
Ends == ~broken /\ state \in {"write", "read"} ~> state \in {"done", "failed"} \/ broken
=============================================================================
