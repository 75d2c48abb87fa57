-------------------------- MODULE DnsLookupsProofs --------------------------
(***************************************************************************)
(* Theorems about the lookups on one stream, for a chain of any length,    *)
(* any number of calls and answers of any lengths. That a call ends is     *)
(* left to TLC.                                                            *)
(***************************************************************************)
EXTENDS DnsLookups, SequenceTheorems, TLAPS

(***************************************************************************)
(* Bytes of one answer: n of them, after the first a.                      *)
(***************************************************************************)
Bytes(q, a, n) == [i \in 1 .. n |-> <<q, a + i>>]

LEMMA SeqExtensional ==
  ASSUME NEW S, NEW s \in Seq(S), NEW t \in Seq(S),
         Len(s) = Len(t), \A k \in 1 .. Len(s) : s[k] = t[k]
  PROVE  s = t
OBVIOUS

LEMMA BytesType ==
  ASSUME NEW q \in Nat, NEW a \in Nat, NEW n \in Nat
  PROVE  /\ Bytes(q, a, n) \in Seq(Nat \X Nat)
         /\ Len(Bytes(q, a, n)) = n
         /\ \A i \in 1 .. n : Bytes(q, a, n)[i] = <<q, a + i>>
<1>1. \A i \in 1 .. n : <<q, a + i>> \in Nat \X Nat
  OBVIOUS
<1> QED
  BY <1>1 DEF Bytes

LEMMA NoBytes == ASSUME NEW q \in Nat, NEW a \in Nat PROVE Bytes(q, a, 0) = <<>>
<1>1. Bytes(q, a, 0) \in Seq(Nat \X Nat) /\ Len(Bytes(q, a, 0)) = 0
  BY BytesType
<1> QED
  BY <1>1

LEMMA BytesConcat ==
  ASSUME NEW q \in Nat, NEW a \in Nat, NEW m \in Nat, NEW n \in Nat
  PROVE  Bytes(q, a, m) \o Bytes(q, a + m, n) = Bytes(q, a, m + n)
<1> DEFINE s == Bytes(q, a, m)
           t == Bytes(q, a + m, n)
           u == Bytes(q, a, m + n)
<1>1. s \in Seq(Nat \X Nat) /\ Len(s) = m /\ \A i \in 1 .. m : s[i] = <<q, a + i>>
  BY BytesType
<1>2. t \in Seq(Nat \X Nat) /\ Len(t) = n /\ \A i \in 1 .. n : t[i] = <<q, a + m + i>>
  <2>1. a + m \in Nat
    OBVIOUS
  <2> QED
    BY <2>1, BytesType
<1>3. u \in Seq(Nat \X Nat) /\ Len(u) = m + n /\ \A i \in 1 .. m + n : u[i] = <<q, a + i>>
  <2>1. m + n \in Nat
    OBVIOUS
  <2> QED
    BY <2>1, BytesType
<1> HIDE DEF s, t, u
<1>4. /\ s \o t \in Seq(Nat \X Nat) /\ Len(s \o t) = m + n
      /\ \A i \in 1 .. m + n : (s \o t)[i] = IF i <= m THEN s[i] ELSE t[i - m]
  BY <1>1, <1>2, ConcatProperties
<1>5. ASSUME NEW i \in 1 .. m + n PROVE (s \o t)[i] = u[i]
  <2>1. (s \o t)[i] = IF i <= m THEN s[i] ELSE t[i - m]
    BY <1>4
  <2>2. u[i] = <<q, a + i>>
    BY <1>3
  <2>3. CASE i <= m
    <3>1. i \in 1 .. m
      BY <2>3
    <3>2. s[i] = <<q, a + i>>
      BY <1>1, <3>1
    <3> QED
      BY <2>1, <2>2, <2>3, <3>2
  <2>4. CASE ~(i <= m)
    <3>1. i - m \in 1 .. n /\ a + m + (i - m) = a + i
      BY <2>4
    <3>2. t[i - m] = <<q, a + m + (i - m)>>
      BY <1>2, <3>1
    <3> QED
      BY <2>1, <2>2, <2>4, <3>1, <3>2
  <2> QED
    BY <2>3, <2>4
<1>6. s \o t = u
  BY <1>3, <1>4, <1>5, SeqExtensional
<1> QED
  BY <1>6 DEF s, t, u

LEMMA BytesConcatFirst ==
  ASSUME NEW q \in Nat, NEW m \in Nat, NEW n \in Nat
  PROVE  Bytes(q, 0, m) \o Bytes(q, m, n) = Bytes(q, 0, m + n)
<1>1. PICK a \in Nat : a = 0
  OBVIOUS
<1>2. Bytes(q, a, m) \o Bytes(q, a + m, n) = Bytes(q, a, m + n)
  BY BytesConcat, ZenonT(30)
<1>3. a + m = m
  BY <1>1
<1> QED
  BY <1>1, <1>2, <1>3

LEMMA BytesSubSeq ==
  ASSUME NEW q \in Nat, NEW a \in Nat, NEW w \in Nat, NEW k \in 0 .. w, NEW n \in k .. w
  PROVE  SubSeq(Bytes(q, a, w), k + 1, n) = Bytes(q, a + k, n - k)
<1> DEFINE s == Bytes(q, a, w)
           t == SubSeq(s, k + 1, n)
           u == Bytes(q, a + k, n - k)
<1>1. s \in Seq(Nat \X Nat) /\ Len(s) = w /\ \A i \in 1 .. w : s[i] = <<q, a + i>>
  BY BytesType
<1>2. /\ u \in Seq(Nat \X Nat) /\ Len(u) = n - k
      /\ \A i \in 1 .. n - k : u[i] = <<q, a + k + i>>
  <2>1. n - k \in Nat /\ a + k \in Nat
    OBVIOUS
  <2> QED
    BY <2>1, BytesType
<1> HIDE DEF s, u
<1>3. \A i \in k + 1 .. n : s[i] \in Nat \X Nat
  BY <1>1
<1>4. /\ t \in Seq(Nat \X Nat)
      /\ Len(t) = IF k + 1 <= n THEN n - (k + 1) + 1 ELSE 0
      /\ \A i \in 1 .. n - (k + 1) + 1 : t[i] = s[k + 1 + i - 1]
  <2>1. k + 1 \in Int /\ n \in Int
    OBVIOUS
  <2> QED
    BY <1>3, <2>1, SubSeqProperties
<1>5. Len(t) = n - k
  BY <1>4
<1>6. ASSUME NEW i \in 1 .. n - k PROVE t[i] = u[i]
  <2>1. i \in 1 .. n - (k + 1) + 1 /\ k + 1 + i - 1 = k + i /\ k + i \in 1 .. w
    OBVIOUS
  <2>2. t[i] = s[k + i]
    BY <1>4, <2>1
  <2>3. s[k + i] = <<q, a + (k + i)>>
    BY <1>1, <2>1
  <2>4. a + (k + i) = a + k + i
    OBVIOUS
  <2> QED
    BY <1>2, <2>2, <2>3, <2>4
<1>7. t = u
  BY <1>2, <1>4, <1>5, <1>6, SeqExtensional
<1> QED
  BY <1>7 DEF s, u

LEMMA FrameBytes ==
  ASSUME NEW q \in Nat, NEW n \in Nat
  PROVE  Frame(q, n) = Bytes(q, 0, n + 2) /\ Body(q, n) = Bytes(q, 2, n)
<1>1. \A i \in 1 .. n + 2 : i = 0 + i
  OBVIOUS
<1>2. \A i \in 1 .. n : i + 2 = 2 + i
  OBVIOUS
<1> QED
  BY <1>1, <1>2 DEF Frame, Body, Bytes

-----------------------------------------------------------------------------
Types ==
  /\ transport \in {"tcp", "http"}
  /\ call \in Nat \ {0} /\ lookup \in 1 .. Lookups
  /\ state \in {"write", "read", "done", "failed"}
  /\ \A q \in DOMAIN lens : lens[q] \in Nat
  /\ broken \in BOOLEAN /\ (broken \/ state = "read" => stream # "none")
  /\ state = "failed" => report = <<>>

(* Of the answer to the query under way, m bytes are in the buffer and the *)
(* next w on their way, and nothing else is.                               *)
Arrived(m, w) ==
  /\ buffer = Bytes(Query, 0, m) /\ wire = Bytes(Query, m, w)
  /\ m + w <= lens[Query] + 2
  /\ transport = "http" => m = 0 /\ w = lens[Query] + 2

Current ==
  IF Query \in DOMAIN lens
  THEN \E m, w \in Nat : Arrived(m, w)
  ELSE buffer = <<>> /\ wire = <<>>

Bodies == {Body(q, n) : q \in Nat, n \in Nat}

(* No byte of a former exchange is left: one query is under way at most,   *)
(* and the resolver owes no other answer.                                  *)
Clean ==
  /\ asked \subseteq 1 .. Query /\ (state = "write" => Query \notin asked)
  /\ DOMAIN lens \subseteq asked
  /\ stream = "none" => asked = {}
  /\ \A q \in asked : Pending(q) => state = "read" /\ q = Query
  /\ state # "read" => wire = <<>>
  /\ state = "write" => buffer = <<>>
  /\ state = "read" => Current

(* The report holds the answers to the former lookups of the call.         *)
Reported ==
  /\ report \in Seq(Bodies)
  /\ state \in {"write", "read"} => Len(report) = lookup - 1
  /\ state = "done" => Len(report) = Lookups
  /\ \A k \in DOMAIN report :
       Number(k) \in DOMAIN lens /\ report[k] = Body(Number(k), lens[Number(k)])

Inv == Types /\ (~broken => Clean /\ Reported)

LEMMA Numbers ==
  ASSUME Types
  PROVE  /\ (call - 1) * Lookups \in Nat
         /\ \A k \in Nat : Number(k) \in Nat /\ Number(k) = (call - 1) * Lookups + k
         /\ Query \in Nat \ {0} /\ Query = Number(lookup)
         /\ Query <= call * Lookups /\ call * Lookups \in Nat
<1>1. call \in Nat \ {0} /\ lookup \in 1 .. Lookups /\ Lookups \in Nat \ {0}
  BY LookupsAssumption DEF Types
<1>2. (call - 1) * Lookups \in Nat /\ call * Lookups \in Nat
  <2>1. call - 1 \in Nat
    BY <1>1
  <2> QED
    BY <1>1, <2>1
<1>3. (call - 1) * Lookups + Lookups = call * Lookups
  BY <1>1
<1> DEFINE base == (call - 1) * Lookups
           next == call * Lookups
<1>4. \A k \in Nat : Number(k) = base + k
  BY DEF Number
<1>5. Query = base + lookup
  BY DEF Query, Number
<1>6. base \in Nat /\ next \in Nat /\ base + Lookups = next
  BY <1>2, <1>3
<1>7. Query = Number(lookup)
  BY DEF Query
<1> HIDE DEF base, next
<1>8. Query \in Nat \ {0} /\ Query <= next /\ \A k \in Nat : Number(k) \in Nat
  BY <1>1, <1>4, <1>5, <1>6
<1> QED
  BY <1>4, <1>6, <1>7, <1>8 DEF base, next

LEMMA InitInv == Init => Inv
<1> SUFFICES ASSUME Init PROVE Inv
  OBVIOUS
<1>1. Types
  <2>1. DOMAIN lens = {}
    BY DEF Init
  <2>2. 1 \in Nat \ {0} /\ 1 \in 1 .. Lookups
    BY LookupsAssumption
  <2> QED
    BY <2>1, <2>2 DEF Init, Types
<1>2. Query \in Nat /\ asked = {} /\ DOMAIN lens = {} /\ state = "write"
  BY <1>1, Numbers DEF Init
<1>3. Clean
  BY <1>2 DEF Init, Clean
<1>4. Reported
  BY DEF Init, Reported
<1> QED
  BY <1>1, <1>3, <1>4 DEF Inv

-----------------------------------------------------------------------------
(* Steps that neither move the coroutine nor forget an answer keep what is *)
(* reported.                                                               *)
LEMMA KeepsReported ==
  ASSUME Types, Clean, Reported, UNCHANGED <<call, report>>,
         DOMAIN lens \subseteq DOMAIN lens', \A q \in DOMAIN lens : lens'[q] = lens[q],
         \/ UNCHANGED <<state, lookup>>
         \/ state = "write" /\ state' = "read" /\ lookup' = lookup
  PROVE  Reported'
<1>1. \A k : Number(k)' = Number(k)
  BY DEF Number
<1>2. DOMAIN report' = DOMAIN report /\ Bodies' = Bodies
  BY DEF Bodies
<1> QED
  BY <1>1, <1>2 DEF Reported, Body

LEMMA WriteInv == ASSUME Inv, Write PROVE Inv'
<1>1. Types'
  BY DEF Inv, Types, Write
<1>2. ASSUME ~broken PROVE Clean' /\ Reported'
  <2>1. Clean /\ Reported /\ Types
    BY <1>2 DEF Inv
  <2>2. /\ state = "write" /\ state' = "read" /\ Query' = Query /\ Query \in Nat \ {0}
        /\ Query \notin asked /\ wire' = <<>> /\ buffer' = <<>> /\ lens' = lens
    BY <2>1, Numbers DEF Write, Query, Number, Clean
  <2>3. Query \notin DOMAIN lens
    BY <2>1, <2>2 DEF Clean
  <2>4. Current'
    BY <2>2, <2>3 DEF Current
  <2>5. asked' \subseteq 1 .. Query' /\ DOMAIN lens' \subseteq asked'
    BY <2>1, <2>2 DEF Write, Clean
  <2>6. ASSUME NEW q \in asked', Pending(q)' PROVE q = Query'
    BY <2>1, <2>2, <2>6 DEF Write, Clean, Pending
  <2>7. stream' = "none" => asked' = {}
    BY <2>1 DEF Write, Clean
  <2>8. Clean'
    BY <2>2, <2>4, <2>5, <2>6, <2>7 DEF Clean
  <2>9. Reported'
    BY <2>1, <2>2, KeepsReported DEF Write
  <2> QED
    BY <2>8, <2>9
<1> QED
  BY <1>1, <1>2 DEF Inv, Write

(* A call that fails without breaking off an exchange leaves nothing on    *)
(* the stream.                                                             *)
LEMMA FailedInv ==
  ASSUME Inv, Failed, UNCHANGED <<transport, call, asked, lens>>,
         stream' = stream \/ (stream = "none" /\ stream' = "open"),
         broken' \in BOOLEAN, broken \/ broken' => stream' # "none",
         broken => broken',
         ~broken' => wire' = <<>> /\ \A q \in asked : ~Pending(q)
  PROVE  Inv'
<1>1. Types'
  BY DEF Inv, Types, Failed
<1>2. ASSUME ~broken' PROVE Clean' /\ Reported'
  <2>1. Clean /\ Reported /\ Types /\ broken \in BOOLEAN /\ ~broken
    BY <1>2 DEF Inv, Types
  <2>2. /\ Query' = Query /\ state' = "failed" /\ report' = <<>> /\ wire' = <<>>
        /\ \A q \in asked : ~Pending(q)'
    BY <1>2, <2>1 DEF Failed, Query, Number, Pending, Clean
  <2>3. Clean'
    BY <1>2, <2>1, <2>2 DEF Clean
  <2>4. <<>> \in Seq(Bodies) /\ DOMAIN report' = {}
    BY <2>2
  <2>5. Bodies' = Bodies
    BY DEF Bodies
  <2> QED
    BY <2>2, <2>3, <2>4, <2>5 DEF Reported
<1> QED
  BY <1>1, <1>2 DEF Inv

LEMMA WriteFailsInv == ASSUME Inv, WriteFails PROVE Inv'
<1>1. /\ Failed /\ UNCHANGED <<transport, call, asked, lens, wire>> /\ state = "write"
      /\ stream' = stream \/ (stream = "none" /\ stream' = "open")
      /\ broken' = broken \/ broken' = (stream' # "none")
  BY DEF WriteFails
<1>2. broken \in BOOLEAN /\ (broken => stream' # "none")
  BY <1>1 DEF Inv, Types
<1>3. broken' \in BOOLEAN /\ (broken \/ broken' => stream' # "none") /\ (broken => broken')
  <2>1. CASE stream' = "none"
    <3>1. broken' = FALSE /\ broken = FALSE
      BY <1>1, <1>2, <2>1, Zenon
    <3> QED
      BY <3>1
  <2>2. CASE stream' # "none"
    <3>1. broken' = broken \/ broken' = TRUE
      BY <1>1, <2>2, Zenon
    <3> QED
      BY <1>2, <2>2, <3>1
  <2> QED
    BY <2>1, <2>2
<1>4. ~broken' => wire' = <<>> /\ \A q \in asked : ~Pending(q)
  BY <1>1, <1>3 DEF Inv, Clean
<1> QED
  BY <1>1, <1>3, <1>4, FailedInv

LEMMA ReadFailsInv == ASSUME Inv, ReadFails PROVE Inv'
<1>1. Failed /\ UNCHANGED <<transport, call, stream, asked, lens>> /\ broken' = TRUE
  BY DEF ReadFails, network
<1>2. stream # "none"
  BY DEF ReadFails, Inv, Types
<1> QED
  BY <1>1, <1>2, FailedInv

LEMMA ReadEofInv == ASSUME Inv, ReadEof PROVE Inv'
<1>1. /\ Failed /\ UNCHANGED <<transport, call, stream, asked, lens, broken>> /\ wire' = <<>>
      /\ stream = "closed"
  BY DEF ReadEof, network
<1>2. \A q \in asked : ~Pending(q)
  BY <1>1 DEF Pending
<1>3. broken' \in BOOLEAN /\ broken' = broken
  BY <1>1 DEF Inv, Types
<1> QED
  BY <1>1, <1>2, <1>3, FailedInv

(* A whole answer is reported as that of its lookup.                       *)
LEMMA AnsweredInv ==
  ASSUME Inv, state = "read", UNCHANGED <<transport, call, stream, asked, lens, broken>>,
         NEW body, Answered(body),
         ~broken => /\ wire' = <<>> /\ Query \in DOMAIN lens
                    /\ body = Body(Query, lens[Query])
  PROVE  Inv'
<1>1. Types /\ lookup \in 1 .. Lookups /\ Lookups \in Nat \ {0}
  BY LookupsAssumption DEF Inv, Types
<1>2. /\ report' = Append(report, body) /\ buffer' = <<>>
      /\ \/ lookup = Lookups /\ state' = "done" /\ lookup' = lookup
         \/ lookup # Lookups /\ state' = "write" /\ lookup' = lookup + 1
  BY DEF Answered
<1>3. Types'
  <2>1. lookup' \in 1 .. Lookups
    BY <1>1, <1>2
  <2> QED
    BY <1>1, <1>2, <2>1 DEF Types
<1>4. ASSUME ~broken PROVE Clean' /\ Reported'
  <2>1. Clean /\ Reported
    BY <1>4 DEF Inv
  <2>2. /\ wire' = <<>> /\ Query \in DOMAIN lens /\ body = Body(Query, lens[Query])
        /\ Query \in Nat /\ lens[Query] \in Nat
    BY <1>1, <1>4, Numbers DEF Types
  <2>3. \A q \in asked : ~Pending(q)
    BY <2>1, <2>2 DEF Clean, Pending
  <2>4. \A q : Pending(q)' <=> Pending(q)
    BY DEF Pending
  <2>5. \/ state' = "done" /\ Query' = Query
        \/ state' = "write" /\ Query' = Query + 1
    <3>1. lookup \in Nat /\ lookup + 1 \in Nat /\ (call - 1) * Lookups \in Nat
      BY <1>1, Numbers
    <3>2. /\ Query = (call - 1) * Lookups + lookup
          /\ Query' = (call - 1) * Lookups + lookup'
      BY DEF Query, Number
    <3> QED
      BY <1>2, <3>1, <3>2
  <2>6. asked' \subseteq 1 .. Query' /\ (state' = "write" => Query' \notin asked')
    BY <2>1, <2>2, <2>5 DEF Clean
  <2>7. Clean'
    BY <1>2, <2>1, <2>2, <2>3, <2>4, <2>6 DEF Clean
  <2>8. /\ report \in Seq(Bodies) /\ Len(report) = lookup - 1 /\ body \in Bodies
    BY <2>1, <2>2 DEF Reported, Bodies
  <2>9. /\ report' \in Seq(Bodies) /\ Len(report') = lookup /\ DOMAIN report' = 1 .. lookup
        /\ \A k \in 1 .. lookup - 1 : k \in DOMAIN report /\ report'[k] = report[k]
        /\ report'[lookup] = body
    BY <1>1, <1>2, <2>8
  <2>10. \A k : Number(k)' = Number(k)
    BY DEF Number
  <2>11. Query = Number(lookup) /\ Bodies' = Bodies
    BY DEF Query, Bodies
  <2>12. ASSUME NEW k \in 1 .. lookup
         PROVE  Number(k) \in DOMAIN lens /\ report'[k] = Body(Number(k), lens[Number(k)])
    <3>1. CASE k = lookup
      BY <2>2, <2>9, <2>11, <3>1
    <3>2. CASE k # lookup
      <4>1. k \in 1 .. lookup - 1
        BY <1>1, <3>2
      <4> QED
        BY <2>1, <2>9, <4>1 DEF Reported
    <3> QED
      BY <3>1, <3>2
  <2>13. Reported'
    <3>1. /\ state' \in {"write", "read"} => Len(report') = lookup' - 1
          /\ state' = "done" => Len(report') = Lookups
      BY <1>1, <1>2, <2>9
    <3>2. \A k \in DOMAIN report' :
            Number(k)' \in DOMAIN lens' /\ report'[k] = Body(Number(k)', lens'[Number(k)'])
      BY <2>9, <2>10, <2>12
    <3>3. report' \in Seq(Bodies')
      BY <2>9, <2>11
    <3> QED
      BY <3>1, <3>2, <3>3 DEF Reported, Body
  <2> QED
    BY <2>7, <2>13
<1> QED
  BY <1>3, <1>4 DEF Inv

(* The body of the answer is what stands behind its length.                *)
LEMMA BodyOfFrame ==
  ASSUME NEW q \in Nat, NEW n \in Nat
  PROVE  /\ SubSeq(Bytes(q, 0, n + 2), 3, n + 2) = Body(q, n)
         /\ Truncate(Body(q, n), n) = Body(q, n)
<1>1. SubSeq(Bytes(q, 0, n + 2), 2 + 1, n + 2) = Bytes(q, 0 + 2, (n + 2) - 2)
  <2>1. n + 2 \in Nat /\ 2 \in 0 .. n + 2 /\ n + 2 \in 2 .. n + 2
    OBVIOUS
  <2> QED
    BY <2>1, BytesSubSeq, ZenonT(30)
<1>2. 2 + 1 = 3 /\ 0 + 2 = 2 /\ (n + 2) - 2 = n
  OBVIOUS
<1>3. Bytes(q, 2, n) = Body(q, n) /\ Len(Bytes(q, 2, n)) = n
  BY FrameBytes, BytesType
<1>4. SubSeq(Bytes(q, 0, n + 2), 3, n + 2) = Body(q, n)
  BY <1>1, <1>2, <1>3
<1>5. Truncate(Body(q, n), n) = Body(q, n)
  BY <1>3 DEF Truncate
<1> QED
  BY <1>4, <1>5

LEMMA ReadInv == ASSUME Inv, NEW n \in 1 .. Len(wire), Read(n) PROVE Inv'
<1> DEFINE bytes == buffer \o SubSeq(wire, 1, n)
           rest == SubSeq(wire, n + 1, Len(wire))
<1>1. /\ state = "read" /\ transport = "tcp" /\ wire' = rest
      /\ UNCHANGED <<transport, call, stream, asked, lens, broken>>
  BY DEF Read
<1>2. Types /\ Query \in Nat
  BY Numbers DEF Inv
<1>3. \/ \E length \in Lengths(bytes) :
           /\ Complete(bytes, length)
           /\ Answered(Truncate(SubSeq(bytes, 3, Len(bytes)), length)) \/ Failed
      \/ /\ Lengths(bytes) = {} \/ \E length \in Lengths(bytes) : ~Complete(bytes, length)
         /\ buffer' = bytes
         /\ UNCHANGED <<state, lookup, report>>
  BY DEF Read
<1>4. CASE broken
  <2>1. Types'
    <3>1. CASE \E body : Answered(body)
      <4>1. lookup' \in 1 .. Lookups /\ state' \in {"done", "write"}
        BY <1>2, <3>1, LookupsAssumption DEF Answered, Types
      <4> QED
        BY <1>1, <1>2, <4>1 DEF Types
    <3>2. CASE Failed
      BY <1>1, <1>2, <3>2 DEF Failed, Types
    <3>3. CASE UNCHANGED <<state, lookup, report>>
      BY <1>1, <1>2, <3>3 DEF Types
    <3> QED
      BY <1>3, <3>1, <3>2, <3>3
  <2> QED
    BY <1>1, <1>4, <2>1 DEF Inv
<1>5. CASE ~broken
  <2>1. Clean /\ Reported
    BY <1>5 DEF Inv
  <2>2. Query \in DOMAIN lens /\ lens[Query] \in Nat
    <3>1. Query \in DOMAIN lens
      <4>1. wire # <<>>
        BY Len(<<>>) = 0
      <4> QED
        BY <1>1, <2>1, <4>1 DEF Clean, Current
    <3> QED
      BY <1>2, <3>1 DEF Types
  <2> DEFINE L == lens[Query]
  <2>3. PICK m \in Nat, w \in Nat : Arrived(m, w)
    BY <1>1, <2>1, <2>2 DEF Clean, Current
  <2>4. /\ buffer = Bytes(Query, 0, m) /\ wire = Bytes(Query, m, w) /\ m + w <= L + 2
        /\ Len(wire) = w /\ n \in 1 .. w
    BY <1>2, <2>3, BytesType DEF Arrived
  <2>5. /\ SubSeq(wire, 1, n) = Bytes(Query, m, n)
        /\ rest = Bytes(Query, m + n, w - n)
    <3>1. SubSeq(Bytes(Query, m, w), 0 + 1, n) = Bytes(Query, m + 0, n - 0)
      <4>1. 0 \in 0 .. w /\ n \in 0 .. w
        BY <2>4
      <4> QED
        BY <1>2, <4>1, BytesSubSeq
    <3>2. SubSeq(Bytes(Query, m, w), n + 1, w) = Bytes(Query, m + n, w - n)
      <4>1. n \in 0 .. w /\ w \in n .. w
        BY <2>4
      <4> QED
        BY <1>2, <4>1, BytesSubSeq
    <3>3. 0 + 1 = 1 /\ m + 0 = m /\ n - 0 = n
      BY <2>4
    <3> QED
      BY <2>4, <3>1, <3>2, <3>3
  <2>6. n \in Nat /\ m + n \in Nat /\ w - n \in Nat
    BY <2>4
  <2>7. bytes = Bytes(Query, 0, m + n) /\ Len(bytes) = m + n
    <3>1. Bytes(Query, 0, m) \o Bytes(Query, m, n) = Bytes(Query, 0, m + n)
      BY <1>2, <2>6, BytesConcatFirst
    <3>2. Len(Bytes(Query, 0, m + n)) = m + n
      BY <1>2, <2>6, BytesType
    <3> QED
      BY <2>4, <2>5, <3>1, <3>2
  <2> HIDE DEF bytes, rest
  <2>8. Lengths(bytes) = IF m + n < 2 THEN {} ELSE {L}
    <3>1. CASE m + n < 2
      BY <2>7, <3>1 DEF Lengths
    <3>2. CASE ~(m + n < 2)
      <4>1. 1 \in 1 .. m + n
        BY <2>6, <3>2
      <4>2. Bytes(Query, 0, m + n)[1] = <<Query, 0 + 1>>
        BY <4>1 DEF Bytes
      <4>3. bytes[1][1] = Query /\ bytes[1][2] = 1
        BY <2>7, <4>2
      <4> QED
        BY <2>7, <3>2, <4>3 DEF Lengths
    <3> QED
      BY <3>1, <3>2
  <2> HIDE DEF L
  <2>9. CASE \E length \in Lengths(bytes) :
               /\ Complete(bytes, length)
               /\ Answered(Truncate(SubSeq(bytes, 3, Len(bytes)), length)) \/ Failed
    <3>1. /\ Complete(bytes, L)
          /\ Answered(Truncate(SubSeq(bytes, 3, Len(bytes)), L)) \/ Failed
      BY <2>8, <2>9
    <3>2. m + n = L + 2 /\ w - n = 0
      <4>1. m + n >= 2 + L /\ L \in Nat
        BY <2>2, <2>7, <3>1 DEF Complete, L
      <4> QED
        BY <2>4, <2>6, <4>1
    <3>3. wire' = <<>>
      BY <1>1, <1>2, <2>5, <2>6, <3>2, NoBytes
    <3>4. Truncate(SubSeq(bytes, 3, Len(bytes)), L) = Body(Query, L)
      <4>1. L \in Nat
        BY <2>2 DEF L
      <4>2. bytes = Bytes(Query, 0, L + 2) /\ Len(bytes) = L + 2
        BY <2>7, <3>2
      <4> QED
        BY <1>2, <4>1, <4>2, BodyOfFrame
    <3>5. CASE Answered(Truncate(SubSeq(bytes, 3, Len(bytes)), L))
      <4>1. Answered(Body(Query, lens[Query]))
        BY <3>4, <3>5 DEF L
      <4> QED
        BY <1>1, <2>2, <3>3, <4>1, AnsweredInv
    <3>6. CASE Failed
      <4>1. \A q \in asked : ~Pending(q)
        BY <2>1, <2>2 DEF Clean, Pending
      <4>2. broken' = FALSE /\ broken = FALSE
        BY <1>1, <1>2, <1>5 DEF Types
      <4> QED
        BY <1>1, <3>3, <3>6, <4>1, <4>2, FailedInv
    <3> QED
      BY <3>1, <3>5, <3>6
  <2>10. CASE buffer' = bytes /\ UNCHANGED <<state, lookup, report>>
    <3>1. Types'
      BY <1>1, <1>2, <2>10 DEF Types
    <3>2. Query' = Query
      BY <1>1, <2>10 DEF Query, Number
    <3>3. (m + n) + (w - n) <= lens[Query] + 2
      BY <2>4, <2>6 DEF L
    <3>4. Arrived(m + n, w - n)'
      BY <1>1, <2>5, <2>7, <2>10, <3>2, <3>3 DEF Arrived
    <3>5. Current'
      BY <1>1, <2>2, <2>6, <3>2, <3>4 DEF Current
    <3>6. \A q : Pending(q)' <=> Pending(q)
      BY <1>1 DEF Pending
    <3>7. Clean'
      BY <1>1, <2>1, <2>10, <3>2, <3>5, <3>6 DEF Clean
    <3>8. Reported'
      BY <1>1, <1>2, <2>1, <2>10, KeepsReported
    <3> QED
      BY <3>1, <3>7, <3>8 DEF Inv
  <2> QED
    BY <1>3, <2>9, <2>10 DEF bytes
<1> QED
  BY <1>2, <1>4, <1>5 DEF Types

LEMMA ReadHttpInv == ASSUME Inv, ReadHttp PROVE Inv'
<1>1. /\ state = "read" /\ transport = "http" /\ wire # <<>> /\ wire' = <<>>
      /\ Answered(SubSeq(wire, 3, Len(wire))) \/ Failed
      /\ UNCHANGED <<transport, call, stream, asked, lens, broken>>
  BY DEF ReadHttp
<1>2. Types /\ Query \in Nat /\ broken \in BOOLEAN
  BY Numbers DEF Inv, Types
<1>3. ASSUME ~broken
      PROVE  /\ Query \in DOMAIN lens /\ SubSeq(wire, 3, Len(wire)) = Body(Query, lens[Query])
             /\ \A q \in asked : ~Pending(q)
  <2>1. Clean
    BY <1>3 DEF Inv
  <2>2. Query \in DOMAIN lens /\ lens[Query] \in Nat
    BY <1>1, <1>2, <2>1 DEF Clean, Current, Types
  <2>3. PICK m \in Nat, w \in Nat : Arrived(m, w)
    BY <1>1, <2>1, <2>2 DEF Clean, Current
  <2>4. wire = Bytes(Query, 0, lens[Query] + 2)
    BY <1>1, <2>3 DEF Arrived
  <2>5. Len(wire) = lens[Query] + 2
    <3>1. lens[Query] + 2 \in Nat /\ 0 \in Nat
      BY <2>2
    <3> QED
      BY <1>2, <2>4, <3>1, BytesType
  <2>6. SubSeq(wire, 3, Len(wire)) = Body(Query, lens[Query])
    BY <1>2, <2>2, <2>4, <2>5, BodyOfFrame
  <2>7. \A q \in asked : ~Pending(q)
    BY <2>1, <2>2 DEF Clean, Pending
  <2> QED
    BY <2>2, <2>6, <2>7
<1>4. CASE Answered(SubSeq(wire, 3, Len(wire)))
  BY <1>1, <1>3, <1>4, AnsweredInv
<1>5. CASE Failed
  <2>1. broken' \in BOOLEAN /\ broken' = broken /\ stream # "none"
    BY <1>1, <1>2 DEF Types
  <2> QED
    BY <1>1, <1>3, <1>5, <2>1, FailedInv
<1> QED
  BY <1>1, <1>4, <1>5

(* The next call begins with a stream that holds nothing.                  *)
LEMMA AgainInv == ASSUME Inv, Again PROVE Inv'
<1>1. /\ state \in {"done", "failed"} /\ call' = call + 1 /\ state' = "write" /\ lookup' = 1
      /\ buffer' = <<>> /\ report' = <<>>
      /\ UNCHANGED <<transport, stream, wire, asked, lens, broken>>
  BY DEF Again, network
<1>2. Types /\ 1 \in 1 .. Lookups /\ call \in Nat \ {0}
  BY LookupsAssumption DEF Inv, Types
<1>3. Types'
  BY <1>1, <1>2 DEF Types
<1>4. ASSUME ~broken PROVE Clean' /\ Reported'
  <2>1. Clean
    BY <1>4 DEF Inv
  <2>2. Query' = call * Lookups + 1
    <3>1. Query' = (call' - 1) * Lookups + 1
      BY <1>1 DEF Query, Number
    <3>2. call' - 1 = call
      BY <1>1, <1>2
    <3> QED
      BY <3>1, <3>2
  <2>3. Query \in Nat /\ Query <= call * Lookups /\ call * Lookups \in Nat
    BY <1>2, Numbers
  <2> DEFINE last == call * Lookups
  <2> HIDE DEF last
  <2>4. asked' \subseteq 1 .. Query' /\ Query' \notin asked'
    <3>1. Query' = last + 1 /\ Query <= last /\ last \in Nat
      BY <2>2, <2>3 DEF last
    <3> QED
      BY <1>1, <2>1, <2>3, <3>1 DEF Clean
  <2>5. \A q \in asked : ~Pending(q)
    BY <1>1, <2>1 DEF Clean
  <2>6. \A q : Pending(q)' <=> Pending(q)
    BY <1>1 DEF Pending
  <2>7. Clean'
    BY <1>1, <2>1, <2>4, <2>5, <2>6 DEF Clean
  <2>8. <<>> \in Seq(Bodies') /\ DOMAIN report' = {} /\ Len(report') = lookup' - 1
    BY <1>1
  <2>9. Reported'
    BY <1>1, <2>8 DEF Reported
  <2> QED
    BY <2>7, <2>9
<1> QED
  BY <1>1, <1>3, <1>4 DEF Inv

(* The resolver sends the answer, or the first bytes of it, to the query   *)
(* under way: it owes no other.                                            *)
LEMMA SendsInv ==
  ASSUME Inv, UNCHANGED <<transport, call, coroutine, asked, broken>>,
         stream' \in {"open", "closed"}, stream = "open",
         NEW q \in asked, Pending(q), NEW n \in Nat, NEW sent \in 0 .. n + 2, Sends(q, n, sent),
         transport = "http" => sent = n + 2
  PROVE  Inv'
<1>1. /\ DOMAIN lens' = DOMAIN lens \cup {q} /\ q \notin DOMAIN lens /\ lens'[q] = n
      /\ \A p \in DOMAIN lens : lens'[p] = lens[p]
      /\ wire' = wire \o SubSeq(Frame(q, n), 1, sent)
      /\ UNCHANGED <<transport, call, state, lookup, buffer, report, asked, broken>>
  BY DEF Sends, coroutine, Pending
<1>2. Types
  BY DEF Inv
<1>3. Types'
  <2>1. \A p \in DOMAIN lens' : lens'[p] \in Nat
    BY <1>1, <1>2 DEF Types
  <2> QED
    BY <1>1, <1>2, <2>1 DEF Types
<1>4. ASSUME ~broken PROVE Clean' /\ Reported'
  <2>1. Clean /\ Reported
    BY <1>4 DEF Inv
  <2>2. state = "read" /\ q = Query /\ Query \in Nat /\ Query' = Query
    BY <1>1, <1>2, <2>1, Numbers DEF Clean, Query, Number
  <2>3. buffer = <<>> /\ wire = <<>>
    BY <1>1, <2>1, <2>2 DEF Clean, Current
  <2>4. SubSeq(Frame(q, n), 1, sent) = Bytes(q, 0, sent)
    <3>1. n + 2 \in Nat /\ sent \in 0 .. n + 2 /\ 0 \in 0 .. n + 2
      OBVIOUS
    <3>2. SubSeq(Bytes(q, 0, n + 2), 0 + 1, sent) = Bytes(q, 0 + 0, sent - 0)
      BY <2>2, <3>1, BytesSubSeq
    <3>3. 0 + 1 = 1 /\ 0 + 0 = 0 /\ sent - 0 = sent
      OBVIOUS
    <3> QED
      BY <2>2, <3>2, <3>3, FrameBytes
  <2>5. wire' = Bytes(Query, 0, sent)
    <3>1. Bytes(Query, 0, sent) \in Seq(Nat \X Nat)
      <4>1. sent \in Nat /\ 0 \in Nat
        OBVIOUS
      <4> QED
        BY <2>2, <4>1, BytesType
    <3>2. <<>> \o Bytes(Query, 0, sent) = Bytes(Query, 0, sent)
      BY <3>1, ConcatEmptySeq
    <3> QED
      BY <1>1, <2>2, <2>3, <2>4, <3>2
  <2>6. buffer' = Bytes(Query, 0, 0)
    BY <1>1, <2>2, <2>3, NoBytes
  <2>7. Arrived(0, sent)'
    <3>1. lens'[Query'] = n /\ transport' = transport
      BY <1>1, <2>2
    <3>2. 0 + sent <= n + 2 /\ (transport = "http" => sent = n + 2)
      OBVIOUS
    <3> QED
      BY <2>2, <2>5, <2>6, <3>1, <3>2 DEF Arrived
  <2>8. Current'
    <3>1. Query' \in DOMAIN lens' /\ 0 \in Nat /\ sent \in Nat
      BY <1>1, <2>2
    <3> QED
      BY <2>7, <3>1 DEF Current
  <2>9. ASSUME NEW p \in asked', Pending(p)' PROVE FALSE
    BY <1>1, <2>1, <2>2, <2>9 DEF Pending, Clean
  <2>10. Clean'
    BY <1>1, <2>1, <2>2, <2>8, <2>9 DEF Clean
  <2>11. Reported'
    BY <1>1, <1>2, <2>1, KeepsReported
  <2> QED
    BY <2>10, <2>11
<1> QED
  BY <1>1, <1>3, <1>4 DEF Inv

LEMMA AnswerInv == ASSUME Inv, Answer PROVE Inv'
<1>1. PICK q \in asked : Pending(q) /\ \E n \in BodyLens : Sends(q, n, n + 2)
  BY DEF Answer
<1>2. PICK n \in BodyLens : Sends(q, n, n + 2)
  BY <1>1
<1>3. n \in Nat /\ n + 2 \in 0 .. n + 2
  BY LookupsAssumption
<1>4. stream = "open" /\ stream' = "open" /\ UNCHANGED <<transport, call, coroutine, asked, broken>>
  BY <1>1 DEF Answer, Pending
<1> QED
  BY <1>1, <1>2, <1>3, <1>4, SendsInv

LEMMA CloseInv == ASSUME Inv, Close PROVE Inv'
<1>1. /\ stream = "open" /\ stream' = "closed"
      /\ UNCHANGED <<transport, call, coroutine, asked, broken>>
  BY DEF Close
<1>2. CASE UNCHANGED <<wire, lens>>
  <2>1. Types' /\ Types
    BY <1>1, <1>2 DEF Inv, Types, coroutine
  <2>2. ASSUME ~broken PROVE Clean' /\ Reported'
    <3>1. Clean /\ Reported
      BY <2>2 DEF Inv
    <3>2. /\ Query' = Query /\ (Current' <=> Current)
          /\ UNCHANGED <<transport, call, state, lookup, buffer, report, asked, wire, lens>>
      BY <1>1, <1>2 DEF Query, Number, Current, Arrived, coroutine
    <3>3. \A q : ~Pending(q)'
      BY <1>1 DEF Pending
    <3>4. Clean'
      BY <1>1, <3>1, <3>2, <3>3 DEF Clean
    <3>5. Reported'
      BY <2>1, <3>1, <3>2, KeepsReported
    <3> QED
      BY <3>4, <3>5
  <2> QED
    BY <1>1, <2>1, <2>2 DEF Inv
<1>3. CASE ~(UNCHANGED <<wire, lens>>)
  <2>1. PICK q \in asked : Pending(q) /\ \E n \in BodyLens : \E sent \in 1 .. n + 1 : Sends(q, n, sent)
    BY <1>3 DEF Close
  <2>2. PICK n \in BodyLens : \E sent \in 1 .. n + 1 : Sends(q, n, sent)
    BY <2>1
  <2>3. PICK sent \in 1 .. n + 1 : Sends(q, n, sent)
    BY <2>2
  <2>4. n \in Nat /\ sent \in 0 .. n + 2 /\ transport # "http"
    BY <1>3, LookupsAssumption DEF Close
  <2> QED
    BY <1>1, <2>1, <2>3, <2>4, SendsInv
<1> QED
  BY <1>2, <1>3

LEMMA NextInv == Inv /\ [Next]_vars => Inv'
<1> SUFFICES ASSUME Inv, [Next]_vars PROVE Inv'
  OBVIOUS
<1>1. CASE UNCHANGED vars
  <2>1. UNCHANGED <<transport, call, state, lookup, buffer, report, stream, wire, asked, lens, broken>>
    BY <1>1 DEF vars, coroutine, network
  <2>2. Types' /\ Types
    BY <2>1 DEF Inv, Types
  <2>3. ASSUME ~broken PROVE Clean' /\ Reported'
    <3>1. Clean /\ Reported
      BY <2>3 DEF Inv
    <3>2. Clean'
      BY <2>1, <3>1 DEF Clean, Current, Arrived, Query, Number, Pending
    <3>3. Reported'
      BY <2>1, <2>2, <3>1, KeepsReported
    <3> QED
      BY <3>2, <3>3
  <2> QED
    BY <2>1, <2>2, <2>3 DEF Inv
<1> QED
  BY <1>1, WriteInv, WriteFailsInv, ReadInv, ReadHttpInv, ReadEofInv, ReadFailsInv, AgainInv,
     AnswerInv, CloseInv DEF Next, Client, Pump

(* Every body reported is the whole answer to its own lookup.              *)
THEOREM OwnAnswerCorrect == Spec => []OwnAnswer
<1>1. Inv => OwnAnswer
  BY DEF Inv, Reported, OwnAnswer
<1> QED
  BY InitInv, NextInv, <1>1, PTL DEF Spec

(* A report is complete, or there is none.                                 *)
THEOREM AllOrNothingCorrect == Spec => []AllOrNothing
<1>1. Inv => AllOrNothing
  <2> SUFFICES ASSUME Inv PROVE AllOrNothing
    OBVIOUS
  <2>1. state = "failed" => report = <<>>
    BY DEF Inv, Types
  <2>2. ASSUME state = "done", ~broken
        PROVE  Len(report) = Lookups /\ Number(1) .. Number(Lookups) \subseteq DOMAIN lens
    <3>1. Types /\ Reported /\ Lookups \in Nat \ {0}
      BY <2>2, LookupsAssumption DEF Inv
    <3>2. Len(report) = Lookups /\ DOMAIN report = 1 .. Lookups
      BY <2>2, <3>1 DEF Reported
    <3> DEFINE base == (call - 1) * Lookups
    <3>3. base \in Nat /\ \A k \in Nat : Number(k) = base + k
      BY <3>1, Numbers
    <3> HIDE DEF base
    <3>4. ASSUME NEW j \in Number(1) .. Number(Lookups) PROVE j \in DOMAIN lens
      <4>1. j - base \in 1 .. Lookups /\ j - base \in Nat /\ base + (j - base) = j
        BY <3>1, <3>3
      <4>2. Number(j - base) = j
        BY <3>3, <4>1
      <4> QED
        BY <3>1, <3>2, <4>1, <4>2 DEF Reported
    <3> QED
      BY <3>2, <3>4
  <2> QED
    BY <2>1, <2>2 DEF AllOrNothing
<1> QED
  BY InitInv, NextInv, <1>1, PTL DEF Spec
=============================================================================
