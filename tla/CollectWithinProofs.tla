------------------------ MODULE CollectWithinProofs ------------------------
(***************************************************************************)
(* Theorems about `collect_within' for any number of tasks, any deadline   *)
(* and any set of values. Liveness (Returns) is left to TLC.               *)
(***************************************************************************)
EXTENDS CollectWithin, FiniteSetTheorems, SequenceTheorems, TLAPS

USE SizeAssumption, ValuesAssumption

Filled == {i \in Tasks : results[i] # None}

(* Where the caller is, which threads exist, and how many messages it took.*)
Bookkeeping ==
  /\ pc # "spawn" => spawned = Count /\ ~tx
  /\ \A i \in Tasks : outcome[i] # Running => i <= spawned
  /\ polled = Cardinality(Filled)

IInv == TypeOK /\ Bookkeeping /\ OwnSlot /\ InFlight /\ NoEarlyLoss
-----------------------------------------------------------------------------
(* The channel as a sequence of messages: what its head, its tail and an   *)
(* appended message are.                                                   *)
LEMMA HeadMessage ==
  ASSUME chan \in Seq(Messages), chan # <<>>
  PROVE  /\ Head(chan) = chan[1] /\ 1 \in DOMAIN chan
         /\ Head(chan) \in Messages
         /\ Tail(chan) \in Seq(Messages)
         /\ DOMAIN Tail(chan) = 1 .. Len(chan) - 1
         /\ DOMAIN chan = 1 .. Len(chan)
         /\ Len(chan) \in Nat \ {0}
         /\ \A k \in DOMAIN Tail(chan) : Tail(chan)[k] = chan[k + 1]
  BY HeadTailProperties, EmptySeq, LenProperties

LEMMA AppendMessage ==
  ASSUME chan \in Seq(Messages), NEW m \in Messages
  PROVE  /\ Append(chan, m) \in Seq(Messages)
         /\ DOMAIN chan = 1 .. Len(chan)
         /\ DOMAIN Append(chan, m) = 1 .. Len(chan) + 1
         /\ Len(chan) \in Nat
         /\ \A k \in DOMAIN chan : Append(chan, m)[k] = chan[k]
         /\ Append(chan, m)[Len(chan) + 1] = m
  BY AppendProperties, LenProperties

LEMMA TasksFinite == IsFiniteSet(Tasks) /\ Cardinality(Tasks) = Count
  BY FS_Interval DEF Tasks

(* A loop that took one message per task has filled every slot.            *)
LEMMA AllFilled ==
  ASSUME TypeOK, Bookkeeping, polled = Count
  PROVE  \A i \in Tasks : results[i] # None
<1>1. Filled \in SUBSET Tasks
  BY DEF Filled
<1>2. Filled = Tasks
  BY <1>1, TasksFinite, FS_Subset DEF Bookkeeping
<1> QED
  BY <1>2 DEF Filled

(* Every variable stays in its range.                                      *)
THEOREM TypeCorrect == Spec => []TypeOK
<1>1. Init => TypeOK
  BY EmptySeq DEF Init, TypeOK
<1>2. TypeOK /\ [Next]_vars => TypeOK'
  <2> SUFFICES ASSUME TypeOK, [Next]_vars PROVE TypeOK'
    OBVIOUS
  <2> USE DEF TypeOK
  <2>1. CASE Spawn
    BY <2>1 DEF Spawn
  <2>2. CASE DropTx
    BY <2>2 DEF DropTx
  <2>3. CASE Poll
    BY <2>3 DEF Poll
  <2>4. CASE Recv
    BY <2>4, HeadMessage DEF Recv, Queued, Messages
  <2>5. CASE RecvErr
    BY <2>5 DEF RecvErr
  <2>6. ASSUME NEW i \in Tasks, NEW v \in Values, Send(i, v) PROVE TypeOK'
    <3>1. [index |-> i, value |-> v] \in Messages
      BY DEF Messages
    <3> QED
      BY <2>6, <3>1, AppendMessage DEF Send
  <2>7. ASSUME NEW i \in Tasks, Panic(i) PROVE TypeOK'
    BY <2>7 DEF Panic
  <2>8. CASE Tick
    BY <2>8 DEF Tick
  <2>9. CASE UNCHANGED vars
    BY <2>9 DEF vars
  <2> QED
    BY <2>1, <2>2, <2>3, <2>4, <2>5, <2>6, <2>7, <2>8, <2>9
    DEF Next, Caller, Thread
<1> QED
  BY <1>1, <1>2, PTL DEF Spec

-----------------------------------------------------------------------------
(* The parts of IInv one step at a time. Only a delivery or a message sent *)
(* disturbs the channel; only a delivery fills a slot.                     *)

LEMMA InitIInv == Init => IInv
<1> SUFFICES ASSUME Init PROVE IInv
  OBVIOUS
<1>1. TypeOK
  BY EmptySeq DEF Init, TypeOK
<1>2. Filled = {}
  BY DEF Init, Filled
<1>3. Bookkeeping
  BY <1>2, FS_EmptySet DEF Init, Bookkeeping
<1>4. OwnSlot /\ NoEarlyLoss
  BY DEF Init, OwnSlot, NoEarlyLoss
<1>5. InFlight
  <2>1. DOMAIN chan = {}
    BY EmptySeq DEF Init
  <2> QED
    BY <2>1 DEF Init, InFlight
<1> QED
  BY <1>1, <1>3, <1>4, <1>5 DEF IInv

LEMMA RecvStep == ASSUME IInv, TypeOK', Recv PROVE IInv'
<1> DEFINE m == Head(chan)
<1> USE DEF IInv, TypeOK
<1>1. /\ m = chan[1] /\ m \in Messages
      /\ DOMAIN chan = 1 .. Len(chan) /\ Len(chan) \in Nat \ {0}
      /\ DOMAIN chan' = 1 .. Len(chan) - 1
      /\ \A k \in DOMAIN chan' : chan'[k] = chan[k + 1]
  BY HeadMessage DEF Recv, Queued
<1>2. /\ m.index \in Tasks /\ m.value \in Values
      /\ outcome[m.index] = m.value /\ results[m.index] = None
  BY <1>1 DEF InFlight, Messages
<1>3. /\ results' = [results EXCEPT ![m.index] = m.value]
      /\ outcome' = outcome /\ spawned' = spawned /\ tx' = tx /\ left' = left
      /\ pc = "recv" /\ pc' = "poll" /\ polled' = polled + 1
  BY DEF Recv
<1>4. Bookkeeping'
  <2>1. Filled' = Filled \cup {m.index}
    BY <1>2, <1>3 DEF Filled
  <2>2. m.index \notin Filled /\ IsFiniteSet(Filled)
    BY <1>2, TasksFinite, FS_Subset DEF Filled
  <2>3. Cardinality(Filled') = Cardinality(Filled) + 1
    BY <2>1, <2>2, FS_AddElement
  <2> QED
    BY <1>3, <2>3 DEF Bookkeeping
<1>5. OwnSlot'
  BY <1>2, <1>3 DEF OwnSlot
<1>6. InFlight'
  <2>1. ASSUME NEW k \in DOMAIN chan'
        PROVE  /\ outcome'[chan'[k].index] = chan'[k].value
               /\ results'[chan'[k].index] = None
               /\ \A l \in DOMAIN chan' : chan'[k].index = chan'[l].index => k = l
    <3>1. k + 1 \in DOMAIN chan /\ k + 1 # 1 /\ chan'[k] = chan[k + 1]
      BY <1>1, <2>1
    <3>2. chan[k + 1].index # m.index
      BY <1>1, <3>1 DEF InFlight
    <3>3. chan[k + 1] \in Messages
      BY <1>1, <3>1, ElementOfSeq
    <3>4. \A l \in DOMAIN chan' : chan'[k].index = chan'[l].index => k = l
      <4> TAKE l \in DOMAIN chan'
      <4>1. l + 1 \in DOMAIN chan /\ chan'[l] = chan[l + 1]
        BY <1>1
      <4>2. chan'[k].index = chan'[l].index => k + 1 = l + 1
        BY <3>1, <4>1 DEF InFlight
      <4> QED
        BY <4>2, <1>1
    <3> QED
      BY <1>2, <1>3, <3>1, <3>2, <3>3, <3>4 DEF InFlight, Messages
  <2>2. ASSUME NEW i \in Tasks, outcome'[i] \in Values
        PROVE  results'[i] # None \/ \E k \in DOMAIN chan' : chan'[k].index = i
    <3>1. CASE i = m.index
      BY <1>2, <1>3, <3>1
    <3>2. CASE i # m.index /\ results[i] # None
      BY <1>3, <3>2
    <3>3. CASE i # m.index /\ results[i] = None
      <4>1. PICK k \in DOMAIN chan : chan[k].index = i
        BY <1>3, <2>2, <3>3 DEF InFlight
      <4>2. k # 1
        BY <1>1, <3>3, <4>1
      <4>3. k - 1 \in DOMAIN chan' /\ chan'[k - 1] = chan[k]
        BY <1>1, <4>2
      <4> QED
        BY <4>1, <4>3
    <3> QED
      BY <3>1, <3>2, <3>3
  <2> QED
    BY <2>1, <2>2 DEF InFlight
<1>7. NoEarlyLoss'
  BY <1>3 DEF NoEarlyLoss
<1> QED
  BY <1>4, <1>5, <1>6, <1>7

LEMMA SendStep ==
  ASSUME IInv, TypeOK', NEW i \in Tasks, NEW v \in Values, Send(i, v)
  PROVE  IInv'
<1> USE DEF IInv, TypeOK
<1> DEFINE m == [index |-> i, value |-> v]
<1>1. /\ i <= spawned /\ outcome[i] = Running
      /\ outcome' = [outcome EXCEPT ![i] = v]
      /\ pc' = pc /\ spawned' = spawned /\ tx' = tx /\ results' = results
      /\ polled' = polled /\ left' = left
  BY DEF Send, Alive
<1>2. results[i] = None
  BY DEF OwnSlot, Send, Alive
<1>3. Bookkeeping'
  <2>1. Filled' = Filled
    BY <1>1 DEF Filled
  <2> QED
    BY <1>1, <2>1 DEF Bookkeeping
<1>4. OwnSlot'
  BY <1>1, <1>2 DEF OwnSlot
<1>5. NoEarlyLoss'
  BY <1>1 DEF NoEarlyLoss
<1>6. \A k \in DOMAIN chan : chan[k].index # i
  <2> TAKE k \in DOMAIN chan
  <2>1. chan[k] \in Messages /\ outcome[chan[k].index] = chan[k].value
    BY ElementOfSeq, LenProperties DEF InFlight
  <2> QED
    BY <2>1, <1>1 DEF Messages
<1>7. CASE pc = "returned"
  <2>1. chan' = chan
    BY <1>7 DEF Send
  <2> QED
    BY <1>1, <1>3, <1>4, <1>5, <1>6, <1>7, <2>1 DEF InFlight
<1>8. CASE pc # "returned"
  <2>1. chan' = Append(chan, m) /\ m \in Messages
    BY <1>8 DEF Send, Messages
  <2>2. /\ DOMAIN chan = 1 .. Len(chan) /\ Len(chan) \in Nat
        /\ DOMAIN chan' = 1 .. Len(chan) + 1
        /\ \A k \in DOMAIN chan : chan'[k] = chan[k]
        /\ chan'[Len(chan) + 1] = m
    BY <2>1, AppendMessage
  <2>3. ASSUME NEW k \in DOMAIN chan'
        PROVE  /\ outcome'[chan'[k].index] = chan'[k].value
               /\ results'[chan'[k].index] = None
               /\ \A l \in DOMAIN chan' : chan'[k].index = chan'[l].index => k = l
    <3>1. CASE k = Len(chan) + 1
      BY <1>1, <1>2, <1>6, <2>2, <3>1
    <3>2. CASE k \in DOMAIN chan
      BY <1>1, <1>6, <2>2, <3>2, SMTT(30)
         DEF InFlight
    <3> QED
      BY <2>2, <3>1, <3>2
  <2>4. ASSUME NEW j \in Tasks, outcome'[j] \in Values
        PROVE  results'[j] # None \/ \E k \in DOMAIN chan' : chan'[k].index = j
    <3>1. CASE j = i
      <4>1. Len(chan) + 1 \in DOMAIN chan' /\ chan'[Len(chan) + 1].index = j
        BY <2>2, <3>1
      <4> QED
        BY <4>1
    <3>2. CASE j # i
      BY <1>1, <1>8, <2>2, <2>4, <3>2 DEF InFlight
    <3> QED
      BY <3>1, <3>2
  <2> QED
    BY <1>3, <1>4, <1>5, <2>3, <2>4 DEF InFlight
<1> QED
  BY <1>7, <1>8

LEMMA PanicStep ==
  ASSUME IInv, TypeOK', NEW i \in Tasks, Panic(i) PROVE IInv'
<1> USE DEF IInv, TypeOK
<1>1. /\ i <= spawned /\ outcome[i] = Running
      /\ outcome' = [outcome EXCEPT ![i] = Panicked]
      /\ pc' = pc /\ spawned' = spawned /\ tx' = tx /\ results' = results
      /\ polled' = polled /\ left' = left /\ chan' = chan
  BY DEF Panic, Alive
<1>2. results[i] = None
  BY <1>1 DEF OwnSlot
<1>3. Bookkeeping'
  <2>1. Filled' = Filled
    BY <1>1 DEF Filled
  <2> QED
    BY <1>1, <2>1 DEF Bookkeeping
<1>4. OwnSlot' /\ NoEarlyLoss'
  BY <1>1, <1>2 DEF OwnSlot, NoEarlyLoss
<1>5. \A k \in DOMAIN chan : chan[k] \in Messages /\ chan[k].index # i
  <2> TAKE k \in DOMAIN chan
  <2>1. chan[k] \in Messages /\ outcome[chan[k].index] = chan[k].value
    BY ElementOfSeq, LenProperties DEF InFlight
  <2> QED
    BY <2>1, <1>1 DEF Messages
<1>6. InFlight'
  BY <1>1, <1>5 DEF InFlight
<1> QED
  BY <1>3, <1>4, <1>6

(* The two ways out of the loop before the deadline: a message per task,   *)
(* or no sender left and nothing queued.                                   *)
LEMMA LoopStep == ASSUME IInv, TypeOK', Poll \/ RecvErr PROVE IInv'
<1> USE DEF IInv, TypeOK
<1>1. /\ UNCHANGED <<spawned, tx, outcome, chan, results, polled, left>>
      /\ pc \in {"poll", "recv"} /\ pc' \in {"recv", "returned"}
  BY DEF Poll, RecvErr
<1>2. Bookkeeping' /\ OwnSlot' /\ InFlight'
  BY <1>1 DEF Bookkeeping, OwnSlot, InFlight, Filled
<1>3. NoEarlyLoss'
  <2> SUFFICES ASSUME pc' = "returned", left > 0, NEW i \in Tasks, results[i] = None
               PROVE  outcome[i] = Panicked
    BY <1>1 DEF NoEarlyLoss
  <2>1. CASE Poll
    <3>1. polled = Count
      BY <2>1 DEF Poll
    <3> QED
      BY <3>1, AllFilled
  <2>2. CASE RecvErr
    <3>1. chan = <<>> /\ Disconnected /\ pc = "recv"
      BY <2>2 DEF RecvErr, Fails, Queued
    <3>2. outcome[i] # Running
      BY <3>1 DEF Disconnected, Alive, Bookkeeping, Tasks
    <3>3. outcome[i] \notin Values
      BY <3>1, EmptySeq DEF InFlight
    <3> QED
      BY <3>2, <3>3
  <2> QED
    BY <2>1, <2>2
<1> QED
  BY <1>2, <1>3

LEMMA SetupStep ==
  ASSUME IInv, TypeOK', Spawn \/ DropTx \/ Tick \/ UNCHANGED vars PROVE IInv'
<1> USE DEF IInv, TypeOK
<1>1. /\ UNCHANGED <<outcome, chan, results, polled>>
      /\ spawned' \in {spawned, spawned + 1}
      /\ pc' = "returned" => pc = "returned"
      /\ pc' # "returned" => pc # "returned"
      /\ left' > 0 => left > 0
  BY DEF Spawn, DropTx, Tick, vars
<1>2. Bookkeeping'
  <2>1. Filled' = Filled
    BY <1>1 DEF Filled
  <2>2. pc' # "spawn" => spawned' = Count /\ ~tx'
    BY DEF Spawn, DropTx, Tick, vars, Bookkeeping
  <2> QED
    BY <1>1, <2>1, <2>2 DEF Bookkeeping, Tasks
<1> QED
  BY <1>1, <1>2 DEF OwnSlot, InFlight, NoEarlyLoss

(* The properties hold with the bookkeeping that makes them inductive.     *)
THEOREM Inductive == Spec => []IInv
<1>1. IInv /\ TypeOK' /\ [Next]_vars => IInv'
  BY SetupStep, LoopStep, RecvStep, SendStep, PanicStep
  DEF Next, Caller, Thread
<1> QED
  BY <1>1, InitIInv, TypeCorrect, PTL DEF Spec

(* A slot only ever holds what the task of that slot returned.             *)
THEOREM SlotsAreOwn == Spec => []OwnSlot
BY Inductive, PTL DEF IInv

(* No result is duplicated, or lost while the caller waits.                *)
THEOREM ResultsInFlight == Spec => []InFlight
BY Inductive, PTL DEF IInv

(* Only the deadline loses a result; before it, an empty slot is a panic.  *)
THEOREM OnlyTheDeadlineLoses == Spec => []NoEarlyLoss
BY Inductive, PTL DEF IInv

(* Once every thread has ended the caller never blocks: it has dropped its *)
(* spare sender before its first wait.                                     *)
THEOREM NeverWaitsForNobodyCorrect == Spec => []NeverWaitsForNobody
<1>1. IInv => NeverWaitsForNobody
  BY DEF IInv, Bookkeeping, NeverWaitsForNobody, Blocked, Fails, Disconnected, Alive
<1> QED
  BY <1>1, Inductive, PTL

-----------------------------------------------------------------------------
(* Every step keeps the promise of module Gather (its safety part): it is  *)
(* a step of Gather on outcome, results, `left = 0' and `pc = "returned"', *)
(* or leaves all four unchanged.                                           *)
LEMMA StepKeepsPromise ==
  ASSUME IInv, TypeOK', [Next]_vars PROVE [Promise!Next]_(Promise!vars)
<1> USE DEF IInv, TypeOK
<1> USE DEF Promise!Next, Promise!vars, Promise!Tasks
<1>0. DOMAIN outcome = Tasks
  OBVIOUS
<1>1. CASE Spawn \/ DropTx \/ UNCHANGED vars
  BY <1>1 DEF Spawn, DropTx, vars
<1>2. CASE Poll \/ RecvErr
  <2>1. /\ UNCHANGED <<outcome, results, left>>
        /\ pc # "returned" /\ pc' \in {"recv", "returned"}
    BY <1>2 DEF Poll, RecvErr
  <2>2. CASE pc' = "recv"
    BY <2>1, <2>2
  <2>3. CASE pc' = "returned"
    <3>1. NoEarlyLoss'
      BY <1>2, LoopStep
    <3>2. left = 0 \/ \A i \in Tasks : results[i] # None \/ outcome[i] = Panicked
      BY <2>1, <2>3, <3>1 DEF NoEarlyLoss
    <3>3. Promise!Return
      BY <2>1, <2>3, <3>2, <1>0 DEF Promise!Return, Promise!NothingLeft
    <3> QED
      BY <3>3
  <2> QED
    BY <2>1, <2>2, <2>3
<1>3. CASE Recv
  <2> DEFINE i == Head(chan).index
  <2>1. /\ i \in Tasks /\ Head(chan).value = outcome[i]
        /\ outcome[i] \in Values /\ results[i] = None
    BY <1>3, HeadMessage DEF Recv, Queued, InFlight, Messages
  <2>2. Promise!Deliver(i)
    BY <1>3, <2>1 DEF Recv, Promise!Deliver
  <2> QED
    BY <2>1, <2>2, <1>0
<1>4. ASSUME NEW i \in Tasks, Thread(i) PROVE \E o \in Values \cup {Panicked} : Promise!End(i, o)
  BY <1>4 DEF Thread, Send, Panic, Alive, Promise!End
<1>5. CASE Tick
  <2>1. /\ UNCHANGED <<outcome, results, pc>> /\ left > 0 /\ left' = left - 1
    BY <1>5 DEF Tick
  <2>2. CASE left' = 0
    BY <2>1, <2>2 DEF Promise!Expire
  <2>3. CASE left' # 0
    BY <2>1, <2>3
  <2> QED
    BY <2>2, <2>3
<1> QED
  BY <1>0, <1>1, <1>2, <1>3, <1>4, <1>5 DEF Next, Caller

(* `collect_within' implements the promise of a bounded fan-out.           *)
THEOREM ImplementsGather ==
  Spec => Promise!Start(Tasks) /\ [][Promise!Next]_(Promise!vars)
<1>1. Init => Promise!Start(Tasks)
  BY DEF Init, Promise!Start
<1>2. IInv /\ TypeOK' /\ [Next]_vars => [Promise!Next]_(Promise!vars)
  BY StepKeepsPromise
<1> QED
  BY <1>1, <1>2, Inductive, TypeCorrect, PTL DEF Spec

-----------------------------------------------------------------------------
(* What Gather keeps: a slot is empty or holds what its task returned, and *)
(* slots handed back in time miss only tasks that panicked.                *)
Promised ==
  /\ DOMAIN outcome = Tasks /\ DOMAIN results = Tasks
  /\ \A i \in Tasks :
       results[i] = None \/ (results[i] = outcome[i] /\ outcome[i] \notin {Running, Panicked})
  /\ pc = "returned" /\ left # 0 =>
       \A i \in Tasks : results[i] = None => outcome[i] = Panicked

(* The promise of Gather is worth what its callers rely on: own slots, and *)
(* no loss before the deadline, follow from it alone, however it is kept.  *)
THEOREM PromiseIsEnough ==
  Promise!Start(Tasks) /\ [][Promise!Next]_(Promise!vars) => []Promised
<1>1. Promise!Start(Tasks) => Promised
  BY DEF Promise!Start, Promised
<1>2. Promised /\ [Promise!Next]_(Promise!vars) => Promised'
  <2> SUFFICES ASSUME Promised, [Promise!Next]_(Promise!vars) PROVE Promised'
    OBVIOUS
  <2>0. Promise!Tasks = Tasks
    BY DEF Promised, Promise!Tasks
  <2>1. ASSUME NEW t \in Tasks, NEW o \in Values \cup {Panicked}, Promise!End(t, o)
        PROVE  Promised'
    <3>1. /\ outcome[t] = Running /\ outcome' = [outcome EXCEPT ![t] = o]
          /\ results' = results
      BY <2>1 DEF Promise!End
    <3>2. results[t] = None
      BY <3>1 DEF Promised
    <3>3. /\ DOMAIN outcome' = Tasks
          /\ \A i \in Tasks : outcome'[i] = IF i = t THEN o ELSE outcome[i]
      BY <3>1 DEF Promised
    <3>4. ASSUME NEW i \in Tasks, results'[i] # None
          PROVE  results'[i] = outcome'[i] /\ outcome'[i] \notin {Running, Panicked}
      <4>1. results[i] # None /\ i # t
        BY <3>1, <3>2, <3>4
      <4>2. outcome'[i] = outcome[i] /\ results'[i] = results[i]
        BY <3>1, <3>3, <4>1
      <4> QED
        BY <4>1, <4>2 DEF Promised
    <3>5. (pc = "returned" /\ left # 0)' => pc = "returned" /\ left # 0
      BY <2>1, Zenon DEF Promise!End
    <3>6. ASSUME (pc = "returned" /\ left # 0)', NEW i \in Tasks, results'[i] = None
          PROVE  outcome'[i] = Panicked
      <4>1. \A j \in Tasks : results[j] = None => outcome[j] = Panicked
        BY <3>5, <3>6 DEF Promised
      <4>2. FALSE
        BY <3>1, <3>2, <4>1
      <4> QED
        BY <4>2
    <3>7. DOMAIN results' = Tasks
      BY <3>1 DEF Promised
    <3> QED
      BY <3>3, <3>4, <3>6, <3>7 DEF Promised
  <2>2. ASSUME NEW t \in Tasks, Promise!Deliver(t) PROVE Promised'
    BY <2>2 DEF Promise!Deliver, Promised
  <2>3. CASE Promise!Expire
    BY <2>3 DEF Promise!Expire, Promised
  <2>4. CASE Promise!Return
    BY <2>0, <2>4 DEF Promise!Return, Promise!NothingLeft, Promised
  <2>5. CASE UNCHANGED Promise!vars
    BY <2>5 DEF Promise!vars, Promised
  <2> QED
    BY <2>0, <2>1, <2>2, <2>3, <2>4, <2>5 DEF Promise!Next
<1> QED
  BY <1>1, <1>2, PTL
=============================================================================
