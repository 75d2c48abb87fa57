--------------------------- MODULE CollectWithin ---------------------------
(***************************************************************************)
(* `collect_within' (compose/client.rs): the bounded fan-out of a compose. *)
(* The caller spawns one detached thread per task, drops its spare sender, *)
(* and receives `(index, value)' pairs until every slot is filled, every   *)
(* sender is gone or the deadline has passed. Threads are never cancelled: *)
(* one that outlives the call sends to a channel without a receiver.       *)
(***************************************************************************)
EXTENDS Integers, Sequences, FiniteSets

CONSTANTS
  Count,     \* number of tasks
  Deadline,  \* the wait the caller allows, in clock ticks
  Values, None, Running, Panicked

ASSUME SizeAssumption == Count \in Nat /\ Deadline \in Nat

ASSUME ValuesAssumption ==
  /\ {None, Running, Panicked} \cap Values = {}
  /\ None # Running /\ None # Panicked /\ Running # Panicked

Tasks == 1 .. Count

VARIABLES
  pc,        \* the caller: "spawn", "poll", "recv" or "returned"
  spawned,   \* threads spawned so far
  tx,        \* does the caller still hold its spare sender?
  outcome,   \* task -> Running (also before its spawn), Panicked or a value
  chan,      \* the channel: a FIFO of [index, value]
  results,   \* task -> the slot returned to the caller
  polled,    \* iterations of the receive loop that took a message
  left       \* what remains of the deadline, counted from `until'

vars == <<pc, spawned, tx, outcome, chan, results, polled, left>>

Alive(i) == i <= spawned /\ outcome[i] = Running

(* No sender is left: the spare one is dropped and no thread can send.     *)
Disconnected == ~tx /\ \A i \in Tasks : ~Alive(i)

(* `recv_timeout' has a message to deliver; or a reason to fail: the time  *)
(* is up (a message that slips in at that very instant may be missed), or  *)
(* every sender is gone and the channel is drained. Else it blocks.        *)
Queued == chan # <<>>
Fails == left = 0 \/ (~Queued /\ Disconnected)
Blocked == pc = "recv" /\ ~Queued /\ ~Fails

Init ==
  /\ pc = "spawn"
  /\ spawned = 0
  /\ tx = TRUE
  /\ outcome = [i \in Tasks |-> Running]
  /\ chan = <<>>
  /\ results = [i \in Tasks |-> None]
  /\ polled = 0
  /\ left = Deadline

(***************************************************************************)
(* The caller.                                                             *)
(***************************************************************************)

Spawn ==
  /\ pc = "spawn"
  /\ spawned < Count
  /\ spawned' = spawned + 1
  /\ UNCHANGED <<pc, tx, outcome, chan, results, polled, left>>

(* Plausible bug: the spare sender is kept.                                *)
DropTxKept ==
  /\ pc = "spawn"
  /\ spawned = Count
  /\ pc' = "poll"
  /\ UNCHANGED <<spawned, tx, outcome, chan, results, polled, left>>

(* `drop(tx)', then `until = now + deadline'.                              *)
DropTx ==
  /\ pc = "spawn"
  /\ spawned = Count
  /\ tx' = FALSE
  /\ pc' = "poll"
  /\ UNCHANGED <<spawned, outcome, chan, results, polled, left>>

(* Plausible bug: the loop ends one message early.                         *)
PollOffByOne ==
  /\ pc = "poll"
  /\ pc' = IF polled + 1 >= Count \/ left = 0 THEN "returned" ELSE "recv"
  /\ UNCHANGED <<spawned, tx, outcome, chan, results, polled, left>>

(* The head of the loop: leave it after `count' messages or when nothing   *)
(* remains of the deadline, even if results are queued; else block.        *)
Poll ==
  /\ pc = "poll"
  /\ pc' = IF polled = Count \/ left = 0 THEN "returned" ELSE "recv"
  /\ UNCHANGED <<spawned, tx, outcome, chan, results, polled, left>>

(* Plausible bugs: slots in completion order (the n-th message fills the   *)
(* n-th slot); a result that comes with the deadline is thrown away.       *)
RecvInOrder ==
  /\ pc = "recv"
  /\ Queued
  /\ results' = [results EXCEPT ![polled + 1] = Head(chan).value]
  /\ chan' = Tail(chan)
  /\ polled' = polled + 1
  /\ pc' = "poll"
  /\ UNCHANGED <<spawned, tx, outcome, left>>

RecvDropsLate ==
  /\ pc = "recv"
  /\ Queued
  /\ results' = IF left = 0 THEN results
                ELSE [results EXCEPT ![Head(chan).index] = Head(chan).value]
  /\ chan' = Tail(chan)
  /\ polled' = polled + 1
  /\ pc' = "poll"
  /\ UNCHANGED <<spawned, tx, outcome, left>>

(* `recv_timeout' delivers the oldest message.                             *)
Recv ==
  /\ pc = "recv"
  /\ Queued
  /\ results' = [results EXCEPT ![Head(chan).index] = Head(chan).value]
  /\ chan' = Tail(chan)
  /\ polled' = polled + 1
  /\ pc' = "poll"
  /\ UNCHANGED <<spawned, tx, outcome, left>>

(* Plausible bugs: an empty channel is taken for a disconnected one; no    *)
(* timeout on the wait.                                                    *)
RecvErrEmpty ==
  /\ pc = "recv"
  /\ left = 0 \/ ~Queued
  /\ pc' = "returned"
  /\ UNCHANGED <<spawned, tx, outcome, chan, results, polled, left>>

RecvErrNoTimeout ==
  /\ pc = "recv"
  /\ ~Queued /\ Disconnected
  /\ pc' = "returned"
  /\ UNCHANGED <<spawned, tx, outcome, chan, results, polled, left>>

RecvErr ==
  /\ pc = "recv"
  /\ Fails
  /\ pc' = "returned"
  /\ UNCHANGED <<spawned, tx, outcome, chan, results, polled, left>>

Caller == Spawn \/ DropTx \/ Poll \/ Recv \/ RecvErr

(***************************************************************************)
(* The threads and the clock.                                              *)
(***************************************************************************)

(* A task returns v; the send fails, silently, once the receiver is gone.  *)
Send(i, v) ==
  /\ Alive(i)
  /\ outcome' = [outcome EXCEPT ![i] = v]
  /\ chan' = IF pc = "returned" THEN chan
             ELSE Append(chan, [index |-> i, value |-> v])
  /\ UNCHANGED <<pc, spawned, tx, results, polled, left>>

(* A panic unwinds the thread, dropping its sender without a send.         *)
Panic(i) ==
  /\ Alive(i)
  /\ outcome' = [outcome EXCEPT ![i] = Panicked]
  /\ UNCHANGED <<pc, spawned, tx, chan, results, polled, left>>

(* Plausible bug: the subtraction runs below zero instead of saturating.   *)
TickUnbounded ==
  /\ pc # "spawn"
  /\ left > -2
  /\ left' = left - 1
  /\ UNCHANGED <<pc, spawned, tx, outcome, chan, results, polled>>

(* The time that passes before `until' is read does not count.             *)
Tick ==
  /\ pc # "spawn"
  /\ left > 0
  /\ left' = left - 1
  /\ UNCHANGED <<pc, spawned, tx, outcome, chan, results, polled>>

Thread(i) == Panic(i) \/ \E v \in Values : Send(i, v)

Next ==
  \/ Caller
  \/ \E i \in Tasks : Thread(i)
  \/ Tick

(* The calling thread and the clock make progress; the tasks may hang.     *)
Spec == Init /\ [][Next]_vars /\ WF_vars(Caller) /\ WF_vars(Tick)

-----------------------------------------------------------------------------
Messages == [index : Tasks, value : Values]

(* Every variable stays in its range.                                      *)
TypeOK ==
  /\ pc \in {"spawn", "poll", "recv", "returned"}
  /\ spawned \in 0 .. Count
  /\ tx \in BOOLEAN
  /\ outcome \in [Tasks -> Values \cup {Running, Panicked}]
  /\ chan \in Seq(Messages)
  /\ results \in [Tasks -> Values \cup {None}]
  /\ polled \in Nat
  /\ left \in 0 .. Deadline

(* "Order matches the input, never completion order": whatever the order   *)
(* in which threads report, a slot holds what its own task returned.       *)
OwnSlot == \A i \in Tasks : results[i] \in {None, outcome[i]}

(* A result is never duplicated and, while the caller waits, never lost:   *)
(* from its send on it is queued exactly once or in its slot, not both.    *)
InFlight ==
  /\ \A k \in DOMAIN chan :
       /\ outcome[chan[k].index] = chan[k].value
       /\ results[chan[k].index] = None
       /\ \A l \in DOMAIN chan : chan[k].index = chan[l].index => k = l
  /\ \A i \in Tasks :
       pc # "returned" /\ outcome[i] \in Values =>
         results[i] # None \/ \E k \in DOMAIN chan : chan[k].index = i

(* Dropping results is the behaviour of the deadline and of nothing else:  *)
(* a call that returns in time has an empty slot only for a thread that    *)
(* panicked. A loop that counted wrongly, or took a queued channel for a   *)
(* disconnected one, would lose a result that had arrived.                 *)
NoEarlyLoss ==
  pc = "returned" /\ left > 0 =>
    \A i \in Tasks : results[i] = None => outcome[i] = Panicked

(* The slots are the promise the caller relies on (module Gather).         *)
Promise == INSTANCE Gather WITH
  expired <- left = 0, returned <- pc = "returned"

(* The receive loop, its channel and its early exits keep the promise of   *)
(* a bounded fan-out: it fills slots with their own task's output, and it  *)
(* returns when the deadline has passed or nothing more can arrive.        *)
GatherSpec == Promise!Spec

(* The deadline is for tasks that hang: once every thread has ended, be it *)
(* by a panic, the caller does not block until the clock has run down: the *)
(* channel it waits on is fed or disconnected.                             *)
NeverWaitsForNobody == (\A i \in Tasks : outcome[i] # Running) => ~Blocked

(* No unreachable endpoint can hold the caller: it returns although every  *)
(* task may hang.                                                          *)
Returns == <>(pc = "returned")
=============================================================================
