------------------------------- MODULE Gather -------------------------------
(***************************************************************************)
(* What a fan-out promises its caller, whichever way it is built: every    *)
(* task runs on a thread of its own, a slot holds nothing or what the task *)
(* of that slot returned, and the caller gets its slots back once nothing  *)
(* more can arrive or, under a deadline, once the deadline has passed.     *)
(*                                                                         *)
(* `collect_within' (module CollectWithin) implements this promise with    *)
(* detached threads and an mpsc channel; module Compose runs every one of  *)
(* its fan-outs on it.                                                     *)
(***************************************************************************)
CONSTANTS
  Values,    \* what a task may return
  None,      \* an empty slot
  Running,   \* outcome of a task that has not ended
  Panicked   \* outcome of a task whose thread panicked

VARIABLES
  outcome,   \* task -> how its thread ended, or Running
  results,   \* task -> the slot the caller reads
  expired,   \* has the deadline passed?
  returned   \* has the caller got its slots back?

vars == <<outcome, results, expired, returned>>

Tasks == DOMAIN outcome

(* A set T of tasks is handed over; Deadline::ZERO has expired already.    *)
Start(T) ==
  /\ outcome = [t \in T |-> Running]
  /\ results = [t \in T |-> None]
  /\ expired \in BOOLEAN
  /\ returned = FALSE

(* The thread of t ends, with a value or by panicking, before or after the *)
(* caller has stopped waiting.                                             *)
End(t, o) ==
  /\ outcome[t] = Running
  /\ outcome' = [outcome EXCEPT ![t] = o]
  /\ UNCHANGED <<results, expired, returned>>

(* The caller takes delivery of what t returned.                           *)
Deliver(t) ==
  /\ ~returned
  /\ results[t] = None
  /\ outcome[t] \notin {Running, Panicked}
  /\ results' = [results EXCEPT ![t] = outcome[t]]
  /\ UNCHANGED <<outcome, expired, returned>>

Expire ==
  /\ ~expired
  /\ expired' = TRUE
  /\ UNCHANGED <<outcome, results, returned>>

(* Nothing more can arrive: an empty slot is the slot of a dead thread.    *)
NothingLeft == \A t \in Tasks : results[t] # None \/ outcome[t] = Panicked

Return ==
  /\ ~returned
  /\ expired \/ NothingLeft
  /\ returned' = TRUE
  /\ UNCHANGED <<outcome, results, expired>>

Next ==
  \/ \E t \in Tasks, o \in Values \cup {Panicked} : End(t, o)
  \/ \E t \in Tasks : Deliver(t)
  \/ Expire
  \/ Return

(* The deadline is a duration, so it passes; the caller is never blocked   *)
(* past it. Nothing is promised of the tasks: an http(s) exchange may take *)
(* a minute per read to give up, a DNS one on a tcp stream never gives up. *)
Spec == Start(Tasks) /\ [][Next]_vars /\ WF_vars(Expire) /\ WF_vars(Return)
=============================================================================
