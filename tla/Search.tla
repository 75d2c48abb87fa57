------------------------------- MODULE Search -------------------------------
(***************************************************************************)
(* What a `first' command promises ("Lazy: nothing runs past the first     *)
(* hit", cli/domain.rs): candidates are asked one by one in their order,   *)
(* none is skipped, none is asked after one that found something, and the  *)
(* result is what the last one asked has found. A search may be refused    *)
(* before it starts. Module Commands implements it.                        *)
(***************************************************************************)
EXTENDS Naturals, Sequences

CONSTANTS
  Pending, Refused  \* no result yet, and no search at all

VARIABLES
  order,     \* candidates
  heard,     \* what the candidates asked so far have found
  result

vars == <<order, heard, result>>

Init == heard = <<>> /\ result = Pending

Hit == heard # <<>> /\ heard[Len(heard)] # {}
Exhausted == Len(heard) = Len(order)

(* The next candidate finds S; the result may be handed out at once.       *)
Ask ==
  /\ result = Pending /\ ~Hit /\ ~Exhausted
  /\ Len(heard') = Len(heard) + 1
  /\ heard' = Append(heard, heard'[Len(heard) + 1])
  /\ result' = IF Hit' \/ Exhausted' THEN heard'[Len(heard')] ELSE Pending
  /\ UNCHANGED order

Refuse ==
  /\ result = Pending /\ heard = <<>>
  /\ result' = Refused
  /\ UNCHANGED <<order, heard>>

Next == Ask \/ Refuse

Spec == Init /\ [][Next]_vars
=============================================================================
