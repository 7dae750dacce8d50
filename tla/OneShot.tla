------------------------------ MODULE OneShot ------------------------------
(***************************************************************************)
(* What a stream of events promises its reader and those who await its     *)
(* result: the reader takes every event that was accepted, once and in     *)
(* order, and is told of the end after the last; a final event, or the     *)
(* producer's word, ends the stream; the outcome is settled once, by the   *)
(* final event if there is one.                                            *)
(*                                                                         *)
(* Who awaits the result may abandon it, and then it is abandoned for      *)
(* all: a final event that comes later ends nothing (Spoil).               *)
(***************************************************************************)
EXTENDS Naturals, Sequences

CONSTANT Event        \* records with a field final and a field n

VARIABLES events,     \* what was accepted
          taken,      \* how many of them the reader has
          ended,      \* is nothing accepted any more?
          over,       \* has the reader been told of the end?
          outcome     \* "pending", "abandoned", "set" and by which event

vars == <<events, taken, ended, over, outcome>>

Pending   == [state |-> "pending", of |-> 0]
Abandoned == [state |-> "abandoned", of |-> 0]
SetBy(n)  == [state |-> "set", of |-> n]

Init ==
  /\ events = <<>> /\ taken = 0
  /\ ended = FALSE /\ over = FALSE
  /\ outcome = Pending

Accept(e) ==
  /\ ~ended /\ ~e.final
  /\ events' = Append(events, e)
  /\ UNCHANGED <<taken, ended, over, outcome>>

Complete(e) ==
  /\ ~ended /\ e.final /\ outcome = Pending
  /\ events' = Append(events, e)
  /\ ended' = TRUE
  /\ outcome' = SetBy(e.n)
  /\ UNCHANGED <<taken, over>>

Spoil(e) ==
  /\ ~ended /\ e.final /\ outcome = Abandoned
  /\ events' = Append(events, e)
  /\ UNCHANGED <<taken, ended, over, outcome>>

Close ==
  /\ ~ended
  /\ ended' = TRUE
  /\ outcome' \in IF outcome = Pending THEN {Pending, SetBy(0)} ELSE {outcome}
  /\ UNCHANGED <<events, taken, over>>

Abandon ==
  /\ outcome = Pending
  /\ outcome' = Abandoned
  /\ UNCHANGED <<events, taken, ended, over>>

Take ==
  /\ taken < Len(events)
  /\ taken' = taken + 1
  /\ UNCHANGED <<events, ended, over, outcome>>

Over ==
  /\ ended /\ ~over /\ taken = Len(events)
  /\ over' = TRUE
  /\ UNCHANGED <<events, taken, ended, outcome>>

Next ==
  \/ \E e \in Event : Accept(e) \/ Complete(e) \/ Spoil(e)
  \/ Close \/ Abandon \/ Take \/ Over

Spec == Init /\ [][Next]_vars
=============================================================================
