----------------------------- MODULE CommandFifo -----------------------------
(***************************************************************************)
(* What CommunicationObject promises the command thread: a producer /      *)
(* consumer buffer ("the worker threads are the producers, the get_command *)
(* method is the consumer", CommunicationObject.h) that holds at most      *)
(* Capacity commands and hands them out once each, in the order in which   *)
(* they were put in.                                                       *)
(***************************************************************************)
EXTENDS Naturals, Sequences

CONSTANTS Messages, Capacity

VARIABLES
  stored,   \* every command put in so far, oldest first
  taken     \* every command handed to the command thread so far

Init ==
  /\ stored = <<>>
  /\ taken = <<>>

Put(m) ==
  /\ Len(stored) - Len(taken) < Capacity
  /\ stored' = Append(stored, m)
  /\ UNCHANGED taken

Take ==
  /\ Len(taken) < Len(stored)
  /\ taken' = Append(taken, stored[Len(taken) + 1])
  /\ UNCHANGED stored

Next == Take \/ \E m \in Messages : Put(m)

Spec == Init /\ [][Next]_<<stored, taken>>
==============================================================================
