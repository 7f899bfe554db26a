----------------------------- MODULE EventFifo -----------------------------
(***************************************************************************)
(* What queue_event promises: events, numbered in the order they are       *)
(* queued, leave in that order, each once, either taken by the guest or    *)
(* lost.  VmxEvents implements this.                                       *)
(***************************************************************************)
EXTENDS Naturals, Sequences

VARIABLES
  next,      \* number of the next event
  waiting,   \* events queued and not yet gone
  taken      \* events the guest took, in order

fifoVars == <<next, waiting, taken>>

Init == next = 1 /\ waiting = <<>> /\ taken = <<>>

Put ==
  /\ waiting' = Append(waiting, next)
  /\ next' = next + 1
  /\ UNCHANGED taken

Take ==
  /\ waiting # <<>>
  /\ taken' = Append(taken, Head(waiting))
  /\ waiting' = Tail(waiting)
  /\ UNCHANGED next

Lose ==
  /\ waiting # <<>>
  /\ waiting' = Tail(waiting)
  /\ UNCHANGED <<next, taken>>

Spec == Init /\ [][Put \/ Take \/ Lose]_fifoVars
=============================================================================
