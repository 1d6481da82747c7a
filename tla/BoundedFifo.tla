----------------------------- MODULE BoundedFifo -----------------------------
(***************************************************************************)
(* A bounded first-in first-out queue that can be closed: what SpscQueue   *)
(* is to its producer and its consumer.  Closing tells the other side that *)
(* it need not wait any longer; it neither empties the queue nor stops a   *)
(* push that finds room.                                                   *)
(***************************************************************************)
EXTENDS Naturals, Sequences

CONSTANTS Capacity, Values

VARIABLES items, closed

fvars == <<items, closed>>

FInit ==
  /\ items = <<>>
  /\ closed = FALSE

Put(v) ==
  /\ Len(items) < Capacity
  /\ items' = Append(items, v)
  /\ UNCHANGED closed

Get ==
  /\ items # <<>>
  /\ items' = Tail(items)
  /\ UNCHANGED closed

Shut ==
  /\ closed' = TRUE
  /\ UNCHANGED items

FNext == (\E v \in Values : Put(v)) \/ Get \/ Shut

\* A step of a system that implements this one.
FStep == [FNext]_fvars

FSpec == FInit /\ [][FNext]_fvars
=============================================================================
