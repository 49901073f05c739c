----------------------------- MODULE EventQueue -----------------------------
(***************************************************************************)
(* What a collector promises: a bounded FIFO of decoded events between     *)
(* many producers and one consumer.  When it is full, an event is either   *)
(* refused room until the consumer made some, or it costs the oldest one,  *)
(* which is counted.  Collector implements this with a ring buffer, a      *)
(* mutex and one condition variable.                                       *)
(***************************************************************************)
EXTENDS Integers, Sequences

CONSTANTS
  Events,   \* what may be queued
  Cap       \* how many of them

VARIABLES
  events,   \* the queued events, oldest first
  lost,     \* how many events were discarded to make room
  surfaced  \* how many events the consumer took

vars == <<events, lost, surfaced>>

Init == events = <<>> /\ lost = 0 /\ surfaced = 0

Put(e) ==
  /\ Len(events) < Cap
  /\ events' = Append(events, e)
  /\ UNCHANGED <<lost, surfaced>>

\* The newest events survive.
PutOverOldest(e) ==
  /\ Len(events) = Cap
  /\ events' = Append(Tail(events), e)
  /\ lost' = lost + 1
  /\ UNCHANGED surfaced

Take ==
  /\ events # <<>>
  /\ events' = Tail(events)
  /\ surfaced' = surfaced + 1
  /\ UNCHANGED lost

Next == (\E e \in Events : Put(e) \/ PutOverOldest(e)) \/ Take

Spec == Init /\ [][Next]_vars
=============================================================================
