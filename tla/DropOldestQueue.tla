-------------------------- MODULE DropOldestQueue --------------------------
(***************************************************************************)
(* What the event buffer of the simple API promises its application: a     *)
(* bounded queue that never refuses an event.  An event that finds it full *)
(* pushes the oldest one out; what is left comes out in the order it went  *)
(* in, each event once.                                                    *)
(***************************************************************************)
EXTENDS Naturals, Sequences

CONSTANTS Events,    \* what can be queued
          Capacity   \* how many events are kept

VARIABLES q,         \* the events kept, oldest first
          taken      \* the last event taken out, << >> before the first

queueVars == <<q, taken>>

Init == q = <<>> /\ taken = <<>>

Put(e) ==
  /\ q' = IF Len(q) < Capacity THEN Append(q, e) ELSE Append(Tail(q), e)
  /\ UNCHANGED taken

Take ==
  /\ q # <<>>
  /\ taken' = <<Head(q)>>
  /\ q' = Tail(q)

Next == (\E e \in Events : Put(e)) \/ Take

Spec == Init /\ [][Next]_queueVars
=============================================================================
