----------------------------- MODULE EventFifo -----------------------------
(***************************************************************************)
(* What the button queue of a SurviveContext promises: a bounded queue     *)
(* between the thread that parses device packets and the thread that calls *)
(* the button hook.  An event that finds room is appended; events come out *)
(* in the order they went in, each one once; an event that finds the queue *)
(* full never enters it, or, where the reader's index is torn, is lost     *)
(* with all that is queued.  When the context closes, the rest is lost.    *)
(***************************************************************************)
EXTENDS Naturals, Sequences

CONSTANTS Events,    \* the events a device can report
          Capacity   \* how many events fit

VARIABLES q,         \* accepted and not yet delivered
          out        \* the last event delivered, << >> before the first

fifoVars == <<q, out>>

Init == q = <<>> /\ out = <<>>

Send(e) ==
  /\ Len(q) < Capacity
  /\ q' = Append(q, e)
  /\ UNCHANGED out

Deliver ==
  /\ q # <<>>
  /\ out' = <<Head(q)>>
  /\ q' = Tail(q)

Overrun ==
  /\ Len(q) = Capacity
  /\ q' = <<>>
  /\ UNCHANGED out

Next == (\E e \in Events : Send(e)) \/ Deliver \/ Overrun

Spec == Init /\ [][Next]_fifoVars
=============================================================================
