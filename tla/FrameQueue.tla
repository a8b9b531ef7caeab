----------------------------- MODULE FrameQueue -----------------------------
(***************************************************************************)
(* What a Dorsche media edge promises its two users, with no slots, no     *)
(* cursors and no wakeups: a bounded first-in first-out queue of frames.   *)
(* The reader borrows the oldest frame and gives its place back later; the *)
(* borrowed frame still occupies capacity, which is how a slow reader      *)
(* exerts backpressure.  A writer that finds the queue full loses its      *)
(* frame, and only then is the loss counted.                               *)
(***************************************************************************)
EXTENDS Naturals, Sequences

CONSTANTS Frames,      \* the frames a writer may publish
          Capacity,    \* places in the queue
          CountModulus \* the loss counter wraps at this value

VARIABLES queue,   \* published frames, oldest first, the borrowed one included
          lent,    \* TRUE while the reader borrows Head(queue)
          dropped  \* frames refused because the queue was full

vars == <<queue, lent, dropped>>

Init == queue = <<>> /\ lent = FALSE /\ dropped = 0

Enqueue(f) ==
  /\ Len(queue) < Capacity
  /\ queue' = Append(queue, f)
  /\ UNCHANGED <<lent, dropped>>

Refuse ==
  /\ Len(queue) = Capacity
  /\ dropped' = (dropped + 1) % CountModulus
  /\ UNCHANGED <<queue, lent>>

Lend ==
  /\ queue # <<>>
  /\ ~lent
  /\ lent' = TRUE
  /\ UNCHANGED <<queue, dropped>>

GiveBack ==
  /\ lent
  /\ lent' = FALSE
  /\ queue' = Tail(queue)
  /\ UNCHANGED dropped

Next == (\E f \in Frames : Enqueue(f)) \/ Refuse \/ Lend \/ GiveBack

Spec == Init /\ [][Next]_vars
=============================================================================
