------------------------------ MODULE EventFifo ------------------------------
(***************************************************************************)
(* What the queue between the collectors and the GUI promises: values come *)
(* out once each, in the order they went in, until the queue is thrown     *)
(* away with whatever it still holds.                                      *)
(***************************************************************************)
EXTENDS Sequences

CONSTANT Values

VARIABLES queue, delivered, open

Init == queue = <<>> /\ delivered = <<>> /\ open = TRUE

Put(v) == /\ queue' = Append(queue, v)
          /\ UNCHANGED <<delivered, open>>

Take == /\ queue # <<>>
        /\ queue' = Tail(queue)
        /\ delivered' = Append(delivered, Head(queue))
        /\ UNCHANGED open

Discard == /\ open' = FALSE
           /\ queue' = <<>>
           /\ UNCHANGED delivered

Next == open /\ ((\E v \in Values : Put(v)) \/ Take \/ Discard)

Spec == Init /\ [][Next]_<<queue, delivered, open>>
==============================================================================
