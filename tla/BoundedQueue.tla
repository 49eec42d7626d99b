---------------------------- MODULE BoundedQueue ----------------------------
(***************************************************************************)
(* What SpscQueue promises to the two threads of HidForwarder: what the    *)
(* one offers is accepted at the end of a queue of Size places or, only    *)
(* while the queue is full, refused; the other one takes from its front.   *)
(***************************************************************************)
EXTENDS Naturals, Sequences

CONSTANTS Items,    \* what may be offered
          Size,     \* places of the queue
          None      \* nothing was taken yet

VARIABLES queue,    \* accepted and not taken
          offer,    \* what is offered: a sequence of at most one item
          last      \* what was taken last

vars == <<queue, offer, last>>

Init == queue = <<>> /\ offer = <<>> /\ last = None

Offer == /\ offer = <<>>
         /\ Len(offer') = 1 /\ offer'[1] \in Items
         /\ UNCHANGED <<queue, last>>

Accept == /\ offer # <<>> /\ Len(queue) < Size
          /\ queue' = queue \o offer /\ offer' = <<>>
          /\ UNCHANGED last

Refuse == /\ offer # <<>> /\ Len(queue) = Size
          /\ offer' = <<>>
          /\ UNCHANGED <<queue, last>>

Take == /\ queue # <<>>
        /\ queue' = Tail(queue) /\ last' = Head(queue)
        /\ UNCHANGED offer

Next == Offer \/ Accept \/ Refuse \/ Take

Spec == Init /\ [][Next]_vars
=============================================================================
