---------------------------- MODULE FifoQueue ----------------------------
(***************************************************************************)
(* What EventQueue promises its two users: an unbounded FIFO queue whose   *)
(* operations are atomic.  The game thread pushes serialized events, the   *)
(* network thread takes them in the order they were pushed, each exactly   *)
(* once.  EventQueue.tla, with its mutex and its separate method steps, is *)
(* shown to implement this specification; NetworkHandler.tla uses its      *)
(* actions in place of the methods.                                        *)
(***************************************************************************)
EXTENDS Sequences

CONSTANT Event    \* the values of EventInfo that are pushed

VARIABLES
    queue,        \* events pushed and not yet taken, oldest first
    taken         \* history: the events handed to the network thread

vars == <<queue, taken>>

TypeOK == queue \in Seq(Event) /\ taken \in Seq(Event)

Init == queue = <<>> /\ taken = <<>>

\* EventQueue::PushEvent, as its caller sees it.
Push(e) == /\ queue' = Append(queue, e)
           /\ UNCHANGED taken

\* EventQueue::PopEvent on a queue that holds an event.
Pop == /\ queue # <<>>
       /\ taken' = Append(taken, Head(queue))
       /\ queue' = Tail(queue)

Next == Pop \/ \E e \in Event : Push(e)

Spec == Init /\ [][Next]_vars
=============================================================================
