--------------------------- MODULE TelemetryFeed ---------------------------
(***************************************************************************)
(* What the server promises the applications that connect to it: a client  *)
(* that joins is given the last frame that was broadcast before, so that   *)
(* it has a complete picture at once, and from then on every event that is *)
(* broadcast, in order, whole and without a gap, until it leaves.          *)
(*                                                                         *)
(* The specification says nothing of sockets, partial sends, time-outs,    *)
(* or of the order in which clients are served.  NetworkHandler.tla is     *)
(* shown to implement it.                                                  *)
(***************************************************************************)
EXTENDS Naturals, Sequences

CONSTANTS
    Client,       \* the applications
    Event,        \* what is broadcast
    Frame,        \* the events of type EVENT_FRAME
    NoFrame       \* the empty snapshot, sent before there has been a frame

VARIABLES
    log,          \* every event broadcast so far
    next,         \* per client, the index in log of the event it is owed next;
                  \* 0 when the client is not subscribed
    got           \* per client, the messages it has received whole

vars == <<log, next, got>>

Init ==
    /\ log = <<>>
    /\ next = [c \in Client |-> 0]
    /\ got = [c \in Client |-> <<>>]

\* The snapshot for a client that joins now.
LastFrame ==
    LET frames == {i \in DOMAIN log : log[i] \in Frame} IN
    IF frames = {} THEN NoFrame
    ELSE log[CHOOSE i \in frames : \A j \in frames : j <= i]

Publish(e) ==
    /\ log' = Append(log, e)
    /\ UNCHANGED <<next, got>>

\* A client subscribes once: an application that comes back is a new client.
Join(c) ==
    /\ next[c] = 0 /\ got[c] = <<>>
    /\ got' = [got EXCEPT ![c] = <<LastFrame>>]
    /\ next' = [next EXCEPT ![c] = Len(log) + 1]
    /\ UNCHANGED log

Deliver(c) ==
    /\ next[c] \in 1 .. Len(log)
    /\ got' = [got EXCEPT ![c] = Append(@, log[next[c]])]
    /\ next' = [next EXCEPT ![c] = @ + 1]
    /\ UNCHANGED log

\* Any number of clients leave: one that is gone or too slow, or all of them
\* when the plugin is shut down.
Leave(C) ==
    /\ next' = [c \in Client |-> IF c \in C THEN 0 ELSE next[c]]
    /\ UNCHANGED <<log, got>>

Next ==
    \/ \E e \in Event : Publish(e)
    \/ \E c \in Client : Join(c) \/ Deliver(c)
    \/ \E C \in SUBSET Client : Leave(C)

Spec == Init /\ [][Next]_vars
=============================================================================
