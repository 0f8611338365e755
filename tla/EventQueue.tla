---------------------------- MODULE EventQueue ----------------------------
(***************************************************************************)
(* src/event_queue.cpp: a std::queue guarded by a std::mutex that is       *)
(* locked and unlocked by hand, used by the threads that push (in the      *)
(* plugin: the game thread, from telemetry_frame_end and from              *)
(* telemetry_gameplay) and by the one thread that pops (the network        *)
(* thread, from the loop of NetworkHandler::checkQueue).                   *)
(*                                                                         *)
(* Every method is split at its lock and its unlock.  PopEvent returns     *)
(* from the middle of its critical section when the queue is empty, with   *)
(* the mutex still locked.  Whether that return can be reached depends on  *)
(* what other threads do between the IsEmpty and the PopEvent of           *)
(* checkQueue, two critical sections and not one.                          *)
(***************************************************************************)
EXTENDS Naturals, Sequences

CONSTANTS
    Producers,    \* the threads that call PushEvent
    Net,          \* the network thread, the only one that calls PopEvent
    Event,        \* the events that are pushed
    NoEvent,      \* the EventInfo of `return {}`: both strings empty
    Free,         \* the value of m_mutex when no thread holds it
    MaxPushes     \* bound of the model: no push starts after so many events

ASSUME NetAssumption == Net \notin Producers
ASSUME EventAssumption == NoEvent \notin Event
ASSUME FreeAssumption == Free \notin Producers \cup {Net}
ASSUME MaxPushesAssumption == MaxPushes \in Nat

VARIABLES
    m_serializedEvents,  \* std::queue<EventInfo>, oldest first
    m_mutex,             \* the thread that locked the std::mutex, or Free
    pc,                  \* where each thread is
    event,               \* the local EventInfo of each producer's PushEvent
    isEmpty,             \* the local bool of IsEmpty and then its result
    poppedEvent,         \* the result of PopEvent in checkQueue
    taken                \* history: the events checkQueue went on to send

vars == <<m_serializedEvents, m_mutex, pc, event, isEmpty, poppedEvent, taken>>

Threads == Producers \cup {Net}

\* Program points inside PushEvent's critical section.
PushSection == {"push_body", "push_unlock"}
\* Program points of the network thread inside a critical section.
PopSection == {"empty_body", "empty_unlock", "pop_body", "pop_unlock"}

TypeOK ==
    /\ m_serializedEvents \in Seq(Event)
    /\ m_mutex \in Threads \cup {Free}
    /\ pc \in [Threads -> {"idle", "push_lock", "empty_lock", "test",
                           "pop_lock", "got"} \cup PushSection \cup PopSection]
    /\ event \in [Producers -> Event \cup {NoEvent}]
    /\ isEmpty \in BOOLEAN
    /\ poppedEvent \in Event \cup {NoEvent}
    /\ taken \in Seq(Event)

Init ==
    /\ m_serializedEvents = <<>>
    /\ m_mutex = Free
    /\ pc = [t \in Threads |-> "idle"]
    /\ event = [p \in Producers |-> NoEvent]
    /\ isEmpty = TRUE
    /\ poppedEvent = NoEvent
    /\ taken = <<>>

-----------------------------------------------------------------------------
\* m_mutex.lock() and m_mutex.unlock(), and the move to the next program point.
GoTo(t, from, to) == pc[t] = from /\ pc' = [pc EXCEPT ![t] = to]

Lock(t, from, to) ==
    /\ GoTo(t, from, to)
    /\ m_mutex = Free
    /\ m_mutex' = t
    /\ UNCHANGED <<m_serializedEvents, event, isEmpty, poppedEvent, taken>>

Unlock(t, from, to) ==
    /\ GoTo(t, from, to)
    /\ m_mutex' = Free
    /\ UNCHANGED <<m_serializedEvents, event, isEmpty, poppedEvent, taken>>

-----------------------------------------------------------------------------
(* PushEvent *)

PushCall(p, e) ==
    /\ Len(m_serializedEvents) + Len(taken) < MaxPushes
    /\ GoTo(p, "idle", "push_lock")
    /\ event' = [event EXCEPT ![p] = e]
    /\ UNCHANGED <<m_serializedEvents, m_mutex, isEmpty, poppedEvent, taken>>

PushLock(p) == Lock(p, "push_lock", "push_body")

\* Fault: the local EventInfo is pushed before its fields are assigned.
PushBodyUnset(p) ==
    /\ GoTo(p, "push_body", "push_unlock")
    /\ m_serializedEvents' = Append(m_serializedEvents, NoEvent)
    /\ UNCHANGED <<m_mutex, event, isEmpty, poppedEvent, taken>>

PushBody(p) ==
    /\ GoTo(p, "push_body", "push_unlock")
    /\ m_serializedEvents' = Append(m_serializedEvents, event[p])
    /\ UNCHANGED <<m_mutex, event, isEmpty, poppedEvent, taken>>

\* Fault: the unlock() at the end of PushEvent is forgotten.
PushUnlockForgotten(p) ==
    /\ GoTo(p, "push_unlock", "idle")
    /\ event' = [event EXCEPT ![p] = NoEvent]
    /\ UNCHANGED <<m_serializedEvents, m_mutex, isEmpty, poppedEvent, taken>>

PushUnlock(p) ==
    /\ GoTo(p, "push_unlock", "idle")
    /\ m_mutex' = Free
    /\ event' = [event EXCEPT ![p] = NoEvent]
    /\ UNCHANGED <<m_serializedEvents, isEmpty, poppedEvent, taken>>

-----------------------------------------------------------------------------
(* checkQueue: while(!IsEmpty()) { PopEvent(); if(type == "") break; ... } *)

CheckQueue ==
    /\ GoTo(Net, "idle", "empty_lock")
    /\ UNCHANGED <<m_serializedEvents, m_mutex, event, isEmpty, poppedEvent, taken>>

IsEmptyLock == Lock(Net, "empty_lock", "empty_body")

IsEmptyBody ==
    /\ GoTo(Net, "empty_body", "empty_unlock")
    /\ isEmpty' = (m_serializedEvents = <<>>)
    /\ UNCHANGED <<m_serializedEvents, m_mutex, event, poppedEvent, taken>>

IsEmptyUnlock == Unlock(Net, "empty_unlock", "test")

\* Fault: checkQueue serves one event and leaves the rest for ever.
TestEmptyOnce ==
    /\ GoTo(Net, "test", IF isEmpty \/ taken # <<>> THEN "idle" ELSE "pop_lock")
    /\ UNCHANGED <<m_serializedEvents, m_mutex, event, isEmpty, poppedEvent, taken>>

\* The loop condition: leave checkQueue, or call PopEvent.
TestEmpty ==
    /\ GoTo(Net, "test", IF isEmpty THEN "idle" ELSE "pop_lock")
    /\ UNCHANGED <<m_serializedEvents, m_mutex, event, isEmpty, poppedEvent, taken>>

PopLock == Lock(Net, "pop_lock", "pop_body")

\* Fault: front() without pop().
PopBodyKeeps ==
    /\ GoTo(Net, "pop_body", "pop_unlock")
    /\ m_serializedEvents # <<>>
    /\ poppedEvent' = Head(m_serializedEvents)
    /\ UNCHANGED <<m_serializedEvents, m_mutex, event, isEmpty, taken>>

\* On an empty queue the method returns here: the caller goes on with an
\* EventInfo of empty strings and m_mutex stays locked.
PopBody ==
    /\ LET empty == m_serializedEvents = <<>> IN
       /\ GoTo(Net, "pop_body", IF empty THEN "got" ELSE "pop_unlock")
       /\ poppedEvent' = IF empty THEN NoEvent ELSE Head(m_serializedEvents)
       /\ m_serializedEvents' = IF empty THEN <<>> ELSE Tail(m_serializedEvents)
    /\ UNCHANGED <<m_mutex, event, isEmpty, taken>>

\* Fault: PopEvent returns the event with the mutex still locked.
PopUnlockForgotten ==
    /\ GoTo(Net, "pop_unlock", "got")
    /\ UNCHANGED <<m_serializedEvents, m_mutex, event, isEmpty, poppedEvent, taken>>

PopUnlock == Unlock(Net, "pop_unlock", "got")

\* Fault: the queue is not tested again before the next PopEvent.
UseEventPopsAgain ==
    /\ GoTo(Net, "got", IF poppedEvent = NoEvent THEN "idle" ELSE "pop_lock")
    /\ taken' = IF poppedEvent = NoEvent THEN taken ELSE Append(taken, poppedEvent)
    /\ poppedEvent' = NoEvent
    /\ UNCHANGED <<m_serializedEvents, m_mutex, event, isEmpty>>

\* Back in checkQueue: break on an empty type, otherwise broadcast the event
\* (NetworkHandler.tla says how) and test the queue again.
UseEvent ==
    /\ GoTo(Net, "got", IF poppedEvent = NoEvent THEN "idle" ELSE "empty_lock")
    /\ taken' = IF poppedEvent = NoEvent THEN taken ELSE Append(taken, poppedEvent)
    /\ poppedEvent' = NoEvent
    /\ UNCHANGED <<m_serializedEvents, m_mutex, event, isEmpty>>

-----------------------------------------------------------------------------
PushStep(p) == PushLock(p) \/ PushBody(p) \/ PushUnlock(p)

NetStep == \/ CheckQueue \/ IsEmptyLock \/ IsEmptyBody \/ IsEmptyUnlock
           \/ TestEmpty \/ PopLock \/ PopBody \/ PopUnlock \/ UseEvent

Next ==
    \/ \E p \in Producers : PushStep(p) \/ \E e \in Event : PushCall(p, e)
    \/ NetStep

Spec == Init /\ [][Next]_vars

(***************************************************************************)
(* Every thread that can run is eventually scheduled; nothing makes the    *)
(* game call PushEvent, and nothing makes the std::mutex fair: a thread    *)
(* that is never at lock() at a moment when the mutex is free may wait for *)
(* ever.                                                                   *)
(***************************************************************************)
FairSpec ==
    /\ Spec
    /\ WF_vars(NetStep)
    /\ \A p \in Producers : WF_vars(PushStep(p))

-----------------------------------------------------------------------------
(* Properties *)

\* The mutex is held by the thread that is inside a critical section, and by
\* no other: no two threads are inside at once, and no thread has left a
\* method with the mutex locked.
MutexOwner ==
    \A t \in Threads : (m_mutex = t) <=> (pc[t] \in PushSection \cup PopSection)

\* PopEvent never takes its early return: from the moment IsEmpty has
\* answered "no" until PopEvent has removed an event, the queue holds one.
\* Otherwise `return {}` would leave the mutex locked for ever.
NoPopOnEmpty ==
    \/ pc[Net] \in {"pop_lock", "pop_body"}
    \/ pc[Net] \in {"empty_unlock", "test"} /\ ~isEmpty
    => m_serializedEvents # <<>>

\* The abstract queue: PopEvent takes effect when it removes the front element,
\* so the event it is about to return already counts as taken.
Queue == INSTANCE FifoQueue WITH
    queue <- m_serializedEvents,
    taken <- IF pc[Net] \in {"pop_unlock", "got"} /\ poppedEvent # NoEvent
             THEN Append(taken, poppedEvent)
             ELSE taken

\* The three methods, with their locks, implement an atomic FIFO queue: no
\* event is lost, duplicated, reordered or made up, however the threads
\* interleave.
ImplementsFifo == Queue!Spec

\* Whoever locks the mutex unlocks it: neither thread blocks the other for
\* ever inside a method.
MutexReleased == \A t \in Threads : (m_mutex = t) ~> (m_mutex # t)

\* When the game stops pushing, the network thread ends up with an empty queue
\* and has been given everything that was in it.
DrainsWhenQuiet ==
    <>[](\A p \in Producers : pc[p] = "idle")
        => <>[](m_serializedEvents = <<>> /\ poppedEvent = NoEvent)
=============================================================================
