------------------------- MODULE EventQueueProofs -------------------------
(***************************************************************************)
(* Proofs about EventQueue for every set of producers, every set of events *)
(* and every bound: type correctness, the ownership of the mutex, that     *)
(* PopEvent never meets an empty queue, and that the three methods         *)
(* implement the atomic queue of FifoQueue.                                *)
(***************************************************************************)
EXTENDS EventQueue, TLAPS

\* Producers only run PushEvent, the network thread only IsEmpty and PopEvent.
Placed ==
    /\ \A p \in Producers : pc[p] \in {"idle", "push_lock"} \cup PushSection
    /\ pc[Net] \in {"idle", "empty_lock", "test", "pop_lock", "got"} \cup PopSection

\* A producer that still has to push holds a real event.
EventSet ==
    \A p \in Producers : pc[p] \in {"push_lock", "push_body"} => event[p] \in Event

\* Every pass of checkQueue's loop has an event to send: it never breaks.
EveryPopDelivers == pc[Net] \in {"pop_unlock", "got"} => poppedEvent \in Event

\* The inductive invariant.
IInv ==
    /\ TypeOK
    /\ Placed
    /\ EventSet
    /\ MutexOwner
    /\ NoPopOnEmpty
    /\ EveryPopDelivers

\* Every step is a step of one thread.
LEMMA NextSteps ==
    ASSUME Next
    PROVE  \/ \E p \in Producers : \/ PushLock(p) \/ PushBody(p) \/ PushUnlock(p)
                                   \/ \E e \in Event : PushCall(p, e)
           \/ NetStep
BY DEF Next, PushStep

\* The invariant holds initially: nobody is inside a method.
LEMMA InitIInv == Init => IInv
BY NetAssumption, FreeAssumption
   DEF Init, IInv, TypeOK, Placed, EventSet, MutexOwner, NoPopOnEmpty,
       EveryPopDelivers, Threads, PushSection, PopSection

\* The types survive every step.
LEMMA TypeStep == IInv /\ [Next]_vars => TypeOK'
<1> SUFFICES ASSUME IInv, [Next]_vars
             PROVE  TypeOK'
  OBVIOUS
<1> USE NetAssumption, FreeAssumption, EventAssumption
    DEF IInv, TypeOK, Threads, PushSection, PopSection, GoTo, Lock, Unlock
<1>1. ASSUME NEW p \in Producers, NEW e \in Event, PushCall(p, e) PROVE TypeOK'
  BY <1>1 DEF PushCall
<1>2. ASSUME NEW p \in Producers, PushLock(p) PROVE TypeOK'
  BY <1>2 DEF PushLock
<1>3. ASSUME NEW p \in Producers, PushBody(p) PROVE TypeOK'
  BY <1>3 DEF PushBody, EventSet
<1>4. ASSUME NEW p \in Producers, PushUnlock(p) PROVE TypeOK'
  BY <1>4 DEF PushUnlock
<1>5. CASE CheckQueue      BY <1>5 DEF CheckQueue
<1>6. CASE IsEmptyLock     BY <1>6 DEF IsEmptyLock
<1>7. CASE IsEmptyBody     BY <1>7 DEF IsEmptyBody
<1>8. CASE IsEmptyUnlock   BY <1>8 DEF IsEmptyUnlock
<1>9. CASE TestEmpty       BY <1>9 DEF TestEmpty
<1>10. CASE PopLock        BY <1>10 DEF PopLock
<1>11. CASE PopBody        BY <1>11 DEF PopBody
<1>12. CASE PopUnlock      BY <1>12 DEF PopUnlock
<1>13. CASE UseEvent       BY <1>13 DEF UseEvent
<1>14. CASE UNCHANGED vars BY <1>14 DEF vars
<1> QED
  BY <1>1, <1>2, <1>3, <1>4, <1>5, <1>6, <1>7, <1>8, <1>9, <1>10, <1>11,
     <1>12, <1>13, <1>14, NextSteps DEF NetStep

\* Every thread stays inside the methods it calls, and the argument of a push
\* stays set until it is pushed.
LEMMA PlacedStep == IInv /\ [Next]_vars => Placed' /\ EventSet'
<1> SUFFICES ASSUME IInv, [Next]_vars
             PROVE  Placed' /\ EventSet'
  OBVIOUS
<1> USE NetAssumption
    DEF IInv, TypeOK, Placed, EventSet, Threads, PushSection, PopSection, GoTo,
        Lock, Unlock
<1>1. ASSUME NEW p \in Producers, NEW e \in Event, PushCall(p, e)
      PROVE  Placed' /\ EventSet'
  BY <1>1 DEF PushCall
<1>2. ASSUME NEW p \in Producers, PushLock(p) PROVE Placed' /\ EventSet'
  BY <1>2 DEF PushLock
<1>3. ASSUME NEW p \in Producers, PushBody(p) PROVE Placed' /\ EventSet'
  BY <1>3 DEF PushBody
<1>4. ASSUME NEW p \in Producers, PushUnlock(p) PROVE Placed' /\ EventSet'
  BY <1>4 DEF PushUnlock
<1>5. CASE CheckQueue      BY <1>5 DEF CheckQueue
<1>6. CASE IsEmptyLock     BY <1>6 DEF IsEmptyLock
<1>7. CASE IsEmptyBody     BY <1>7 DEF IsEmptyBody
<1>8. CASE IsEmptyUnlock   BY <1>8 DEF IsEmptyUnlock
<1>9. CASE TestEmpty       BY <1>9 DEF TestEmpty
<1>10. CASE PopLock        BY <1>10 DEF PopLock
<1>11. CASE PopBody        BY <1>11 DEF PopBody
<1>12. CASE PopUnlock      BY <1>12 DEF PopUnlock
<1>13. CASE UseEvent       BY <1>13 DEF UseEvent
<1>14. CASE UNCHANGED vars BY <1>14 DEF vars
<1> QED
  BY <1>1, <1>2, <1>3, <1>4, <1>5, <1>6, <1>7, <1>8, <1>9, <1>10, <1>11,
     <1>12, <1>13, <1>14, NextSteps DEF NetStep

\* Every lock() finds the mutex free and every unlock() is the owner's; the
\* early return of PopBody is the one way out of a critical section with the
\* mutex held, and NoPopOnEmpty excludes it.
LEMMA MutexStep == IInv /\ [Next]_vars => MutexOwner'
<1> SUFFICES ASSUME IInv, [Next]_vars
             PROVE  MutexOwner'
  OBVIOUS
<1> USE NetAssumption, FreeAssumption
    DEF IInv, TypeOK, Placed, MutexOwner, Threads, PushSection, PopSection, GoTo,
        Lock, Unlock
<1>1. ASSUME NEW p \in Producers, NEW e \in Event, PushCall(p, e) PROVE MutexOwner'
  BY <1>1 DEF PushCall
<1>2. ASSUME NEW p \in Producers, PushLock(p) PROVE MutexOwner'
  BY <1>2 DEF PushLock
<1>3. ASSUME NEW p \in Producers, PushBody(p) PROVE MutexOwner'
  BY <1>3 DEF PushBody
<1>4. ASSUME NEW p \in Producers, PushUnlock(p) PROVE MutexOwner'
  BY <1>4 DEF PushUnlock
<1>5. CASE CheckQueue      BY <1>5 DEF CheckQueue
<1>6. CASE IsEmptyLock     BY <1>6 DEF IsEmptyLock
<1>7. CASE IsEmptyBody     BY <1>7 DEF IsEmptyBody
<1>8. CASE IsEmptyUnlock   BY <1>8 DEF IsEmptyUnlock
<1>9. CASE TestEmpty       BY <1>9 DEF TestEmpty
<1>10. CASE PopLock        BY <1>10 DEF PopLock
<1>11. CASE PopBody
  <2>1. m_serializedEvents # <<>>
    BY <1>11 DEF PopBody, NoPopOnEmpty
  <2> QED BY <1>11, <2>1 DEF PopBody
<1>12. CASE PopUnlock      BY <1>12 DEF PopUnlock
<1>13. CASE UseEvent       BY <1>13 DEF UseEvent
<1>14. CASE UNCHANGED vars BY <1>14 DEF vars
<1> QED
  BY <1>1, <1>2, <1>3, <1>4, <1>5, <1>6, <1>7, <1>8, <1>9, <1>10, <1>11,
     <1>12, <1>13, <1>14, NextSteps DEF NetStep

\* Only the network thread removes events, so what IsEmpty told it stays true.
LEMMA NonEmptyStep == IInv /\ [Next]_vars => NoPopOnEmpty' /\ EveryPopDelivers'
<1> SUFFICES ASSUME IInv, [Next]_vars
             PROVE  NoPopOnEmpty' /\ EveryPopDelivers'
  OBVIOUS
<1> USE NetAssumption
    DEF IInv, TypeOK, Placed, NoPopOnEmpty, EveryPopDelivers, Threads,
        PushSection, PopSection, GoTo, Lock, Unlock
<1>1. ASSUME NEW p \in Producers, NEW e \in Event, PushCall(p, e)
      PROVE  NoPopOnEmpty' /\ EveryPopDelivers'
  BY <1>1 DEF PushCall
<1>2. ASSUME NEW p \in Producers, PushLock(p)
      PROVE  NoPopOnEmpty' /\ EveryPopDelivers'
  BY <1>2 DEF PushLock
<1>3. ASSUME NEW p \in Producers, PushBody(p)
      PROVE  NoPopOnEmpty' /\ EveryPopDelivers'
  <2>1. event[p] \in Event
    BY <1>3 DEF PushBody, EventSet
  <2>2. Append(m_serializedEvents, event[p]) # <<>>
    BY <2>1
  <2> QED BY <1>3, <2>2 DEF PushBody
<1>4. ASSUME NEW p \in Producers, PushUnlock(p)
      PROVE  NoPopOnEmpty' /\ EveryPopDelivers'
  BY <1>4 DEF PushUnlock
<1>5. CASE CheckQueue      BY <1>5 DEF CheckQueue
<1>6. CASE IsEmptyLock     BY <1>6 DEF IsEmptyLock
<1>7. CASE IsEmptyBody     BY <1>7 DEF IsEmptyBody
<1>8. CASE IsEmptyUnlock   BY <1>8 DEF IsEmptyUnlock
<1>9. CASE TestEmpty       BY <1>9 DEF TestEmpty
<1>10. CASE PopLock        BY <1>10 DEF PopLock
<1>11. CASE PopBody
  <2>1. m_serializedEvents # <<>> /\ Head(m_serializedEvents) \in Event
    BY <1>11 DEF PopBody
  <2> QED BY <1>11, <2>1 DEF PopBody
<1>12. CASE PopUnlock      BY <1>12 DEF PopUnlock
<1>13. CASE UseEvent       BY <1>13 DEF UseEvent
<1>14. CASE UNCHANGED vars BY <1>14 DEF vars
<1> QED
  BY <1>1, <1>2, <1>3, <1>4, <1>5, <1>6, <1>7, <1>8, <1>9, <1>10, <1>11,
     <1>12, <1>13, <1>14, NextSteps DEF NetStep

\* The inductive invariant holds throughout.
THEOREM Invariance == Spec => []IInv
<1>1. IInv /\ [Next]_vars => IInv'
  BY TypeStep, PlacedStep, MutexStep, NonEmptyStep DEF IInv
<1> QED BY InitIInv, <1>1, PTL DEF Spec

\* Type correctness of EventQueue.
THEOREM TypeCorrect == Spec => []TypeOK
<1>1. IInv => TypeOK  BY DEF IInv
<1> QED BY Invariance, <1>1, PTL

\* The mutex is held exactly by the thread inside a critical section: mutual
\* exclusion, and no method returns with the mutex locked.
THEOREM MutexSafe == Spec => []MutexOwner
<1>1. IInv => MutexOwner  BY DEF IInv
<1> QED BY Invariance, <1>1, PTL

\* PopEvent never takes the early return that would keep the mutex locked.
THEOREM NeverPopsEmpty == Spec => []NoPopOnEmpty
<1>1. IInv => NoPopOnEmpty  BY DEF IInv
<1> QED BY Invariance, <1>1, PTL

-----------------------------------------------------------------------------
\* The history that implements FifoQueue's.
Taken == IF pc[Net] \in {"pop_unlock", "got"} /\ poppedEvent # NoEvent
         THEN Append(taken, poppedEvent)
         ELSE taken

\* Every step of the methods is a push, a pop or no step of the abstract queue.
LEMMA QueueStep == IInv /\ [Next]_vars => [Queue!Next]_(Queue!vars)
<1> SUFFICES ASSUME IInv, [Next]_vars
             PROVE  [Queue!Next]_(Queue!vars)
  OBVIOUS
<1>u. UNCHANGED <<m_serializedEvents, Taken>> => UNCHANGED Queue!vars
  BY DEF Queue!vars, Taken
<1> USE NetAssumption
    DEF IInv, TypeOK, Placed, Threads, PushSection, PopSection, GoTo, Lock, Unlock
<1>1. ASSUME NEW p \in Producers, NEW e \in Event, PushCall(p, e)
      PROVE  UNCHANGED <<m_serializedEvents, Taken>>
  BY <1>1 DEF PushCall, Taken
<1>2. ASSUME NEW p \in Producers, PushLock(p)
      PROVE  UNCHANGED <<m_serializedEvents, Taken>>
  BY <1>2 DEF PushLock, Taken
<1>3. ASSUME NEW p \in Producers, PushBody(p)
      PROVE  Queue!Next
  <2>1. event[p] \in Event
    BY <1>3 DEF PushBody, EventSet
  <2>2. UNCHANGED Taken
    BY <1>3 DEF PushBody, Taken
  <2>3. Queue!Push(event[p])
    BY <1>3, <2>2 DEF PushBody, Queue!Push, Taken
  <2> QED BY <2>1, <2>3 DEF Queue!Next
<1>4. ASSUME NEW p \in Producers, PushUnlock(p)
      PROVE  UNCHANGED <<m_serializedEvents, Taken>>
  BY <1>4 DEF PushUnlock, Taken
<1>5. CASE CheckQueue
  BY <1>u, <1>5 DEF CheckQueue, Taken
<1>6. CASE IsEmptyLock
  BY <1>u, <1>6 DEF IsEmptyLock, Taken
<1>7. CASE IsEmptyBody
  BY <1>u, <1>7 DEF IsEmptyBody, Taken
<1>8. CASE IsEmptyUnlock
  BY <1>u, <1>8 DEF IsEmptyUnlock, Taken
<1>9. CASE TestEmpty
  BY <1>u, <1>9 DEF TestEmpty, Taken
<1>10. CASE PopLock
  BY <1>u, <1>10 DEF PopLock, Taken
<1>11. CASE PopBody
  <2>1. m_serializedEvents # <<>> /\ Head(m_serializedEvents) \in Event
    BY <1>11 DEF PopBody, NoPopOnEmpty
  <2>2. /\ m_serializedEvents' = Tail(m_serializedEvents)
        /\ Taken = taken
        /\ Taken' = Append(taken, Head(m_serializedEvents))
    BY <1>11, <2>1, EventAssumption DEF PopBody, Taken
  <2>3. Queue!Pop
    BY <2>1, <2>2 DEF Queue!Pop, Taken
  <2> QED BY <2>3 DEF Queue!Next
<1>12. CASE PopUnlock
  BY <1>u, <1>12 DEF PopUnlock, Taken
<1>13. CASE UseEvent
  <2>1. poppedEvent \in Event /\ poppedEvent # NoEvent
    BY <1>13, EventAssumption DEF UseEvent, EveryPopDelivers
  <2>2. Taken' = Taken
    BY <1>13, <2>1 DEF UseEvent, Taken
  <2> QED BY <1>u, <1>13, <2>2 DEF UseEvent
<1>14. CASE UNCHANGED vars
  BY <1>u, <1>14 DEF vars, Taken
<1> QED
  BY <1>u, <1>1, <1>2, <1>3, <1>4, <1>5, <1>6, <1>7, <1>8, <1>9, <1>10, <1>11,
     <1>12, <1>13, <1>14, NextSteps DEF NetStep

\* The methods of EventQueue, with their locks, implement the atomic queue:
\* what the network thread takes is what the producers pushed, in order and
\* exactly once.
THEOREM RefinesFifo == Spec => ImplementsFifo
<1>1. Init => Queue!Init
  BY DEF Init, Queue!Init, Threads
<1> QED BY <1>1, QueueStep, Invariance, PTL DEF Spec, ImplementsFifo, Queue!Spec
=============================================================================
