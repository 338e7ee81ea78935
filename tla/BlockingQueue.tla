---------------------------- MODULE BlockingQueue ----------------------------
(***************************************************************************)
(* xfutil::BlockingQueue (include/xfutil/queue.h): a deque behind one      *)
(* mutex with two condition variables.  Every step below is one critical   *)
(* section: a thread that holds m_mutex runs without interference until it *)
(* returns or sleeps.  A thread is                                         *)
(*   "idle"     outside the queue,                                         *)
(*   "ready"    in a call that has not locked m_mutex yet,                 *)
(*   "waiting"  asleep in wait or wait_for,                                *)
(*   "woken"    out of its wait, about to lock m_mutex again.              *)
(* A sleeper is woken by notify_one, spuriously, or by its timer; wait_for *)
(* compares the clock with the deadline after m_mutex is locked again, so  *)
(* a timed thread may report a timeout however it was woken.               *)
(***************************************************************************)
EXTENDS Integers, Sequences, FiniteSets

CONSTANTS Threads,      \* the threads that call the queue
          Items,        \* the values pushed
          Ops,          \* the operations these threads call
          Capacities,   \* the arguments SetCapacity is called with
          InitCapacity  \* the capacity given to the constructor

PushOps == {"Push", "PushFront", "PushTimed", "TryPush"}
PopOps == {"Pop", "PopTimed", "TryPop"}

ASSUME ConstantsAssumption ==
    /\ IsFiniteSet(Threads)
    /\ Items \cap {"none", "ok", "failed"} = {}
    /\ Ops \subseteq PushOps \cup PopOps
    /\ Capacities \subseteq Nat
    /\ InitCapacity \in Nat

VARIABLES m_queue,    \* the deque, front first
          m_capacity,
          pc,         \* where each thread is
          call,       \* the call each thread is in: operation and argument
          ret,        \* what each thread's latest call returned
          lapses      \* history: what left a wake-up unused

vars == <<m_queue, m_capacity, pc, call, ret, lapses>>

NoCall == [op |-> "none", v |-> "none"]
Calls == [op : Ops \cap PushOps, v : Items] \cup [op : Ops \cap PopOps, v : {"none"}]

\* A timed call gave up although it could have been served; the capacity
\* was raised while a pusher slept.
Lapses == {"push_gave_up", "pop_gave_up", "capacity_raised"}

TypeOK ==
    /\ m_queue \in Seq(Items)
    /\ m_capacity \in Nat
    /\ pc \in [Threads -> {"idle", "ready", "waiting", "woken"}]
    /\ call \in [Threads -> Calls \cup {NoCall}]
    /\ ret \in [Threads -> Items \cup {"none", "ok", "failed"}]
    /\ lapses \in SUBSET Lapses

Init ==
    /\ m_queue = <<>>
    /\ m_capacity = InitCapacity
    /\ pc = [t \in Threads |-> "idle"]
    /\ call = [t \in Threads |-> NoCall]
    /\ ret = [t \in Threads |-> "none"]
    /\ lapses = {}
-----------------------------------------------------------------------------
IsFull == Len(m_queue) >= m_capacity
IsEmpty == m_queue = <<>>

InState(s, ops) == {t \in Threads : pc[t] = s /\ call[t].op \in ops}

BlockingPushOps == {"Push", "PushFront", "PushTimed"}
BlockingPopOps == {"Pop", "PopTimed"}

\* The threads asleep on m_not_full_cond and on m_not_empty_cond.
NotFullWaiters == InState("waiting", BlockingPushOps)
NotEmptyWaiters == InState("waiting", BlockingPopOps)

Invoke(t, c) ==
    /\ pc[t] = "idle"
    /\ pc' = [pc EXCEPT ![t] = "ready"]
    /\ call' = [call EXCEPT ![t] = c]
    /\ ret' = [ret EXCEPT ![t] = "none"]
    /\ UNCHANGED <<m_queue, m_capacity, lapses>>

\* Thread t holds m_mutex inside operation o.
Locked(t, o) == pc[t] \in {"ready", "woken"} /\ call[t].op = o

\* cond.wait(lock): releases m_mutex and sleeps.
Wait(t) ==
    /\ pc' = [pc EXCEPT ![t] = "waiting"]
    /\ UNCHANGED <<m_queue, m_capacity, call, ret, lapses>>

\* cond.notify_one() on a condition variable with sleepers W, then return.
NotifyAndReturn(t, W, r) ==
    /\ IF W = {}
       THEN pc' = [pc EXCEPT ![t] = "idle"]
       ELSE \E w \in W : pc' = [pc EXCEPT ![t] = "idle", ![w] = "woken"]
    /\ call' = [call EXCEPT ![t] = NoCall]
    /\ ret' = [ret EXCEPT ![t] = r]
    /\ UNCHANGED <<m_capacity, lapses>>

\* Return without touching the queue; "lapse" is recorded when the call
\* could have been served.
ReturnFalse(t, servable, lapse) ==
    /\ pc' = [pc EXCEPT ![t] = "idle"]
    /\ call' = [call EXCEPT ![t] = NoCall]
    /\ ret' = [ret EXCEPT ![t] = "failed"]
    /\ lapses' = IF servable THEN lapses \cup {lapse} ELSE lapses
    /\ UNCHANGED <<m_queue, m_capacity>>

\* Mistake: a wake-up only for the first element of an empty queue.
PushBackNotifyFirst(t) ==
    /\ ~IsFull
    /\ m_queue' = Append(m_queue, call[t].v)
    /\ NotifyAndReturn(t, IF IsEmpty THEN NotEmptyWaiters ELSE {}, "ok")

PushBack(t) ==
    /\ ~IsFull
    /\ m_queue' = Append(m_queue, call[t].v)
    /\ NotifyAndReturn(t, NotEmptyWaiters, "ok")

\* Mistakes: a wake-up only for the first free place; the wrong condition.
PopFrontNotifyFirst(t) ==
    /\ ~IsEmpty
    /\ m_queue' = Tail(m_queue)
    /\ NotifyAndReturn(t, IF IsFull THEN NotFullWaiters ELSE {}, Head(m_queue))
PopFrontNotifyEmpty(t) ==
    /\ ~IsEmpty
    /\ m_queue' = Tail(m_queue)
    /\ NotifyAndReturn(t, NotEmptyWaiters, Head(m_queue))

PopFront(t) ==
    /\ ~IsEmpty
    /\ m_queue' = Tail(m_queue)
    /\ NotifyAndReturn(t, NotFullWaiters, Head(m_queue))

\* Mistake: "if" for "while", a woken thread does not test the size again.
PushTestOnce(t) ==
    /\ Locked(t, "Push")
    /\ \/ IsFull /\ pc[t] = "ready" /\ Wait(t)
       \/ /\ ~(IsFull /\ pc[t] = "ready")
          /\ m_queue' = Append(m_queue, call[t].v)
          /\ NotifyAndReturn(t, NotEmptyWaiters, "ok")

Push(t) ==
    /\ Locked(t, "Push")
    /\ \/ IsFull /\ Wait(t)
       \/ PushBack(t)

PushFront(t) ==
    /\ Locked(t, "PushFront")
    /\ \/ IsFull /\ Wait(t)
       \/ /\ ~IsFull
          /\ m_queue' = <<call[t].v>> \o m_queue
          /\ NotifyAndReturn(t, NotEmptyWaiters, "ok")

\* bool Push(v, timeout_ms): a timeout is final, the size is not read again.
PushTimed(t) ==
    /\ Locked(t, "PushTimed")
    /\ \/ IsFull /\ Wait(t)
       \/ PushBack(t)
       \/ pc[t] = "woken" /\ ReturnFalse(t, ~IsFull, "push_gave_up")

TryPush(t) ==
    /\ Locked(t, "TryPush")
    /\ \/ IsFull /\ ReturnFalse(t, FALSE, "push_gave_up")
       \/ PushBack(t)

TryPop(t) ==
    /\ Locked(t, "TryPop")
    /\ \/ IsEmpty /\ ReturnFalse(t, FALSE, "pop_gave_up")
       \/ PopFront(t)

Pop(t) ==
    /\ Locked(t, "Pop")
    /\ \/ IsEmpty /\ Wait(t)
       \/ PopFront(t)

\* bool Pop(v, timeout_ms): a timeout is final, emptiness is not tested again.
PopTimed(t) ==
    /\ Locked(t, "PopTimed")
    /\ \/ IsEmpty /\ Wait(t)
       \/ PopFront(t)
       \/ pc[t] = "woken" /\ ReturnFalse(t, ~IsEmpty, "pop_gave_up")

\* Mistake: the argument taken for a difference.
SetCapacityRelative(c) ==
    /\ m_capacity' = m_capacity - c
    /\ UNCHANGED <<m_queue, pc, call, ret, lapses>>

\* The new bound wakes nobody.
SetCapacity(c) ==
    /\ m_capacity' = c
    /\ lapses' = IF c > m_capacity /\ NotFullWaiters # {}
                 THEN lapses \cup {"capacity_raised"} ELSE lapses
    /\ UNCHANGED <<m_queue, pc, call, ret>>

\* A spurious wake-up, or the expiry of a timed thread's deadline.
Wake(t) ==
    /\ pc[t] = "waiting"
    /\ pc' = [pc EXCEPT ![t] = "woken"]
    /\ UNCHANGED <<m_queue, m_capacity, call, ret, lapses>>

\* The part of a call that runs under m_mutex.
Step(t) ==
    \/ Push(t) \/ PushFront(t) \/ PushTimed(t) \/ TryPush(t)
    \/ Pop(t) \/ PopTimed(t) \/ TryPop(t)

Next ==
    \/ \E t \in Threads, c \in Calls : Invoke(t, c)
    \/ \E t \in Threads : Step(t) \/ Wake(t)
    \/ \E c \in Capacities : SetCapacity(c)

Spec == Init /\ [][Next]_vars

\* A thread that can lock m_mutex eventually does; nobody is bound to make
\* a call, and no spurious wake-up is relied on.
FairSpec == Spec /\ \A t \in Threads : WF_vars(Step(t))
-----------------------------------------------------------------------------
(***************************************************************************)
(* Properties.                                                             *)
(***************************************************************************)

\* Poppers and pushers that left their wait and have not locked m_mutex yet.
WokenPoppers == InState("woken", BlockingPopOps)
WokenPushers == InState("woken", BlockingPushOps)

\* No wake-up of a consumer is lost: while elements are queued, a thread
\* sleeps in Pop only if another one is already on its way to fetch them.
\* The one exception the code leaves is a timed Pop that reports a timeout
\* after it was notified, without testing the queue again.
NoStrandedPop ==
    (~IsEmpty /\ NotEmptyWaiters # {} /\ "pop_gave_up" \notin lapses)
        => WokenPoppers # {}

\* No wake-up of a producer is lost: while there is room, a thread sleeps in
\* Push only if another pusher is on its way.  The exceptions are a timed
\* Push that gave up and SetCapacity, which raises the bound without a
\* notify.
NoStrandedPush ==
    (/\ ~IsFull /\ NotFullWaiters # {}
     /\ lapses \cap {"push_gave_up", "capacity_raised"} = {})
        => WokenPushers # {}

\* The strengthening that makes the two facts above inductive: while anyone
\* sleeps, the threads on their way are as many as the elements (the free
\* places) that wait for them.
EnoughWokenPoppers ==
    (NotEmptyWaiters # {} /\ "pop_gave_up" \notin lapses)
        => Len(m_queue) <= Cardinality(WokenPoppers)

EnoughWokenPushers ==
    (/\ NotFullWaiters # {}
     /\ lapses \cap {"push_gave_up", "capacity_raised"} = {})
        => m_capacity - Len(m_queue) <= Cardinality(WokenPushers)

\* A queued element does not stay for ever in front of sleeping consumers,
\* when no call is timed and the capacity does not change.
PopServed == (~IsEmpty /\ NotEmptyWaiters # {}) ~> (IsEmpty \/ NotEmptyWaiters = {})

\* Nor does room stay for ever in front of sleeping producers.
PushServed == (~IsFull /\ NotFullWaiters # {}) ~> (IsFull \/ NotFullWaiters = {})

\* Every interleaving of critical sections, sleeps and wake-ups is a
\* behaviour of the queue without them: each call takes effect once,
\* between its invocation and its return, in first-in first-out order.
Promise == INSTANCE BlockingQueueSpec
           WITH queue <- m_queue, capacity <- m_capacity,
                pending <- {t \in Threads : pc[t] # "idle"}
Linearizable == Promise!Spec
=============================================================================
