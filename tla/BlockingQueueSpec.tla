------------------------- MODULE BlockingQueueSpec -------------------------
(***************************************************************************)
(* What a BlockingQueue promises its callers, with no mutex and no          *)
(* condition variable: a call is pending from its invocation to the single *)
(* instant at which it takes effect and returns.  A pending Push inserts   *)
(* only below the capacity, a pending Pop removes the front element, a Try *)
(* call is refused only when the queue is full (empty), and a timed call   *)
(* may be refused at any time.                                             *)
(***************************************************************************)
EXTENDS Integers, Sequences

CONSTANTS Threads,      \* the threads that call the queue
          Items,        \* the values pushed
          Ops,          \* the operations these threads call
          Capacities,   \* the arguments SetCapacity is called with
          InitCapacity  \* the capacity given to the constructor

VARIABLES queue,    \* the elements, front first
          capacity, \* the bound a Push respects
          pending,  \* the threads inside a call
          call,     \* the call each thread is in: operation and argument
          ret       \* what each thread's latest call returned

vars == <<queue, capacity, pending, call, ret>>

PushOps == {"Push", "PushFront", "PushTimed", "TryPush"}
PopOps == {"Pop", "PopTimed", "TryPop"}
NoCall == [op |-> "none", v |-> "none"]
Calls == [op : Ops \cap PushOps, v : Items] \cup [op : Ops \cap PopOps, v : {"none"}]
TimedOps == {"PushTimed", "PopTimed"}

Init ==
    /\ queue = <<>>
    /\ capacity = InitCapacity
    /\ pending = {}
    /\ call = [t \in Threads |-> NoCall]
    /\ ret = [t \in Threads |-> "none"]

Invoke(t, c) ==
    /\ t \notin pending
    /\ pending' = pending \cup {t}
    /\ call' = [call EXCEPT ![t] = c]
    /\ ret' = [ret EXCEPT ![t] = "none"]
    /\ UNCHANGED <<queue, capacity>>

Answer(t, r) ==
    /\ t \in pending
    /\ pending' = pending \ {t}
    /\ ret' = [ret EXCEPT ![t] = r]
    /\ call' = [call EXCEPT ![t] = NoCall]
    /\ UNCHANGED capacity

InsertBack(t) ==
    /\ call[t].op \in PushOps \ {"PushFront"}
    /\ Len(queue) < capacity
    /\ queue' = Append(queue, call[t].v)
    /\ Answer(t, "ok")

InsertFront(t) ==
    /\ call[t].op = "PushFront"
    /\ Len(queue) < capacity
    /\ queue' = <<call[t].v>> \o queue
    /\ Answer(t, "ok")

RemoveFront(t) ==
    /\ call[t].op \in PopOps
    /\ queue # <<>>
    /\ queue' = Tail(queue)
    /\ Answer(t, Head(queue))

Refuse(t) ==
    /\ \/ call[t].op = "TryPush" /\ Len(queue) >= capacity
       \/ call[t].op = "TryPop" /\ queue = <<>>
       \/ call[t].op \in TimedOps
    /\ queue' = queue
    /\ Answer(t, "failed")

SetCapacity(c) ==
    /\ capacity' = c
    /\ UNCHANGED <<queue, pending, call, ret>>

Next ==
    \/ \E t \in Threads, c \in Calls : Invoke(t, c)
    \/ \E t \in Threads :
        InsertBack(t) \/ InsertFront(t) \/ RemoveFront(t) \/ Refuse(t)
    \/ \E c \in Capacities : SetCapacity(c)

Spec == Init /\ [][Next]_vars
=============================================================================
