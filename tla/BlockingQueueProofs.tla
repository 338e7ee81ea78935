------------------------- MODULE BlockingQueueProofs -------------------------
(***************************************************************************)
(* TLAPS proofs about BlockingQueue, for any finite set of threads, any    *)
(* items and any capacities.                                               *)
(*                                                                         *)
(* Every critical section is of one of four kinds: it inserts, removes,    *)
(* goes to sleep or gives up.  StepKinds reduces the seven operations to   *)
(* them; each invariant is then proved once per kind.                      *)
(***************************************************************************)
EXTENDS BlockingQueue, TLAPS, FiniteSetTheorems, SequenceTheorems

Inserts(t) ==
    /\ call[t].op \in PushOps /\ call[t].v \in Items
    /\ pc[t] \in {"ready", "woken"}
    /\ ~IsFull
    /\ \/ m_queue' = Append(m_queue, call[t].v) /\ call[t].op # "PushFront"
       \/ m_queue' = <<call[t].v>> \o m_queue /\ call[t].op = "PushFront"
    /\ NotifyAndReturn(t, NotEmptyWaiters, "ok")

Removes(t) ==
    /\ call[t].op \in PopOps
    /\ pc[t] \in {"ready", "woken"}
    /\ PopFront(t)

Sleeps(t) ==
    /\ pc[t] \in {"ready", "woken"}
    /\ \/ call[t].op \in BlockingPushOps /\ IsFull
       \/ call[t].op \in BlockingPopOps /\ IsEmpty
    /\ Wait(t)

GivesUp(t) ==
    /\ pc[t] \in {"ready", "woken"}
    /\ \/ call[t].op = "PushTimed" /\ ReturnFalse(t, ~IsFull, "push_gave_up")
       \/ call[t].op = "PopTimed" /\ ReturnFalse(t, ~IsEmpty, "pop_gave_up")
       \/ call[t].op = "TryPush" /\ IsFull /\ ReturnFalse(t, FALSE, "push_gave_up")
       \/ call[t].op = "TryPop" /\ IsEmpty /\ ReturnFalse(t, FALSE, "pop_gave_up")

\* Every critical section of queue.h inserts, removes, sleeps or gives up.
LEMMA StepKinds ==
    ASSUME TypeOK, NEW t \in Threads, Step(t)
    PROVE  Inserts(t) \/ Removes(t) \/ Sleeps(t) \/ GivesUp(t)
<1>0. call[t] \in Calls \cup {NoCall}
  BY DEF TypeOK
<1>a. call[t].op \in PushOps => call[t].v \in Items
  BY <1>0 DEF Calls, NoCall, PushOps, PopOps
<1>1. CASE Push(t)
  BY <1>1, <1>a DEF Push, Locked, PushBack, Inserts, Sleeps, PushOps, BlockingPushOps
<1>2. CASE PushFront(t)
  BY <1>2, <1>a DEF PushFront, Locked, Inserts, Sleeps, PushOps, BlockingPushOps
<1>3. CASE PushTimed(t)
  BY <1>3, <1>a DEF PushTimed, Locked, PushBack, Inserts, Sleeps, GivesUp, PushOps, BlockingPushOps
<1>4. CASE TryPush(t)
  BY <1>4, <1>a DEF TryPush, Locked, PushBack, Inserts, GivesUp, PushOps
<1>5. CASE Pop(t)
  BY <1>5 DEF Pop, Locked, Removes, Sleeps, PopOps, BlockingPopOps
<1>6. CASE PopTimed(t)
  BY <1>6 DEF PopTimed, Locked, Removes, Sleeps, GivesUp, PopOps, BlockingPopOps
<1>7. CASE TryPop(t)
  BY <1>7 DEF TryPop, Locked, Removes, GivesUp, PopOps
<1> QED
  BY <1>1, <1>2, <1>3, <1>4, <1>5, <1>6, <1>7 DEF Step

-----------------------------------------------------------------------------
\* push_back and push_front add one element, pop_front removes one.
LEMMA QueueGrows ==
    ASSUME TypeOK, NEW t \in Threads, Inserts(t)
    PROVE  m_queue' \in Seq(Items) /\ Len(m_queue') = Len(m_queue) + 1
<1>1. call[t].v \in Items /\ m_queue \in Seq(Items)
  BY DEF TypeOK, Inserts
<1>2. CASE m_queue' = Append(m_queue, call[t].v)
  BY <1>1, <1>2, AppendProperties
<1>3. CASE m_queue' = <<call[t].v>> \o m_queue
  <2>1. <<call[t].v>> \in Seq(Items) /\ Len(<<call[t].v>>) = 1
    BY <1>1
  <2>2. Len(m_queue) \in Nat
    BY <1>1
  <2> QED
    BY <1>1, <1>3, <2>1, <2>2, ConcatProperties
<1> QED
  BY <1>2, <1>3 DEF Inserts

\* Dropping the front leaves a shorter queue of the same elements.
LEMMA QueueShrinks ==
    ASSUME TypeOK, NEW t \in Threads, Removes(t)
    PROVE  /\ m_queue' \in Seq(Items)
           /\ Len(m_queue') = Len(m_queue) - 1
           /\ Head(m_queue) \in Items
  BY DEF TypeOK, Removes, PopFront, IsEmpty

\* What the return of a call, with its notify_one, does to the types.
LEMMA NotifyType ==
    ASSUME TypeOK, NEW t \in Threads, NEW W \in SUBSET Threads,
           NEW r \in Items \cup {"none", "ok", "failed"}, NotifyAndReturn(t, W, r)
    PROVE  /\ pc' \in [Threads -> {"idle", "ready", "waiting", "woken"}]
           /\ call' \in [Threads -> Calls \cup {NoCall}]
           /\ ret' \in [Threads -> Items \cup {"none", "ok", "failed"}]
           /\ m_capacity' \in Nat
           /\ lapses' \in SUBSET Lapses
<1>1. pc' \in [Threads -> {"idle", "ready", "waiting", "woken"}]
  BY DEF TypeOK, NotifyAndReturn
<1> QED
  BY <1>1 DEF TypeOK, NotifyAndReturn

\* The initial state has its types.
LEMMA TypeInit == Init => TypeOK
  BY ConstantsAssumption DEF Init, TypeOK

\* Every step keeps the types.
LEMMA TypeStep == TypeOK /\ [Next]_vars => TypeOK'
<1> SUFFICES ASSUME TypeOK, [Next]_vars PROVE TypeOK'
  OBVIOUS
<1>1. ASSUME NEW t \in Threads, NEW c \in Calls, Invoke(t, c) PROVE TypeOK'
  BY <1>1 DEF TypeOK, Invoke
<1>2. ASSUME NEW t \in Threads, Inserts(t) PROVE TypeOK'
  <2>1. m_queue' \in Seq(Items)
    BY <1>2, QueueGrows
  <2>2. NotEmptyWaiters \in SUBSET Threads
    BY DEF NotEmptyWaiters, InState
  <2> QED
    BY <1>2, <2>1, <2>2, NotifyType DEF TypeOK, Inserts
<1>3. ASSUME NEW t \in Threads, Removes(t) PROVE TypeOK'
  <2>1. m_queue' \in Seq(Items) /\ Head(m_queue) \in Items
    BY <1>3, QueueShrinks
  <2>2. NotFullWaiters \in SUBSET Threads
    BY DEF NotFullWaiters, InState
  <2> QED
    BY <1>3, <2>1, <2>2, NotifyType DEF TypeOK, Removes, PopFront
<1>4. ASSUME NEW t \in Threads, Sleeps(t) PROVE TypeOK'
  BY <1>4 DEF TypeOK, Sleeps, Wait
<1>5. ASSUME NEW t \in Threads, GivesUp(t) PROVE TypeOK'
  BY <1>5 DEF TypeOK, GivesUp, ReturnFalse, Lapses
<1>6. ASSUME NEW t \in Threads, Wake(t) PROVE TypeOK'
  BY <1>6 DEF TypeOK, Wake
<1>7. ASSUME NEW c \in Capacities, SetCapacity(c) PROVE TypeOK'
  BY <1>7, ConstantsAssumption DEF TypeOK, SetCapacity, Lapses
<1>8. CASE UNCHANGED vars
  BY <1>8 DEF TypeOK, vars
<1> QED
  BY <1>1, <1>2, <1>3, <1>4, <1>5, <1>6, <1>7, <1>8, StepKinds DEF Next

\* The queue, its capacity and the state of every call keep their types in
\* every behaviour of queue.h.
THEOREM TypeCorrect == Spec => []TypeOK
  BY TypeInit, TypeStep, PTL DEF Spec

-----------------------------------------------------------------------------
(***************************************************************************)
(* No lost wake-up.  The sets of sleeping and of woken threads are finite; *)
(* what a notify_one, a wake-up, a sleep or a return does to them is       *)
(* stated first.                                                           *)
(***************************************************************************)
LEMMA InStateFinite ==
    ASSUME NEW s, NEW ops
    PROVE  IsFiniteSet(InState(s, ops)) /\ Cardinality(InState(s, ops)) \in Nat
<1>1. InState(s, ops) \in SUBSET Threads
  BY DEF InState
<1> QED
  BY <1>1, ConstantsAssumption, FS_Subset, FS_CardinalityType

\* The notified thread leaves the sleepers of its side and joins the woken
\* ones; the other side only loses the thread that returns.
LEMMA NotifyMoves ==
    ASSUME TypeOK, NEW t \in Threads, pc[t] \in {"ready", "woken"},
           NEW A \in SUBSET (PushOps \cup PopOps),
           NEW B \in SUBSET (PushOps \cup PopOps),
           A \cap B = {}, call[t].op \notin A, NEW r,
           NotifyAndReturn(t, InState("waiting", A), r)
    PROVE  /\ InState("waiting", B)' = InState("waiting", B)
           /\ InState("woken", B)' = InState("woken", B) \ {t}
           /\ InState("waiting", A) = {} => InState("waiting", A)' = {}
           /\ InState("waiting", A) # {} =>
                \E w \in Threads \ InState("woken", A) :
                    InState("woken", A)' = InState("woken", A) \cup {w}
<1>0. "none" \notin A /\ "none" \notin B
  BY DEF PushOps, PopOps
<1>1. /\ pc \in [Threads -> {"idle", "ready", "waiting", "woken"}]
      /\ call \in [Threads -> Calls \cup {NoCall}]
      /\ call' = [call EXCEPT ![t] = NoCall]
  BY DEF TypeOK, NotifyAndReturn
<1>2. CASE InState("waiting", A) = {}
  <2>1. pc' = [pc EXCEPT ![t] = "idle"]
    BY <1>2 DEF NotifyAndReturn
  <2> QED
    BY <1>0, <1>1, <1>2, <2>1 DEF InState, NoCall
<1>3. CASE InState("waiting", A) # {}
  <2>1. PICK w \in InState("waiting", A) :
            pc' = [pc EXCEPT ![t] = "idle", ![w] = "woken"]
    BY <1>3 DEF NotifyAndReturn
  <2>2. w \in Threads /\ w # t /\ pc[w] = "waiting" /\ call[w].op \in A
    BY <2>1 DEF InState
  <2>3. /\ pc'[t] = "idle" /\ pc'[w] = "woken"
        /\ \A u \in Threads \ {t, w} : pc'[u] = pc[u]
    BY <1>1, <2>1, <2>2
  <2>4. /\ call'[t].op = "none"
        /\ \A u \in Threads \ {t} : call'[u] = call[u]
    BY <1>1 DEF NoCall
  <2>5. w \notin InState("woken", A)
    BY <2>2 DEF InState
  <2>6. InState("woken", A)' = InState("woken", A) \cup {w}
    BY <1>0, <2>2, <2>3, <2>4 DEF InState
  <2>7. InState("waiting", B)' = InState("waiting", B)
    BY <1>0, <2>2, <2>3, <2>4 DEF InState
  <2>8. InState("woken", B)' = InState("woken", B) \ {t}
    BY <1>0, <2>2, <2>3, <2>4 DEF InState
  <2> QED
    BY <1>3, <2>2, <2>5, <2>6, <2>7, <2>8
<1> QED
  BY <1>2, <1>3

\* A call that returns without a notify leaves every set it was in.
LEMMA ReturnMoves ==
    ASSUME TypeOK, NEW t \in Threads, pc[t] \in {"ready", "woken"},
           NEW X \in SUBSET (PushOps \cup PopOps),
           NEW servable, NEW lapse, ReturnFalse(t, servable, lapse)
    PROVE  /\ InState("waiting", X)' = InState("waiting", X)
           /\ InState("woken", X)' = InState("woken", X) \ {t}
<1>0. "none" \notin X
  BY DEF PushOps, PopOps
<1>1. /\ pc'[t] = "idle" /\ call'[t].op = "none"
      /\ \A u \in Threads \ {t} : pc'[u] = pc[u] /\ call'[u] = call[u]
  BY DEF TypeOK, ReturnFalse, NoCall
<1> QED
  BY <1>0, <1>1 DEF InState

\* A thread that goes to sleep on one side does not touch the other side.
LEMMA SleepMoves ==
    ASSUME TypeOK, NEW t \in Threads, NEW X, call[t].op \notin X, Wait(t)
    PROVE  /\ InState("waiting", X)' = InState("waiting", X)
           /\ InState("woken", X)' = InState("woken", X)
<1>1. \A u \in Threads \ {t} : pc'[u] = pc[u]
  BY DEF TypeOK, Wait
<1>2. call' = call
  BY DEF Wait
<1> QED
  BY <1>1, <1>2 DEF InState

\* An invocation is not yet in any of the sets.
LEMMA InvokeMoves ==
    ASSUME TypeOK, NEW t \in Threads, NEW c, Invoke(t, c), NEW X
    PROVE  /\ InState("waiting", X)' = InState("waiting", X)
           /\ InState("woken", X)' = InState("woken", X)
<1>1. /\ pc[t] = "idle" /\ pc'[t] = "ready"
      /\ \A u \in Threads \ {t} : pc'[u] = pc[u] /\ call'[u] = call[u]
  BY DEF TypeOK, Invoke
<1> QED
  BY <1>1 DEF InState

\* A wake-up without a notify only adds to the woken threads.
LEMMA WakeMoves ==
    ASSUME TypeOK, NEW t \in Threads, Wake(t), NEW X
    PROVE  /\ InState("waiting", X)' \subseteq InState("waiting", X)
           /\ \/ InState("woken", X)' = InState("woken", X)
              \/ InState("woken", X)' = InState("woken", X) \cup {t}
<1>1. /\ pc[t] = "waiting" /\ pc'[t] = "woken" /\ call' = call
      /\ \A u \in Threads \ {t} : pc'[u] = pc[u]
  BY DEF TypeOK, Wake
<1> QED
  BY <1>1 DEF InState

\* The sets a step can change only through one member: how their number moves.
LEMMA WokenCount ==
    ASSUME NEW s, NEW ops, NEW t
    PROVE  LET W == InState(s, ops) IN
           /\ Cardinality(W \ {t}) \in Nat /\ Cardinality(W \cup {t}) \in Nat
           /\ Cardinality(W) - 1 <= Cardinality(W \ {t})
           /\ Cardinality(W) <= Cardinality(W \cup {t})
           /\ t \notin W => Cardinality(W \cup {t}) = Cardinality(W) + 1
<1> DEFINE W == InState(s, ops)
<1>1. IsFiniteSet(W) /\ Cardinality(W) \in Nat
  BY InStateFinite
<1>2. /\ IsFiniteSet(W \ {t}) /\ IsFiniteSet(W \cup {t})
      /\ Cardinality(W \ {t}) = IF t \in W THEN Cardinality(W) - 1 ELSE Cardinality(W)
      /\ Cardinality(W \cup {t}) = IF t \in W THEN Cardinality(W) ELSE Cardinality(W) + 1
  BY <1>1, FS_AddElement, FS_RemoveElement
<1>3. Cardinality(W \ {t}) \in Nat /\ Cardinality(W \cup {t}) \in Nat
  BY <1>2, FS_CardinalityType
<1> QED
  BY <1>1, <1>2, <1>3

-----------------------------------------------------------------------------
\* While a thread sleeps in Pop, as many poppers are on their way as
\* elements wait for them; every critical section of queue.h keeps this.
LEMMA PoppersStep ==
    ASSUME TypeOK, EnoughWokenPoppers, [Next]_vars
    PROVE  EnoughWokenPoppers'
<1> USE DEF NotEmptyWaiters, WokenPoppers
<1> DEFINE W == InState("woken", BlockingPopOps)
<1>0. BlockingPopOps \in SUBSET (PushOps \cup PopOps) /\ BlockingPushOps \in SUBSET (PushOps \cup PopOps)
      /\ BlockingPopOps \cap BlockingPushOps = {} /\ BlockingPopOps \cap PushOps = {}
  BY DEF BlockingPopOps, BlockingPushOps, PushOps, PopOps
<1>t. Cardinality(W) \in Nat /\ Len(m_queue) \in Nat
  BY InStateFinite DEF TypeOK
<1>s. ASSUME InState("waiting", BlockingPopOps)' = InState("waiting", BlockingPopOps),
             W' = W, m_queue' = m_queue, lapses \subseteq lapses'
      PROVE  EnoughWokenPoppers'
  BY <1>s DEF EnoughWokenPoppers
<1>1. ASSUME NEW t \in Threads, NEW c \in Calls, Invoke(t, c) PROVE EnoughWokenPoppers'
  BY <1>1, <1>s, InvokeMoves DEF Invoke
<1>2. ASSUME NEW t \in Threads, Inserts(t) PROVE EnoughWokenPoppers'
  <2>1. /\ NotifyAndReturn(t, InState("waiting", BlockingPopOps), "ok")
        /\ call[t].op \notin BlockingPopOps /\ lapses' = lapses
        /\ pc[t] \in {"ready", "woken"}
    BY <1>0, <1>2 DEF Inserts, NotifyAndReturn
  <2>2. /\ InState("waiting", BlockingPopOps) = {} => InState("waiting", BlockingPopOps)' = {}
        /\ InState("waiting", BlockingPopOps) # {} => \E w \in Threads \ W : W' = W \cup {w}
    BY <1>0, <2>1, NotifyMoves
  <2>3. Len(m_queue') = Len(m_queue) + 1
    BY <1>2, QueueGrows
  <2>4. CASE InState("waiting", BlockingPopOps) = {}
    BY <2>2, <2>4 DEF EnoughWokenPoppers
  <2>5. CASE InState("waiting", BlockingPopOps) # {}
    <3>1. PICK w \in Threads \ W : W' = W \cup {w}
      BY <2>2, <2>5
    <3>2. Cardinality(W') = Cardinality(W) + 1
      BY <3>1, WokenCount
    <3> QED
      BY <1>t, <2>1, <2>3, <2>5, <3>2 DEF EnoughWokenPoppers
  <2> QED
    BY <2>4, <2>5
<1>3. ASSUME NEW t \in Threads, Removes(t) PROVE EnoughWokenPoppers'
  <2>1. /\ NotifyAndReturn(t, InState("waiting", BlockingPushOps), Head(m_queue))
        /\ call[t].op \notin BlockingPushOps /\ lapses' = lapses
        /\ pc[t] \in {"ready", "woken"}
    BY <1>3 DEF Removes, PopFront, NotifyAndReturn, NotFullWaiters, PopOps, BlockingPushOps
  <2>2. /\ InState("waiting", BlockingPopOps)' = InState("waiting", BlockingPopOps)
        /\ W' = W \ {t}
    BY <1>0, <2>1, NotifyMoves
  <2>3. Len(m_queue') = Len(m_queue) - 1
    BY <1>3, QueueShrinks
  <2>4. Cardinality(W') \in Nat /\ Cardinality(W) - 1 <= Cardinality(W')
    BY <2>2, WokenCount, ZenonT(30)
  <2>5. lapses' = lapses
    BY <2>1
  <2> QED
    BY <1>t, <2>2, <2>3, <2>4, <2>5 DEF EnoughWokenPoppers
<1>4. ASSUME NEW t \in Threads, Sleeps(t) PROVE EnoughWokenPoppers'
  <2>1. CASE call[t].op \in BlockingPushOps
    BY <1>0, <1>4, <1>s, <2>1, SleepMoves DEF Sleeps, Wait
  <2>2. CASE call[t].op \notin BlockingPushOps
    <3>1. m_queue' = <<>>
      BY <1>4, <2>2 DEF Sleeps, Wait, IsEmpty
    <3>2. Cardinality(W)' \in Nat
      BY ConstantsAssumption, FS_Subset, FS_CardinalityType DEF InState
    <3> QED
      BY <3>1, <3>2 DEF EnoughWokenPoppers
  <2> QED
    BY <2>1, <2>2
<1>5. ASSUME NEW t \in Threads, GivesUp(t) PROVE EnoughWokenPoppers'
  <2>1. PICK servable, lapse : ReturnFalse(t, servable, lapse)
    BY <1>5 DEF GivesUp
  <2>2. /\ InState("waiting", BlockingPopOps)' = InState("waiting", BlockingPopOps)
        /\ W' = W \ {t}
    BY <1>0, <1>5, <2>1, ReturnMoves DEF GivesUp
  <2>3. m_queue' = m_queue /\ lapses \subseteq lapses'
    BY <1>5 DEF GivesUp, ReturnFalse
  <2>4. CASE call[t].op \notin BlockingPopOps
    BY <1>s, <2>2, <2>3, <2>4 DEF InState
  <2>5. CASE call[t].op \in BlockingPopOps
    <3>1. IsEmpty \/ "pop_gave_up" \in lapses'
      BY <1>5, <2>5 DEF GivesUp, ReturnFalse, BlockingPopOps
    <3>2. Cardinality(W') \in Nat
      BY <2>2, WokenCount
    <3> QED
      BY <2>3, <3>1, <3>2 DEF EnoughWokenPoppers, IsEmpty
  <2> QED
    BY <2>4, <2>5
<1>6. ASSUME NEW t \in Threads, Wake(t) PROVE EnoughWokenPoppers'
  <2>1. /\ InState("waiting", BlockingPopOps)' \subseteq InState("waiting", BlockingPopOps)
        /\ W' = W \/ W' = W \cup {t}
    BY <1>6, WakeMoves
  <2>2. Cardinality(W') \in Nat /\ Cardinality(W) <= Cardinality(W')
    <3>1. CASE W' = W
      BY <1>t, <3>1
    <3>2. CASE W' = W \cup {t}
      BY <3>2, WokenCount, ZenonT(30)
    <3> QED
      BY <2>1, <3>1, <3>2
  <2>3. m_queue' = m_queue /\ lapses' = lapses
    BY <1>6 DEF Wake
  <2> QED
    BY <1>t, <2>1, <2>2, <2>3 DEF EnoughWokenPoppers
<1>7. ASSUME NEW c \in Capacities, SetCapacity(c) PROVE EnoughWokenPoppers'
  BY <1>7, <1>s DEF SetCapacity, InState
<1>8. CASE UNCHANGED vars
  BY <1>8, <1>s DEF vars, InState
<1> QED
  BY <1>1, <1>2, <1>3, <1>4, <1>5, <1>6, <1>7, <1>8, StepKinds DEF Next

\* While a thread sleeps in Push, as many pushers are on their way as there
\* are free places; every critical section of queue.h keeps this until a
\* timed Push gives up or SetCapacity raises the bound over sleeping pushers.
LEMMA PushersStep ==
    ASSUME TypeOK, EnoughWokenPushers, [Next]_vars
    PROVE  EnoughWokenPushers'
<1> USE DEF NotFullWaiters, WokenPushers
<1> DEFINE W == InState("woken", BlockingPushOps)
           S == InState("waiting", BlockingPushOps)
<1>0. /\ BlockingPopOps \in SUBSET (PushOps \cup PopOps)
      /\ BlockingPushOps \in SUBSET (PushOps \cup PopOps)
      /\ BlockingPopOps \cap BlockingPushOps = {} /\ BlockingPushOps \cap PopOps = {}
      /\ BlockingPopOps \cap PushOps = {}
  BY DEF BlockingPopOps, BlockingPushOps, PushOps, PopOps
<1>t. Cardinality(W) \in Nat /\ Len(m_queue) \in Nat /\ m_capacity \in Nat
  BY InStateFinite DEF TypeOK
<1>s. ASSUME S' = S, W' = W, m_queue' = m_queue, m_capacity' = m_capacity, lapses \subseteq lapses'
      PROVE  EnoughWokenPushers'
  BY <1>s DEF EnoughWokenPushers
<1>1. ASSUME NEW t \in Threads, NEW c \in Calls, Invoke(t, c) PROVE EnoughWokenPushers'
  BY <1>1, <1>s, InvokeMoves DEF Invoke
<1>2. ASSUME NEW t \in Threads, Inserts(t) PROVE EnoughWokenPushers'
  <2>1. /\ NotifyAndReturn(t, InState("waiting", BlockingPopOps), "ok")
        /\ call[t].op \notin BlockingPopOps
        /\ lapses' = lapses /\ m_capacity' = m_capacity
        /\ pc[t] \in {"ready", "woken"}
    BY <1>0, <1>2 DEF Inserts, NotifyAndReturn, NotEmptyWaiters
  <2>2. S' = S /\ W' = W \ {t}
    BY <1>0, <2>1, NotifyMoves
  <2>3. Len(m_queue') = Len(m_queue) + 1
    BY <1>2, QueueGrows
  <2>4. Cardinality(W') \in Nat /\ Cardinality(W) - 1 <= Cardinality(W')
    BY <2>2, WokenCount, ZenonT(30)
  <2>5. lapses' = lapses /\ m_capacity' = m_capacity
    BY <2>1
  <2> QED
    BY <1>t, <2>2, <2>3, <2>4, <2>5 DEF EnoughWokenPushers
<1>3. ASSUME NEW t \in Threads, Removes(t) PROVE EnoughWokenPushers'
  <2>1. /\ NotifyAndReturn(t, S, Head(m_queue))
        /\ call[t].op \notin BlockingPushOps
        /\ lapses' = lapses /\ m_capacity' = m_capacity
        /\ pc[t] \in {"ready", "woken"}
    BY <1>0, <1>3 DEF Removes, PopFront, NotifyAndReturn
  <2>2. /\ S = {} => S' = {}
        /\ S # {} => \E w \in Threads \ W : W' = W \cup {w}
    BY <1>0, <2>1, NotifyMoves
  <2>3. Len(m_queue') = Len(m_queue) - 1
    BY <1>3, QueueShrinks
  <2>4. CASE S = {}
    BY <2>2, <2>4 DEF EnoughWokenPushers
  <2>5. CASE S # {}
    <3>1. PICK w \in Threads \ W : W' = W \cup {w}
      BY <2>2, <2>5
    <3>2. Cardinality(W') = Cardinality(W) + 1
      BY <3>1, WokenCount
    <3> QED
      BY <1>t, <2>1, <2>3, <2>5, <3>2 DEF EnoughWokenPushers
  <2> QED
    BY <2>4, <2>5
<1>4. ASSUME NEW t \in Threads, Sleeps(t) PROVE EnoughWokenPushers'
  <2>1. CASE call[t].op \in BlockingPopOps
    BY <1>0, <1>4, <1>s, <2>1, SleepMoves DEF Sleeps, Wait
  <2>2. CASE call[t].op \notin BlockingPopOps
    <3>1. m_queue' = m_queue /\ m_capacity' = m_capacity /\ Len(m_queue) >= m_capacity
      BY <1>4, <2>2 DEF Sleeps, Wait, IsFull
    <3>2. Cardinality(W)' \in Nat
      BY ConstantsAssumption, FS_Subset, FS_CardinalityType DEF InState
    <3> QED
      BY <1>t, <3>1, <3>2 DEF EnoughWokenPushers
  <2> QED
    BY <2>1, <2>2
<1>5. ASSUME NEW t \in Threads, GivesUp(t) PROVE EnoughWokenPushers'
  <2>1. PICK servable, lapse : ReturnFalse(t, servable, lapse)
    BY <1>5 DEF GivesUp
  <2>2. S' = S /\ W' = W \ {t}
    BY <1>0, <1>5, <2>1, ReturnMoves DEF GivesUp
  <2>3. m_queue' = m_queue /\ m_capacity' = m_capacity /\ lapses \subseteq lapses'
    BY <1>5 DEF GivesUp, ReturnFalse
  <2>4. CASE call[t].op \notin BlockingPushOps
    BY <1>s, <2>2, <2>3, <2>4 DEF InState
  <2>5. CASE call[t].op \in BlockingPushOps
    <3>1. IsFull \/ "push_gave_up" \in lapses'
      BY <1>5, <2>5 DEF GivesUp, ReturnFalse, BlockingPushOps
    <3>2. Cardinality(W') \in Nat
      BY <2>2, WokenCount
    <3> QED
      BY <1>t, <2>3, <3>1, <3>2 DEF EnoughWokenPushers, IsFull
  <2> QED
    BY <2>4, <2>5
<1>6. ASSUME NEW t \in Threads, Wake(t) PROVE EnoughWokenPushers'
  <2>1. S' \subseteq S /\ (W' = W \/ W' = W \cup {t})
    BY <1>6, WakeMoves
  <2>2. Cardinality(W') \in Nat /\ Cardinality(W) <= Cardinality(W')
    <3>1. CASE W' = W
      BY <1>t, <3>1
    <3>2. CASE W' = W \cup {t}
      BY <3>2, WokenCount, ZenonT(30)
    <3> QED
      BY <2>1, <3>1, <3>2
  <2>3. m_queue' = m_queue /\ m_capacity' = m_capacity /\ lapses' = lapses
    BY <1>6 DEF Wake
  <2> QED
    BY <1>t, <2>1, <2>2, <2>3 DEF EnoughWokenPushers
<1>7. ASSUME NEW c \in Capacities, SetCapacity(c) PROVE EnoughWokenPushers'
  <2>1. S' = S /\ W' = W /\ m_queue' = m_queue /\ m_capacity' = c /\ c \in Nat
    BY <1>7, ConstantsAssumption DEF SetCapacity, InState
  <2>2. c > m_capacity /\ S # {} => "capacity_raised" \in lapses'
    BY <1>7 DEF SetCapacity
  <2>3. lapses \subseteq lapses'
    BY <1>7 DEF SetCapacity
  <2> QED
    BY <1>t, <2>1, <2>2, <2>3 DEF EnoughWokenPushers
<1>8. CASE UNCHANGED vars
  BY <1>8, <1>s DEF vars, InState
<1> QED
  BY <1>1, <1>2, <1>3, <1>4, <1>5, <1>6, <1>7, <1>8, StepKinds DEF Next

-----------------------------------------------------------------------------
\* The inductive invariant of queue.h.
IInv == TypeOK /\ EnoughWokenPoppers /\ EnoughWokenPushers

\* Initially nobody waits.
LEMMA IInvInit == Init => IInv
  BY TypeInit DEF Init, IInv, EnoughWokenPoppers, EnoughWokenPushers,
                  NotEmptyWaiters, NotFullWaiters, InState

\* Every step keeps the inductive invariant.
LEMMA IInvStep == IInv /\ [Next]_vars => IInv'
  BY TypeStep, PoppersStep, PushersStep DEF IInv

\* The inductive invariant leaves no thread stranded.
LEMMA IInvImplies == IInv => NoStrandedPop /\ NoStrandedPush
<1> SUFFICES ASSUME IInv PROVE NoStrandedPop /\ NoStrandedPush
  OBVIOUS
<1>0. m_queue \in Seq(Items) /\ Len(m_queue) \in Nat /\ m_capacity \in Nat
  BY DEF IInv, TypeOK
<1>e. Cardinality({}) = 0
  BY FS_EmptySet
<1>1. NoStrandedPop
  <2> SUFFICES ASSUME ~IsEmpty, NotEmptyWaiters # {}, "pop_gave_up" \notin lapses
               PROVE  WokenPoppers # {}
    BY DEF NoStrandedPop
  <2>1. Len(m_queue) <= Cardinality(WokenPoppers)
    BY DEF IInv, EnoughWokenPoppers
  <2>2. Len(m_queue) > 0
    BY <1>0, EmptySeq DEF IsEmpty
  <2>3. Cardinality(WokenPoppers) # 0
    BY <1>0, <2>1, <2>2
  <2> QED
    BY <1>e, <2>3, Zenon
<1>2. NoStrandedPush
  <2> SUFFICES ASSUME ~IsFull, NotFullWaiters # {},
                      lapses \cap {"push_gave_up", "capacity_raised"} = {}
               PROVE  WokenPushers # {}
    BY DEF NoStrandedPush
  <2>1. m_capacity - Len(m_queue) <= Cardinality(WokenPushers)
    BY DEF IInv, EnoughWokenPushers
  <2>2. m_capacity - Len(m_queue) > 0
    BY <1>0 DEF IsFull
  <2>3. Cardinality(WokenPushers) # 0
    BY <1>0, <2>1, <2>2
  <2> QED
    BY <1>e, <2>3, Zenon
<1> QED
  BY <1>1, <1>2

\* No consumer sleeps on a non-empty queue of queue.h unless a popper is on
\* its way or a timed Pop dropped its wake-up.
THEOREM NoStrandedPopHolds == Spec => []NoStrandedPop
<1>1. IInv => NoStrandedPop
  BY IInvImplies
<1> QED
  BY <1>1, IInvInit, IInvStep, PTL DEF Spec

\* No producer sleeps on a queue of queue.h that has room unless a pusher is
\* on its way, a timed Push dropped its wake-up or the capacity was raised.
THEOREM NoStrandedPushHolds == Spec => []NoStrandedPush
<1>1. IInv => NoStrandedPush
  BY IInvImplies
<1> QED
  BY <1>1, IInvInit, IInvStep, PTL DEF Spec

-----------------------------------------------------------------------------
(***************************************************************************)
(* The mutex and the condition variables implement the plain queue.        *)
(***************************************************************************)
Pending == {t \in Threads : pc[t] # "idle"}

\* A return, with its notify, answers exactly the thread that returns.
LEMMA NotifyAnswers ==
    ASSUME TypeOK, NEW t \in Threads, pc[t] \in {"ready", "woken"},
           NEW s \in {"waiting"}, NEW ops, NEW r, NotifyAndReturn(t, InState(s, ops), r)
    PROVE  Promise!Answer(t, r)
<1>1. CASE InState(s, ops) = {}
  BY <1>1 DEF Promise!Answer, Promise!NoCall, NoCall, NotifyAndReturn, TypeOK
<1>2. CASE InState(s, ops) # {}
  <2>1. PICK w \in InState(s, ops) : pc' = [pc EXCEPT ![t] = "idle", ![w] = "woken"]
    BY <1>2 DEF NotifyAndReturn
  <2>2. w \in Threads /\ w # t /\ pc[w] = "waiting"
    BY <2>1 DEF InState
  <2>3. /\ pc'[t] = "idle" /\ pc'[w] = "woken"
        /\ \A u \in Threads \ {t, w} : pc'[u] = pc[u]
    BY <2>1, <2>2 DEF TypeOK
  <2>4. Pending' = Pending \ {t}
    BY <2>2, <2>3 DEF Pending
  <2> QED
    BY <2>4 DEF Pending, Promise!Answer, Promise!NoCall, NoCall, NotifyAndReturn
<1> QED
  BY <1>1, <1>2

\* The initial states map to initial states of the promise.
LEMMA RefineInit == Init => Promise!Init
  BY DEF Init, Promise!Init, Promise!NoCall, NoCall

\* Every step maps to a step of the promise, or to none.
LEMMA RefineStep == TypeOK /\ [Next]_vars => [Promise!Next]_Promise!vars
<1> SUFFICES ASSUME TypeOK, [Next]_vars PROVE Promise!Next \/ UNCHANGED Promise!vars
  OBVIOUS
<1>1. ASSUME NEW t \in Threads, NEW c \in Calls, Invoke(t, c) PROVE Promise!Next
  <2>1. c \in Promise!Calls
    BY DEF Calls, Promise!Calls, PushOps, PopOps, Promise!PushOps, Promise!PopOps
  <2>2. Promise!Invoke(t, c)
    BY <1>1 DEF Invoke, Promise!Invoke, TypeOK
  <2> QED
    BY <2>1, <2>2 DEF Promise!Next
<1>2. ASSUME NEW t \in Threads, Inserts(t) PROVE Promise!Next
  <2>1. Promise!Answer(t, "ok")
    BY <1>2, NotifyAnswers DEF Inserts, NotEmptyWaiters
  <2>2. Len(m_queue) < m_capacity
    BY <1>2 DEF Inserts, IsFull, TypeOK
  <2>3. Promise!InsertBack(t) \/ Promise!InsertFront(t)
    BY <1>2, <2>1, <2>2 DEF Inserts, Promise!InsertBack, Promise!InsertFront,
                            PushOps, Promise!PushOps
  <2> QED
    BY <2>3 DEF Promise!Next
<1>3. ASSUME NEW t \in Threads, Removes(t) PROVE Promise!Next
  <2>1. Promise!Answer(t, Head(m_queue))
    <3>1. PICK r : /\ r = Head(m_queue) /\ pc[t] \in {"ready", "woken"}
                   /\ NotifyAndReturn(t, InState("waiting", BlockingPushOps), r)
      BY <1>3 DEF Removes, PopFront, NotFullWaiters
    <3>2. Promise!Answer(t, r)
      BY <3>1, NotifyAnswers
    <3> QED
      BY <3>1, <3>2 DEF Promise!Answer
  <2>2. Promise!RemoveFront(t)
    BY <1>3, <2>1 DEF Removes, PopFront, IsEmpty, Promise!RemoveFront, PopOps, Promise!PopOps
  <2> QED
    BY <2>2 DEF Promise!Next
<1>4. ASSUME NEW t \in Threads, Sleeps(t) PROVE UNCHANGED Promise!vars
  BY <1>4 DEF Sleeps, Wait, Promise!vars, TypeOK
<1>5. ASSUME NEW t \in Threads, GivesUp(t) PROVE Promise!Next
  <2>1. Promise!Answer(t, "failed")
    BY <1>5 DEF GivesUp, ReturnFalse, Promise!Answer, Promise!NoCall, NoCall, TypeOK
  <2>2. Promise!Refuse(t)
    BY <1>5, <2>1 DEF GivesUp, ReturnFalse, Promise!Refuse, Promise!TimedOps, IsFull, IsEmpty
  <2> QED
    BY <2>2 DEF Promise!Next
<1>6. ASSUME NEW t \in Threads, Wake(t) PROVE UNCHANGED Promise!vars
  BY <1>6 DEF Wake, Promise!vars, TypeOK
<1>7. ASSUME NEW c \in Capacities, SetCapacity(c) PROVE Promise!Next
  <2>1. Promise!SetCapacity(c)
    BY <1>7 DEF SetCapacity, Promise!SetCapacity
  <2> QED
    BY <2>1 DEF Promise!Next
<1>8. CASE UNCHANGED vars
  BY <1>8 DEF vars, Promise!vars
<1> QED
  BY <1>1, <1>2, <1>3, <1>4, <1>5, <1>6, <1>7, <1>8, StepKinds DEF Next

\* The BlockingQueue of queue.h is linearizable: with its mutex, its sleeps
\* and its wake-ups it implements the queue without them.
THEOREM LinearizableHolds == Spec => Linearizable
<1>1. Init => Promise!Init
  BY RefineInit
<1>2. TypeOK /\ [Next]_vars => [Promise!Next]_Promise!vars
  BY RefineStep
<1> QED
  BY <1>1, <1>2, TypeCorrect, PTL DEF Spec, Linearizable, Promise!Spec
=============================================================================
