--------------------------------- MODULE Aio ---------------------------------
(***************************************************************************)
(* xfutil::aio (src/aio.cpp, src/aio_request.h): Submit splits a request   *)
(* into commands.  A command without an offset goes to the queue           *)
(* fd % Size(), which one io thread serves; one with an offset goes to the *)
(* single pio queue, which all pio threads serve.  The thread that         *)
(* completes the last command of a request runs its callback, and that     *)
(* callback may itself call Submit.  Stop sends every thread an empty      *)
(* request, joins it, and frees the io queues.                             *)
(*                                                                         *)
(* The queues have no capacity limit: Push never blocks and Pop takes the  *)
(* front element, as BlockingQueue promises (BlockingQueueSpec).           *)
(***************************************************************************)
EXTENDS Integers, Sequences, FiniteSets

CONSTANTS Requests,     \* the requests clients submit, each at most once
          CmdsOf,       \* the commands of each request
          FollowUp,     \* the request its callback submits, or None
          Clients,      \* threads that call Submit
          Controllers,  \* threads that call Start and Stop
          IoArgs,       \* values of Start's io_threadnum
          PioArgs,      \* values of Start's pio_threadnum
          CpuNum,       \* SysInfo::GetCpuNum()
          MaxStarts,    \* bound: how often Start succeeds
          None

\* cmd < CMD_MIN_PIO is a command without an offset; its fd picks the queue.
Commands == [pio : BOOLEAN, fd : Nat]

\* A negative thread number is a multiple of the number of processors.
ThreadNum(n) == IF n < 0 THEN (-n) * CpuNum ELSE n

ASSUME ConstantsAssumption ==
    /\ IsFiniteSet(Requests) /\ None \notin Requests
    /\ CmdsOf \in [Requests -> Seq(Commands)]
    /\ FollowUp \in [Requests -> Requests \cup {None}]
    /\ IoArgs \subseteq Int /\ PioArgs \subseteq Int /\ CpuNum \in Nat \ {0}
    /\ \A n \in IoArgs \cup PioArgs : ThreadNum(n) > 0
    /\ MaxStarts \in Nat

IoWorkers == {<<"io", i>> : i \in UNION {0 .. ThreadNum(n) - 1 : n \in IoArgs}}
PioWorkers == {<<"pio", i>> : i \in UNION {0 .. ThreadNum(n) - 1 : n \in PioArgs}}
Workers == IoWorkers \cup PioWorkers
Submitters == Clients \cup Workers

\* The threads of the service are its own.
ASSUME ThreadsAssumption == Clients \cap Workers = {}

VARIABLES s_state,
          s_reqid,
          s_io_request_queues,  \* index -> sequence of entries; nullptr is <<>>
          s_pio_request_queue,
          io_size, pio_size,    \* Size() of the two thread groups
          ctl,        \* each controller: where it is, its loop index, its arguments
          work,       \* each worker: where it is, the entry it popped
          sub,        \* each thread's Submit: where it is, request, command, queue
          request,    \* the Request objects
          stage,      \* history: how far each command is
          pushed,     \* history: per fd, the order of Push to the io queues
          callbacks,  \* history: the fail counts each callback was given
          ids,        \* history: what Submit returned for each request, 0 before
          overlapped, \* history: requests in Submit when a Stop began
          damaged,    \* history: requests pushed to a freed queue
          starts      \* how often Start succeeded: also the age of the queues

serviceVars == <<s_state, s_reqid, s_io_request_queues, s_pio_request_queue, io_size, pio_size>>
historyVars == <<stage, pushed, callbacks, ids, overlapped, damaged, starts>>
vars == <<serviceVars, ctl, work, sub, request, historyVars>>

Entries == {e \in Requests \X Nat : e[2] \in DOMAIN CmdsOf[e[1]]}
Marker == <<None, 0>>   \* RequestEx with a null request
Fds == UNION {{CmdsOf[r][i].fd : i \in DOMAIN CmdsOf[r]} : r \in Requests}

NoSubmit == [pc |-> "out", req |-> None, idx |-> 0, q |-> 0, age |-> 0]
Idle == [pc |-> "idle", i |-> 0, io |-> 0, pio |-> 0]
Gone == [pc |-> "gone", e |-> Marker]
NotMade == [m_cmd_fail_cnt |-> 0, m_completed_cnt |-> 0]

CtlState ==
    [pc : {"idle", "spawn_io", "spawn_pio", "started", "mark_io", "join_io", "delete",
           "mark_pio", "join_pio"},
     i : Nat, io : Nat, pio : Nat]
WorkState == [pc : {"gone", "pop", "run", "count", "callback"}, e : Entries \cup {Marker}]
SubState ==
    [pc : {"out", "next", "push"}, req : Requests \cup {None}, idx : Nat, q : Nat, age : Nat]
Counters == [m_cmd_fail_cnt : Nat, m_completed_cnt : Nat]
Stages == {"new", "queued", "running", "ok", "failed"}
Queue == Seq(Entries \cup {Marker})

TypeOK ==
    /\ s_state \in {"STOPPED", "STARTING", "STARTED", "STOPPING"}
    /\ s_reqid \in Nat \ {0}
    /\ s_io_request_queues = <<>> \/ s_io_request_queues \in [0 .. io_size - 1 -> Queue]
    /\ s_pio_request_queue \in Queue
    /\ io_size \in Nat /\ pio_size \in Nat
    /\ ctl \in [Controllers -> CtlState]
    /\ work \in [Workers -> WorkState]
    /\ sub \in [Submitters -> SubState]
    /\ request \in [Requests -> Counters]
    /\ \A r \in Requests : stage[r] \in [DOMAIN CmdsOf[r] -> Stages]
    /\ pushed \in [Fds -> Seq(Entries)]
    /\ callbacks \in [Requests -> Seq(Nat)]
    /\ ids \in [Requests -> Nat]
    /\ overlapped \subseteq Requests /\ damaged \subseteq Requests
    /\ starts \in 0 .. MaxStarts

Init ==
    /\ s_state = "STOPPED"
    /\ s_reqid = 1
    /\ s_io_request_queues = <<>>
    /\ s_pio_request_queue = <<>>
    /\ io_size = 0 /\ pio_size = 0
    /\ ctl = [c \in Controllers |-> Idle]
    /\ work = [w \in Workers |-> Gone]
    /\ sub = [t \in Submitters |-> NoSubmit]
    /\ request = [r \in Requests |-> NotMade]
    /\ stage = [r \in Requests |-> [i \in DOMAIN CmdsOf[r] |-> "new"]]
    /\ pushed = [f \in Fds |-> <<>>]
    /\ callbacks = [r \in Requests |-> <<>>]
    /\ ids = [r \in Requests |-> 0]
    /\ overlapped = {} /\ damaged = {}
    /\ starts = 0
-----------------------------------------------------------------------------
(***************************************************************************)
(* Start: the state changes by compare-and-swap, then the queues and the   *)
(* threads of the two groups are made.                                     *)
(***************************************************************************)
StartCas(c, m, n) ==
    /\ ctl[c].pc = "idle" /\ s_state = "STOPPED" /\ starts < MaxStarts
    /\ s_state' = "STARTING"
    /\ starts' = starts + 1
    /\ ctl' = [ctl EXCEPT ![c] = [pc |-> "spawn_io", i |-> 0,
                                  io |-> ThreadNum(m), pio |-> ThreadNum(n)]]
    /\ UNCHANGED <<s_reqid, s_io_request_queues, s_pio_request_queue, io_size, pio_size,
                   work, sub, request, stage, pushed, callbacks, ids, overlapped, damaged>>

\* ThreadGroup::Start: the new threads enter their loop.
Spawn(kind, n) ==
    work' = [w \in Workers |-> IF w[1] = kind /\ w[2] < n
                               THEN [pc |-> "pop", e |-> Marker] ELSE work[w]]

StartIo(c) ==
    /\ ctl[c].pc = "spawn_io"
    /\ s_io_request_queues' = [i \in 0 .. ctl[c].io - 1 |-> <<>>]
    /\ Spawn("io", ctl[c].io)
    /\ io_size' = ctl[c].io
    /\ ctl' = [ctl EXCEPT ![c].pc = "spawn_pio"]
    /\ UNCHANGED <<s_state, s_reqid, s_pio_request_queue, pio_size, sub, request, historyVars>>

StartPio(c) ==
    /\ ctl[c].pc = "spawn_pio"
    /\ Spawn("pio", ctl[c].pio)
    /\ pio_size' = ctl[c].pio
    /\ ctl' = [ctl EXCEPT ![c].pc = "started"]
    /\ UNCHANGED <<s_state, s_reqid, s_io_request_queues, s_pio_request_queue, io_size,
                   sub, request, historyVars>>

StartDone(c) ==
    /\ ctl[c].pc = "started"
    /\ s_state' = "STARTED"
    /\ ctl' = [ctl EXCEPT ![c] = Idle]
    /\ UNCHANGED <<s_reqid, s_io_request_queues, s_pio_request_queue, io_size, pio_size,
                   work, sub, request, historyVars>>
-----------------------------------------------------------------------------
(***************************************************************************)
(* Stop.  ThreadGroup::Join holds the group's m_mutex until all its        *)
(* threads have ended; it does not empty m_threads, so Size() keeps its    *)
(* value.                                                                  *)
(***************************************************************************)
InSubmit == {sub[t].req : t \in {u \in Submitters : sub[u].pc # "out"}}

StopCas(c) ==
    /\ ctl[c].pc = "idle" /\ s_state = "STARTED"
    /\ s_state' = "STOPPING"
    /\ overlapped' = overlapped \cup InSubmit
    /\ ctl' = [ctl EXCEPT ![c] = [Idle EXCEPT !.pc = "mark_io"]]
    /\ UNCHANGED <<s_reqid, s_io_request_queues, s_pio_request_queue, io_size, pio_size, work,
                   sub, request, stage, pushed, callbacks, ids, damaged, starts>>

\* Mistakes: the empty request overtakes what is queued; the last thread is
\* left out.
StopMarkIoFront(c) ==
    /\ ctl[c].pc = "mark_io"
    /\ IF ctl[c].i < io_size
       THEN /\ s_io_request_queues' =
                 [s_io_request_queues EXCEPT ![ctl[c].i] = <<Marker>> \o @]
            /\ ctl' = [ctl EXCEPT ![c].i = @ + 1]
       ELSE /\ ctl' = [ctl EXCEPT ![c].pc = "join_io"]
            /\ UNCHANGED s_io_request_queues
    /\ UNCHANGED <<s_state, s_reqid, s_pio_request_queue, io_size, pio_size,
                   work, sub, request, historyVars>>
StopMarkIoShort(c) ==
    /\ ctl[c].pc = "mark_io"
    /\ IF ctl[c].i + 1 < io_size
       THEN /\ s_io_request_queues' =
                 [s_io_request_queues EXCEPT ![ctl[c].i] = Append(@, Marker)]
            /\ ctl' = [ctl EXCEPT ![c].i = @ + 1]
       ELSE /\ ctl' = [ctl EXCEPT ![c].pc = "join_io"]
            /\ UNCHANGED s_io_request_queues
    /\ UNCHANGED <<s_state, s_reqid, s_pio_request_queue, io_size, pio_size,
                   work, sub, request, historyVars>>

\* The loop that pushes one empty request per io queue, then Join's lock.
StopMarkIo(c) ==
    /\ ctl[c].pc = "mark_io"
    /\ IF ctl[c].i < io_size
       THEN /\ s_io_request_queues' =
                 [s_io_request_queues EXCEPT ![ctl[c].i] = Append(@, Marker)]
            /\ ctl' = [ctl EXCEPT ![c].i = @ + 1]
       ELSE /\ ctl' = [ctl EXCEPT ![c].pc = "join_io"]
            /\ UNCHANGED s_io_request_queues
    /\ UNCHANGED <<s_state, s_reqid, s_pio_request_queue, io_size, pio_size,
                   work, sub, request, historyVars>>

Joined(kind) == \A w \in Workers : w[1] = kind => work[w].pc = "gone"

StopJoinIo(c) ==
    /\ ctl[c].pc = "join_io" /\ Joined("io")
    /\ ctl' = [ctl EXCEPT ![c].pc = "delete"]
    /\ UNCHANGED <<serviceVars, work, sub, request, historyVars>>

StopDelete(c) ==
    /\ ctl[c].pc = "delete"
    /\ s_io_request_queues' = <<>>
    /\ ctl' = [ctl EXCEPT ![c].pc = "mark_pio", ![c].i = 0]
    /\ UNCHANGED <<s_state, s_reqid, s_pio_request_queue, io_size, pio_size,
                   work, sub, request, historyVars>>

StopMarkPio(c) ==
    /\ ctl[c].pc = "mark_pio"
    /\ IF ctl[c].i < pio_size
       THEN /\ s_pio_request_queue' = Append(s_pio_request_queue, Marker)
            /\ ctl' = [ctl EXCEPT ![c].i = @ + 1]
       ELSE /\ ctl' = [ctl EXCEPT ![c].pc = "join_pio"]
            /\ UNCHANGED s_pio_request_queue
    /\ UNCHANGED <<s_state, s_reqid, s_io_request_queues, io_size, pio_size,
                   work, sub, request, historyVars>>

StopDone(c) ==
    /\ ctl[c].pc = "join_pio" /\ Joined("pio")
    /\ s_state' = "STOPPED"
    /\ ctl' = [ctl EXCEPT ![c] = Idle]
    /\ UNCHANGED <<s_reqid, s_io_request_queues, s_pio_request_queue, io_size, pio_size,
                   work, sub, request, historyVars>>
-----------------------------------------------------------------------------
(***************************************************************************)
(* Submit, in a client or in a callback.                                   *)
(***************************************************************************)
Fresh(r) == ids[r] = 0 /\ r \notin InSubmit

\* Mistake: accepted until the service is down.
SubmitBeginStopping(t, r) ==
    /\ s_state \in {"STARTED", "STOPPING"} /\ Fresh(r)
    /\ sub' = [sub EXCEPT ![t] = [NoSubmit EXCEPT !.pc = "next", !.req = r, !.idx = 1]]
    /\ request' = [request EXCEPT ![r] = NotMade]

\* s_state is read once, before anything else.  (A refused Submit returns 0
\* and changes nothing.)
SubmitBegin(t, r) ==
    /\ s_state = "STARTED" /\ Fresh(r)
    /\ sub' = [sub EXCEPT ![t] = [NoSubmit EXCEPT !.pc = "next", !.req = r, !.idx = 1]]
    /\ request' = [request EXCEPT ![r] = NotMade]

ClientSubmit(t, r) ==
    /\ t \in Clients /\ sub[t].pc = "out"
    /\ SubmitBegin(t, r)
    /\ UNCHANGED <<serviceVars, ctl, work, historyVars>>

Cmd(t) == CmdsOf[sub[t].req][sub[t].idx]
MoreCmds(t) == sub[t].idx <= Len(CmdsOf[sub[t].req])
SubmitNext(t) == sub' = [sub EXCEPT ![t].pc = "next", ![t].idx = @ + 1]
Queued(t) == stage' = [stage EXCEPT ![sub[t].req][sub[t].idx] = "queued"]

IoGroupLocked == \E c \in Controllers : ctl[c].pc = "join_io"

\* Mistake: commands spread without regard to their fd.
QueueIndexByCommand(t) == (s_reqid + sub[t].idx) % io_size

QueueIndex(t) == Cmd(t).fd % io_size

\* Size() needs the group's mutex; then s_io_request_queues is read.
SubmitSize(t) ==
    /\ sub[t].pc = "next" /\ MoreCmds(t) /\ ~Cmd(t).pio
    /\ ~IoGroupLocked
    /\ sub' = [sub EXCEPT ![t].pc = "push", ![t].q = QueueIndex(t), ![t].age = starts]
    /\ UNCHANGED <<serviceVars, ctl, work, request, historyVars>>

\* The pointer is read between Size() and Push: it may be the one of then
\* or the one of now.
SubmitPushIo(t) ==
    /\ sub[t].pc = "push"
    /\ SubmitNext(t)
    /\ \/ /\ sub[t].q \in DOMAIN s_io_request_queues
          /\ s_io_request_queues' = [s_io_request_queues EXCEPT
                 ![sub[t].q] = Append(@, <<sub[t].req, sub[t].idx>>)]
          /\ pushed' = [pushed EXCEPT ![Cmd(t).fd] = Append(@, <<sub[t].req, sub[t].idx>>)]
          /\ Queued(t)
          /\ UNCHANGED damaged
       \/ /\ sub[t].q \notin DOMAIN s_io_request_queues \/ sub[t].age # starts
          /\ damaged' = damaged \cup {sub[t].req}
          /\ UNCHANGED <<s_io_request_queues, pushed, stage>>
    /\ UNCHANGED <<s_state, s_reqid, s_pio_request_queue, io_size, pio_size, ctl, work,
                   request, callbacks, ids, overlapped, starts>>

SubmitPushPio(t) ==
    /\ sub[t].pc = "next" /\ MoreCmds(t) /\ Cmd(t).pio
    /\ s_pio_request_queue' = Append(s_pio_request_queue, <<sub[t].req, sub[t].idx>>)
    /\ Queued(t)
    /\ SubmitNext(t)
    /\ UNCHANGED <<s_state, s_reqid, s_io_request_queues, io_size, pio_size, ctl, work,
                   request, pushed, callbacks, ids, overlapped, damaged, starts>>

SubmitReturn(t) ==
    /\ sub[t].pc = "next" /\ ~MoreCmds(t)
    /\ ids' = [ids EXCEPT ![sub[t].req] = s_reqid]
    /\ s_reqid' = s_reqid + 1
    /\ sub' = [sub EXCEPT ![t] = NoSubmit]
    /\ IF t \in Workers THEN work' = [work EXCEPT ![t].pc = "pop"] ELSE UNCHANGED work
    /\ UNCHANGED <<s_state, s_io_request_queues, s_pio_request_queue, io_size, pio_size, ctl,
                   request, stage, pushed, callbacks, overlapped, damaged, starts>>
-----------------------------------------------------------------------------
(***************************************************************************)
(* The worker threads.                                                     *)
(***************************************************************************)
\* A worker takes the entry e: the empty request ends it.
Take(w, e) ==
    IF e = Marker
    THEN work' = [work EXCEPT ![w] = Gone] /\ UNCHANGED stage
    ELSE /\ work' = [work EXCEPT ![w] = [pc |-> "run", e |-> e]]
         /\ stage' = [stage EXCEPT ![e[1]][e[2]] = "running"]

PopIo(w) ==
    /\ w[1] = "io" /\ work[w].pc = "pop"
    /\ s_io_request_queues[w[2]] # <<>>
    /\ s_io_request_queues' = [s_io_request_queues EXCEPT ![w[2]] = Tail(@)]
    /\ Take(w, Head(s_io_request_queues[w[2]]))
    /\ UNCHANGED <<s_state, s_reqid, s_pio_request_queue, io_size, pio_size, ctl, sub, request,
                   pushed, callbacks, ids, overlapped, damaged, starts>>

PopPio(w) ==
    /\ w[1] = "pio" /\ work[w].pc = "pop"
    /\ s_pio_request_queue # <<>>
    /\ s_pio_request_queue' = Tail(s_pio_request_queue)
    /\ Take(w, Head(s_pio_request_queue))
    /\ UNCHANGED <<s_state, s_reqid, s_io_request_queues, io_size, pio_size, ctl, sub, request,
                   pushed, callbacks, ids, overlapped, damaged, starts>>

\* The system call of one command, and the count of failed ones.
ProcessCommand(w, ret) ==
    /\ work[w].pc = "run"
    /\ stage' = [stage EXCEPT ![work[w].e[1]][work[w].e[2]] = ret]
    /\ request' = IF ret = "failed"
                  THEN [request EXCEPT ![work[w].e[1]].m_cmd_fail_cnt = @ + 1]
                  ELSE request
    /\ work' = [work EXCEPT ![w].pc = "count"]
    /\ UNCHANGED <<serviceVars, ctl, sub, pushed, callbacks, ids, overlapped, damaged, starts>>

\* Mistakes: the last but one, or one after the last, calls back.
IsLastButOne(r) == request[r].m_completed_cnt + 2 >= Len(CmdsOf[r])
IsAfterLast(r) == request[r].m_completed_cnt = Len(CmdsOf[r])

IsLast(r) == request[r].m_completed_cnt = Len(CmdsOf[r]) - 1

\* m_completed_cnt.fetch_add(1): whoever completes the last command calls back.
CountCommand(w) ==
    /\ work[w].pc = "count"
    /\ LET r == work[w].e[1] IN
       /\ request' = [request EXCEPT ![r].m_completed_cnt = @ + 1]
       /\ work' = [work EXCEPT ![w].pc = IF IsLast(r) THEN "callback" ELSE "pop"]
    /\ UNCHANGED <<serviceVars, ctl, sub, historyVars>>

\* The callback runs; if it submits another request and the service is up,
\* the worker stays in Submit until SubmitReturn.
Callback(w) ==
    /\ work[w].pc = "callback" /\ sub[w].pc = "out"
    /\ LET r == work[w].e[1]
           f == FollowUp[r] IN
       /\ callbacks' = [callbacks EXCEPT ![r] = Append(@, request[r].m_cmd_fail_cnt)]
       /\ \/ /\ f # None /\ SubmitBegin(w, f)
             /\ UNCHANGED work
          \/ /\ ~(f # None /\ s_state = "STARTED" /\ Fresh(f))
             /\ work' = [work EXCEPT ![w].pc = "pop"]
             /\ UNCHANGED <<sub, request>>
    /\ UNCHANGED <<serviceVars, ctl, stage, pushed, ids, overlapped, damaged, starts>>
-----------------------------------------------------------------------------
Control(c) ==
    \/ StartIo(c) \/ StartPio(c) \/ StartDone(c)
    \/ StopMarkIo(c) \/ StopJoinIo(c) \/ StopDelete(c) \/ StopMarkPio(c) \/ StopDone(c)

SubmitStep(t) == SubmitSize(t) \/ SubmitPushIo(t) \/ SubmitPushPio(t) \/ SubmitReturn(t)

WorkerStep(w) ==
    \/ PopIo(w) \/ PopPio(w) \/ CountCommand(w) \/ Callback(w)
    \/ \E ret \in {"ok", "failed"} : ProcessCommand(w, ret)

Next ==
    \/ \E c \in Controllers :
        \/ Control(c) \/ StopCas(c)
        \/ \E m \in IoArgs, n \in PioArgs : StartCas(c, m, n)
    \/ \E t \in Clients, r \in Requests : ClientSubmit(t, r)
    \/ \E t \in Submitters : SubmitStep(t)
    \/ \E w \in Workers : WorkerStep(w)

Spec == Init /\ [][Next]_vars

\* Threads run: a call that began, and a worker with something to do, go on.
\* Nobody is bound to call Start, Stop or Submit.
FairSpec ==
    /\ Spec
    /\ \A c \in Controllers : WF_vars(Control(c))
    /\ \A t \in Submitters : WF_vars(SubmitStep(t))
    /\ \A w \in Workers : WF_vars(WorkerStep(w))
-----------------------------------------------------------------------------
(***************************************************************************)
(* Properties.                                                             *)
(***************************************************************************)
Finished(e) == stage[e[1]][e[2]] \in {"ok", "failed"}
FailedCmds(r) == {i \in DOMAIN CmdsOf[r] : stage[r][i] = "failed"}

\* The callback of a request runs at most once, after every one of its
\* commands, and is told how many of them failed, although the commands run
\* on several threads and finish in any order.
CallbackExact ==
    \A r \in Requests :
        /\ Len(callbacks[r]) <= 1
        /\ callbacks[r] # <<>> =>
             /\ \A i \in DOMAIN CmdsOf[r] : Finished(<<r, i>>)
             /\ callbacks[r][1] = Cardinality(FailedCmds(r))

\* Commands without an offset share the position of their file: those of one
\* fd run one at a time, in the order of their Push.  (A request that a Stop
\* overtook in Submit may be left behind, or reach another queue with an
\* index that it computed before a restart.)
FifoPerFd ==
    \A f \in Fds : \A k, l \in DOMAIN pushed[f] :
        LET e == pushed[f][k]  g == pushed[f][l] IN
        (k < l /\ {e[1], g[1]} \cap overlapped = {} /\ stage[g[1]][g[2]] # "queued")
            => Finished(e)

\* Stop drains the service: once it has returned, every request whose Submit
\* returned before it began has been called back.  Every empty request has ended
\* one thread: none is left to end a thread of the next Start, and only an
\* overtaken Submit leaves a command behind.
Drained ==
    s_state = "STOPPED" =>
        /\ \A r \in Requests : (ids[r] # 0 /\ r \notin overlapped /\ CmdsOf[r] # <<>>)
                                 => callbacks[r] # <<>>
        /\ \A k \in DOMAIN s_pio_request_queue : s_pio_request_queue[k][1] \in overlapped

\* A freed queue is used only by a Submit that Stop overtook after its test
\* of s_state; queues, threads and requests are what their types say throughout.
SafeAccess == TypeOK /\ damaged \subseteq overlapped

\* Stop holds the mutex of the io threads while it joins them, and one of
\* them waits for that mutex inside the Submit of a callback.
JoinBlocked ==
    /\ IoGroupLocked
    /\ \E w \in IoWorkers : sub[w].pc = "next" /\ MoreCmds(w) /\ ~Cmd(w).pio

\* Stop returns, unless it deadlocks with the Submit of a callback.
StopCompletes == s_state = "STOPPING" ~> (s_state = "STOPPED" \/ JoinBlocked)

\* An accepted request is called back, unless a Stop overtook its Submit or
\* deadlocked.
CallbackEventually ==
    \A r \in Requests : (ids[r] # 0 /\ CmdsOf[r] # <<>>)
        ~> (callbacks[r] # <<>> \/ r \in overlapped \/ JoinBlocked)
=============================================================================
