------------------------------ MODULE AioProofs ------------------------------
(***************************************************************************)
(* The asynchronous I/O service for any number of threads, clients,        *)
(* controllers, requests and restarts: what a Submit touches is alive      *)
(* unless Stop overtook it (SafeAccess); a request is called back at most  *)
(* once, after its last command and with the number of its failures        *)
(* (CallbackExact); the commands of one fd run one at a time, in the order *)
(* of their pushes (FifoPerFd); and Stop drains the service (Drained).     *)
(*                                                                         *)
(* The inductive invariant has six layers, each resting on those before:   *)
(* the service (ServiceInv: one controller at a time, and which threads    *)
(* and queues are up at each of its steps); where each command is          *)
(* (PlacesInv: one place in one queue, or one worker); the counters of a   *)
(* request (CountsInv: they count the finished commands whose worker has   *)
(* left the count); who calls back (CallbackInv: the worker that counted   *)
(* the last one, and nobody before it); the order of the commands of an fd *)
(* (OrderInv: they share a queue, and empty requests come behind them);    *)
(* and what is left (DrainInv: every living pio thread has one empty       *)
(* request to come, and nothing that was accepted is forgotten).           *)
(***************************************************************************)
EXTENDS Aio, TLAPS, FiniteSetTheorems, SequenceTheorems

\* Between the start of its threads and their end a group is up.
IoUp ==
    \/ s_state = "STARTED"
    \/ \E c \in Controllers : ctl[c].pc \in {"spawn_pio", "started", "mark_io", "join_io"}
PioUp ==
    \/ s_state = "STARTED"
    \/ \E c \in Controllers :
        ctl[c].pc \in {"started", "mark_io", "join_io", "delete", "mark_pio", "join_pio"}

\* The compare-and-swap lets one controller in, and s_state says what it does.
OneController ==
    /\ \A c, d \in Controllers : ctl[c].pc # "idle" /\ ctl[d].pc # "idle" => c = d
    /\ \A c \in Controllers :
        /\ ctl[c].pc \in {"spawn_io", "spawn_pio", "started"} => s_state = "STARTING"
        /\ ctl[c].pc \in {"mark_io", "join_io", "delete", "mark_pio", "join_pio"} =>
               s_state = "STOPPING"
        /\ ctl[c].pc = "spawn_io" => ctl[c].io > 0

\* A thread lives while its group is up, and the io queues live as long as a thread
\* that pops them.
ThreadsHaveQueues ==
    /\ IoUp => io_size > 0 /\ s_io_request_queues \in [0 .. io_size - 1 -> Queue]
    /\ \A w \in Workers : work[w].pc # "gone" =>
        /\ w[1] = "io" => IoUp /\ w[2] < io_size
        /\ w[1] = "pio" => PioUp
        /\ work[w].pc # "pop" => work[w].e \in Entries

\* A Submit works on a request of its own; one that no Stop overtook runs while the
\* service is up, with the index of a queue of now.
SubmitSound ==
    /\ \A t, u \in Submitters :
        sub[t].pc # "out" /\ sub[u].pc # "out" /\ sub[t].req = sub[u].req => t = u
    /\ \A t \in Submitters : sub[t].pc # "out" =>
        /\ sub[t].req \in Requests /\ sub[t].idx > 0 /\ io_size > 0
        /\ ids[sub[t].req] = 0
        /\ t \in Workers => work[t].pc = "callback"
        /\ sub[t].req \notin overlapped => s_state = "STARTED"
        /\ sub[t].pc = "push" =>
            /\ MoreCmds(t) /\ ~Cmd(t).pio
            /\ sub[t].req \notin overlapped => sub[t].age = starts /\ sub[t].q < io_size

StageIsFunction == stage = [r \in Requests |-> stage[r]]

Typed == TypeOK /\ StageIsFunction

ServiceInv ==
    /\ Typed /\ OneController /\ ThreadsHaveQueues /\ SubmitSound
    /\ damaged \subseteq overlapped

\* A group has at least one thread, also when Start is asked for none or too many.
LEMMA ThreadNumType == \A n \in IoArgs \cup PioArgs : ThreadNum(n) \in Nat /\ ThreadNum(n) > 0
  <1>1. \A n \in Int : ThreadNum(n) \in Int
    BY ConstantsAssumption DEF ThreadNum
  <1> QED
    BY <1>1, ConstantsAssumption

\* A worker is a group and an index.
LEMMA WorkersType == \A w \in Workers : w[1] \in {"io", "pio"} /\ w[2] \in Nat
  <1>1. \A n \in IoArgs \cup PioArgs : 0 .. ThreadNum(n) - 1 \subseteq Nat
    BY ThreadNumType
  <1> QED
    BY <1>1 DEF Workers, IoWorkers, PioWorkers

\* A place in a request is a queue entry, with a command of its own.
LEMMA EntryType ==
    ASSUME NEW r \in Requests, NEW i \in Nat, i > 0, i <= Len(CmdsOf[r])
    PROVE  /\ <<r, i>> \in Entries /\ i \in DOMAIN CmdsOf[r]
           /\ CmdsOf[r][i] \in Commands /\ CmdsOf[r][i].fd \in Fds
  <1>1. CmdsOf[r] \in Seq(Commands)
    BY ConstantsAssumption
  <1>2. i \in DOMAIN CmdsOf[r] /\ CmdsOf[r][i] \in Commands
    BY <1>1
  <1> QED
    BY <1>2 DEF Entries, Fds

-----------------------------------------------------------------------------
\* What the actions do to the records of the three kinds of threads.

\* Controller c goes from one place to another.
Moves(c, from, to) ==
    /\ ctl[c].pc = from /\ ctl'[c].pc = to
    /\ \A d \in Controllers \ {c} : ctl'[d] = ctl[d]
    /\ ctl' \in [Controllers -> CtlState]

\* The steps of Start and Stop, by where they take their controller.
LEMMA ControlMoves ==
    ASSUME TypeOK, NEW c \in Controllers
    PROVE  /\ StartIo(c) => Moves(c, "spawn_io", "spawn_pio")
           /\ StartPio(c) => Moves(c, "spawn_pio", "started")
           /\ StartDone(c) => Moves(c, "started", "idle")
           /\ StopCas(c) => Moves(c, "idle", "mark_io")
           /\ StopMarkIo(c) => Moves(c, "mark_io", "mark_io") \/ Moves(c, "mark_io", "join_io")
           /\ StopJoinIo(c) => Moves(c, "join_io", "delete")
           /\ StopDelete(c) => Moves(c, "delete", "mark_pio")
           /\ StopMarkPio(c) => Moves(c, "mark_pio", "mark_pio") \/ Moves(c, "mark_pio", "join_pio")
           /\ StopDone(c) => Moves(c, "join_pio", "idle")
           /\ \A m \in IoArgs, n \in PioArgs :
                StartCas(c, m, n) => Moves(c, "idle", "spawn_io") /\ ctl'[c].io > 0
  <1>0. ctl \in [Controllers -> CtlState] /\ ctl[c] \in CtlState
    BY DEF TypeOK
  <1>1. ASSUME NEW p \in {"spawn_pio", "started", "join_io", "delete", "join_pio"},
               ctl' = [ctl EXCEPT ![c].pc = p]
        PROVE  Moves(c, ctl[c].pc, p)
    BY <1>0, <1>1 DEF Moves, CtlState
  <1>2. ASSUME ctl' = [ctl EXCEPT ![c] = Idle]
        PROVE  Moves(c, ctl[c].pc, "idle")
    BY <1>0, <1>2 DEF Moves, CtlState, Idle
  <1>3. ASSUME ctl' = [ctl EXCEPT ![c].i = @ + 1]
        PROVE  Moves(c, ctl[c].pc, ctl[c].pc)
    BY <1>0, <1>3 DEF Moves, CtlState
  <1>4. ASSUME ctl' = [ctl EXCEPT ![c].pc = "mark_pio", ![c].i = 0]
        PROVE  Moves(c, ctl[c].pc, "mark_pio")
    BY <1>0, <1>4 DEF Moves, CtlState
  <1>5. ASSUME ctl' = [ctl EXCEPT ![c] = [Idle EXCEPT !.pc = "mark_io"]]
        PROVE  Moves(c, ctl[c].pc, "mark_io")
    BY <1>0, <1>5 DEF Moves, CtlState, Idle
  <1>6. ASSUME NEW m \in IoArgs, NEW n \in PioArgs, StartCas(c, m, n)
        PROVE  Moves(c, "idle", "spawn_io") /\ ctl'[c].io > 0
    BY <1>0, <1>6, ThreadNumType DEF Moves, CtlState, StartCas
  <1>7. StartIo(c) => Moves(c, "spawn_io", "spawn_pio")
    BY <1>1 DEF StartIo
  <1>8. StartPio(c) => Moves(c, "spawn_pio", "started")
    BY <1>1 DEF StartPio
  <1>9. StartDone(c) => Moves(c, "started", "idle")
    BY <1>2 DEF StartDone
  <1>10. StopCas(c) => Moves(c, "idle", "mark_io")
    BY <1>5 DEF StopCas
  <1>11. StopMarkIo(c) => Moves(c, "mark_io", "mark_io") \/ Moves(c, "mark_io", "join_io")
    BY <1>1, <1>3 DEF StopMarkIo
  <1>12. StopJoinIo(c) => Moves(c, "join_io", "delete")
    BY <1>1 DEF StopJoinIo
  <1>13. StopDelete(c) => Moves(c, "delete", "mark_pio")
    BY <1>4 DEF StopDelete
  <1>14. StopMarkPio(c) => Moves(c, "mark_pio", "mark_pio") \/ Moves(c, "mark_pio", "join_pio")
    BY <1>1, <1>3 DEF StopMarkPio
  <1>15. StopDone(c) => Moves(c, "join_pio", "idle")
    BY <1>2 DEF StopDone
  <1> QED
    BY <1>6, <1>7, <1>8, <1>9, <1>10, <1>11, <1>12, <1>13, <1>14, <1>15

\* Thread t's Submit goes on; those of the others do not move.
SubMoves(t, pc, req, idx) ==
    /\ sub'[t].pc = pc /\ sub'[t].req = req /\ sub'[t].idx = idx
    /\ \A u \in Submitters \ {t} : sub'[u] = sub[u]
    /\ sub' \in [Submitters -> SubState]

\* The steps of Submit, by where they take their thread.
LEMMA SubmitMoves ==
    ASSUME TypeOK, SubmitSound, NEW t \in Submitters
    PROVE  /\ \A r \in Requests : SubmitBegin(t, r) => SubMoves(t, "next", r, 1)
           /\ SubmitSize(t) => /\ SubMoves(t, "push", sub[t].req, sub[t].idx)
                               /\ sub'[t].q \in 0 .. io_size - 1 /\ sub'[t].age = starts
           /\ SubmitNext(t) => SubMoves(t, "next", sub[t].req, sub[t].idx + 1)
           /\ SubmitReturn(t) => SubMoves(t, "out", None, 0)
  <1>0. sub \in [Submitters -> SubState] /\ sub[t] \in SubState
    BY DEF TypeOK
  <1>1. ASSUME NEW r \in Requests, SubmitBegin(t, r) PROVE SubMoves(t, "next", r, 1)
    BY <1>0, <1>1 DEF SubmitBegin, SubMoves, SubState, NoSubmit
  <1>2. ASSUME SubmitSize(t)
        PROVE  /\ SubMoves(t, "push", sub[t].req, sub[t].idx)
               /\ sub'[t].q \in 0 .. io_size - 1 /\ sub'[t].age = starts
    <2>1. Cmd(t).fd \in Nat
      <3>1. sub[t].req \in Requests /\ sub[t].idx \in Nat /\ sub[t].idx > 0
        BY <1>0, <1>2 DEF SubmitSize, SubmitSound, SubState
      <3>2. CmdsOf[sub[t].req][sub[t].idx] \in Commands
        BY <1>2, <3>1, EntryType DEF SubmitSize, MoreCmds
      <3> QED
        BY <3>2 DEF Cmd, Commands
    <2>2. io_size \in Nat /\ io_size > 0
      BY <1>2 DEF SubmitSize, SubmitSound, TypeOK
    <2>3. QueueIndex(t) \in 0 .. io_size - 1
      BY <2>1, <2>2 DEF QueueIndex
    <2>4. starts \in Nat
      BY ConstantsAssumption DEF TypeOK
    <2>5. ASSUME NEW q \in Nat, NEW age \in Nat,
                 sub' = [sub EXCEPT ![t].pc = "push", ![t].q = q, ![t].age = age]
          PROVE  SubMoves(t, "push", sub[t].req, sub[t].idx) /\ sub'[t].q = q /\ sub'[t].age = age
      BY <1>0, <2>5 DEF SubMoves, SubState
    <2>6. QueueIndex(t) \in Nat
      BY <2>2, <2>3
    <2> QED
      BY <1>2, <2>3, <2>4, <2>5, <2>6 DEF SubmitSize
  <1>3. ASSUME SubmitNext(t) PROVE SubMoves(t, "next", sub[t].req, sub[t].idx + 1)
    BY <1>0, <1>3 DEF SubmitNext, SubMoves, SubState
  <1>4. ASSUME SubmitReturn(t) PROVE SubMoves(t, "out", None, 0)
    BY <1>0, <1>4 DEF SubmitReturn, SubMoves, SubState, NoSubmit
  <1> QED
    BY <1>1, <1>2, <1>3, <1>4

\* Worker w goes on, the others do not.
WorkMoves(w, pc, e) ==
    /\ work'[w].pc = pc /\ work'[w].e = e
    /\ \A v \in Workers \ {w} : work'[v] = work[v]
    /\ work' \in [Workers -> WorkState]

\* The steps of a worker, by what it then does and holds.
LEMMA WorkersMove ==
    ASSUME TypeOK, NEW w \in Workers
    PROVE  /\ \A p \in {"pop", "count", "callback"} :
                work' = [work EXCEPT ![w].pc = p] => WorkMoves(w, p, work[w].e)
           /\ \A e \in Entries \cup {Marker} : Take(w, e) =>
                IF e = Marker THEN WorkMoves(w, "gone", Marker) ELSE WorkMoves(w, "run", e)
  <1>0. work \in [Workers -> WorkState] /\ work[w] \in WorkState
    BY DEF TypeOK
  <1>1. ASSUME NEW p \in {"pop", "count", "callback"}, work' = [work EXCEPT ![w].pc = p]
        PROVE  WorkMoves(w, p, work[w].e)
    BY <1>0, <1>1 DEF WorkMoves, WorkState
  <1>2. ASSUME NEW e \in Entries \cup {Marker}, Take(w, e)
        PROVE  IF e = Marker THEN WorkMoves(w, "gone", Marker) ELSE WorkMoves(w, "run", e)
    BY <1>0, <1>2 DEF Take, WorkMoves, WorkState, Gone
  <1> QED
    BY <1>1, <1>2

\* ThreadGroup::Start puts its threads in their loop and leaves the others alone.
LEMMA SpawnMoves ==
    ASSUME TypeOK, NEW kind, NEW n, Spawn(kind, n)
    PROVE  /\ work' \in [Workers -> WorkState]
           /\ \A w \in Workers : IF w[1] = kind /\ w[2] < n THEN work'[w].pc = "pop"
                                ELSE work'[w] = work[w]
  BY DEF TypeOK, Spawn, WorkState

-----------------------------------------------------------------------------
\* The compare-and-swap of s_state keeps one controller at work.
LEMMA ControllerStep ==
    ASSUME TypeOK, OneController, [Next]_vars
    PROVE  OneController'
  <1>0. ctl \in [Controllers -> CtlState]
    BY DEF TypeOK
  <1>a. ASSUME UNCHANGED <<ctl, s_state>> PROVE OneController'
    BY <1>a DEF OneController
  <1>1. ASSUME NEW c \in Controllers, NEW m \in IoArgs, NEW n \in PioArgs, StartCas(c, m, n)
        PROVE  OneController'
    <2>1. Moves(c, "idle", "spawn_io") /\ ctl'[c].io > 0
      BY <1>1, ControlMoves
    <2>2. s_state = "STOPPED" /\ s_state' = "STARTING"
      BY <1>1 DEF StartCas
    <2> QED
      BY <1>0, <2>1, <2>2 DEF Moves, OneController, CtlState
  <1>2. ASSUME NEW c \in Controllers, StartDone(c) \/ StopDone(c) \/ StopCas(c)
        PROVE  OneController'
    BY <1>0, <1>2, ControlMoves DEF StartDone, StopDone, StopCas, Moves, OneController, CtlState
  <1>3. ASSUME NEW c \in Controllers,
               StartIo(c) \/ StartPio(c) \/ StopMarkIo(c) \/ StopJoinIo(c) \/ StopDelete(c)
                 \/ StopMarkPio(c)
        PROVE  OneController'
    <2>1. s_state' = s_state
      BY <1>3 DEF StartIo, StartPio, StopMarkIo, StopJoinIo, StopDelete, StopMarkPio, serviceVars
    <2> QED
      BY <1>0, <1>3, <2>1, ControlMoves DEF Moves, OneController, CtlState
  <1>4. ASSUME NEW t \in Submitters, SubmitStep(t) PROVE OneController'
    BY <1>4, <1>a DEF SubmitStep, SubmitSize, SubmitPushIo, SubmitPushPio, SubmitReturn, serviceVars
  <1>5. ASSUME NEW t \in Clients, NEW r \in Requests, ClientSubmit(t, r) PROVE OneController'
    BY <1>5, <1>a DEF ClientSubmit, serviceVars
  <1>6. ASSUME NEW w \in Workers, WorkerStep(w) PROVE OneController'
    BY <1>6, <1>a DEF WorkerStep, PopIo, PopPio, CountCommand, Callback, ProcessCommand, serviceVars
  <1>7. CASE UNCHANGED vars
    BY <1>7, <1>a DEF vars, serviceVars
  <1> QED
    BY <1>1, <1>2, <1>3, <1>4, <1>5, <1>6, <1>7 DEF Next, Control

\* What each step does to "up".
LEMMA UpStep ==
    ASSUME TypeOK, OneController, NEW c \in Controllers
    PROVE  /\ \A m \in IoArgs, n \in PioArgs : StartCas(c, m, n) => ~IoUp /\ ~PioUp /\ ~IoUp' /\ ~PioUp'
           /\ StartIo(c) => ~IoUp /\ ~PioUp /\ IoUp' /\ ~PioUp'
           /\ StartPio(c) => IoUp /\ ~PioUp /\ IoUp' /\ PioUp'
           /\ StartDone(c) => IoUp /\ PioUp /\ IoUp' /\ PioUp'
           /\ StopCas(c) => IoUp /\ PioUp /\ IoUp' /\ PioUp'
           /\ StopMarkIo(c) => IoUp /\ PioUp /\ IoUp' /\ PioUp'
           /\ StopJoinIo(c) => IoUp /\ PioUp /\ ~IoUp' /\ PioUp'
           /\ StopDelete(c) => ~IoUp /\ PioUp /\ ~IoUp' /\ PioUp'
           /\ StopMarkPio(c) => ~IoUp /\ PioUp /\ ~IoUp' /\ PioUp'
           /\ StopDone(c) => ~IoUp /\ PioUp /\ ~IoUp' /\ ~PioUp'
  <1>0. ctl \in [Controllers -> CtlState]
    BY DEF TypeOK
  <1>a. ASSUME NEW from \in {"idle", "spawn_io", "spawn_pio", "started", "mark_io", "join_io",
                             "delete", "mark_pio", "join_pio"},
               NEW to \in {"idle", "spawn_io", "spawn_pio", "started", "mark_io", "join_io",
                             "delete", "mark_pio", "join_pio"},
               Moves(c, from, to), from # "idle" \/ s_state \in {"STOPPED", "STARTED"}
        PROVE  \A d \in Controllers \ {c} : ctl[d].pc = "idle" /\ ctl'[d].pc = "idle"
    BY <1>0, <1>a DEF Moves, OneController, CtlState
  <1> USE <1>0, <1>a, ControlMoves DEF Moves, OneController, IoUp, PioUp
  <1>1. ASSUME NEW m \in IoArgs, NEW n \in PioArgs, StartCas(c, m, n)
        PROVE  ~IoUp /\ ~PioUp /\ ~IoUp' /\ ~PioUp'
    <2>1. s_state = "STOPPED" /\ s_state' = "STARTING" /\ Moves(c, "idle", "spawn_io")
      BY <1>1 DEF StartCas
    <2> QED BY <2>1
  <1>2. ASSUME StartIo(c) PROVE ~IoUp /\ ~PioUp /\ IoUp' /\ ~PioUp'
    <2>1. s_state' = s_state /\ Moves(c, "spawn_io", "spawn_pio")
      BY <1>2 DEF StartIo
    <2> QED BY <2>1
  <1>3. ASSUME StartPio(c) PROVE IoUp /\ ~PioUp /\ IoUp' /\ PioUp'
    <2>1. s_state' = s_state /\ Moves(c, "spawn_pio", "started")
      BY <1>3 DEF StartPio
    <2> QED BY <2>1
  <1>4. ASSUME StartDone(c) PROVE IoUp /\ PioUp /\ IoUp' /\ PioUp'
    <2>1. s_state' = "STARTED" /\ Moves(c, "started", "idle")
      BY <1>4 DEF StartDone
    <2> QED BY <2>1
  <1>5. ASSUME StopCas(c) PROVE IoUp /\ PioUp /\ IoUp' /\ PioUp'
    <2>1. s_state = "STARTED" /\ Moves(c, "idle", "mark_io")
      BY <1>5 DEF StopCas
    <2> QED BY <2>1
  <1>6. ASSUME StopMarkIo(c) PROVE IoUp /\ PioUp /\ IoUp' /\ PioUp'
    <2>1. Moves(c, "mark_io", "mark_io") \/ Moves(c, "mark_io", "join_io")
      BY <1>6
    <2> QED BY <2>1
  <1>7. ASSUME StopJoinIo(c) PROVE IoUp /\ PioUp /\ ~IoUp' /\ PioUp'
    <2>1. s_state' = s_state /\ Moves(c, "join_io", "delete")
      BY <1>7 DEF StopJoinIo, serviceVars
    <2> QED BY <2>1
  <1>8. ASSUME StopDelete(c) PROVE ~IoUp /\ PioUp /\ ~IoUp' /\ PioUp'
    <2>1. s_state' = s_state /\ Moves(c, "delete", "mark_pio")
      BY <1>8 DEF StopDelete
    <2> QED BY <2>1
  <1>9. ASSUME StopMarkPio(c) PROVE ~IoUp /\ PioUp /\ ~IoUp' /\ PioUp'
    <2>1. s_state' = s_state /\ (Moves(c, "mark_pio", "mark_pio") \/ Moves(c, "mark_pio", "join_pio"))
      BY <1>9 DEF StopMarkPio
    <2> QED BY <2>1
  <1>10. ASSUME StopDone(c) PROVE ~IoUp /\ PioUp /\ ~IoUp' /\ ~PioUp'
    <2>1. s_state' = "STOPPED" /\ Moves(c, "join_pio", "idle")
      BY <1>10 DEF StopDone
    <2> QED BY <2>1
  <1> QED
    BY <1>1, <1>2, <1>3, <1>4, <1>5, <1>6, <1>7, <1>8, <1>9, <1>10

-----------------------------------------------------------------------------
\* Push and Pop keep the elements of a queue.
LEMMA QueueOps ==
    ASSUME NEW q \in Queue
    PROVE  /\ \A e \in Entries \cup {Marker} : Append(q, e) \in Queue
           /\ q # <<>> => Tail(q) \in Queue /\ Head(q) \in Entries \cup {Marker}
  BY DEF Queue

\* One command goes to stage x, the others stay where they are.
StageMoves(r, i, x) ==
    /\ StageIsFunction'
    /\ \A q \in Requests : stage'[q] \in [DOMAIN CmdsOf[q] -> Stages]
    /\ stage'[r][i] = x
    /\ \A q \in Requests : \A j \in DOMAIN CmdsOf[q] :
        (q # r \/ j # i) => stage'[q][j] = stage[q][j]

\* An assignment to the stage of one command leaves the others alone.
LEMMA StageStep ==
    ASSUME TypeOK, StageIsFunction, NEW r \in Requests, NEW i \in DOMAIN CmdsOf[r],
           NEW x \in Stages, stage' = [stage EXCEPT ![r][i] = x]
    PROVE  StageMoves(r, i, x)
  <1>1. DOMAIN stage = Requests /\ stage[r] \in [DOMAIN CmdsOf[r] -> Stages]
    BY DEF TypeOK, StageIsFunction
  <1>2. stage' = [q \in Requests |-> IF q = r THEN [stage[r] EXCEPT ![i] = x] ELSE stage[q]]
    BY <1>1 DEF StageIsFunction
  <1>3. StageIsFunction'
    BY <1>2 DEF StageIsFunction
  <1>4. stage'[r] = [stage[r] EXCEPT ![i] = x] /\ \A q \in Requests \ {r} : stage'[q] = stage[q]
    BY <1>2
  <1>5. \A q \in Requests : stage'[q] \in [DOMAIN CmdsOf[q] -> Stages]
    BY <1>1, <1>4 DEF TypeOK
  <1> QED
    BY <1>1, <1>3, <1>4, <1>5 DEF StageMoves

\* One of the two counters of a request goes up.
LEMMA CounterStep ==
    ASSUME TypeOK, NEW r \in Requests
    PROVE  /\ request' = [request EXCEPT ![r].m_cmd_fail_cnt = @ + 1] =>
                /\ request' \in [Requests -> Counters]
                /\ request'[r].m_cmd_fail_cnt = request[r].m_cmd_fail_cnt + 1
                /\ request'[r].m_completed_cnt = request[r].m_completed_cnt
                /\ \A q \in Requests \ {r} : request'[q] = request[q]
           /\ request' = [request EXCEPT ![r].m_completed_cnt = @ + 1] =>
                /\ request' \in [Requests -> Counters]
                /\ request'[r].m_cmd_fail_cnt = request[r].m_cmd_fail_cnt
                /\ request'[r].m_completed_cnt = request[r].m_completed_cnt + 1
                /\ \A q \in Requests \ {r} : request'[q] = request[q]
  <1>1. request \in [Requests -> Counters] /\ request[r] \in Counters
    BY DEF TypeOK
  <1> QED
    BY <1>1 DEF Counters

\* The entry that Submit pushes, and the one a worker holds.
LEMMA SubmitEntry ==
    ASSUME TypeOK, SubmitSound, NEW t \in Submitters, sub[t].pc # "out", MoreCmds(t)
    PROVE  /\ sub[t].req \in Requests /\ sub[t].idx \in DOMAIN CmdsOf[sub[t].req]
           /\ <<sub[t].req, sub[t].idx>> \in Entries
           /\ Cmd(t) = CmdsOf[sub[t].req][sub[t].idx] /\ Cmd(t).fd \in Fds
  <1>1. sub[t].req \in Requests /\ sub[t].idx \in Nat /\ sub[t].idx > 0
    BY DEF TypeOK, SubmitSound, SubState
  <1> QED
    BY <1>1, EntryType DEF MoreCmds, Cmd

\* An entry is a request and a place in it; the exit marker is none.
LEMMA EntryParts ==
    /\ \A e \in Entries : e[1] \in Requests /\ e[2] \in DOMAIN CmdsOf[e[1]] /\ e = <<e[1], e[2]>>
    /\ Marker \notin Entries
  BY ConstantsAssumption DEF Entries, Marker

\* What a worker pops.
LEMMA PopEntry ==
    ASSUME TypeOK, ThreadsHaveQueues, NEW w \in Workers
    PROVE  /\ PopIo(w) => /\ s_io_request_queues \in [0 .. io_size - 1 -> Queue]
                          /\ w[2] \in 0 .. io_size - 1
                          /\ s_io_request_queues[w[2]] \in Queue
                          /\ Head(s_io_request_queues[w[2]]) \in Entries \cup {Marker}
                          /\ s_io_request_queues' \in [0 .. io_size - 1 -> Queue]
           /\ PopPio(w) => /\ Head(s_pio_request_queue) \in Entries \cup {Marker}
                           /\ s_pio_request_queue' \in Queue
  <1>1. ASSUME PopIo(w)
        PROVE  /\ s_io_request_queues \in [0 .. io_size - 1 -> Queue]
               /\ w[2] \in 0 .. io_size - 1
               /\ s_io_request_queues[w[2]] \in Queue
               /\ Head(s_io_request_queues[w[2]]) \in Entries \cup {Marker}
               /\ s_io_request_queues' \in [0 .. io_size - 1 -> Queue]
    <2>1. s_io_request_queues \in [0 .. io_size - 1 -> Queue] /\ w[2] < io_size
      BY <1>1 DEF PopIo, ThreadsHaveQueues
    <2>2. w[2] \in 0 .. io_size - 1
      BY <2>1, WorkersType DEF TypeOK
    <2>3. /\ s_io_request_queues[w[2]] \in Queue /\ s_io_request_queues[w[2]] # <<>>
          /\ s_io_request_queues' = [s_io_request_queues EXCEPT ![w[2]] = Tail(@)]
      BY <1>1, <2>1, <2>2 DEF PopIo
    <2> QED
      BY <2>1, <2>2, <2>3, QueueOps
  <1>2. ASSUME PopPio(w)
        PROVE  Head(s_pio_request_queue) \in Entries \cup {Marker} /\ s_pio_request_queue' \in Queue
    BY <1>2, QueueOps DEF PopPio, TypeOK
  <1> QED
    BY <1>1, <1>2

\* Take moves the popped entry, if it is one, on to "running".
LEMMA TakeStep ==
    ASSUME TypeOK, StageIsFunction, NEW w \in Workers, NEW e \in Entries \cup {Marker}, Take(w, e)
    PROVE  \/ e = Marker /\ WorkMoves(w, "gone", Marker) /\ stage' = stage
           \/ e \in Entries /\ WorkMoves(w, "run", e) /\ StageMoves(e[1], e[2], "running")
  <1>1. CASE e = Marker
    BY <1>1, WorkersMove DEF Take
  <1>2. CASE e # Marker
    BY <1>2, WorkersMove, EntryParts, StageStep DEF Take, Stages
  <1> QED
    BY <1>1, <1>2

-----------------------------------------------------------------------------
\* Every step keeps the types.
LEMMA TypeStep ==
    ASSUME Typed, OneController, ThreadsHaveQueues, SubmitSound, [Next]_vars
    PROVE  Typed'
  <1> USE DEF Typed
  <1>0. /\ starts \in Nat /\ MaxStarts \in Nat
        /\ stage' = stage => StageIsFunction'
    BY ConstantsAssumption DEF TypeOK, StageIsFunction
  <1>1. ASSUME NEW c \in Controllers, NEW m \in IoArgs, NEW n \in PioArgs, StartCas(c, m, n)
        PROVE  Typed'
    <2>1. ctl' \in [Controllers -> CtlState]
      BY <1>1, ControlMoves DEF Moves
    <2>2. starts' \in 0 .. MaxStarts
      BY <1>0, <1>1 DEF StartCas
    <2> QED
      BY <1>0, <1>1, <2>1, <2>2 DEF StartCas, TypeOK
  <1>2. ASSUME NEW c \in Controllers, StartIo(c) PROVE Typed'
    <2>1. ctl' \in [Controllers -> CtlState] /\ work' \in [Workers -> WorkState]
      BY <1>2, ControlMoves, SpawnMoves DEF StartIo, Moves
    <2>2. io_size' \in Nat
      BY <1>2 DEF StartIo, TypeOK, CtlState
    <2>3. s_io_request_queues' \in [0 .. io_size' - 1 -> Queue]
      BY <1>2, <2>2 DEF StartIo, Queue
    <2> QED
      BY <1>0, <1>2, <2>1, <2>2, <2>3 DEF StartIo, TypeOK, historyVars
  <1>3. ASSUME NEW c \in Controllers, StartPio(c) PROVE Typed'
    <2>1. ctl' \in [Controllers -> CtlState] /\ work' \in [Workers -> WorkState]
      BY <1>3, ControlMoves, SpawnMoves DEF StartPio, Moves
    <2>2. pio_size' \in Nat
      BY <1>3 DEF StartPio, TypeOK, CtlState
    <2> QED
      BY <1>0, <1>3, <2>1, <2>2 DEF StartPio, TypeOK, historyVars
  <1>4. ASSUME NEW c \in Controllers, StartDone(c) \/ StopDone(c) PROVE Typed'
    <2>1. ctl' \in [Controllers -> CtlState]
      BY <1>4, ControlMoves DEF Moves
    <2> QED
      BY <1>0, <1>4, <2>1 DEF StartDone, StopDone, TypeOK, historyVars
  <1>5. ASSUME NEW c \in Controllers, StopCas(c) PROVE Typed'
    <2>1. ctl' \in [Controllers -> CtlState]
      BY <1>5, ControlMoves DEF Moves
    <2>2. InSubmit \subseteq Requests
      BY DEF InSubmit, SubmitSound
    <2> QED
      BY <1>0, <1>5, <2>1, <2>2 DEF StopCas, TypeOK
  <1>6. ASSUME NEW c \in Controllers, StopMarkIo(c) PROVE Typed'
    <2>1. ctl' \in [Controllers -> CtlState]
      BY <1>6, ControlMoves DEF Moves
    <2>2. s_io_request_queues' \in [0 .. io_size - 1 -> Queue]
      <3>1. s_io_request_queues \in [0 .. io_size - 1 -> Queue]
        BY <1>6, UpStep DEF ThreadsHaveQueues
      <3>2. \A q \in Queue : Append(q, Marker) \in Queue
        BY QueueOps
      <3>3. \/ s_io_request_queues' = [s_io_request_queues EXCEPT ![ctl[c].i] = Append(@, Marker)]
            \/ s_io_request_queues' = s_io_request_queues
        BY <1>6 DEF StopMarkIo
      <3> QED
        BY <3>1, <3>2, <3>3
    <2> QED
      BY <1>0, <1>6, <2>1, <2>2 DEF StopMarkIo, TypeOK, historyVars
  <1>7. ASSUME NEW c \in Controllers, StopJoinIo(c) PROVE Typed'
    <2>1. ctl' \in [Controllers -> CtlState]
      BY <1>7, ControlMoves DEF Moves
    <2> QED
      BY <1>0, <1>7, <2>1 DEF StopJoinIo, TypeOK, serviceVars, historyVars
  <1>8. ASSUME NEW c \in Controllers, StopDelete(c) PROVE Typed'
    <2>1. ctl' \in [Controllers -> CtlState]
      BY <1>8, ControlMoves DEF Moves
    <2> QED
      BY <1>0, <1>8, <2>1 DEF StopDelete, TypeOK, historyVars
  <1>9. ASSUME NEW c \in Controllers, StopMarkPio(c) PROVE Typed'
    <2>1. ctl' \in [Controllers -> CtlState]
      BY <1>9, ControlMoves DEF Moves
    <2>2. s_pio_request_queue' \in Queue
      <3>1. s_pio_request_queue \in Queue
        BY DEF TypeOK
      <3>2. Append(s_pio_request_queue, Marker) \in Queue
        BY <3>1, QueueOps
      <3> QED
        BY <1>9, <3>1, <3>2 DEF StopMarkPio
    <2> QED
      BY <1>0, <1>9, <2>1, <2>2 DEF StopMarkPio, TypeOK, historyVars
  <1>a. ASSUME NEW t \in Submitters, NEW r \in Requests, SubmitBegin(t, r)
        PROVE  sub' \in [Submitters -> SubState] /\ request' \in [Requests -> Counters]
    <2>1. NotMade \in Counters
      BY DEF NotMade, Counters
    <2>2. request' = [request EXCEPT ![r] = NotMade]
      BY <1>a DEF SubmitBegin
    <2> QED
      BY <1>a, <2>1, <2>2, SubmitMoves DEF SubMoves, TypeOK
  <1>10. ASSUME NEW t \in Clients, NEW r \in Requests, ClientSubmit(t, r) PROVE Typed'
    <2>1. sub' \in [Submitters -> SubState] /\ request' \in [Requests -> Counters]
      BY <1>10, <1>a DEF ClientSubmit, Submitters
    <2> QED
      BY <1>0, <1>10, <2>1 DEF ClientSubmit, TypeOK, serviceVars, historyVars
  <1>11. ASSUME NEW t \in Submitters, SubmitSize(t) PROVE Typed'
    <2>1. sub' \in [Submitters -> SubState]
      BY <1>11, SubmitMoves DEF SubMoves
    <2> QED
      BY <1>0, <1>11, <2>1 DEF SubmitSize, TypeOK, serviceVars, historyVars
  <1>12. ASSUME NEW t \in Submitters, SubmitPushIo(t) PROVE Typed'
    <2> DEFINE e == <<sub[t].req, sub[t].idx>>
    <2>1. sub' \in [Submitters -> SubState]
      BY <1>12, SubmitMoves DEF SubMoves, SubmitPushIo
    <2>2. sub[t].pc # "out" /\ MoreCmds(t)
      BY <1>12 DEF SubmitPushIo, SubmitSound
    <2>3. CASE /\ sub[t].q \in DOMAIN s_io_request_queues
               /\ s_io_request_queues' = [s_io_request_queues EXCEPT ![sub[t].q] = Append(@, e)]
               /\ pushed' = [pushed EXCEPT ![Cmd(t).fd] = Append(@, e)]
               /\ Queued(t)
               /\ UNCHANGED damaged
      <3>1. s_io_request_queues' \in [0 .. io_size - 1 -> Queue]
        <4>1. s_io_request_queues \in [0 .. io_size - 1 -> Queue]
          BY <2>3 DEF TypeOK
        <4> QED
          BY <2>2, <2>3, <4>1, SubmitEntry, QueueOps
      <3>2. pushed' \in [Fds -> Seq(Entries)]
        BY <2>2, <2>3, SubmitEntry DEF TypeOK
      <3>3. StageMoves(sub[t].req, sub[t].idx, "queued")
        BY <2>2, <2>3, SubmitEntry, StageStep DEF Queued, Stages
      <3> QED
        BY <1>12, <2>1, <2>3, <3>1, <3>2, <3>3 DEF SubmitPushIo, StageMoves, TypeOK
    <2>4. CASE /\ damaged' = damaged \cup {sub[t].req}
               /\ UNCHANGED <<s_io_request_queues, pushed, stage>>
      BY <1>0, <1>12, <2>1, <2>2, <2>4, SubmitEntry DEF SubmitPushIo, TypeOK
    <2> QED
      BY <1>12, <2>3, <2>4 DEF SubmitPushIo
  <1>13. ASSUME NEW t \in Submitters, SubmitPushPio(t) PROVE Typed'
    <2>1. sub' \in [Submitters -> SubState]
      BY <1>13, SubmitMoves DEF SubMoves, SubmitPushPio
    <2>2. sub[t].pc # "out" /\ MoreCmds(t)
      BY <1>13 DEF SubmitPushPio
    <2>3. s_pio_request_queue' \in Queue
      BY <1>13, <2>2, SubmitEntry, QueueOps DEF SubmitPushPio, TypeOK
    <2>4. StageMoves(sub[t].req, sub[t].idx, "queued")
      BY <1>13, <2>2, SubmitEntry, StageStep DEF SubmitPushPio, Queued, Stages
    <2> QED
      BY <1>13, <2>1, <2>3, <2>4 DEF SubmitPushPio, StageMoves, TypeOK
  <1>14. ASSUME NEW t \in Submitters, SubmitReturn(t) PROVE Typed'
    <2>1. sub' \in [Submitters -> SubState]
      BY <1>14, SubmitMoves DEF SubMoves
    <2>2. work' \in [Workers -> WorkState]
      BY <1>14, WorkersMove DEF WorkMoves, SubmitReturn, TypeOK
    <2>3. s_reqid' \in Nat \ {0} /\ ids' \in [Requests -> Nat]
      <3>1. s_reqid \in Nat \ {0} /\ ids \in [Requests -> Nat]
        BY DEF TypeOK
      <3>2. s_reqid' = s_reqid + 1 /\ ids' = [ids EXCEPT ![sub[t].req] = s_reqid]
        BY <1>14 DEF SubmitReturn
      <3>3. ids' \in [Requests -> Nat]
        BY <3>1, <3>2
      <3>4. s_reqid' \in Nat \ {0}
        BY <3>1, <3>2
      <3> QED
        BY <3>3, <3>4
    <2> QED
      BY <1>0, <1>14, <2>1, <2>2, <2>3 DEF SubmitReturn, TypeOK
  <1>15. ASSUME NEW w \in Workers, PopIo(w) PROVE Typed'
    <2>1. /\ s_io_request_queues' \in [0 .. io_size - 1 -> Queue]
          /\ Head(s_io_request_queues[w[2]]) \in Entries \cup {Marker}
      BY <1>15, PopEntry
    <2>2. /\ work' \in [Workers -> WorkState] /\ StageIsFunction'
          /\ \A q \in Requests : stage'[q] \in [DOMAIN CmdsOf[q] -> Stages]
      BY <1>0, <1>15, <2>1, TakeStep DEF PopIo, WorkMoves, StageMoves, TypeOK
    <2> QED
      BY <1>15, <2>1, <2>2 DEF PopIo, TypeOK
  <1>16. ASSUME NEW w \in Workers, PopPio(w) PROVE Typed'
    <2>1. s_pio_request_queue' \in Queue /\ Head(s_pio_request_queue) \in Entries \cup {Marker}
      BY <1>16, PopEntry
    <2>2. /\ work' \in [Workers -> WorkState] /\ StageIsFunction'
          /\ \A q \in Requests : stage'[q] \in [DOMAIN CmdsOf[q] -> Stages]
      BY <1>0, <1>16, <2>1, TakeStep DEF PopPio, WorkMoves, StageMoves, TypeOK
    <2> QED
      BY <1>16, <2>1, <2>2 DEF PopPio, TypeOK
  <1>17. ASSUME NEW w \in Workers, NEW ret \in {"ok", "failed"}, ProcessCommand(w, ret)
         PROVE  Typed'
    <2>1. work[w].e \in Entries
      BY <1>17 DEF ProcessCommand, ThreadsHaveQueues
    <2>2. work' \in [Workers -> WorkState]
      BY <1>17, WorkersMove DEF ProcessCommand, WorkMoves
    <2>3. StageMoves(work[w].e[1], work[w].e[2], ret)
      BY <1>17, <2>1, EntryParts, StageStep DEF ProcessCommand, Stages
    <2>4. request' \in [Requests -> Counters]
      BY <1>17, <2>1, EntryParts, CounterStep DEF ProcessCommand, TypeOK
    <2> QED
      BY <1>17, <2>2, <2>3, <2>4 DEF ProcessCommand, StageMoves, serviceVars, TypeOK
  <1>18. ASSUME NEW w \in Workers, CountCommand(w) PROVE Typed'
    <2>1. work' \in [Workers -> WorkState]
      BY <1>18, WorkersMove DEF CountCommand, WorkMoves
    <2>2. request' \in [Requests -> Counters]
      <3>1. work[w].e \in Entries
        BY <1>18 DEF CountCommand, ThreadsHaveQueues
      <3> QED
        BY <1>18, <3>1, EntryParts, CounterStep DEF CountCommand
    <2> QED
      BY <1>0, <1>18, <2>1, <2>2 DEF CountCommand, TypeOK, serviceVars, historyVars
  <1>19. ASSUME NEW w \in Workers, Callback(w) PROVE Typed'
    <2>1. work[w].e[1] \in Requests /\ FollowUp[work[w].e[1]] \in Requests \cup {None}
      BY <1>19, EntryParts, ConstantsAssumption DEF Callback, ThreadsHaveQueues
    <2>2. callbacks' \in [Requests -> Seq(Nat)]
      BY <1>19, <2>1 DEF Callback, TypeOK, Counters
    <2>3. sub' \in [Submitters -> SubState] /\ request' \in [Requests -> Counters]
      BY <1>19, <1>a, <2>1 DEF Callback, TypeOK, Submitters
    <2>4. work' \in [Workers -> WorkState]
      BY <1>19, WorkersMove DEF Callback, WorkMoves, TypeOK
    <2> QED
      BY <1>0, <1>19, <2>2, <2>3, <2>4 DEF Callback, TypeOK, serviceVars
  <1>20. CASE UNCHANGED vars
    BY <1>0, <1>20 DEF vars, serviceVars, historyVars, TypeOK
  <1> QED
    BY <1>1, <1>2, <1>3, <1>4, <1>5, <1>6, <1>7, <1>8, <1>9, <1>10, <1>11, <1>12, <1>13, <1>14,
       <1>15, <1>16, <1>17, <1>18, <1>19, <1>20
       DEF Next, Control, SubmitStep, WorkerStep

\* A step that leaves the controllers, the io queues and the service state alone, or only
\* works on the queues, keeps the threads where they may be.
LEMMA ThreadsStep ==
    ASSUME Typed, OneController, ThreadsHaveQueues, SubmitSound, [Next]_vars
    PROVE  ThreadsHaveQueues'
  <1> USE DEF Typed
  <1>0. Typed'
    BY TypeStep
  <1>a. UNCHANGED <<s_state, ctl>> => (IoUp' <=> IoUp) /\ (PioUp' <=> PioUp)
    BY DEF IoUp, PioUp
  <1>1. ASSUME NEW c \in Controllers, NEW m \in IoArgs, NEW n \in PioArgs, StartCas(c, m, n)
        PROVE  ThreadsHaveQueues'
    <2>1. ~IoUp /\ ~PioUp /\ ~IoUp' /\ ~PioUp'
      BY <1>1, UpStep
    <2>2. work' = work
      BY <1>1 DEF StartCas
    <2> QED
      BY <2>1, <2>2, WorkersType DEF ThreadsHaveQueues
  <1>2. ASSUME NEW c \in Controllers, StartIo(c) PROVE ThreadsHaveQueues'
    <2>1. ~IoUp /\ ~PioUp /\ IoUp' /\ ~PioUp'
      BY <1>2, UpStep
    <2>2. \A w \in Workers : work[w].pc = "gone"
      BY <2>1, WorkersType DEF ThreadsHaveQueues
    <2>3. \A w \in Workers : work'[w].pc # "gone" =>
                w[1] = "io" /\ w[2] < io_size' /\ work'[w].pc = "pop"
      BY <1>2, <2>2, SpawnMoves DEF StartIo
    <2>4. io_size' > 0 /\ io_size' \in Nat
      BY <1>0, <1>2 DEF StartIo, OneController, TypeOK
    <2>5. s_io_request_queues' \in [0 .. io_size' - 1 -> Queue]
      BY <1>2 DEF StartIo, Queue
    <2> QED
      BY <2>1, <2>3, <2>4, <2>5 DEF ThreadsHaveQueues
  <1>3. ASSUME NEW c \in Controllers, StartPio(c) PROVE ThreadsHaveQueues'
    <2>1. IoUp /\ ~PioUp /\ IoUp' /\ PioUp'
      BY <1>3, UpStep
    <2>2. \A w \in Workers : IF w[1] = "pio" /\ w[2] < ctl[c].pio THEN work'[w].pc = "pop"
                            ELSE work'[w] = work[w]
      BY <1>3, SpawnMoves DEF StartPio
    <2>3. UNCHANGED <<io_size, s_io_request_queues>>
      BY <1>3 DEF StartPio
    <2> QED
      BY <2>1, <2>2, <2>3, WorkersType DEF ThreadsHaveQueues
  <1>4. ASSUME NEW c \in Controllers, StartDone(c) \/ StopCas(c) PROVE ThreadsHaveQueues'
    <2>1. IoUp /\ PioUp /\ IoUp' /\ PioUp'
      BY <1>4, UpStep
    <2>2. UNCHANGED <<work, io_size, s_io_request_queues>>
      BY <1>4 DEF StartDone, StopCas
    <2> QED
      BY <2>1, <2>2 DEF ThreadsHaveQueues
  <1>5. ASSUME NEW c \in Controllers, StopMarkIo(c) PROVE ThreadsHaveQueues'
    <2>1. IoUp /\ PioUp /\ IoUp' /\ PioUp'
      BY <1>5, UpStep
    <2>2. UNCHANGED <<work, io_size>>
      BY <1>5 DEF StopMarkIo
    <2>3. s_io_request_queues' \in [0 .. io_size - 1 -> Queue]
      <3>1. s_io_request_queues \in [0 .. io_size - 1 -> Queue]
        BY <2>1 DEF ThreadsHaveQueues
      <3>2. \A q \in Queue : Append(q, Marker) \in Queue
        BY QueueOps
      <3>3. \/ s_io_request_queues' = [s_io_request_queues EXCEPT ![ctl[c].i] = Append(@, Marker)]
            \/ s_io_request_queues' = s_io_request_queues
        BY <1>5 DEF StopMarkIo
      <3> QED
        BY <3>1, <3>2, <3>3
    <2> QED
      BY <2>1, <2>2, <2>3 DEF ThreadsHaveQueues
  <1>6. ASSUME NEW c \in Controllers, StopJoinIo(c) PROVE ThreadsHaveQueues'
    <2>1. ~IoUp' /\ PioUp'
      BY <1>6, UpStep
    <2>2. work' = work /\ \A w \in Workers : w[1] = "io" => work[w].pc = "gone"
      BY <1>6 DEF StopJoinIo, Joined
    <2> QED
      BY <2>1, <2>2 DEF ThreadsHaveQueues
  <1>7. ASSUME NEW c \in Controllers, StopDelete(c) \/ StopMarkPio(c) PROVE ThreadsHaveQueues'
    <2>1. ~IoUp /\ ~IoUp' /\ PioUp'
      BY <1>7, UpStep
    <2>2. work' = work
      BY <1>7 DEF StopDelete, StopMarkPio
    <2> QED
      BY <2>1, <2>2 DEF ThreadsHaveQueues
  <1>8. ASSUME NEW c \in Controllers, StopDone(c) PROVE ThreadsHaveQueues'
    <2>1. ~IoUp /\ ~IoUp' /\ ~PioUp'
      BY <1>8, UpStep
    <2>2. work' = work /\ \A w \in Workers : w[1] = "pio" => work[w].pc = "gone"
      BY <1>8 DEF StopDone, Joined
    <2> QED
      BY <2>1, <2>2 DEF ThreadsHaveQueues
  <1>b. ASSUME UNCHANGED <<s_state, ctl, io_size>>,
               s_io_request_queues \in [0 .. io_size - 1 -> Queue] =>
                    s_io_request_queues' \in [0 .. io_size - 1 -> Queue],
               \A w \in Workers :
                   \/ work'[w] = work[w]
                   \/ work'[w].pc = "gone"
                   \/ work[w].pc # "gone" /\ (work'[w].pc # "pop" => work'[w].e \in Entries)
        PROVE  ThreadsHaveQueues'
    BY <1>a, <1>b DEF ThreadsHaveQueues
  <1>9. ASSUME NEW t \in Clients, NEW r \in Requests, ClientSubmit(t, r) PROVE ThreadsHaveQueues'
    BY <1>9, <1>b DEF ClientSubmit, serviceVars
  <1>10. ASSUME NEW t \in Submitters, SubmitSize(t) \/ SubmitPushPio(t) PROVE ThreadsHaveQueues'
    BY <1>10, <1>b DEF SubmitSize, SubmitPushPio, serviceVars
  <1>11. ASSUME NEW t \in Submitters, SubmitPushIo(t) PROVE ThreadsHaveQueues'
    <2>1. ASSUME s_io_request_queues \in [0 .. io_size - 1 -> Queue]
          PROVE  s_io_request_queues' \in [0 .. io_size - 1 -> Queue]
      <3>1. \A q \in Queue : Append(q, <<sub[t].req, sub[t].idx>>) \in Queue
        BY <1>11, SubmitEntry, QueueOps DEF SubmitPushIo, SubmitSound
      <3>2. \/ s_io_request_queues' = [s_io_request_queues EXCEPT
                   ![sub[t].q] = Append(@, <<sub[t].req, sub[t].idx>>)]
            \/ s_io_request_queues' = s_io_request_queues
        BY <1>11 DEF SubmitPushIo
      <3> QED
        BY <2>1, <3>1, <3>2
    <2> QED
      BY <1>11, <1>b, <2>1 DEF SubmitPushIo
  <1>12. ASSUME NEW t \in Submitters, SubmitReturn(t) PROVE ThreadsHaveQueues'
    <2>1. CASE t \in Workers
      <3>1. work[t].pc = "callback" /\ work' = [work EXCEPT ![t].pc = "pop"]
        BY <1>12, <2>1 DEF SubmitReturn, SubmitSound
      <3>2. WorkMoves(t, "pop", work[t].e)
        BY <2>1, <3>1, WorkersMove
      <3> QED
        BY <1>12, <1>b, <3>1, <3>2 DEF SubmitReturn, WorkMoves
    <2>2. CASE t \notin Workers
      BY <1>12, <1>b, <2>2 DEF SubmitReturn
    <2> QED
      BY <2>1, <2>2
  <1>13. ASSUME NEW w \in Workers, PopIo(w) PROVE ThreadsHaveQueues'
    <2>1. /\ s_io_request_queues' \in [0 .. io_size - 1 -> Queue]
          /\ Head(s_io_request_queues[w[2]]) \in Entries \cup {Marker}
      BY <1>13, PopEntry
    <2>2. \A v \in Workers :
            \/ work'[v] = work[v] \/ work'[v].pc = "gone"
            \/ work[v].pc # "gone" /\ work'[v].e \in Entries
      <3> DEFINE e == Head(s_io_request_queues[w[2]])
      <3>1. WorkMoves(w, "gone", Marker) \/ (e \in Entries /\ WorkMoves(w, "run", e))
        BY <1>13, <2>1, TakeStep DEF PopIo
      <3>2. work[w].pc # "gone"
        BY <1>13 DEF PopIo
      <3> QED
        BY <3>1, <3>2 DEF WorkMoves
    <2> QED
      BY <1>13, <1>b, <2>1, <2>2 DEF PopIo
  <1>14. ASSUME NEW w \in Workers, PopPio(w) PROVE ThreadsHaveQueues'
    <2>1. Head(s_pio_request_queue) \in Entries \cup {Marker}
      BY <1>14, PopEntry
    <2>2. \A v \in Workers :
            \/ work'[v] = work[v] \/ work'[v].pc = "gone"
            \/ work[v].pc # "gone" /\ work'[v].e \in Entries
      <3> DEFINE e == Head(s_pio_request_queue)
      <3>1. WorkMoves(w, "gone", Marker) \/ (e \in Entries /\ WorkMoves(w, "run", e))
        BY <1>14, <2>1, TakeStep DEF PopPio
      <3>2. work[w].pc # "gone"
        BY <1>14 DEF PopPio
      <3> QED
        BY <3>1, <3>2 DEF WorkMoves
    <2> QED
      BY <1>14, <1>b, <2>2 DEF PopPio
  <1>15. ASSUME NEW w \in Workers, NEW p \in {"pop", "count", "callback"},
                work[w].pc \in {"run", "count", "callback"}, work' = [work EXCEPT ![w].pc = p],
                UNCHANGED serviceVars, UNCHANGED ctl
         PROVE  ThreadsHaveQueues'
    BY <1>15, <1>b, WorkersMove DEF WorkMoves, ThreadsHaveQueues, serviceVars
  <1>16. ASSUME NEW w \in Workers, CountCommand(w) PROVE ThreadsHaveQueues'
    BY <1>16, <1>15 DEF CountCommand
  <1>17. ASSUME NEW w \in Workers, NEW ret \in {"ok", "failed"}, ProcessCommand(w, ret)
         PROVE  ThreadsHaveQueues'
    BY <1>17, <1>15 DEF ProcessCommand
  <1>18. ASSUME NEW w \in Workers, Callback(w) PROVE ThreadsHaveQueues'
    <2>1. CASE work' = work
      BY <1>18, <1>b, <2>1 DEF Callback, serviceVars
    <2>2. CASE work' = [work EXCEPT ![w].pc = "pop"]
      BY <1>18, <1>15, <2>2 DEF Callback
    <2> QED
      BY <1>18, <2>1, <2>2 DEF Callback
  <1>19. CASE UNCHANGED vars
    BY <1>19, <1>b DEF vars, serviceVars
  <1> QED
    BY <1>1, <1>2, <1>3, <1>4, <1>5, <1>6, <1>7, <1>8, <1>9, <1>10, <1>11, <1>12, <1>13, <1>14,
       <1>16, <1>17, <1>18, <1>19 DEF Next, Control, SubmitStep, WorkerStep

-----------------------------------------------------------------------------
\* A Submit that Stop did not overtake sees the service up until it returns.
LEMMA SubmitSoundStep ==
    ASSUME Typed, OneController, ThreadsHaveQueues, SubmitSound, [Next]_vars
    PROVE  SubmitSound'
  <1> USE DEF Typed
  <1>0. /\ sub \in [Submitters -> SubState] /\ io_size \in Nat /\ starts \in Nat
        /\ ids \in [Requests -> Nat] /\ s_reqid \in Nat /\ s_reqid # 0
    BY ConstantsAssumption DEF TypeOK
  \* The controllers leave Submit alone.
  <1>a. ASSUME UNCHANGED <<sub, ids>>,
               \A t \in Submitters : sub[t].pc # "out" =>
                 /\ io_size' > 0
                 /\ t \in Workers => work'[t].pc = "callback"
                 /\ sub[t].req \notin overlapped' => /\ sub[t].req \notin overlapped
                                                    /\ s_state' = "STARTED"
                                                    /\ UNCHANGED <<starts, io_size>>
        PROVE  SubmitSound'
    BY <1>a DEF SubmitSound, MoreCmds, Cmd
  <1>b. \A t \in Submitters : sub[t].pc # "out" =>
            /\ io_size > 0 /\ (t \in Workers => work[t].pc = "callback")
            /\ sub[t].req \notin overlapped => s_state = "STARTED"
    BY DEF SubmitSound
  <1>1. ASSUME NEW c \in Controllers, NEW m \in IoArgs, NEW n \in PioArgs, StartCas(c, m, n)
        PROVE  SubmitSound'
    BY <1>1, <1>a, <1>b DEF StartCas
  <1>2. ASSUME NEW c \in Controllers, StartIo(c) PROVE SubmitSound'
    <2>1. ~IoUp /\ ~PioUp /\ s_state # "STARTED"
      BY <1>2, UpStep DEF IoUp
    <2>2. \A w \in Workers : work[w].pc = "gone"
      BY <2>1, WorkersType DEF ThreadsHaveQueues
    <2>3. io_size' > 0
      BY <1>2 DEF StartIo, OneController
    <2> QED
      BY <1>2, <1>a, <1>b, <2>1, <2>2, <2>3 DEF StartIo, historyVars
  <1>3. ASSUME NEW c \in Controllers, StartPio(c) PROVE SubmitSound'
    <2>1. ~PioUp /\ s_state # "STARTED"
      BY <1>3, UpStep DEF PioUp
    <2>2. \A w \in Workers : work[w].pc = "callback" => work'[w] = work[w]
      BY <1>3, <2>1, SpawnMoves, WorkersType DEF StartPio, ThreadsHaveQueues
    <2> QED
      BY <1>3, <1>a, <1>b, <2>1, <2>2 DEF StartPio, historyVars
  <1>4. ASSUME NEW c \in Controllers,
               StartDone(c) \/ StopMarkIo(c) \/ StopJoinIo(c) \/ StopDelete(c)
                 \/ StopMarkPio(c) \/ StopDone(c)
        PROVE  SubmitSound'
    <2>1. /\ UNCHANGED <<sub, ids, work, overlapped, starts, io_size>>
          /\ s_state = "STARTED" => s_state' = "STARTED"
      BY <1>4 DEF StartDone, StopMarkIo, StopJoinIo, StopDelete, StopMarkPio, StopDone,
                  serviceVars, historyVars, OneController
    <2> QED
      BY <1>a, <1>b, <2>1
  <1>5. ASSUME NEW c \in Controllers, StopCas(c) PROVE SubmitSound'
    <2>1. \A t \in Submitters : sub[t].pc # "out" => sub[t].req \in overlapped'
      BY <1>5 DEF StopCas, InSubmit
    <2> QED
      BY <1>5, <1>a, <1>b, <2>1 DEF StopCas
  \* A Submit begins on a request that nobody else works on.
  <1>c. ASSUME NEW t \in Submitters, NEW r \in Requests, SubmitBegin(t, r), sub[t].pc = "out",
               t \in Workers => work[t].pc = "callback",
               UNCHANGED <<s_state, io_size, ids, overlapped, starts, work>>
        PROVE  SubmitSound'
    <2>1. SubMoves(t, "next", r, 1)
      BY <1>c, SubmitMoves
    <2>2. s_state = "STARTED" /\ ids[r] = 0 /\ \A u \in Submitters : sub[u].pc # "out" => sub[u].req # r
      BY <1>c DEF SubmitBegin, Fresh, InSubmit
    <2>3. io_size > 0
      BY <2>2 DEF ThreadsHaveQueues, IoUp
    <2> QED
      BY <1>c, <2>1, <2>2, <2>3 DEF SubMoves, SubmitSound, MoreCmds, Cmd
  <1>6. ASSUME NEW t \in Clients, NEW r \in Requests, ClientSubmit(t, r) PROVE SubmitSound'
    BY <1>6, <1>c, ThreadsAssumption DEF ClientSubmit, Submitters, serviceVars, historyVars
  <1>7. ASSUME NEW t \in Submitters, SubmitSize(t) PROVE SubmitSound'
    <2>1. /\ SubMoves(t, "push", sub[t].req, sub[t].idx)
          /\ sub'[t].q \in 0 .. io_size - 1 /\ sub'[t].age = starts
      BY <1>7, SubmitMoves
    <2>2. sub[t].pc = "next" /\ MoreCmds(t) /\ ~Cmd(t).pio
      BY <1>7 DEF SubmitSize
    <2>3. UNCHANGED <<s_state, io_size, ids, overlapped, starts, work>>
      BY <1>7 DEF SubmitSize, serviceVars, historyVars
    <2>4. ASSUME NEW u \in Submitters, sub'[u].pc # "out"
          PROVE  sub[u].pc # "out" /\ sub'[u].req = sub[u].req /\ sub'[u].idx = sub[u].idx
      BY <2>1, <2>2, <2>4 DEF SubMoves
    <2>5. sub'[t].pc = "push" /\ sub'[t].q < io_size /\ sub'[t].age = starts
      BY <1>0, <2>1 DEF SubMoves
    <2>6. \A u \in Submitters \ {t} : sub'[u] = sub[u]
      BY <2>1 DEF SubMoves
    <2> QED
      BY <2>2, <2>3, <2>4, <2>5, <2>6 DEF SubmitSound, MoreCmds, Cmd
  <1>8. ASSUME NEW t \in Submitters, SubmitPushIo(t) \/ SubmitPushPio(t) PROVE SubmitSound'
    <2>1. SubMoves(t, "next", sub[t].req, sub[t].idx + 1)
      BY <1>8, SubmitMoves DEF SubmitPushIo, SubmitPushPio
    <2>2. sub[t].pc # "out" /\ sub[t].idx \in Nat
      BY <1>0, <1>8 DEF SubmitPushIo, SubmitPushPio, SubState
    <2>3. UNCHANGED <<s_state, io_size, ids, overlapped, starts, work>>
      BY <1>8 DEF SubmitPushIo, SubmitPushPio
    <2> QED
      BY <2>1, <2>2, <2>3 DEF SubMoves, SubmitSound, MoreCmds, Cmd
  <1>9. ASSUME NEW t \in Submitters, SubmitReturn(t) PROVE SubmitSound'
    <2>1. SubMoves(t, "out", None, 0)
      BY <1>9, SubmitMoves
    <2>2. sub[t].pc # "out"
      BY <1>9 DEF SubmitReturn
    <2>3. /\ UNCHANGED <<s_state, io_size, overlapped, starts>>
          /\ ids' = [ids EXCEPT ![sub[t].req] = s_reqid]
      BY <1>9 DEF SubmitReturn
    <2>4. \A w \in Workers : w # t => work'[w] = work[w]
      BY <1>9, WorkersMove DEF SubmitReturn, WorkMoves
    <2> QED
      BY <1>0, <2>1, <2>2, <2>3, <2>4 DEF SubMoves, SubmitSound, MoreCmds, Cmd
  <1>10. ASSUME NEW w \in Workers, PopIo(w) \/ PopPio(w) PROVE SubmitSound'
    <2>1. work[w].pc = "pop"
      BY <1>10 DEF PopIo, PopPio
    <2>2. \A v \in Workers : v # w => work'[v] = work[v]
      BY <1>10, PopEntry, TakeStep DEF PopIo, PopPio, WorkMoves
    <2> QED
      BY <1>10, <1>a, <1>b, <2>1, <2>2 DEF PopIo, PopPio
  <1>11. ASSUME NEW w \in Workers, NEW ret \in {"ok", "failed"}, ProcessCommand(w, ret)
         PROVE  SubmitSound'
    <2>1. work[w].pc = "run" /\ \A v \in Workers : v # w => work'[v] = work[v]
      BY <1>11, WorkersMove DEF ProcessCommand, WorkMoves
    <2> QED
      BY <1>11, <1>a, <1>b, <2>1 DEF ProcessCommand, serviceVars
  <1>12. ASSUME NEW w \in Workers, CountCommand(w) PROVE SubmitSound'
    <2>1. work[w].pc = "count" /\ \A v \in Workers : v # w => work'[v] = work[v]
      BY <1>12, WorkersMove DEF CountCommand, WorkMoves
    <2> QED
      BY <1>12, <1>a, <1>b, <2>1 DEF CountCommand, serviceVars, historyVars
  <1>13. ASSUME NEW w \in Workers, Callback(w) PROVE SubmitSound'
    <2> DEFINE f == FollowUp[work[w].e[1]]
    <2>1. f \in Requests \cup {None}
      BY <1>13, EntryParts, ConstantsAssumption DEF Callback, ThreadsHaveQueues
    <2>2. CASE f # None /\ SubmitBegin(w, f) /\ UNCHANGED work
      BY <1>13, <1>c, <2>1, <2>2 DEF Callback, Submitters, serviceVars
    <2>3. CASE work' = [work EXCEPT ![w].pc = "pop"] /\ UNCHANGED sub
      <3>1. \A v \in Workers : v # w => work'[v] = work[v]
        BY <2>3, WorkersMove DEF WorkMoves
      <3> QED
        BY <1>13, <1>a, <1>b, <2>3, <3>1 DEF Callback, serviceVars
    <2> QED
      BY <1>13, <2>2, <2>3 DEF Callback
  <1>14. CASE UNCHANGED vars
    BY <1>14, <1>a, <1>b DEF vars, serviceVars, historyVars
  <1> QED
    BY <1>1, <1>2, <1>3, <1>4, <1>5, <1>6, <1>7, <1>8, <1>9, <1>10, <1>11, <1>12, <1>13, <1>14
       DEF Next, Control, SubmitStep, WorkerStep

\* A push to a queue that is gone, or to one of an earlier Start, is one that a Stop overtook.
LEMMA DamagedStep ==
    ASSUME ServiceInv, [Next]_vars
    PROVE  damaged' \subseteq overlapped'
  <1>1. ASSUME NEW t \in Submitters, SubmitPushIo(t) PROVE damaged' \subseteq overlapped'
    <2>1. CASE UNCHANGED damaged
      BY <1>1, <2>1 DEF SubmitPushIo, ServiceInv
    <2>2. CASE /\ sub[t].q \notin DOMAIN s_io_request_queues \/ sub[t].age # starts
               /\ damaged' = damaged \cup {sub[t].req}
      <3>1. ASSUME sub[t].req \notin overlapped PROVE FALSE
        <4>1. s_state = "STARTED" /\ sub[t].age = starts /\ sub[t].q < io_size
          BY <1>1, <3>1 DEF SubmitPushIo, ServiceInv, SubmitSound
        <4>2. DOMAIN s_io_request_queues = 0 .. io_size - 1
          BY <4>1 DEF ServiceInv, ThreadsHaveQueues, IoUp
        <4>3. sub[t].q \in Nat /\ io_size \in Nat
          BY DEF ServiceInv, Typed, TypeOK, SubState
        <4> QED
          BY <2>2, <4>1, <4>2, <4>3
      <3> QED
        BY <1>1, <2>2, <3>1 DEF SubmitPushIo, ServiceInv
    <2> QED
      BY <1>1, <2>1, <2>2 DEF SubmitPushIo
  <1>2. ASSUME NEW c \in Controllers, StopCas(c) PROVE damaged' \subseteq overlapped'
    BY <1>2 DEF StopCas, ServiceInv
  <1>3. ASSUME UNCHANGED <<damaged, overlapped>> PROVE damaged' \subseteq overlapped'
    BY <1>3 DEF ServiceInv
  <1>4. ASSUME NEW c \in Controllers, Control(c) PROVE damaged' \subseteq overlapped'
    BY <1>3, <1>4 DEF Control, StartIo, StartPio, StartDone, StopMarkIo, StopJoinIo, StopDelete,
                      StopMarkPio, StopDone, historyVars
  <1>5. ASSUME NEW c \in Controllers, NEW m \in IoArgs, NEW n \in PioArgs, StartCas(c, m, n)
        PROVE  damaged' \subseteq overlapped'
    BY <1>3, <1>5 DEF StartCas
  <1>6. ASSUME NEW t \in Clients, NEW r \in Requests, ClientSubmit(t, r)
        PROVE  damaged' \subseteq overlapped'
    BY <1>3, <1>6 DEF ClientSubmit, historyVars
  <1>7. ASSUME NEW t \in Submitters, SubmitSize(t) \/ SubmitPushPio(t) \/ SubmitReturn(t)
        PROVE  damaged' \subseteq overlapped'
    BY <1>3, <1>7 DEF SubmitSize, SubmitPushPio, SubmitReturn, historyVars
  <1>8. ASSUME NEW w \in Workers, WorkerStep(w) PROVE damaged' \subseteq overlapped'
    BY <1>3, <1>8 DEF WorkerStep, PopIo, PopPio, CountCommand, Callback, ProcessCommand, historyVars
  <1>9. CASE UNCHANGED vars
    BY <1>3, <1>9 DEF vars, historyVars
  <1> QED
    BY <1>1, <1>2, <1>4, <1>5, <1>6, <1>7, <1>8, <1>9 DEF Next, SubmitStep

\* The service begins stopped, without threads.
LEMMA ServiceInit == Init => ServiceInv
  <1> SUFFICES ASSUME Init PROVE ServiceInv
    OBVIOUS
  <1>1. ctl \in [Controllers -> CtlState] /\ \A c \in Controllers : ctl[c].pc = "idle"
    BY DEF Init, Idle, CtlState
  <1>2. work \in [Workers -> WorkState] /\ \A w \in Workers : work[w].pc = "gone"
    BY DEF Init, Gone, WorkState
  <1>3. sub \in [Submitters -> SubState] /\ \A t \in Submitters : sub[t].pc = "out"
    BY DEF Init, NoSubmit, SubState
  <1>4. request \in [Requests -> Counters]
    BY DEF Init, NotMade, Counters
  <1>5. StageIsFunction /\ \A r \in Requests : stage[r] \in [DOMAIN CmdsOf[r] -> Stages]
    BY DEF Init, StageIsFunction, Stages
  <1>6. s_pio_request_queue \in Queue /\ pushed \in [Fds -> Seq(Entries)]
        /\ callbacks \in [Requests -> Seq(Nat)]
    BY DEF Init, Queue
  <1>7. Typed
    BY <1>1, <1>2, <1>3, <1>4, <1>5, <1>6, ConstantsAssumption DEF Init, Typed, TypeOK
  <1>8. OneController /\ ~IoUp
    BY <1>1 DEF Init, OneController, IoUp
  <1> QED
    BY <1>2, <1>3, <1>7, <1>8 DEF Init, ServiceInv, ThreadsHaveQueues, SubmitSound

\* Every step keeps the service layer.
LEMMA ServiceStep == ServiceInv /\ [Next]_vars => ServiceInv'
  BY ControllerStep, TypeStep, ThreadsStep, SubmitSoundStep, DamagedStep DEF ServiceInv, Typed

\* The service layer is an invariant.
LEMMA ServiceInvariant == Spec => []ServiceInv
  BY ServiceInit, ServiceStep, PTL DEF Spec

(***************************************************************************)
(* Queues, threads and requests are what their types say, and a freed      *)
(* queue is used only by a Submit that Stop overtook after its test of     *)
(* s_state (aio.cpp), for any number of threads, clients, controllers and  *)
(* restarts.                                                               *)
(***************************************************************************)
THEOREM SafeAccessHolds == Spec => []SafeAccess
  <1>1. ServiceInv => SafeAccess
    BY DEF ServiceInv, Typed, SafeAccess
  <1> QED
    BY <1>1, ServiceInvariant, PTL

-----------------------------------------------------------------------------
(***************************************************************************)
(* Where a command is.  It enters a queue once, when it is new, and then   *)
(* has one holder at a time: a place in a queue, or a worker.              *)
(***************************************************************************)
IsPio(e) == CmdsOf[e[1]][e[2]].pio
StageOf(e) == stage[e[1]][e[2]]

IoOnce ==
    /\ \A q \in DOMAIN s_io_request_queues : \A k \in DOMAIN s_io_request_queues[q] :
        LET e == s_io_request_queues[q][k] IN e # Marker => StageOf(e) = "queued" /\ ~IsPio(e)
    /\ \A q, p \in DOMAIN s_io_request_queues :
        \A k \in DOMAIN s_io_request_queues[q], l \in DOMAIN s_io_request_queues[p] :
            s_io_request_queues[q][k] = s_io_request_queues[p][l]
                => s_io_request_queues[q][k] = Marker \/ (q = p /\ k = l)

PioOnce ==
    /\ \A k \in DOMAIN s_pio_request_queue :
        LET e == s_pio_request_queue[k] IN e # Marker => StageOf(e) = "queued" /\ IsPio(e)
    /\ \A k, l \in DOMAIN s_pio_request_queue :
        s_pio_request_queue[k] = s_pio_request_queue[l] => s_pio_request_queue[k] = Marker \/ k = l

HeldOnce ==
    /\ \A w \in Workers :
        /\ work[w].pc = "run" => StageOf(work[w].e) = "running"
        /\ work[w].pc \in {"count", "callback"} => StageOf(work[w].e) \in {"ok", "failed"}
    /\ \A v, w \in Workers :
        (/\ work[v].pc \in {"run", "count"} /\ work[w].pc \in {"run", "count"}
         /\ work[v].e = work[w].e) => v = w

NewUntilPushed ==
    /\ \A t \in Submitters : sub[t].pc # "out" =>
        \A i \in DOMAIN CmdsOf[sub[t].req] : i >= sub[t].idx => stage[sub[t].req][i] = "new"
    /\ \A r \in Requests : Fresh(r) => \A i \in DOMAIN CmdsOf[r] : stage[r][i] = "new"

PlacesInv == IoOnce /\ PioOnce /\ HeldOnce /\ NewUntilPushed

(***************************************************************************)
(* The two counters of a request, and its callback.                        *)
(***************************************************************************)
CountedCmds(r) ==
    {i \in DOMAIN CmdsOf[r] :
        /\ stage[r][i] \in {"ok", "failed"}
        /\ \A w \in Workers : work[w].pc = "count" => work[w].e # <<r, i>>}

\* The worker that completed the last command of r and has not called back yet.
CallsBack(w, r) == work[w].pc = "callback" /\ sub[w].pc = "out" /\ work[w].e[1] = r

CountsInv ==
    \A r \in Requests :
        /\ request[r].m_completed_cnt = Cardinality(CountedCmds(r))
        /\ request[r].m_cmd_fail_cnt = Cardinality(FailedCmds(r))

CallbackInv ==
    \A r \in Requests :
        /\ Len(callbacks[r]) <= 1
        /\ callbacks[r] # <<>> =>
            /\ request[r].m_completed_cnt = Len(CmdsOf[r])
            /\ callbacks[r][1] = request[r].m_cmd_fail_cnt
        /\ \A w \in Workers : CallsBack(w, r) =>
            request[r].m_completed_cnt = Len(CmdsOf[r]) /\ callbacks[r] = <<>>
        /\ \A v, w \in Workers : CallsBack(v, r) /\ CallsBack(w, r) => v = w

-----------------------------------------------------------------------------
\* What a step does to the places in the queues: it keeps them (and may add the empty
\* request), it adds one entry at an end, or it takes one from a front.
IoKept ==
    \A q \in DOMAIN s_io_request_queues' : \A k \in DOMAIN s_io_request_queues'[q] :
        \/ s_io_request_queues'[q][k] = Marker
        \/ /\ q \in DOMAIN s_io_request_queues /\ k \in DOMAIN s_io_request_queues[q]
           /\ s_io_request_queues'[q][k] = s_io_request_queues[q][k]
PioKept ==
    \A k \in DOMAIN s_pio_request_queue' :
        \/ s_pio_request_queue'[k] = Marker
        \/ k \in DOMAIN s_pio_request_queue /\ s_pio_request_queue'[k] = s_pio_request_queue[k]

\* Append and Tail, place by place.
LEMMA AppendPlaces ==
    ASSUME NEW s \in Queue, NEW e \in Entries \cup {Marker}
    PROVE  \A k \in DOMAIN Append(s, e) :
                IF k = Len(s) + 1 THEN Append(s, e)[k] = e
                                  ELSE k \in DOMAIN s /\ Append(s, e)[k] = s[k]
  <1>1. s \in Seq(Entries \cup {Marker})
    BY DEF Queue
  <1>2. /\ Len(s) \in Nat /\ DOMAIN s = 1 .. Len(s)
        /\ Append(s, e) \in Seq(Entries \cup {Marker}) /\ Len(Append(s, e)) = Len(s) + 1
        /\ DOMAIN Append(s, e) = 1 .. Len(s) + 1
    BY <1>1
  <1> QED
    BY <1>1, <1>2

\* Pop from the front, place by place.
LEMMA TailPlaces ==
    ASSUME NEW s \in Queue, s # <<>>
    PROVE  /\ 1 \in DOMAIN s /\ Head(s) = s[1]
           /\ \A k \in DOMAIN Tail(s) : k \in Nat /\ k > 0 /\ k + 1 \in DOMAIN s /\ Tail(s)[k] = s[k + 1]
  <1>1. s \in Seq(Entries \cup {Marker})
    BY DEF Queue
  <1>2. /\ Len(s) \in Nat /\ Len(s) > 0 /\ DOMAIN s = 1 .. Len(s)
        /\ Tail(s) \in Seq(Entries \cup {Marker}) /\ Len(Tail(s)) = Len(s) - 1
        /\ DOMAIN Tail(s) = 1 .. Len(s) - 1
    BY <1>1
  <1> QED
    BY <1>1, <1>2

\* The controllers' steps and SubmitSize: no command moves.
Quiet ==
    /\ UNCHANGED <<request, stage, callbacks, ids>>
    /\ IoKept /\ PioKept
    /\ \A w \in Workers : \/ work'[w] = work[w]
                          \/ work[w].pc = "gone" /\ work'[w].pc = "pop"
    /\ \A t \in Submitters :
        /\ sub'[t].pc = "out" <=> sub[t].pc = "out"
        /\ sub'[t].req = sub[t].req /\ sub'[t].idx = sub[t].idx

\* Start, Stop and the choice of a queue move no command.
LEMMA QuietSteps ==
    ASSUME ServiceInv
    PROVE  /\ \A c \in Controllers : Control(c) \/ StopCas(c) => Quiet
           /\ \A c \in Controllers, m \in IoArgs, n \in PioArgs : StartCas(c, m, n) => Quiet
           /\ \A t \in Submitters : SubmitSize(t) => Quiet
           /\ UNCHANGED vars => Quiet
  <1> USE DEF ServiceInv, Typed
  <1>a. ASSUME UNCHANGED <<request, stage, callbacks, ids, work, sub>>, IoKept, PioKept PROVE Quiet
    BY <1>a DEF Quiet
  <1>b. UNCHANGED s_io_request_queues => IoKept
    BY DEF IoKept
  <1>c. UNCHANGED s_pio_request_queue => PioKept
    BY DEF PioKept
  <1>1. ASSUME NEW c \in Controllers,
               StartDone(c) \/ StopCas(c) \/ StopJoinIo(c) \/ StopDone(c)
        PROVE  Quiet
    BY <1>1, <1>a, <1>b, <1>c DEF StartDone, StopCas, StopJoinIo, StopDone, serviceVars, historyVars
  <1>2. ASSUME NEW c \in Controllers, NEW m \in IoArgs, NEW n \in PioArgs, StartCas(c, m, n)
        PROVE  Quiet
    BY <1>2, <1>a, <1>b, <1>c DEF StartCas
  <1>3. ASSUME NEW c \in Controllers, StartIo(c) PROVE Quiet
    <2>1. ~IoUp /\ ~PioUp
      BY <1>3, UpStep
    <2>2. \A w \in Workers : work[w].pc = "gone"
      BY <2>1, WorkersType DEF ThreadsHaveQueues
    <2>3. \A w \in Workers : work'[w] = work[w] \/ work'[w].pc = "pop"
      BY <1>3, SpawnMoves DEF StartIo
    <2>4. IoKept /\ PioKept
      BY <1>3, <1>c DEF StartIo, IoKept
    <2> QED
      BY <1>3, <2>2, <2>3, <2>4 DEF StartIo, Quiet, historyVars
  <1>4. ASSUME NEW c \in Controllers, StartPio(c) PROVE Quiet
    <2>1. ~PioUp
      BY <1>4, UpStep
    <2>2. \A w \in Workers : work'[w] = work[w] \/ (work[w].pc = "gone" /\ work'[w].pc = "pop")
      BY <1>4, <2>1, SpawnMoves DEF StartPio, ThreadsHaveQueues
    <2> QED
      BY <1>4, <1>b, <1>c, <2>2 DEF StartPio, Quiet, historyVars
  <1>5. ASSUME NEW c \in Controllers, StopMarkIo(c) PROVE Quiet
    <2>1. IoKept
      <3>1. s_io_request_queues \in [0 .. io_size - 1 -> Queue]
        BY <1>5, UpStep DEF ThreadsHaveQueues
      <3>2. CASE s_io_request_queues' = [s_io_request_queues EXCEPT ![ctl[c].i] = Append(@, Marker)]
        <4>1. DOMAIN s_io_request_queues' = DOMAIN s_io_request_queues
          BY <3>1, <3>2
        <4>2. ASSUME NEW q \in DOMAIN s_io_request_queues', NEW k \in DOMAIN s_io_request_queues'[q]
              PROVE  \/ s_io_request_queues'[q][k] = Marker
                     \/ /\ q \in DOMAIN s_io_request_queues /\ k \in DOMAIN s_io_request_queues[q]
                        /\ s_io_request_queues'[q][k] = s_io_request_queues[q][k]
          <5>1. CASE q # ctl[c].i
            BY <3>1, <3>2, <4>1, <4>2, <5>1
          <5>2. CASE q = ctl[c].i
            <6>1. /\ s_io_request_queues[q] \in Queue
                  /\ s_io_request_queues'[q] = Append(s_io_request_queues[q], Marker)
              BY <3>1, <3>2, <4>1, <5>2
            <6> QED
              BY <4>1, <4>2, <6>1, AppendPlaces
          <5> QED
            BY <5>1, <5>2
        <4> QED
          BY <4>2 DEF IoKept
      <3> QED
        BY <1>5, <1>b, <3>2 DEF StopMarkIo
    <2> QED
      BY <1>5, <1>a, <1>c, <2>1 DEF StopMarkIo, historyVars
  <1>6. ASSUME NEW c \in Controllers, StopDelete(c) PROVE Quiet
    <2>1. IoKept
      BY <1>6 DEF StopDelete, IoKept
    <2> QED
      BY <1>6, <1>a, <1>c, <2>1 DEF StopDelete, historyVars
  <1>7. ASSUME NEW c \in Controllers, StopMarkPio(c) PROVE Quiet
    <2>1. s_pio_request_queue \in Queue
      BY DEF TypeOK
    <2>2. PioKept
      BY <1>7, <1>c, <2>1, AppendPlaces DEF StopMarkPio, PioKept
    <2> QED
      BY <1>7, <1>a, <1>b, <2>2 DEF StopMarkPio, historyVars
  <1>8. ASSUME NEW t \in Submitters, SubmitSize(t) PROVE Quiet
    <2>1. SubMoves(t, "push", sub[t].req, sub[t].idx) /\ sub[t].pc = "next"
      BY <1>8, SubmitMoves DEF SubmitSize
    <2>2. /\ UNCHANGED <<request, stage, callbacks, ids, work>>
          /\ UNCHANGED <<s_io_request_queues, s_pio_request_queue>>
      BY <1>8 DEF SubmitSize, serviceVars, historyVars
    <2> QED
      BY <1>b, <1>c, <2>1, <2>2 DEF SubMoves, Quiet
  <1>9. UNCHANGED vars => Quiet
    BY <1>a, <1>b, <1>c DEF vars, serviceVars, historyVars
  <1> QED
    BY <1>1, <1>2, <1>3, <1>4, <1>5, <1>6, <1>7, <1>8, <1>9 DEF Control

\* The elements of the queues are entries or the empty request.
LEMMA QueueElements ==
    ASSUME TypeOK
    PROVE  /\ \A q \in DOMAIN s_io_request_queues :
                /\ s_io_request_queues[q] \in Queue
                /\ \A k \in DOMAIN s_io_request_queues[q] :
                      k \in Nat /\ s_io_request_queues[q][k] \in Entries \cup {Marker}
           /\ \A k \in DOMAIN s_pio_request_queue :
                k \in Nat /\ s_pio_request_queue[k] \in Entries \cup {Marker}
  <1>1. \A s \in Queue : \A k \in DOMAIN s : k \in Nat /\ s[k] \in Entries \cup {Marker}
    BY DEF Queue
  <1>2. \A q \in DOMAIN s_io_request_queues : s_io_request_queues[q] \in Queue
    BY DEF TypeOK
  <1> QED
    BY <1>1, <1>2 DEF TypeOK

\* The stage of every other entry stays.
LEMMA StageKept ==
    ASSUME NEW r, NEW i, NEW x, StageMoves(r, i, x), NEW f \in Entries, f # <<r, i>>
    PROVE  StageOf(f)' = StageOf(f)
  BY EntryParts DEF StageMoves, StageOf

\* A step after which every command in a queue was there before, at the same place.
LEMMA KeptPlaces ==
    ASSUME TypeOK, TypeOK', stage' = stage
    PROVE  /\ IoOnce /\ IoKept => IoOnce'
           /\ PioOnce /\ PioKept => PioOnce'
  <1>1. ASSUME IoOnce, IoKept PROVE IoOnce'
    BY <1>1 DEF IoOnce, IoKept, StageOf, IsPio
  <1>2. ASSUME PioOnce, PioKept PROVE PioOnce'
    BY <1>2 DEF PioOnce, PioKept, StageOf, IsPio
  <1> QED
    BY <1>1, <1>2

\* A step that moves no command keeps every command where it is.
LEMMA QuietPlaces ==
    ASSUME ServiceInv, ServiceInv', PlacesInv, Quiet
    PROVE  PlacesInv'
  <1>1. IoOnce' /\ PioOnce'
    BY KeptPlaces DEF Quiet, PlacesInv, ServiceInv, Typed
  <1>2. HeldOnce'
    BY DEF Quiet, PlacesInv, HeldOnce, StageOf
  <1>3. NewUntilPushed'
    BY DEF Quiet, PlacesInv, NewUntilPushed, Fresh, InSubmit
  <1> QED
    BY <1>1, <1>2, <1>3 DEF PlacesInv

\* One command goes to x: the others in the queues stay "queued".
LEMMA OtherPlaces ==
    ASSUME TypeOK, TypeOK', NEW e \in Entries, NEW x, StageMoves(e[1], e[2], x)
    PROVE  /\ IoOnce /\ UNCHANGED s_io_request_queues /\ (StageOf(e) # "queued" \/ IsPio(e)) => IoOnce'
           /\ PioOnce /\ UNCHANGED s_pio_request_queue /\ (StageOf(e) # "queued" \/ ~IsPio(e)) => PioOnce'
  <1>0. e = <<e[1], e[2]>>
    BY EntryParts
  <1>a. \A f \in Entries : f # e => StageOf(f)' = StageOf(f)
    BY <1>0, StageKept
  <1>1. ASSUME IoOnce, UNCHANGED s_io_request_queues, StageOf(e) # "queued" \/ IsPio(e)
        PROVE  IoOnce'
    BY <1>1, <1>a, QueueElements DEF IoOnce, IsPio
  <1>2. ASSUME PioOnce, UNCHANGED s_pio_request_queue, StageOf(e) # "queued" \/ ~IsPio(e)
        PROVE  PioOnce'
    BY <1>2, <1>a, QueueElements DEF PioOnce, IsPio
  <1> QED
    BY <1>1, <1>2

\* Push of a new command.
LEMMA PushPlaces ==
    ASSUME TypeOK, TypeOK', NEW e \in Entries, StageMoves(e[1], e[2], "queued"), StageOf(e) = "new"
    PROVE  /\ IoOnce /\ ~IsPio(e) /\ (\E q \in DOMAIN s_io_request_queues :
                s_io_request_queues' = [s_io_request_queues EXCEPT ![q] = Append(@, e)]) => IoOnce'
           /\ PioOnce /\ IsPio(e) /\ s_pio_request_queue' = Append(s_pio_request_queue, e) => PioOnce'
  <1>0. e = <<e[1], e[2]>> /\ stage'[e[1]][e[2]] = "queued"
    BY EntryParts DEF StageMoves
  <1>a. \A f \in Entries : f # e => stage'[f[1]][f[2]] = StageOf(f)
    BY <1>0, StageKept DEF StageOf
  <1>1. ASSUME IoOnce, ~IsPio(e), NEW q \in DOMAIN s_io_request_queues,
               s_io_request_queues' = [s_io_request_queues EXCEPT ![q] = Append(@, e)]
        PROVE  IoOnce'
    <2>1. /\ DOMAIN s_io_request_queues' = DOMAIN s_io_request_queues
          /\ s_io_request_queues'[q] = Append(s_io_request_queues[q], e)
          /\ \A p \in DOMAIN s_io_request_queues : p # q => s_io_request_queues'[p] = s_io_request_queues[p]
      BY <1>1 DEF TypeOK
    <2>2. \A p \in DOMAIN s_io_request_queues' : \A k \in DOMAIN s_io_request_queues'[p] :
            \/ /\ k \in DOMAIN s_io_request_queues[p]
               /\ s_io_request_queues'[p][k] = s_io_request_queues[p][k]
            \/ p = q /\ k = Len(s_io_request_queues[q]) + 1 /\ s_io_request_queues'[p][k] = e
      BY <2>1, QueueElements, AppendPlaces
    <2>3. \A p \in DOMAIN s_io_request_queues : \A k \in DOMAIN s_io_request_queues[p] :
            s_io_request_queues[p][k] # e
      BY <1>1, EntryParts DEF IoOnce
    <2>4. \A p \in DOMAIN s_io_request_queues' : \A k \in DOMAIN s_io_request_queues'[p] :
            LET f == s_io_request_queues'[p][k] IN f # Marker => stage'[f[1]][f[2]] = "queued" /\ ~IsPio(f)
      BY <1>0, <1>1, <1>a, <2>1, <2>2, <2>3, QueueElements DEF IoOnce
    <2>5. \A p, o \in DOMAIN s_io_request_queues' :
            \A k \in DOMAIN s_io_request_queues'[p], l \in DOMAIN s_io_request_queues'[o] :
                s_io_request_queues'[p][k] = s_io_request_queues'[o][l]
                    => s_io_request_queues'[p][k] = Marker \/ (p = o /\ k = l)
      BY <1>1, <2>1, <2>2, <2>3 DEF IoOnce
    <2> QED
      BY <2>4, <2>5 DEF IoOnce, IsPio, StageOf
  <1>2. ASSUME PioOnce, IsPio(e), s_pio_request_queue' = Append(s_pio_request_queue, e)
        PROVE  PioOnce'
    <2>1. \A k \in DOMAIN s_pio_request_queue' :
            \/ k \in DOMAIN s_pio_request_queue /\ s_pio_request_queue'[k] = s_pio_request_queue[k]
            \/ k = Len(s_pio_request_queue) + 1 /\ s_pio_request_queue'[k] = e
      BY <1>2, AppendPlaces DEF TypeOK
    <2>2. \A k \in DOMAIN s_pio_request_queue : s_pio_request_queue[k] # e
      BY <1>2, EntryParts DEF PioOnce
    <2>3. \A k \in DOMAIN s_pio_request_queue' :
            LET f == s_pio_request_queue'[k] IN f # Marker => stage'[f[1]][f[2]] = "queued" /\ IsPio(f)
      BY <1>0, <1>2, <1>a, <2>1, <2>2, QueueElements DEF PioOnce
    <2>4. \A k, l \in DOMAIN s_pio_request_queue' :
            s_pio_request_queue'[k] = s_pio_request_queue'[l]
                => s_pio_request_queue'[k] = Marker \/ k = l
      BY <1>2, <2>1, <2>2 DEF PioOnce
    <2> QED
      BY <2>3, <2>4 DEF PioOnce, IsPio, StageOf
  <1> QED
    BY <1>1, <1>2

\* Pop of a command: it was in this place only.
LEMMA PopPlaces ==
    ASSUME TypeOK, TypeOK', NEW e \in Entries \cup {Marker},
           IF e = Marker THEN stage' = stage ELSE StageMoves(e[1], e[2], "running")
    PROVE  /\ \A q \in DOMAIN s_io_request_queues :
                /\ IoOnce /\ s_io_request_queues[q] # <<>> /\ e = Head(s_io_request_queues[q])
                /\ s_io_request_queues' = [s_io_request_queues EXCEPT ![q] = Tail(@)]
                => IoOnce'
           /\ /\ PioOnce /\ s_pio_request_queue # <<>> /\ e = Head(s_pio_request_queue)
              /\ s_pio_request_queue' = Tail(s_pio_request_queue)
              => PioOnce'
  <1>a. \A f \in Entries : f # e => stage'[f[1]][f[2]] = StageOf(f)
    <2>1. CASE e = Marker
      BY <2>1 DEF StageOf
    <2>2. CASE e # Marker
      BY <2>2, EntryParts, StageKept DEF StageOf
    <2> QED
      BY <2>1, <2>2
  <1>1. ASSUME NEW q \in DOMAIN s_io_request_queues, IoOnce, s_io_request_queues[q] # <<>>,
               e = Head(s_io_request_queues[q]),
               s_io_request_queues' = [s_io_request_queues EXCEPT ![q] = Tail(@)]
        PROVE  IoOnce'
    <2>1. /\ DOMAIN s_io_request_queues' = DOMAIN s_io_request_queues
          /\ s_io_request_queues'[q] = Tail(s_io_request_queues[q])
          /\ \A p \in DOMAIN s_io_request_queues : p # q => s_io_request_queues'[p] = s_io_request_queues[p]
      BY <1>1 DEF TypeOK
    <2>2. 1 \in DOMAIN s_io_request_queues[q] /\ e = s_io_request_queues[q][1]
      BY <1>1, QueueElements, TailPlaces
    <2>3. \A p \in DOMAIN s_io_request_queues' : \A k \in DOMAIN s_io_request_queues'[p] :
            IF p = q
            THEN /\ k \in Nat /\ k > 0 /\ k + 1 \in DOMAIN s_io_request_queues[p]
                 /\ s_io_request_queues'[p][k] = s_io_request_queues[p][k + 1]
            ELSE /\ k \in DOMAIN s_io_request_queues[p]
                 /\ s_io_request_queues'[p][k] = s_io_request_queues[p][k]
      BY <1>1, <2>1, QueueElements, TailPlaces
    <2>4. \A p \in DOMAIN s_io_request_queues' : \A k \in DOMAIN s_io_request_queues'[p] :
            LET f == s_io_request_queues'[p][k] IN
            f # Marker => f \in Entries /\ f # e /\ StageOf(f) = "queued" /\ ~IsPio(f)
      <3> SUFFICES ASSUME NEW p \in DOMAIN s_io_request_queues',
                          NEW k \in DOMAIN s_io_request_queues'[p],
                          s_io_request_queues'[p][k] # Marker
                   PROVE  LET f == s_io_request_queues'[p][k] IN
                          f \in Entries /\ f # e /\ StageOf(f) = "queued" /\ ~IsPio(f)
        OBVIOUS
      <3>1. CASE p = q
        <4>1. /\ k + 1 # 1 /\ k + 1 \in DOMAIN s_io_request_queues[p] /\ p \in DOMAIN s_io_request_queues
              /\ s_io_request_queues'[p][k] = s_io_request_queues[p][k + 1]
          BY <2>1, <2>3, <3>1
        <4> QED
          BY <1>1, <2>2, <3>1, <4>1, QueueElements DEF IoOnce
      <3>2. CASE p # q
        <4>1. /\ k \in DOMAIN s_io_request_queues[p] /\ p \in DOMAIN s_io_request_queues
              /\ s_io_request_queues'[p][k] = s_io_request_queues[p][k]
          BY <2>1, <2>3, <3>2
        <4> QED
          BY <1>1, <2>2, <3>2, <4>1, QueueElements DEF IoOnce
      <3> QED
        BY <3>1, <3>2
    <2>5. \A p, o \in DOMAIN s_io_request_queues' :
            \A k \in DOMAIN s_io_request_queues'[p], l \in DOMAIN s_io_request_queues'[o] :
                s_io_request_queues'[p][k] = s_io_request_queues'[o][l]
                    => s_io_request_queues'[p][k] = Marker \/ (p = o /\ k = l)
      <3> SUFFICES ASSUME NEW p \in DOMAIN s_io_request_queues', NEW o \in DOMAIN s_io_request_queues',
                          NEW k \in DOMAIN s_io_request_queues'[p],
                          NEW l \in DOMAIN s_io_request_queues'[o],
                          s_io_request_queues'[p][k] = s_io_request_queues'[o][l],
                          s_io_request_queues'[p][k] # Marker
                   PROVE  p = o /\ k = l
        OBVIOUS
      <3>1. p \in DOMAIN s_io_request_queues /\ o \in DOMAIN s_io_request_queues
        BY <2>1
      <3>2. p = o
        BY <1>1, <2>3, <3>1 DEF IoOnce
      <3>3. CASE p = q
        <4>1. k + 1 = l + 1 /\ k \in Nat /\ l \in Nat
          BY <1>1, <2>3, <3>1, <3>2, <3>3 DEF IoOnce
        <4> QED
          BY <3>2, <4>1
      <3>4. CASE p # q
        BY <1>1, <2>3, <3>1, <3>2, <3>4 DEF IoOnce
      <3> QED
        BY <3>3, <3>4
    <2> QED
      BY <1>a, <2>4, <2>5 DEF IoOnce, IsPio, StageOf
  <1>2. ASSUME PioOnce, s_pio_request_queue # <<>>, e = Head(s_pio_request_queue),
               s_pio_request_queue' = Tail(s_pio_request_queue)
        PROVE  PioOnce'
    <2>1. /\ 1 \in DOMAIN s_pio_request_queue /\ e = s_pio_request_queue[1]
          /\ \A k \in DOMAIN s_pio_request_queue' :
                /\ k \in Nat /\ k > 0 /\ k + 1 \in DOMAIN s_pio_request_queue
                /\ s_pio_request_queue'[k] = s_pio_request_queue[k + 1]
      BY <1>2, TailPlaces DEF TypeOK
    <2>2. \A k \in DOMAIN s_pio_request_queue' :
            LET f == s_pio_request_queue'[k] IN
            f # Marker => f \in Entries /\ f # e /\ StageOf(f) = "queued" /\ IsPio(f)
      <3> SUFFICES ASSUME NEW k \in DOMAIN s_pio_request_queue', s_pio_request_queue'[k] # Marker
                   PROVE  LET f == s_pio_request_queue'[k] IN
                          f \in Entries /\ f # e /\ StageOf(f) = "queued" /\ IsPio(f)
        OBVIOUS
      <3>1. /\ k + 1 # 1 /\ k + 1 \in DOMAIN s_pio_request_queue
            /\ s_pio_request_queue'[k] = s_pio_request_queue[k + 1]
        BY <2>1
      <3> QED
        BY <1>2, <2>1, <3>1, QueueElements DEF PioOnce
    <2>3. \A k, l \in DOMAIN s_pio_request_queue' :
            s_pio_request_queue'[k] = s_pio_request_queue'[l]
                => s_pio_request_queue'[k] = Marker \/ k = l
      <3> SUFFICES ASSUME NEW k \in DOMAIN s_pio_request_queue', NEW l \in DOMAIN s_pio_request_queue',
                          s_pio_request_queue'[k] = s_pio_request_queue'[l],
                          s_pio_request_queue'[k] # Marker
                   PROVE  k = l
        OBVIOUS
      <3>1. k + 1 = l + 1 /\ k \in Nat /\ l \in Nat
        BY <1>2, <2>1 DEF PioOnce
      <3> QED
        BY <3>1
    <2> QED
      BY <1>a, <2>2, <2>3 DEF PioOnce, IsPio, StageOf
  <1> QED
    BY <1>1, <1>2

\* A worker that is not concerned by a step goes on holding a command of its own, when the
\* one command whose stage moves is nobody else's.
LEMMA OthersHold ==
    ASSUME HeldOnce, ThreadsHaveQueues, NEW e \in Entries, NEW v \in Workers,
           StageOf(e) \in {"new", "queued", "running"},
           work[v].pc = "run" /\ work[v].e = e => StageOf(e) # "running",
           \A f \in Entries : stage'[f[1]][f[2]] = stage[f[1]][f[2]] \/ f = e,
           work'[v] = work[v]
    PROVE  /\ work[v].pc \in {"run", "count"} => work[v].e # e
           /\ work'[v].pc = "run" => StageOf(work[v].e)' = "running"
           /\ work'[v].pc \in {"count", "callback"} => StageOf(work[v].e)' \in {"ok", "failed"}
  <1>1. /\ work[v].pc = "run" => StageOf(work[v].e) = "running"
        /\ work[v].pc \in {"count", "callback"} => StageOf(work[v].e) \in {"ok", "failed"}
    BY DEF HeldOnce
  <1>2. work[v].pc \in {"run", "count", "callback"} => work[v].e \in Entries /\ work[v].e # e
    BY <1>1 DEF ThreadsHaveQueues
  <1>3. work[v].pc \in {"run", "count", "callback"} => StageOf(work[v].e)' = StageOf(work[v].e)
    BY <1>2 DEF StageOf
  <1> QED
    BY <1>1, <1>2, <1>3

\* A worker takes a queued command, or makes the system call of the one it runs.
LEMMA HeldStep ==
    ASSUME HeldOnce, ThreadsHaveQueues, NEW w \in Workers, NEW e \in Entries, NEW p, WorkMoves(w, p, e),
           \A f \in Entries : stage'[f[1]][f[2]] = stage[f[1]][f[2]] \/ f = e,
           \/ StageOf(e) = "queued"
           \/ StageOf(e) = "running" /\ work[w].pc = "run" /\ work[w].e = e,
           \/ p = "run" /\ StageOf(e)' = "running"
           \/ p = "count" /\ StageOf(e)' \in {"ok", "failed"}
    PROVE  HeldOnce'
  <1>0. work'[w].pc = p /\ work'[w].e = e /\ \A v \in Workers : v # w => work'[v] = work[v]
    BY DEF WorkMoves
  <1>1. ASSUME NEW v \in Workers, v # w, work[v].pc = "run", work[v].e = e PROVE StageOf(e) # "running"
    BY <1>1 DEF HeldOnce
  <1>2. ASSUME NEW v \in Workers, v # w
        PROVE  /\ work'[v] = work[v]
               /\ work[v].pc \in {"run", "count"} => work[v].e # e
               /\ work'[v].pc = "run" => StageOf(work[v].e)' = "running"
               /\ work'[v].pc \in {"count", "callback"} => StageOf(work[v].e)' \in {"ok", "failed"}
    <2>1. work'[v] = work[v]
      BY <1>0, <1>2
    <2> QED
      BY <1>1, <1>2, <2>1, OthersHold
  <1>3. ASSUME NEW v \in Workers
        PROVE  /\ work'[v].pc = "run" => stage'[work'[v].e[1]][work'[v].e[2]] = "running"
               /\ work'[v].pc \in {"count", "callback"}
                    => stage'[work'[v].e[1]][work'[v].e[2]] \in {"ok", "failed"}
    <2>1. CASE v = w
      BY <1>0, <2>1 DEF StageOf
    <2>2. CASE v # w
      BY <1>2, <2>2 DEF StageOf
    <2> QED
      BY <2>1, <2>2
  <1>4. ASSUME NEW u \in Workers, NEW v \in Workers, work'[u].pc \in {"run", "count"},
               work'[v].pc \in {"run", "count"}, work'[u].e = work'[v].e
        PROVE  u = v
    <2>1. CASE u = w \/ v = w
      BY <1>0, <1>2, <1>4, <2>1
    <2>2. CASE u # w /\ v # w
      BY <1>2, <1>4, <2>2 DEF HeldOnce
    <2> QED
      BY <2>1, <2>2
  <1> QED
    BY <1>3, <1>4 DEF HeldOnce, StageOf

\* Every step keeps each command in one place.
LEMMA PlacesStep ==
    ASSUME ServiceInv, ServiceInv', PlacesInv, [Next]_vars
    PROVE  PlacesInv'
  <1> USE DEF ServiceInv, Typed
  <1>a. \A e \in Entries : StageOf(e) = stage[e[1]][e[2]] /\ StageOf(e)' = stage'[e[1]][e[2]]
    BY DEF StageOf
  <1>b. ASSUME UNCHANGED <<stage, s_io_request_queues, s_pio_request_queue>> PROVE IoOnce' /\ PioOnce'
    BY <1>b, KeptPlaces DEF PlacesInv, IoKept, PioKept
  <1>c. ASSUME NEW t \in Submitters, NEW r \in Requests, SubmitBegin(t, r), sub[t].pc = "out",
               UNCHANGED <<stage, s_io_request_queues, s_pio_request_queue, ids, work>>
        PROVE  PlacesInv'
    <2>1. SubMoves(t, "next", r, 1) /\ Fresh(r)
      BY <1>c, SubmitMoves DEF SubmitBegin
    <2>2. NewUntilPushed'
      BY <1>c, <2>1 DEF SubMoves, PlacesInv, NewUntilPushed, Fresh, InSubmit
    <2>3. HeldOnce'
      BY <1>c DEF PlacesInv, HeldOnce, StageOf
    <2> QED
      BY <1>b, <1>c, <2>2, <2>3 DEF PlacesInv
  <1>1. ASSUME NEW t \in Clients, NEW r \in Requests, ClientSubmit(t, r) PROVE PlacesInv'
    BY <1>1, <1>c DEF ClientSubmit, Submitters, serviceVars, historyVars
  <1>g. ASSUME NEW t \in Submitters, sub[t].pc # "out", MoreCmds(t)
        PROVE  /\ sub[t].idx \in Nat /\ <<sub[t].req, sub[t].idx>> \in Entries
               /\ StageOf(<<sub[t].req, sub[t].idx>>) = "new"
               /\ IsPio(<<sub[t].req, sub[t].idx>>) <=> Cmd(t).pio
    <2>1. sub[t].idx \in Nat
      BY DEF TypeOK, SubState
    <2>2. sub[t].idx >= sub[t].idx
      BY <2>1
    <2>3. sub[t].idx \in DOMAIN CmdsOf[sub[t].req] /\ <<sub[t].req, sub[t].idx>> \in Entries
      BY <1>g, SubmitEntry
    <2>4. stage[sub[t].req][sub[t].idx] = "new"
      BY <1>g, <2>2, <2>3 DEF PlacesInv, NewUntilPushed
    <2> QED
      BY <2>1, <2>3, <2>4 DEF StageOf, IsPio, Cmd
  \* A push makes the command "queued"; a push to a freed queue loses it.
  <1>d. ASSUME NEW t \in Submitters, sub[t].pc # "out", MoreCmds(t), UNCHANGED <<ids, work>>,
               SubMoves(t, "next", sub[t].req, sub[t].idx + 1),
               stage' = stage \/ StageMoves(sub[t].req, sub[t].idx, "queued")
        PROVE  HeldOnce' /\ NewUntilPushed'
    <2> DEFINE r == sub[t].req  i == sub[t].idx
    <2>1. r \in Requests /\ i \in DOMAIN CmdsOf[r] /\ i \in Nat /\ <<r, i>> \in Entries
      BY <1>d, SubmitEntry DEF TypeOK, SubState
    <2>2. stage[r][i] = "new" /\ \A u \in Submitters : u # t /\ sub[u].pc # "out" => sub[u].req # r
      <3>1. stage[r][i] = "new"
        BY <1>d, <1>g DEF StageOf
      <3>2. \A u \in Submitters : u # t /\ sub[u].pc # "out" => sub[u].req # r
        BY <1>d DEF SubmitSound
      <3> QED
        BY <3>1, <3>2
    <2>3. \A f \in Entries : stage'[f[1]][f[2]] = stage[f[1]][f[2]] \/ f = <<r, i>>
      BY <1>d, <2>1, StageKept DEF StageOf
    <2>4. HeldOnce'
      <3>1. HeldOnce /\ StageOf(<<r, i>>) = "new" /\ \A v \in Workers : work'[v] = work[v]
        BY <1>d, <2>2 DEF PlacesInv, StageOf
      <3>2. ASSUME NEW v \in Workers
            PROVE  /\ work'[v].pc = "run" => StageOf(work[v].e)' = "running"
                   /\ work'[v].pc \in {"count", "callback"} => StageOf(work[v].e)' \in {"ok", "failed"}
        BY <2>1, <2>3, <3>1, OthersHold
      <3> QED
        BY <3>1, <3>2 DEF HeldOnce, StageOf
    <2>5. \A u \in Submitters : sub'[u].pc # "out" =>
            \A j \in DOMAIN CmdsOf[sub'[u].req] : j >= sub'[u].idx => stage'[sub'[u].req][j] = "new"
      <3> SUFFICES ASSUME NEW u \in Submitters, sub'[u].pc # "out",
                          NEW j \in DOMAIN CmdsOf[sub'[u].req], j >= sub'[u].idx
                   PROVE  stage'[sub'[u].req][j] = "new"
        OBVIOUS
      <3>1. sub[u].pc # "out" /\ sub'[u].req = sub[u].req /\ sub[u].req \in Requests
        BY <1>d DEF SubMoves, SubmitSound
      <3>2. j \in Nat /\ <<sub[u].req, j>> \in Entries
        BY <3>1, ConstantsAssumption DEF Entries
      <3>3. j >= sub[u].idx /\ <<sub[u].req, j>> # <<r, i>>
        BY <1>d, <2>1, <2>2, <3>1, <3>2 DEF SubMoves
      <3>4. stage[sub[u].req][j] = "new"
        BY <3>1, <3>3 DEF PlacesInv, NewUntilPushed
      <3> QED
        BY <2>3, <3>1, <3>2, <3>3, <3>4
    <2>6. \A q \in Requests : Fresh(q)' => \A j \in DOMAIN CmdsOf[q] : stage'[q][j] = "new"
      <3> SUFFICES ASSUME NEW q \in Requests, Fresh(q)', NEW j \in DOMAIN CmdsOf[q]
                   PROVE  stage'[q][j] = "new"
        OBVIOUS
      <3>1. Fresh(q) /\ q # r
        BY <1>d DEF SubMoves, Fresh, InSubmit
      <3>2. <<q, j>> \in Entries
        BY ConstantsAssumption DEF Entries
      <3> QED
        BY <2>3, <3>1, <3>2 DEF PlacesInv, NewUntilPushed
    <2> QED
      BY <2>4, <2>5, <2>6 DEF NewUntilPushed
  <1>2. ASSUME NEW t \in Submitters, SubmitPushIo(t) PROVE PlacesInv'
    <2> DEFINE e == <<sub[t].req, sub[t].idx>>
    <2>1. sub[t].pc # "out" /\ MoreCmds(t) /\ ~Cmd(t).pio /\ SubMoves(t, "next", sub[t].req, sub[t].idx + 1)
      BY <1>2, SubmitMoves DEF SubmitPushIo, SubmitSound
    <2>2. e \in Entries /\ ~IsPio(e) /\ StageOf(e) = "new"
      BY <2>1, <1>g
    <2>3. CASE UNCHANGED <<s_io_request_queues, stage>>
      BY <1>2, <1>b, <1>d, <2>1, <2>3 DEF SubmitPushIo, PlacesInv
    <2>4. CASE /\ sub[t].q \in DOMAIN s_io_request_queues
               /\ s_io_request_queues' = [s_io_request_queues EXCEPT ![sub[t].q] = Append(@, e)]
               /\ Queued(t)
      <3>1. StageMoves(sub[t].req, sub[t].idx, "queued")
        BY <2>1, <2>4, SubmitEntry, StageStep DEF Queued, Stages
      <3>2. IoOnce'
        BY <2>2, <2>4, <3>1, PushPlaces DEF PlacesInv
      <3>3. PioOnce'
        BY <1>2, <2>2, <3>1, OtherPlaces DEF PlacesInv, SubmitPushIo
      <3> QED
        BY <1>2, <1>d, <2>1, <3>1, <3>2, <3>3 DEF SubmitPushIo, PlacesInv
    <2> QED
      BY <1>2, <2>3, <2>4 DEF SubmitPushIo
  <1>3. ASSUME NEW t \in Submitters, SubmitPushPio(t) PROVE PlacesInv'
    <2> DEFINE e == <<sub[t].req, sub[t].idx>>
    <2>1. sub[t].pc # "out" /\ MoreCmds(t) /\ Cmd(t).pio /\ SubMoves(t, "next", sub[t].req, sub[t].idx + 1)
      BY <1>3, SubmitMoves DEF SubmitPushPio
    <2>2. e \in Entries /\ IsPio(e) /\ StageOf(e) = "new"
      BY <2>1, <1>g
    <2>3. StageMoves(sub[t].req, sub[t].idx, "queued")
      BY <1>3, <2>1, SubmitEntry, StageStep DEF SubmitPushPio, Queued, Stages
    <2>4. PioOnce'
      BY <1>3, <2>2, <2>3, PushPlaces DEF PlacesInv, SubmitPushPio
    <2>5. IoOnce'
      BY <1>3, <2>2, <2>3, OtherPlaces DEF PlacesInv, SubmitPushPio
    <2> QED
      BY <1>3, <1>d, <2>1, <2>3, <2>4, <2>5 DEF SubmitPushPio, PlacesInv
  <1>4. ASSUME NEW t \in Submitters, SubmitReturn(t) PROVE PlacesInv'
    <2>1. SubMoves(t, "out", None, 0) /\ sub[t].pc # "out"
      BY <1>4, SubmitMoves DEF SubmitReturn
    <2>2. /\ UNCHANGED <<stage, s_io_request_queues, s_pio_request_queue>>
          /\ ids' = [ids EXCEPT ![sub[t].req] = s_reqid] /\ s_reqid # 0
          /\ ids \in [Requests -> Nat] /\ sub[t].req \in Requests
      BY <1>4, <2>1 DEF SubmitReturn, TypeOK, SubmitSound
    <2>3. \A w \in Workers : work'[w] = work[w] \/ work'[w].pc = "pop"
      BY <1>4, WorkersMove DEF SubmitReturn, WorkMoves
    <2>4. HeldOnce'
      BY <2>2, <2>3 DEF PlacesInv, HeldOnce, StageOf
    <2>5. NewUntilPushed'
      BY <2>1, <2>2 DEF SubMoves, PlacesInv, NewUntilPushed, Fresh, InSubmit
    <2> QED
      BY <1>b, <2>2, <2>4, <2>5 DEF PlacesInv
  \* A pop hands the command to the worker.
  <1>e. ASSUME NEW w \in Workers, NEW e \in Entries \cup {Marker}, Take(w, e),
               e # Marker => StageOf(e) = "queued", work[w].pc = "pop", UNCHANGED <<sub, ids>>
        PROVE  HeldOnce' /\ NewUntilPushed'
    <2>1. CASE e = Marker
      <3>1. WorkMoves(w, "gone", Marker) /\ stage' = stage
        BY <1>e, <2>1, TakeStep, EntryParts
      <3> QED
        <4>1. HeldOnce'
          BY <3>1 DEF WorkMoves, PlacesInv, HeldOnce, StageOf
        <4>2. NewUntilPushed'
          BY <1>e, <3>1 DEF PlacesInv, NewUntilPushed, Fresh, InSubmit
        <4> QED
          BY <4>1, <4>2
    <2>2. CASE e # Marker
      <3>1. e \in Entries /\ WorkMoves(w, "run", e) /\ StageMoves(e[1], e[2], "running")
        BY <1>e, <2>2, TakeStep
      <3>2. \A f \in Entries : stage'[f[1]][f[2]] = stage[f[1]][f[2]] \/ f = e
        BY <3>1, EntryParts, StageKept DEF StageOf
      <3>3. stage'[e[1]][e[2]] = "running" /\ stage[e[1]][e[2]] = "queued"
        BY <1>e, <2>2, <3>1 DEF StageMoves, StageOf
      <3>4. \A v \in Workers : v # w => work'[v] = work[v]
        BY <3>1 DEF WorkMoves
      <3>5. HeldOnce'
        <4>1. HeldOnce /\ StageOf(e) = "queued" /\ StageOf(e)' = "running"
          BY <3>3 DEF PlacesInv, StageOf
        <4> QED
          BY <3>1, <3>2, <4>1, HeldStep
      <3>6. \A q \in Requests : \A j \in DOMAIN CmdsOf[q] : stage[q][j] = "new" => stage'[q][j] = "new"
        <4> TAKE q \in Requests
        <4> TAKE j \in DOMAIN CmdsOf[q]
        <4>1. <<q, j>> \in Entries
          BY ConstantsAssumption DEF Entries
        <4> QED
          BY <3>2, <3>3, <4>1
      <3>7. NewUntilPushed'
        BY <1>e, <3>6 DEF PlacesInv, NewUntilPushed, Fresh, InSubmit, SubmitSound
      <3> QED
        BY <3>5, <3>7
    <2> QED
      BY <2>1, <2>2
  <1>5. ASSUME NEW w \in Workers, PopIo(w) PROVE PlacesInv'
    <2> DEFINE e == Head(s_io_request_queues[w[2]])
    <2>1. /\ w[2] \in DOMAIN s_io_request_queues /\ s_io_request_queues[w[2]] \in Queue
          /\ s_io_request_queues[w[2]] # <<>> /\ e \in Entries \cup {Marker}
      BY <1>5, PopEntry DEF PopIo
    <2>2. Take(w, e) /\ work[w].pc = "pop"
      BY <1>5 DEF PopIo
    <2>3. e # Marker => StageOf(e) = "queued" /\ ~IsPio(e)
      BY <2>1, TailPlaces DEF PlacesInv, IoOnce
    <2>4. IF e = Marker THEN stage' = stage ELSE StageMoves(e[1], e[2], "running")
      BY <2>1, <2>2, TakeStep, EntryParts
    <2>5. IoOnce'
      BY <1>5, <2>1, <2>4, PopPlaces DEF PopIo, PlacesInv
    <2>6. PioOnce'
      <3>1. UNCHANGED s_pio_request_queue
        BY <1>5 DEF PopIo
      <3>2. CASE e = Marker
        BY <2>4, <3>1, <3>2, KeptPlaces DEF PlacesInv, PioKept
      <3>3. CASE e # Marker
        BY <2>1, <2>3, <2>4, <3>1, <3>3, OtherPlaces DEF PlacesInv
      <3> QED
        BY <3>2, <3>3
    <2> QED
      BY <1>5, <1>e, <2>1, <2>2, <2>3, <2>5, <2>6 DEF PopIo, PlacesInv
  <1>6. ASSUME NEW w \in Workers, PopPio(w) PROVE PlacesInv'
    <2> DEFINE e == Head(s_pio_request_queue)
    <2>1. s_pio_request_queue \in Queue /\ s_pio_request_queue # <<>> /\ e \in Entries \cup {Marker}
      BY <1>6, PopEntry DEF PopPio, TypeOK
    <2>2. Take(w, e) /\ work[w].pc = "pop"
      BY <1>6 DEF PopPio
    <2>3. e # Marker => StageOf(e) = "queued" /\ IsPio(e)
      BY <2>1, TailPlaces DEF PlacesInv, PioOnce
    <2>4. IF e = Marker THEN stage' = stage ELSE StageMoves(e[1], e[2], "running")
      BY <2>1, <2>2, TakeStep, EntryParts
    <2>5. PioOnce'
      BY <1>6, <2>1, <2>4, PopPlaces DEF PopPio, PlacesInv
    <2>6. IoOnce'
      <3>1. UNCHANGED s_io_request_queues
        BY <1>6 DEF PopPio
      <3>2. CASE e = Marker
        BY <2>4, <3>1, <3>2, KeptPlaces DEF PlacesInv, IoKept
      <3>3. CASE e # Marker
        BY <2>1, <2>3, <2>4, <3>1, <3>3, OtherPlaces DEF PlacesInv
      <3> QED
        BY <3>2, <3>3
    <2> QED
      BY <1>6, <1>e, <2>1, <2>2, <2>3, <2>5, <2>6 DEF PopPio, PlacesInv
  <1>7. ASSUME NEW w \in Workers, NEW ret \in {"ok", "failed"}, ProcessCommand(w, ret) PROVE PlacesInv'
    <2> DEFINE e == work[w].e
    <2>1. e \in Entries /\ work[w].pc = "run" /\ StageOf(e) = "running"
      BY <1>7 DEF ProcessCommand, ThreadsHaveQueues, PlacesInv, HeldOnce
    <2>2. StageMoves(e[1], e[2], ret) /\ WorkMoves(w, "count", e)
      BY <1>7, <2>1, EntryParts, StageStep, WorkersMove DEF ProcessCommand, Stages
    <2>3. UNCHANGED <<s_io_request_queues, s_pio_request_queue, sub, ids>>
      BY <1>7 DEF ProcessCommand, serviceVars
    <2>4. IoOnce' /\ PioOnce'
      BY <2>1, <2>2, <2>3, OtherPlaces DEF PlacesInv
    <2>5. \A f \in Entries : stage'[f[1]][f[2]] = stage[f[1]][f[2]] \/ f = e
      BY <2>1, <2>2, EntryParts, StageKept DEF StageOf
    <2>6. stage'[e[1]][e[2]] = ret /\ stage[e[1]][e[2]] = "running"
      BY <2>1, <2>2 DEF StageMoves, StageOf
    <2>7. HeldOnce'
      <3>1. PICK x \in Entries : x = e
        BY <2>1
      <3>2. HeldOnce /\ StageOf(x) = "running" /\ StageOf(x)' \in {"ok", "failed"}
        BY <2>6, <3>1 DEF PlacesInv, StageOf
      <3>3. WorkMoves(w, "count", x) /\ work[w].pc = "run" /\ work[w].e = x
        BY <2>1, <2>2, <3>1
      <3>4. \A f \in Entries : stage'[f[1]][f[2]] = stage[f[1]][f[2]] \/ f = x
        BY <2>5, <3>1
      <3> QED
        BY <3>2, <3>3, <3>4, HeldStep
    <2>8. \A q \in Requests : \A j \in DOMAIN CmdsOf[q] : stage[q][j] = "new" => stage'[q][j] = "new"
      <3> TAKE q \in Requests
      <3> TAKE j \in DOMAIN CmdsOf[q]
      <3>1. <<q, j>> \in Entries
        BY ConstantsAssumption DEF Entries
      <3> QED
        BY <2>5, <2>6, <3>1
    <2>9. NewUntilPushed'
      BY <2>3, <2>8 DEF PlacesInv, NewUntilPushed, Fresh, InSubmit, SubmitSound
    <2> QED
      BY <2>4, <2>7, <2>9 DEF PlacesInv
  <1>f. ASSUME NEW w \in Workers, NEW p \in {"pop", "callback"}, work[w].pc \in {"count", "callback"},
               work' = [work EXCEPT ![w].pc = p],
               UNCHANGED <<stage, s_io_request_queues, s_pio_request_queue, sub, ids>>
        PROVE  PlacesInv'
    <2>1. WorkMoves(w, p, work[w].e)
      BY <1>f, WorkersMove
    <2>2. HeldOnce'
      BY <1>f, <2>1 DEF WorkMoves, PlacesInv, HeldOnce, StageOf
    <2>3. NewUntilPushed'
      BY <1>f DEF PlacesInv, NewUntilPushed, Fresh, InSubmit
    <2> QED
      BY <1>b, <1>f, <2>2, <2>3 DEF PlacesInv
  <1>8. ASSUME NEW w \in Workers, CountCommand(w) PROVE PlacesInv'
    BY <1>8, <1>f DEF CountCommand, serviceVars, historyVars
  <1>9. ASSUME NEW w \in Workers, Callback(w) PROVE PlacesInv'
    <2> DEFINE f == FollowUp[work[w].e[1]]
    <2>1. f \in Requests \cup {None}
      BY <1>9, EntryParts, ConstantsAssumption DEF Callback, ThreadsHaveQueues
    <2>2. CASE f # None /\ SubmitBegin(w, f) /\ UNCHANGED work
      BY <1>9, <1>c, <2>1, <2>2 DEF Callback, Submitters, serviceVars
    <2>3. CASE work' = [work EXCEPT ![w].pc = "pop"] /\ UNCHANGED sub
      BY <1>9, <1>f, <2>3 DEF Callback, serviceVars
    <2> QED
      BY <1>9, <2>2, <2>3 DEF Callback
  <1> QED
    BY <1>1, <1>2, <1>3, <1>4, <1>5, <1>6, <1>7, <1>8, <1>9, QuietSteps, QuietPlaces
       DEF Next, SubmitStep, WorkerStep

-----------------------------------------------------------------------------
\* The commands of a request, and a subset of them that has as many elements.
LEMMA CommandSets ==
    ASSUME NEW r \in Requests
    PROVE  /\ IsFiniteSet(DOMAIN CmdsOf[r]) /\ Cardinality(DOMAIN CmdsOf[r]) = Len(CmdsOf[r])
           /\ Len(CmdsOf[r]) \in Nat
           /\ \A S \in SUBSET DOMAIN CmdsOf[r] :
                /\ IsFiniteSet(S) /\ Cardinality(S) \in Nat /\ Cardinality(S) <= Len(CmdsOf[r])
                /\ Cardinality(S) = Len(CmdsOf[r]) => S = DOMAIN CmdsOf[r]
  <1>1. Len(CmdsOf[r]) \in Nat /\ DOMAIN CmdsOf[r] = 1 .. Len(CmdsOf[r])
    BY ConstantsAssumption
  <1>2. IsFiniteSet(DOMAIN CmdsOf[r]) /\ Cardinality(DOMAIN CmdsOf[r]) = Len(CmdsOf[r])
    BY <1>1, FS_Interval
  <1> QED
    BY <1>1, <1>2, FS_Subset, FS_CardinalityType

\* The counted and the failed commands of a request are commands of it.
LEMMA CountedSets ==
    ASSUME NEW r \in Requests
    PROVE  /\ CountedCmds(r) \in SUBSET DOMAIN CmdsOf[r] /\ FailedCmds(r) \in SUBSET DOMAIN CmdsOf[r]
  BY DEF CountedCmds, FailedCmds

\* A request that was called back, or is about to be, has every command finished and counted.
LEMMA AllCounted ==
    ASSUME CountsInv, NEW r \in Requests, request[r].m_completed_cnt = Len(CmdsOf[r])
    PROVE  \A i \in DOMAIN CmdsOf[r] :
                /\ stage[r][i] \in {"ok", "failed"}
                /\ \A w \in Workers : work[w].pc = "count" => work[w].e # <<r, i>>
  <1>1. CountedCmds(r) = DOMAIN CmdsOf[r]
    BY CommandSets, CountedSets DEF CountsInv
  <1> QED
    BY <1>1 DEF CountedCmds

\* Steps that finish no command, count none and call nobody back.
NothingCounted ==
    /\ UNCHANGED <<request, callbacks>>
    /\ \A r \in Requests : \A i \in DOMAIN CmdsOf[r] :
        stage'[r][i] = stage[r][i] \/ (stage[r][i] \in {"new", "queued"} /\ stage'[r][i] \in {"queued", "running"})
    /\ \A w \in Workers :
        /\ work'[w].pc = "count" <=> work[w].pc = "count"
        /\ work[w].pc = "count" => work'[w].e = work[w].e
        /\ \A r \in Requests : CallsBack(w, r)' => CallsBack(w, r)

\* A step that counts nothing keeps the counters and the callbacks exact.
LEMMA NothingCountedKeeps ==
    ASSUME CountsInv, CallbackInv, NothingCounted
    PROVE  CountsInv' /\ CallbackInv'
  <1>1. ASSUME NEW r \in Requests
        PROVE  CountedCmds(r)' = CountedCmds(r) /\ FailedCmds(r)' = FailedCmds(r)
    BY DEF NothingCounted, CountedCmds, FailedCmds
  <1>2. CountsInv'
    BY <1>1 DEF NothingCounted, CountsInv
  <1>3. CallbackInv'
    BY DEF NothingCounted, CallbackInv
  <1> QED
    BY <1>2, <1>3

\* Submit's reset of a fresh request changes nothing: its counters are zero.
LEMMA FreshCounters ==
    ASSUME ServiceInv, PlacesInv, CountsInv, NEW r \in Requests, Fresh(r),
           request' = [request EXCEPT ![r] = NotMade]
    PROVE  request' = request
  <1>1. CountedCmds(r) = {} /\ FailedCmds(r) = {}
    BY DEF PlacesInv, NewUntilPushed, CountedCmds, FailedCmds
  <1>2. Cardinality({}) = 0
    BY FS_EmptySet
  <1>3. request[r].m_completed_cnt = 0 /\ request[r].m_cmd_fail_cnt = 0
    BY <1>1, <1>2 DEF CountsInv
  <1>4. request \in [Requests -> Counters] /\ request[r] \in Counters
    BY DEF ServiceInv, Typed, TypeOK
  <1>5. request[r] = NotMade
    BY <1>3, <1>4 DEF Counters, NotMade
  <1> QED
    BY <1>4, <1>5

\* Every step keeps the counters exact and the callback single.
LEMMA CallbackStep ==
    ASSUME ServiceInv, ServiceInv', PlacesInv, PlacesInv', CountsInv, CallbackInv, [Next]_vars
    PROVE  CountsInv' /\ CallbackInv'
  <1> USE DEF ServiceInv, Typed
  <1>0. /\ request \in [Requests -> Counters] /\ callbacks \in [Requests -> Seq(Nat)]
        /\ work \in [Workers -> WorkState] /\ Workers \subseteq Submitters
    BY DEF TypeOK, Submitters
  <1>q. ASSUME Quiet PROVE NothingCounted
    BY <1>0, <1>q DEF Quiet, NothingCounted, CallsBack
  <1>1. ASSUME NEW t \in Clients, NEW r \in Requests, ClientSubmit(t, r) PROVE NothingCounted
    <2>1. SubMoves(t, "next", r, 1)
      BY <1>1, SubmitMoves DEF ClientSubmit, Submitters
    <2>2. request' = request
      BY <1>1, FreshCounters DEF ClientSubmit, SubmitBegin
    <2>3. UNCHANGED <<work, stage, callbacks>>
      BY <1>1 DEF ClientSubmit, historyVars
    <2> QED
      BY <1>0, <2>1, <2>2, <2>3, ThreadsAssumption DEF SubMoves, NothingCounted, CallsBack
  <1>a. ASSUME NEW e \in Entries, NEW x \in {"queued", "running"}, StageMoves(e[1], e[2], x),
               StageOf(e) \in {"new", "queued"}
        PROVE  \A r \in Requests : \A i \in DOMAIN CmdsOf[r] :
                \/ stage'[r][i] = stage[r][i]
                \/ stage[r][i] \in {"new", "queued"} /\ stage'[r][i] \in {"queued", "running"}
    BY <1>a, EntryParts DEF StageMoves, StageOf
  <1>2. ASSUME NEW t \in Submitters, SubmitPushIo(t) \/ SubmitPushPio(t) PROVE NothingCounted
    <2> DEFINE e == <<sub[t].req, sub[t].idx>>
    <2>1. sub[t].pc # "out" /\ MoreCmds(t) /\ SubMoves(t, "next", sub[t].req, sub[t].idx + 1)
      BY <1>2, SubmitMoves DEF SubmitPushIo, SubmitPushPio, SubmitSound
    <2>2. e \in Entries /\ sub[t].idx \in DOMAIN CmdsOf[sub[t].req] /\ sub[t].idx \in Nat
      BY <2>1, SubmitEntry DEF TypeOK, SubState
    <2>3. StageOf(e) = "new"
      BY <2>1, <2>2 DEF StageOf, PlacesInv, NewUntilPushed
    <2>4. stage' = stage \/ StageMoves(sub[t].req, sub[t].idx, "queued")
      BY <1>2, <2>1, SubmitEntry, StageStep DEF SubmitPushIo, SubmitPushPio, Queued, Stages
    <2>5. UNCHANGED <<work, request, callbacks>>
      BY <1>2 DEF SubmitPushIo, SubmitPushPio
    <2>6. \A w \in Workers, r \in Requests : CallsBack(w, r)' => CallsBack(w, r)
      BY <1>0, <2>1, <2>5 DEF SubMoves, CallsBack
    <2>7. \A r \in Requests : \A i \in DOMAIN CmdsOf[r] :
            \/ stage'[r][i] = stage[r][i]
            \/ stage[r][i] \in {"new", "queued"} /\ stage'[r][i] \in {"queued", "running"}
      BY <1>a, <2>2, <2>3, <2>4
    <2> QED
      BY <2>5, <2>6, <2>7 DEF NothingCounted
  <1>3. ASSUME NEW t \in Submitters, SubmitReturn(t) PROVE NothingCounted
    <2>1. SubMoves(t, "out", None, 0) /\ sub[t].pc # "out"
      BY <1>3, SubmitMoves DEF SubmitReturn
    <2>2. UNCHANGED <<stage, request, callbacks>>
      BY <1>3 DEF SubmitReturn
    <2>3. \A w \in Workers : IF w = t THEN work[w].pc = "callback" /\ work'[w].pc = "pop"
                             ELSE work'[w] = work[w]
      BY <1>3, <2>1, WorkersMove DEF SubmitReturn, WorkMoves, SubmitSound
    <2> QED
      BY <1>0, <2>1, <2>2, <2>3 DEF SubMoves, NothingCounted, CallsBack
  <1>b. ASSUME NEW w \in Workers, NEW e \in Entries \cup {Marker}, Take(w, e), work[w].pc = "pop",
               e # Marker => StageOf(e) = "queued", UNCHANGED <<sub, request, callbacks>>
        PROVE  NothingCounted
    <2>1. CASE e = Marker
      <3>1. WorkMoves(w, "gone", Marker) /\ stage' = stage
        BY <1>b, <2>1, TakeStep, EntryParts
      <3> QED
        BY <1>b, <3>1 DEF WorkMoves, NothingCounted, CallsBack
    <2>2. CASE e # Marker
      <3>1. e \in Entries /\ WorkMoves(w, "run", e) /\ StageMoves(e[1], e[2], "running")
        BY <1>b, <2>2, TakeStep
      <3>2. \A r \in Requests : \A i \in DOMAIN CmdsOf[r] :
              \/ stage'[r][i] = stage[r][i]
              \/ stage[r][i] \in {"new", "queued"} /\ stage'[r][i] \in {"queued", "running"}
        BY <1>a, <1>b, <2>2, <3>1
      <3> QED
        BY <1>b, <3>1, <3>2 DEF WorkMoves, NothingCounted, CallsBack
    <2> QED
      BY <2>1, <2>2
  <1>4. ASSUME NEW w \in Workers, PopIo(w) PROVE NothingCounted
    <2> DEFINE e == Head(s_io_request_queues[w[2]])
    <2>1. /\ w[2] \in DOMAIN s_io_request_queues /\ s_io_request_queues[w[2]] \in Queue
          /\ s_io_request_queues[w[2]] # <<>> /\ e \in Entries \cup {Marker}
      BY <1>4, PopEntry DEF PopIo
    <2>2. e # Marker => StageOf(e) = "queued"
      BY <2>1, TailPlaces DEF PlacesInv, IoOnce
    <2> QED
      BY <1>4, <1>b, <2>1, <2>2 DEF PopIo
  <1>5. ASSUME NEW w \in Workers, PopPio(w) PROVE NothingCounted
    <2> DEFINE e == Head(s_pio_request_queue)
    <2>1. s_pio_request_queue \in Queue /\ s_pio_request_queue # <<>> /\ e \in Entries \cup {Marker}
      BY <1>5, PopEntry DEF PopPio, TypeOK
    <2>2. e # Marker => StageOf(e) = "queued"
      BY <2>1, TailPlaces DEF PlacesInv, PioOnce
    <2> QED
      BY <1>5, <1>b, <2>1, <2>2 DEF PopPio
  \* The system call: the failures are counted, and nobody has been called back yet.
  <1>6. ASSUME NEW w \in Workers, NEW ret \in {"ok", "failed"}, ProcessCommand(w, ret)
        PROVE  CountsInv' /\ CallbackInv'
    <2> DEFINE e == work[w].e
    <2>0. e \in Entries /\ e[1] \in Requests /\ e[2] \in DOMAIN CmdsOf[e[1]] /\ e = <<e[1], e[2]>>
      BY <1>6, EntryParts DEF ProcessCommand, ThreadsHaveQueues
    <2>p. PICK r \in Requests : r = e[1]
      BY <2>0
    <2>i. PICK i \in DOMAIN CmdsOf[r] : i = e[2]
      BY <2>0, <2>p
    <2>1. e \in Entries /\ e = <<r, i>> /\ e[1] = r /\ e[2] = i
      BY <2>0, <2>p, <2>i
    <2>2. StageMoves(r, i, ret) /\ WorkMoves(w, "count", e) /\ work[w].pc = "run"
      BY <1>6, <2>1, StageStep, WorkersMove DEF ProcessCommand, Stages
    <2>3. stage[r][i] = "running" /\ stage'[r][i] = ret
      BY <2>1, <2>2 DEF PlacesInv, HeldOnce, StageOf, StageMoves
    <2>4. UNCHANGED <<callbacks, sub>>
      BY <1>6 DEF ProcessCommand
    <2>5. ASSUME NEW q \in Requests PROVE CountedCmds(q)' = CountedCmds(q)
      <3>1. ASSUME NEW j \in DOMAIN CmdsOf[q], <<q, j>> # e
            PROVE  /\ stage'[q][j] = stage[q][j]
                   /\ (\A v \in Workers : work'[v].pc = "count" => work'[v].e # <<q, j>>)
                        <=> (\A v \in Workers : work[v].pc = "count" => work[v].e # <<q, j>>)
        BY <2>1, <2>2, <3>1 DEF StageMoves, WorkMoves
      <3>2. ASSUME NEW j \in DOMAIN CmdsOf[q], <<q, j>> = e
            PROVE  /\ stage[q][j] = "running"
                   /\ ~(\A v \in Workers : work'[v].pc = "count" => work'[v].e # <<q, j>>)
        BY <2>1, <2>2, <2>3, <3>2 DEF WorkMoves
      <3> QED
        BY <3>1, <3>2 DEF CountedCmds
    <2>6. ASSUME NEW q \in Requests
          PROVE  /\ request'[q].m_completed_cnt = request[q].m_completed_cnt
                 /\ request'[q].m_cmd_fail_cnt =
                        IF q = r /\ ret = "failed" THEN request[q].m_cmd_fail_cnt + 1
                        ELSE request[q].m_cmd_fail_cnt
      <3>1. CASE ret = "failed"
        <4>1. request' = [request EXCEPT ![r].m_cmd_fail_cnt = @ + 1]
          BY <1>6, <2>1, <3>1 DEF ProcessCommand
        <4>2. CASE q = r
          BY <3>1, <4>1, <4>2, CounterStep
        <4>3. CASE q # r
          BY <4>1, <4>3, CounterStep
        <4> QED
          BY <4>2, <4>3
      <3>2. CASE ret # "failed"
        BY <1>6, <3>2 DEF ProcessCommand
      <3> QED
        BY <3>1, <3>2
    <2>7. ASSUME NEW q \in Requests
          PROVE  FailedCmds(q)' = IF q = r /\ ret = "failed" THEN FailedCmds(q) \cup {i} ELSE FailedCmds(q)
      BY <2>1, <2>2, <2>3 DEF StageMoves, FailedCmds
    <2>8. i \notin FailedCmds(r)
      BY <2>3 DEF FailedCmds
    <2>9. CountsInv'
      <3> SUFFICES ASSUME NEW q \in Requests
                   PROVE  /\ request'[q].m_completed_cnt = Cardinality(CountedCmds(q)')
                          /\ request'[q].m_cmd_fail_cnt = Cardinality(FailedCmds(q)')
        BY DEF CountsInv
      <3>1. IsFiniteSet(FailedCmds(q))
        BY CommandSets, CountedSets
      <3>2. i \notin FailedCmds(q) => Cardinality(FailedCmds(q) \cup {i}) = Cardinality(FailedCmds(q)) + 1
        BY <3>1, FS_AddElement
      <3> QED
        BY <2>5, <2>6, <2>7, <2>8, <3>2 DEF CountsInv
    <2>10. request[r].m_completed_cnt # Len(CmdsOf[r])
      BY <2>1, <2>3, AllCounted
    <2>11. CallbackInv'
      <3>1. \A v \in Workers, q \in Requests : CallsBack(v, q)' => CallsBack(v, q)
        BY <2>2, <2>4 DEF WorkMoves, CallsBack
      <3>2. \A q \in Requests : request[q].m_completed_cnt = Len(CmdsOf[q]) => request'[q].m_cmd_fail_cnt = request[q].m_cmd_fail_cnt
        BY <2>6, <2>10
      <3> QED
        BY <2>4, <2>6, <3>1, <3>2 DEF CallbackInv
    <2> QED
      BY <2>9, <2>11
  \* fetch_add: exactly one command is the last one counted.
  <1>7. ASSUME NEW w \in Workers, CountCommand(w) PROVE CountsInv' /\ CallbackInv'
    <2> DEFINE e == work[w].e
    <2>0. e \in Entries /\ e[1] \in Requests /\ e[2] \in DOMAIN CmdsOf[e[1]] /\ e = <<e[1], e[2]>>
      BY <1>7, EntryParts DEF CountCommand, ThreadsHaveQueues
    <2>p. PICK r \in Requests : r = e[1]
      BY <2>0
    <2>i. PICK i \in DOMAIN CmdsOf[r] : i = e[2]
      BY <2>0, <2>p
    <2>1. e \in Entries /\ e = <<r, i>> /\ e[1] = r /\ e[2] = i
      BY <2>0, <2>p, <2>i
    <2>2. /\ work[w].pc = "count" /\ stage[r][i] \in {"ok", "failed"}
          /\ WorkMoves(w, IF IsLast(r) THEN "callback" ELSE "pop", e)
      BY <1>7, <2>1, WorkersMove DEF CountCommand, PlacesInv, HeldOnce, StageOf
    <2>3. UNCHANGED <<stage, callbacks, sub>>
      BY <1>7 DEF CountCommand, historyVars
    <2>4. /\ request'[r].m_completed_cnt = request[r].m_completed_cnt + 1
          /\ \A q \in Requests : request'[q].m_cmd_fail_cnt = request[q].m_cmd_fail_cnt
          /\ \A q \in Requests \ {r} : request'[q] = request[q]
      BY <1>7, <2>1, CounterStep DEF CountCommand
    <2>5. ASSUME NEW q \in Requests
          PROVE  CountedCmds(q)' = IF q = r THEN CountedCmds(q) \cup {i} ELSE CountedCmds(q)
      <3>1. ASSUME NEW j \in DOMAIN CmdsOf[q], <<q, j>> # e
            PROVE  (\A v \in Workers : work'[v].pc = "count" => work'[v].e # <<q, j>>)
                        <=> (\A v \in Workers : work[v].pc = "count" => work[v].e # <<q, j>>)
        BY <2>1, <2>2, <3>1 DEF WorkMoves
      <3>2. \A v \in Workers : work'[v].pc = "count" => work'[v].e # e
        BY <2>2 DEF WorkMoves, PlacesInv, HeldOnce
      <3> QED
        <4>1. ASSUME NEW j \in DOMAIN CmdsOf[q]
              PROVE  j \in CountedCmds(q)' <=> (j \in CountedCmds(q) \/ (q = r /\ j = i))
          <5>1. CASE <<q, j>> # e
            BY <2>1, <2>3, <3>1, <5>1 DEF CountedCmds
          <5>2. CASE <<q, j>> = e
            BY <2>1, <2>2, <2>3, <3>2, <5>2 DEF CountedCmds
          <5> QED
            BY <5>1, <5>2
        <4>2. CountedCmds(q) \subseteq DOMAIN CmdsOf[q] /\ CountedCmds(q)' \subseteq DOMAIN CmdsOf[q]
          BY DEF CountedCmds
        <4> QED
          BY <4>1, <4>2
    <2>6. i \notin CountedCmds(r)
      BY <2>1, <2>2 DEF CountedCmds
    <2>7. CountsInv'
      <3> SUFFICES ASSUME NEW q \in Requests
                   PROVE  /\ request'[q].m_completed_cnt = Cardinality(CountedCmds(q)')
                          /\ request'[q].m_cmd_fail_cnt = Cardinality(FailedCmds(q)')
        BY DEF CountsInv
      <3>1. FailedCmds(q)' = FailedCmds(q)
        BY <2>3 DEF FailedCmds
      <3>2. IsFiniteSet(CountedCmds(q))
        BY CommandSets, CountedSets
      <3>3. i \notin CountedCmds(q) => Cardinality(CountedCmds(q) \cup {i}) = Cardinality(CountedCmds(q)) + 1
        BY <3>2, FS_AddElement
      <3> QED
        BY <2>4, <2>5, <2>6, <3>1, <3>3 DEF CountsInv
    <2>8. request[r].m_completed_cnt # Len(CmdsOf[r])
      BY <2>1, <2>2, AllCounted
    <2>9. callbacks[r] = <<>> /\ \A v \in Workers : ~CallsBack(v, r)
      BY <2>1, <2>8 DEF CallbackInv
    <2>10. IsLast(r) => request'[r].m_completed_cnt = Len(CmdsOf[r])
      BY <2>1, <2>4, CommandSets DEF IsLast
    <2>11. CallbackInv'
      <3>1. \A v \in Workers, q \in Requests : CallsBack(v, q)' =>
                CallsBack(v, q) \/ (v = w /\ q = r /\ IsLast(r))
        BY <2>1, <2>2, <2>3 DEF WorkMoves, CallsBack
      <3>2. ASSUME NEW q \in Requests, q # r
            PROVE  /\ Len(callbacks'[q]) <= 1
                   /\ callbacks'[q] # <<>> =>
                        /\ request'[q].m_completed_cnt = Len(CmdsOf[q])
                        /\ callbacks'[q][1] = request'[q].m_cmd_fail_cnt
                   /\ \A v \in Workers : CallsBack(v, q)' =>
                        request'[q].m_completed_cnt = Len(CmdsOf[q]) /\ callbacks'[q] = <<>>
                   /\ \A u, v \in Workers : CallsBack(u, q)' /\ CallsBack(v, q)' => u = v
        BY <2>3, <2>4, <3>1, <3>2 DEF CallbackInv
      <3>3. /\ Len(callbacks'[r]) <= 1 /\ callbacks'[r] = <<>>
            /\ \A v \in Workers : CallsBack(v, r)' => request'[r].m_completed_cnt = Len(CmdsOf[r])
            /\ \A u, v \in Workers : CallsBack(u, r)' /\ CallsBack(v, r)' => u = v
        BY <2>1, <2>3, <2>9, <2>10, <3>1 DEF CallbackInv
      <3> QED
        BY <2>1, <3>2, <3>3 DEF CallbackInv
    <2> QED
      BY <2>7, <2>11
  <1>8. ASSUME NEW w \in Workers, Callback(w) PROVE CountsInv' /\ CallbackInv'
    <2> DEFINE e == work[w].e
    <2>0. e \in Entries /\ e[1] \in Requests
      BY <1>8, EntryParts DEF Callback, ThreadsHaveQueues
    <2>p. PICK r \in Requests : r = e[1]
      BY <2>0
    <2> DEFINE f == FollowUp[r]
    <2>1. e \in Entries /\ e[1] = r /\ f \in Requests \cup {None}
      BY <2>0, <2>p, ConstantsAssumption
    <2>2. CallsBack(w, r) /\ callbacks' = [callbacks EXCEPT ![r] = Append(@, request[r].m_cmd_fail_cnt)]
      BY <1>8, <2>1 DEF Callback, CallsBack
    <2>3. request' = request /\ stage' = stage
      BY <1>8, <2>1, FreshCounters DEF Callback, SubmitBegin
    <2>4. \/ WorkMoves(w, "pop", e) /\ sub' = sub
          \/ work' = work /\ sub'[w].pc = "next" /\ \A t \in Submitters \ {w} : sub'[t] = sub[t]
      <3>1. CASE f # None /\ SubmitBegin(w, f) /\ UNCHANGED work
        BY <1>0, <2>1, <3>1, SubmitMoves DEF SubMoves
      <3>2. CASE work' = [work EXCEPT ![w].pc = "pop"] /\ UNCHANGED sub
        BY <3>2, WorkersMove
      <3> QED
        BY <1>8, <2>1, <3>1, <3>2 DEF Callback
    <2>5. \A q \in Requests : CountedCmds(q)' = CountedCmds(q) /\ FailedCmds(q)' = FailedCmds(q)
      <3>1. \A v \in Workers : /\ work'[v].pc = "count" <=> work[v].pc = "count"
                               /\ work[v].pc = "count" => work'[v].e = work[v].e
        BY <2>2, <2>4 DEF WorkMoves, CallsBack
      <3> QED
        BY <2>3, <3>1 DEF CountedCmds, FailedCmds
    <2>6. CountsInv'
      BY <2>3, <2>5 DEF CountsInv
    <2>7. \A v \in Workers, q \in Requests : CallsBack(v, q)' => CallsBack(v, q) /\ v # w
      BY <1>0, <2>4 DEF WorkMoves, CallsBack
    <2>8. callbacks[r] = <<>> /\ request[r].m_completed_cnt = Len(CmdsOf[r])
      BY <2>1, <2>2 DEF CallbackInv
    <2>9. request[r].m_cmd_fail_cnt \in Nat
      BY <1>0, <2>1 DEF Counters
    <2>10. /\ callbacks'[r] = <<request[r].m_cmd_fail_cnt>>
           /\ \A q \in Requests \ {r} : callbacks'[q] = callbacks[q]
      BY <1>0, <2>1, <2>2, <2>8, <2>9
    <2>11. Len(callbacks'[r]) = 1 /\ callbacks'[r][1] = request[r].m_cmd_fail_cnt
      BY <2>9, <2>10
    <2>12. \A v \in Workers : ~CallsBack(v, r)'
      BY <2>1, <2>2, <2>7 DEF CallbackInv
    <2>13. CallbackInv'
      <3>1. ASSUME NEW q \in Requests, q # r
            PROVE  /\ Len(callbacks'[q]) <= 1
                   /\ callbacks'[q] # <<>> =>
                        /\ request'[q].m_completed_cnt = Len(CmdsOf[q])
                        /\ callbacks'[q][1] = request'[q].m_cmd_fail_cnt
                   /\ \A v \in Workers : CallsBack(v, q)' =>
                        request'[q].m_completed_cnt = Len(CmdsOf[q]) /\ callbacks'[q] = <<>>
                   /\ \A u, v \in Workers : CallsBack(u, q)' /\ CallsBack(v, q)' => u = v
        BY <2>3, <2>7, <2>10, <3>1 DEF CallbackInv
      <3>2. Len(callbacks'[r]) <= 1 /\ request'[r].m_completed_cnt = Len(CmdsOf[r])
            /\ callbacks'[r][1] = request'[r].m_cmd_fail_cnt
        BY <2>3, <2>8, <2>11
      <3> QED
        BY <2>12, <3>1, <3>2 DEF CallbackInv
    <2> QED
      BY <2>6, <2>13
  <1> QED
    BY <1>q, <1>1, <1>2, <1>3, <1>4, <1>5, <1>6, <1>7, <1>8, NothingCountedKeeps, QuietSteps
       DEF Next, SubmitStep, WorkerStep

-----------------------------------------------------------------------------
\* Initially no command has been pushed, run or counted.
LEMMA PlacesInit ==
    ASSUME Init PROVE PlacesInv /\ CountsInv /\ CallbackInv
  <1>1. PlacesInv
    <2>1. IoOnce /\ PioOnce
      BY DEF Init, IoOnce, PioOnce
    <2>2. HeldOnce
      BY DEF Init, HeldOnce, Gone
    <2>3. NewUntilPushed
      BY DEF Init, NewUntilPushed, NoSubmit
    <2> QED
      BY <2>1, <2>2, <2>3 DEF PlacesInv
  <1>2. CountsInv
    <2>1. \A r \in Requests : CountedCmds(r) = {} /\ FailedCmds(r) = {}
      BY DEF Init, CountedCmds, FailedCmds
    <2>2. Cardinality({}) = 0
      BY FS_EmptySet
    <2> QED
      BY <2>1, <2>2 DEF Init, CountsInv, NotMade
  <1>3. CallbackInv
    BY DEF Init, CallbackInv, CallsBack, Gone
  <1> QED
    BY <1>1, <1>2, <1>3

\* The whole inductive invariant: types and threads, places of the entries, counters, callbacks.
LEMMA AioInvariant == Spec => [](ServiceInv /\ PlacesInv /\ CountsInv /\ CallbackInv)
  <1>1. Init => PlacesInv /\ CountsInv /\ CallbackInv
    BY PlacesInit
  <1>2. ServiceInv /\ ServiceInv' /\ PlacesInv /\ CountsInv /\ CallbackInv /\ [Next]_vars
            => PlacesInv' /\ CountsInv' /\ CallbackInv'
    BY PlacesStep, CallbackStep
  <1> QED
    BY <1>1, <1>2, ServiceInvariant, PTL DEF Spec

\* The callback of a request runs at most once, after all its commands, and is given the
\* number of those that failed (CallbackExact: aio.cpp, the end of ProcessRequest).
THEOREM CallbackExactHolds == Spec => []CallbackExact
  <1>1. ASSUME CountsInv, CallbackInv PROVE CallbackExact
    <2>1. ASSUME NEW r \in Requests, callbacks[r] # <<>>
          PROVE  /\ \A i \in DOMAIN CmdsOf[r] : Finished(<<r, i>>)
                 /\ callbacks[r][1] = Cardinality(FailedCmds(r))
      <3>1. request[r].m_completed_cnt = Len(CmdsOf[r])
        BY <1>1, <2>1 DEF CallbackInv
      <3>2. \A i \in DOMAIN CmdsOf[r] : stage[r][i] \in {"ok", "failed"}
        BY <1>1, <3>1, AllCounted
      <3> QED
        BY <1>1, <2>1, <3>2 DEF CallbackInv, CountsInv, Finished
    <2> QED
      BY <1>1, <2>1 DEF CallbackInv, CallbackExact
  <1> QED
    BY <1>1, AioInvariant, PTL
-----------------------------------------------------------------------------
(***************************************************************************)
(* The order of the commands of one fd, and what Stop leaves behind.  A    *)
(* command is timely if no Stop overtook the Submit of its request.        *)
(***************************************************************************)
Timely(e) == e # Marker /\ e[1] \notin overlapped
FdOf(e) == CmdsOf[e[1]][e[2]].fd
Lane(f) == f % io_size
IoSizes == {ThreadNum(n) : n \in IoArgs}
PioSizes == {ThreadNum(n) : n \in PioArgs}

\* The sizes of the groups are those that some Start asked for.
GroupSizes ==
    /\ io_size \in IoSizes \cup {0} /\ pio_size \in PioSizes \cup {0}
    /\ PioUp => pio_size > 0
    /\ \A c \in Controllers :
        /\ ctl[c].pc = "spawn_io" => ctl[c].io \in IoSizes
        /\ ctl[c].pc \in {"spawn_io", "spawn_pio"} => ctl[c].pio \in PioSizes

\* While the io threads are up: a timely command is in the queue of its fd, the empty
\* requests come with Stop and behind the timely commands.
IoLanes ==
    IoUp => \A q \in DOMAIN s_io_request_queues : \A k \in DOMAIN s_io_request_queues[q] :
        LET e == s_io_request_queues[q][k] IN
        /\ Timely(e) => Lane(FdOf(e)) = q
        /\ e = Marker => /\ s_state = "STOPPING"
                         /\ \A l \in DOMAIN s_io_request_queues[q] :
                                l > k => ~Timely(s_io_request_queues[q][l])

\* A thread ends on an empty request: its queue has no timely command left.
IoGone ==
    IoUp => \A q \in 0 .. io_size - 1 : work[<<"io", q>>].pc = "gone" =>
        /\ s_state = "STOPPING"
        /\ \A k \in DOMAIN s_io_request_queues[q] : ~Timely(s_io_request_queues[q][k])

\* A timely queued command is in a queue, and a running one with the thread of its fd.
IoWaits ==
    \A e \in Entries : ~IsPio(e) /\ Timely(e) /\ StageOf(e) = "queued" =>
        IoUp /\ \E k \in DOMAIN s_io_request_queues[Lane(FdOf(e))] :
                    s_io_request_queues[Lane(FdOf(e))][k] = e
IoHolder ==
    \A w \in Workers : work[w].pc = "run" /\ ~IsPio(work[w].e) /\ Timely(work[w].e) =>
        w = <<"io", Lane(FdOf(work[w].e))>>
RunningHeld ==
    \A e \in Entries : StageOf(e) = "running" =>
        \E w \in Workers : work[w].pc = "run" /\ work[w].e = e

\* The index computed in SubmitSize is still the one of the fd at the push.
PushLane ==
    \A t \in Submitters : sub[t].pc = "push" /\ sub[t].req \notin overlapped =>
        sub[t].q = Lane(Cmd(t).fd)

PushedPlaced ==
    \A f \in Fds : \A k \in DOMAIN pushed[f] :
        LET e == pushed[f][k] IN FdOf(e) = f /\ ~IsPio(e) /\ StageOf(e) # "new"
PushedOrder ==
    IoUp => \A f \in Fds : \A k, l \in DOMAIN pushed[f] :
        k < l /\ Timely(pushed[f][k]) /\ Timely(pushed[f][l]) =>
            \A i, j \in DOMAIN s_io_request_queues[Lane(f)] :
                (/\ s_io_request_queues[Lane(f)][i] = pushed[f][k]
                 /\ s_io_request_queues[Lane(f)][j] = pushed[f][l]) => i < j

OrderInv ==
    /\ IoLanes /\ IoGone /\ IoWaits /\ IoHolder /\ RunningHeld
    /\ PushLane /\ PushedPlaced /\ PushedOrder /\ FifoPerFd

-----------------------------------------------------------------------------
\* A queue index of an fd is one of the queues, and a thread pops each queue.
LEMMA LaneType ==
    ASSUME ServiceInv, GroupSizes
    PROVE  /\ io_size > 0 => \A f \in Fds : f \in Nat => Lane(f) \in 0 .. io_size - 1
           /\ \A q \in 0 .. io_size - 1 : <<"io", q>> \in Workers
           /\ \A i \in 0 .. pio_size - 1 : <<"pio", i>> \in Workers
  <1>1. io_size > 0 => \A f \in Fds : f \in Nat => Lane(f) \in 0 .. io_size - 1
    BY DEF Lane, ServiceInv, Typed, TypeOK
  <1>2. ASSUME NEW q \in 0 .. io_size - 1 PROVE <<"io", q>> \in Workers
    BY <1>2 DEF GroupSizes, IoSizes, Workers, IoWorkers
  <1>3. ASSUME NEW i \in 0 .. pio_size - 1 PROVE <<"pio", i>> \in Workers
    BY <1>3 DEF GroupSizes, PioSizes, Workers, PioWorkers
  <1> QED
    BY <1>1, <1>2, <1>3

\* The fd of a command is a number.
LEMMA FdType == \A e \in Entries : FdOf(e) \in Fds /\ FdOf(e) \in Nat
  <1> SUFFICES ASSUME NEW e \in Entries PROVE FdOf(e) \in Fds /\ FdOf(e) \in Nat
    OBVIOUS
  <1>1. e[1] \in Requests /\ e[2] \in DOMAIN CmdsOf[e[1]] /\ CmdsOf[e[1]] \in Seq(Commands)
    BY EntryParts, ConstantsAssumption
  <1>2. CmdsOf[e[1]][e[2]] \in Commands
    BY <1>1
  <1> QED
    BY <1>1, <1>2 DEF FdOf, Fds, Commands

\* Clients and workers start and stop nothing.
LEMMA ThreadSteps ==
    ASSUME \/ \E t \in Clients, r \in Requests : ClientSubmit(t, r)
           \/ \E t \in Submitters : SubmitStep(t)
           \/ \E w \in Workers : WorkerStep(w)
           \/ UNCHANGED vars
    PROVE  /\ UNCHANGED <<ctl, s_state, io_size, pio_size, overlapped, starts>>
           /\ (IoUp' <=> IoUp) /\ (PioUp' <=> PioUp)
  <1>1. ASSUME NEW t \in Clients, NEW r \in Requests, ClientSubmit(t, r)
        PROVE  UNCHANGED <<ctl, s_state, io_size, pio_size, overlapped, starts>>
    BY <1>1 DEF ClientSubmit, serviceVars, historyVars
  <1>2. ASSUME NEW t \in Submitters, SubmitStep(t)
        PROVE  UNCHANGED <<ctl, s_state, io_size, pio_size, overlapped, starts>>
    BY <1>2 DEF SubmitStep, SubmitSize, SubmitPushIo, SubmitPushPio, SubmitReturn, serviceVars, historyVars
  <1>3. ASSUME NEW w \in Workers, WorkerStep(w)
        PROVE  UNCHANGED <<ctl, s_state, io_size, pio_size, overlapped, starts>>
    BY <1>3 DEF WorkerStep, PopIo, PopPio, CountCommand, Callback, ProcessCommand, serviceVars, historyVars
  <1>4. UNCHANGED vars => UNCHANGED <<ctl, s_state, io_size, pio_size, overlapped, starts>>
    BY DEF vars, serviceVars, historyVars
  <1>5. UNCHANGED <<ctl, s_state, io_size, pio_size, overlapped, starts>>
    BY <1>1, <1>2, <1>3, <1>4
  <1> QED
    BY <1>5 DEF IoUp, PioUp

\* The sizes of the groups are always some that were asked for.
LEMMA GroupsStep ==
    ASSUME ServiceInv, GroupSizes, [Next]_vars
    PROVE  GroupSizes'
  <1>0. TypeOK /\ OneController /\ ctl \in [Controllers -> CtlState]
    BY DEF ServiceInv, Typed, TypeOK
  <1>p. \A n \in PioSizes : n > 0
    BY ThreadNumType DEF PioSizes
  <1>a. ASSUME UNCHANGED <<io_size, pio_size>>, PioUp' => PioUp,
               \A c \in Controllers : ctl'[c] = ctl[c] \/ ctl'[c].pc \notin {"spawn_io", "spawn_pio"}
        PROVE  GroupSizes'
    BY <1>a DEF GroupSizes
  <1>1. ASSUME NEW c \in Controllers, NEW m \in IoArgs, NEW n \in PioArgs, StartCas(c, m, n)
        PROVE  GroupSizes'
    <2>1. /\ UNCHANGED <<io_size, pio_size>> /\ ~PioUp'
          /\ ctl'[c].io = ThreadNum(m) /\ ctl'[c].pio = ThreadNum(n)
          /\ \A d \in Controllers \ {c} : ctl'[d] = ctl[d]
      BY <1>0, <1>1, UpStep DEF StartCas
    <2>2. ctl'[c].io \in IoSizes /\ ctl'[c].pio \in PioSizes
      BY <2>1 DEF IoSizes, PioSizes
    <2> QED
      BY <2>1, <2>2 DEF GroupSizes
  <1>2. ASSUME NEW c \in Controllers, StartIo(c) PROVE GroupSizes'
    <2>1. /\ io_size' = ctl[c].io /\ pio_size' = pio_size /\ ~PioUp' /\ ctl[c].pc = "spawn_io"
          /\ ctl'[c].pc = "spawn_pio" /\ ctl'[c].pio = ctl[c].pio
          /\ \A d \in Controllers \ {c} : ctl'[d] = ctl[d]
      BY <1>0, <1>2, UpStep DEF StartIo, CtlState
    <2> QED
      BY <2>1 DEF GroupSizes
  <1>3. ASSUME NEW c \in Controllers, StartPio(c) PROVE GroupSizes'
    <2>1. /\ pio_size' = ctl[c].pio /\ io_size' = io_size /\ ctl[c].pc = "spawn_pio"
          /\ ctl'[c].pc = "started" /\ \A d \in Controllers \ {c} : ctl'[d] = ctl[d]
      BY <1>0, <1>3 DEF StartPio, CtlState
    <2> QED
      BY <1>p, <2>1 DEF GroupSizes
  <1>4. ASSUME NEW c \in Controllers,
               StartDone(c) \/ StopCas(c) \/ StopMarkIo(c) \/ StopJoinIo(c) \/ StopDelete(c)
                 \/ StopMarkPio(c) \/ StopDone(c)
        PROVE  GroupSizes'
    <2>1. UNCHANGED <<io_size, pio_size>>
      BY <1>4 DEF StartDone, StopCas, StopMarkIo, StopJoinIo, StopDelete, StopMarkPio, StopDone, serviceVars
    <2>2. PioUp' => PioUp
      BY <1>0, <1>4, UpStep
    <2>3. \A d \in Controllers : ctl'[d] = ctl[d] \/ ctl'[d].pc \notin {"spawn_io", "spawn_pio"}
      BY <1>0, <1>4, ControlMoves DEF Moves
    <2> QED
      BY <1>a, <2>1, <2>2, <2>3
  <1>5. ASSUME UNCHANGED <<ctl, s_state, io_size, pio_size>>, PioUp' <=> PioUp PROVE GroupSizes'
    BY <1>5, <1>a
  <1>6. ASSUME \/ \E t \in Clients, r \in Requests : ClientSubmit(t, r)
               \/ \E t \in Submitters : SubmitStep(t)
               \/ \E w \in Workers : WorkerStep(w)
               \/ UNCHANGED vars
        PROVE  GroupSizes'
    BY <1>5, <1>6, ThreadSteps
  <1> QED
    BY <1>1, <1>2, <1>3, <1>4, <1>6 DEF Next, Control

-----------------------------------------------------------------------------
\* A step that moves no command and ends no io thread.  (Stop may overtake some Submits.)
IoCalm ==
    /\ UNCHANGED <<stage, pushed, io_size>> /\ overlapped \subseteq overlapped'
    /\ (IoUp' <=> IoUp) /\ (IoUp => UNCHANGED s_io_request_queues)
    /\ s_state = "STOPPING" /\ IoUp => s_state' = "STOPPING"
    /\ \A w \in Workers :
        /\ (work'[w].pc = "run" <=> work[w].pc = "run") /\ (work[w].pc = "run" => work'[w].e = work[w].e)
        /\ w[1] = "io" /\ work'[w].pc = "gone" => work[w].pc = "gone"

\* It keeps the order of the commands.
LEMMA IoCalmStep ==
    ASSUME ServiceInv, GroupSizes, OrderInv, IoCalm, PushLane'
    PROVE  OrderInv'
  <1>0. \A e : Timely(e)' => Timely(e)
    BY DEF Timely, IoCalm
  <1>1. \A f : Lane(f)' = Lane(f)
    BY DEF Lane, IoCalm
  <1>2. \A e : StageOf(e)' = StageOf(e)
    BY DEF StageOf, IoCalm
  <1>3. IoLanes'
    BY <1>0, <1>1 DEF IoCalm, OrderInv, IoLanes
  <1>4. IoGone'
    <2>1. \A q \in 0 .. io_size - 1 : <<"io", q>> \in Workers
      BY LaneType
    <2> QED
      BY <1>0, <2>1 DEF IoCalm, OrderInv, IoGone
  <1>5. IoWaits'
    BY <1>0, <1>1, <1>2 DEF IoCalm, OrderInv, IoWaits
  <1>6. IoHolder'
    BY <1>0, <1>1 DEF IoCalm, OrderInv, IoHolder
  <1>7. RunningHeld'
    BY <1>2 DEF IoCalm, OrderInv, RunningHeld
  <1>8. PushedPlaced'
    BY <1>2 DEF IoCalm, OrderInv, PushedPlaced
  <1>9. PushedOrder'
    BY <1>0, <1>1 DEF IoCalm, OrderInv, PushedOrder
  <1>10. FifoPerFd'
    <2>1. UNCHANGED <<stage, pushed>> /\ overlapped \subseteq overlapped'
      BY DEF IoCalm
    <2> SUFFICES ASSUME NEW h \in Fds, NEW k \in DOMAIN pushed[h], NEW l \in DOMAIN pushed[h], k < l,
                        {pushed[h][k][1], pushed[h][l][1]} \cap overlapped' = {},
                        stage[pushed[h][l][1]][pushed[h][l][2]] # "queued"
                 PROVE  stage[pushed[h][k][1]][pushed[h][k][2]] \in {"ok", "failed"}
      BY <2>1 DEF FifoPerFd, Finished
    <2>2. {pushed[h][k][1], pushed[h][l][1]} \cap overlapped = {}
      BY <2>1
    <2> QED
      BY <2>2 DEF OrderInv, FifoPerFd, Finished
  <1> QED
    BY <1>3, <1>4, <1>5, <1>6, <1>7, <1>8, <1>9, <1>10 DEF OrderInv

\* The index of a push stays right, since the number of threads changes only when every
\* Submit that goes on has been overtaken.
LEMMA PushLaneStep ==
    ASSUME ServiceInv, PushLane, [Next]_vars
    PROVE  PushLane'
  <1>0. TypeOK /\ OneController /\ SubmitSound
    BY DEF ServiceInv, Typed
  <1>a. ASSUME UNCHANGED <<io_size, sub>>, overlapped \subseteq overlapped' PROVE PushLane'
    BY <1>a DEF PushLane, Lane, Cmd
  <1>b. ASSUME NEW t \in Submitters, io_size' = io_size, overlapped' = overlapped,
               \A u \in Submitters \ {t} : sub'[u] = sub[u], sub'[t].pc # "push"
        PROVE  PushLane'
    BY <1>b DEF PushLane, Lane, Cmd
  <1>1. ASSUME NEW c \in Controllers, NEW m \in IoArgs, NEW n \in PioArgs, StartCas(c, m, n)
        PROVE  PushLane'
    BY <1>1, <1>a DEF StartCas
  <1>2. ASSUME NEW c \in Controllers, StartIo(c) PROVE PushLane'
    <2>1. s_state = "STARTING" /\ UNCHANGED <<sub, overlapped>>
      BY <1>0, <1>2 DEF StartIo, OneController, historyVars
    <2> QED
      BY <1>0, <2>1 DEF PushLane, SubmitSound
  <1>3. ASSUME NEW c \in Controllers,
               StartPio(c) \/ StartDone(c) \/ StopCas(c) \/ StopMarkIo(c) \/ StopJoinIo(c)
                 \/ StopDelete(c) \/ StopMarkPio(c) \/ StopDone(c)
        PROVE  PushLane'
    BY <1>3, <1>a DEF StartPio, StartDone, StopCas, StopMarkIo, StopJoinIo, StopDelete, StopMarkPio,
                      StopDone, serviceVars, historyVars
  <1>4. ASSUME NEW t \in Clients, NEW r \in Requests, ClientSubmit(t, r) PROVE PushLane'
    <2>1. t \in Submitters /\ SubMoves(t, "next", r, 1)
      BY <1>0, <1>4, SubmitMoves DEF ClientSubmit, Submitters
    <2> QED
      BY <1>4, <1>b, <2>1 DEF ClientSubmit, serviceVars, historyVars, SubMoves
  <1>5. ASSUME NEW t \in Submitters, SubmitSize(t) PROVE PushLane'
    <2>1. SubMoves(t, "push", sub[t].req, sub[t].idx)
      BY <1>0, <1>5, SubmitMoves
    <2>2. sub'[t].q = Lane(Cmd(t).fd)
      BY <1>0, <1>5 DEF SubmitSize, QueueIndex, Lane, TypeOK, SubState
    <2>3. UNCHANGED <<io_size, overlapped>>
      BY <1>5 DEF SubmitSize, serviceVars, historyVars
    <2> QED
      BY <2>1, <2>2, <2>3 DEF SubMoves, PushLane, Lane, Cmd
  <1>6. ASSUME NEW t \in Submitters, SubmitPushIo(t) PROVE PushLane'
    BY <1>0, <1>6, <1>b, SubmitMoves DEF SubmitPushIo, SubMoves
  <1>7. ASSUME NEW t \in Submitters, SubmitPushPio(t) PROVE PushLane'
    BY <1>0, <1>7, <1>b, SubmitMoves DEF SubmitPushPio, SubMoves
  <1>8. ASSUME NEW t \in Submitters, SubmitReturn(t) PROVE PushLane'
    BY <1>0, <1>8, <1>b, SubmitMoves DEF SubmitReturn, SubMoves
  <1>9. ASSUME NEW w \in Workers, WorkerStep(w) PROVE PushLane'
    <2>1. UNCHANGED <<io_size, overlapped>>
      BY <1>9, ThreadSteps
    <2>2. CASE UNCHANGED sub
      BY <1>a, <2>1, <2>2
    <2>3. CASE \E f \in Requests : SubmitBegin(w, f)
      BY <1>0, <1>b, <2>1, <2>3, SubmitMoves DEF SubMoves, Submitters
    <2>4. Callback(w) => UNCHANGED sub \/ \E f \in Requests : SubmitBegin(w, f)
      <3>1. ASSUME Callback(w) PROVE work[w].e[1] \in Requests
        BY <3>1, EntryParts DEF Callback, ServiceInv, ThreadsHaveQueues
      <3> QED
        BY <3>1, ConstantsAssumption DEF Callback
    <2> QED
      BY <1>9, <2>2, <2>3, <2>4 DEF WorkerStep, PopIo, PopPio, CountCommand, ProcessCommand
  <1>10. CASE UNCHANGED vars
    BY <1>10, <1>a DEF vars, serviceVars, historyVars
  <1> QED
    BY <1>1, <1>2, <1>3, <1>4, <1>5, <1>6, <1>7, <1>8, <1>9, <1>10 DEF Next, Control, SubmitStep

\* The steps that are calm for the io threads.
LEMMA CalmSteps ==
    ASSUME ServiceInv
    PROVE  /\ \A c \in Controllers :
                StartPio(c) \/ StartDone(c) \/ StopCas(c) \/ StopDelete(c) \/ StopMarkPio(c)
                    \/ StopDone(c) => IoCalm
           /\ \A c \in Controllers, m \in IoArgs, n \in PioArgs : StartCas(c, m, n) => IoCalm
           /\ \A t \in Clients, r \in Requests : ClientSubmit(t, r) => IoCalm
           /\ \A t \in Submitters : SubmitSize(t) \/ SubmitReturn(t) => IoCalm
           /\ \A t \in Submitters :
                SubmitPushIo(t) /\ UNCHANGED <<s_io_request_queues, stage, pushed>> => IoCalm
           /\ \A w \in Workers : CountCommand(w) \/ Callback(w) => IoCalm
           /\ UNCHANGED vars => IoCalm
  <1>0. TypeOK /\ OneController /\ SubmitSound
    BY DEF ServiceInv, Typed
  <1>a. ASSUME \A w \in Workers : \/ work'[w] = work[w]
                                  \/ work[w].pc = "gone" /\ work'[w].pc = "pop"
                                  \/ work[w].pc \notin {"run", "gone"} /\ work'[w].pc \notin {"run", "gone"}
        PROVE  \A w \in Workers :
                 /\ (work'[w].pc = "run" <=> work[w].pc = "run")
                 /\ (work[w].pc = "run" => work'[w].e = work[w].e)
                 /\ w[1] = "io" /\ work'[w].pc = "gone" => work[w].pc = "gone"
    BY <1>a
  <1>b. ASSUME UNCHANGED <<stage, pushed, io_size, s_io_request_queues, s_state, ctl, overlapped>>,
               \A w \in Workers : \/ work'[w] = work[w]
                                  \/ work[w].pc \notin {"run", "gone"} /\ work'[w].pc \notin {"run", "gone"}
        PROVE  IoCalm
    BY <1>a, <1>b DEF IoCalm, IoUp
  <1>1. ASSUME NEW c \in Controllers,
               StartPio(c) \/ StartDone(c) \/ StopCas(c) \/ StopDelete(c) \/ StopMarkPio(c) \/ StopDone(c)
        PROVE  IoCalm
    <2>1. (IoUp' <=> IoUp) /\ (StopDelete(c) => ~IoUp)
      BY <1>0, <1>1, UpStep
    <2>2. \A w \in Workers : work'[w] = work[w] \/ (work[w].pc = "gone" /\ work'[w].pc = "pop")
      BY <1>1, QuietSteps DEF Quiet, Control
    <2>3. UNCHANGED <<stage, pushed, io_size>> /\ overlapped \subseteq overlapped'
      BY <1>1 DEF StartPio, StartDone, StopCas, StopDelete, StopMarkPio, StopDone, serviceVars, historyVars
    <2>4. StopDelete(c) \/ UNCHANGED s_io_request_queues
      BY <1>1 DEF StartPio, StartDone, StopCas, StopDelete, StopMarkPio, StopDone, serviceVars, historyVars
    <2>5. s_state = "STOPPING" /\ IoUp => s_state' = "STOPPING"
      <3>1. CASE StartDone(c)
        BY <1>0, <3>1 DEF StartDone, OneController
      <3>2. CASE StopDone(c)
        BY <1>0, <3>2, UpStep
      <3>3. CASE StopCas(c)
        BY <3>3 DEF StopCas
      <3>4. CASE StartPio(c) \/ StopDelete(c) \/ StopMarkPio(c)
        BY <3>4 DEF StartPio, StopDelete, StopMarkPio
      <3> QED
        BY <1>1, <3>1, <3>2, <3>3, <3>4
    <2>6. IoUp => UNCHANGED s_io_request_queues
      BY <2>1, <2>4
    <2>7. \A w \in Workers :
            /\ (work'[w].pc = "run" <=> work[w].pc = "run")
            /\ (work[w].pc = "run" => work'[w].e = work[w].e)
            /\ w[1] = "io" /\ work'[w].pc = "gone" => work[w].pc = "gone"
      BY <1>a, <2>2
    <2> QED
      BY <2>1, <2>3, <2>5, <2>6, <2>7 DEF IoCalm
  <1>2. ASSUME NEW c \in Controllers, NEW m \in IoArgs, NEW n \in PioArgs, StartCas(c, m, n)
        PROVE  IoCalm
    <2>1. ~IoUp /\ ~IoUp'
      BY <1>0, <1>2, UpStep
    <2> QED
      BY <1>2, <2>1 DEF StartCas, IoCalm
  <1>3. ASSUME NEW t \in Clients, NEW r \in Requests, ClientSubmit(t, r) PROVE IoCalm
    BY <1>3, <1>b DEF ClientSubmit, serviceVars, historyVars
  <1>4. ASSUME NEW t \in Submitters, SubmitSize(t) PROVE IoCalm
    BY <1>4, <1>b DEF SubmitSize, serviceVars, historyVars
  <1>5. ASSUME NEW t \in Submitters, SubmitReturn(t) PROVE IoCalm
    <2>1. \A w \in Workers : \/ work'[w] = work[w]
                             \/ work[w].pc \notin {"run", "gone"} /\ work'[w].pc \notin {"run", "gone"}
      <3>1. CASE t \in Workers
        <4>1. WorkMoves(t, "pop", work[t].e) /\ work[t].pc = "callback"
          BY <1>0, <1>5, <3>1, WorkersMove DEF SubmitReturn, SubmitSound
        <4> QED
          BY <4>1 DEF WorkMoves
      <3>2. CASE t \notin Workers
        BY <1>5, <3>2 DEF SubmitReturn
      <3> QED
        BY <3>1, <3>2
    <2> QED
      BY <1>5, <1>b, <2>1 DEF SubmitReturn
  <1>6. ASSUME NEW t \in Submitters, SubmitPushIo(t), UNCHANGED <<s_io_request_queues, stage, pushed>>
        PROVE  IoCalm
    BY <1>6, <1>b DEF SubmitPushIo
  <1>7. ASSUME NEW w \in Workers, CountCommand(w) \/ Callback(w) PROVE IoCalm
    <2>1. \A v \in Workers : \/ work'[v] = work[v]
                             \/ work[v].pc \notin {"run", "gone"} /\ work'[v].pc \notin {"run", "gone"}
      <3>1. ASSUME CountCommand(w)
            PROVE  \E p \in {"pop", "callback"} : WorkMoves(w, p, work[w].e)
        BY <1>0, <3>1, WorkersMove DEF CountCommand
      <3>2. ASSUME Callback(w)
            PROVE  UNCHANGED work \/ WorkMoves(w, "pop", work[w].e)
        BY <1>0, <3>2, WorkersMove DEF Callback
      <3>3. work[w].pc \in {"count", "callback"}
        BY <1>7 DEF CountCommand, Callback
      <3> QED
        BY <1>7, <3>1, <3>2, <3>3 DEF WorkMoves
    <2>2. UNCHANGED <<stage, pushed, io_size, s_io_request_queues, s_state, ctl, overlapped>>
      BY <1>7 DEF CountCommand, Callback, serviceVars, historyVars
    <2> QED
      BY <1>b, <2>1, <2>2
  <1>8. UNCHANGED vars => IoCalm
    BY <1>b DEF vars, serviceVars, historyVars
  <1> QED
    BY <1>1, <1>2, <1>3, <1>4, <1>5, <1>6, <1>7, <1>8

\* Start makes new queues and threads: nothing was queued or running.
LEMMA StartIoOrder ==
    ASSUME ServiceInv, GroupSizes, OrderInv, PushLane', NEW c \in Controllers, StartIo(c)
    PROVE  OrderInv'
  <1>0. TypeOK /\ OneController /\ ThreadsHaveQueues
    BY DEF ServiceInv, Typed
  <1>1. ~IoUp /\ ~PioUp /\ IoUp'
    BY <1>0, UpStep
  <1>2. /\ UNCHANGED <<stage, pushed, overlapped>> /\ io_size' = ctl[c].io
        /\ s_io_request_queues' = [i \in 0 .. ctl[c].io - 1 |-> <<>>]
        /\ Spawn("io", ctl[c].io) /\ ctl[c].io \in IoSizes
    BY DEF StartIo, historyVars, GroupSizes
  <1>3. \A w \in Workers : work[w].pc = "gone"
    BY <1>0, <1>1, WorkersType DEF ThreadsHaveQueues
  <1>4. \A w \in Workers : work'[w].pc \in {"gone", "pop"} /\ (w[1] = "io" /\ w[2] < io_size' => work'[w].pc = "pop")
    BY <1>0, <1>2, <1>3, SpawnMoves
  <1>5. \A q \in 0 .. io_size' - 1 : <<"io", q>> \in Workers
    BY <1>2 DEF IoSizes, Workers, IoWorkers
  <1>6. \A e : (Timely(e)' <=> Timely(e)) /\ StageOf(e)' = StageOf(e)
    BY <1>2 DEF Timely, StageOf
  <1>7. IoLanes' /\ PushedOrder'
    <2>1. \A q \in DOMAIN s_io_request_queues' : DOMAIN s_io_request_queues'[q] = {}
      BY <1>2
    <2>2. \A f \in Fds, e \in Entries : FdOf(e) = f => Lane(f)' \in DOMAIN s_io_request_queues'
      <3>1. io_size' \in Nat /\ io_size' > 0
        BY <1>2, ThreadNumType DEF IoSizes
      <3> QED
        BY <1>2, <3>1, FdType DEF Lane
    <2>3. \A f \in Fds : \E e \in Entries : FdOf(e) = f
      <3> SUFFICES ASSUME NEW f \in Fds PROVE \E e \in Entries : FdOf(e) = f
        OBVIOUS
      <3>r. PICK r \in Requests : \E i \in DOMAIN CmdsOf[r] : f = CmdsOf[r][i].fd
        BY DEF Fds
      <3>1. PICK i \in DOMAIN CmdsOf[r] : f = CmdsOf[r][i].fd
        BY <3>r
      <3>2. <<r, i>> \in Entries
        BY <3>1, ConstantsAssumption DEF Entries
      <3> QED
        BY <3>1, <3>2 DEF FdOf
    <2>4. IoLanes'
      BY <2>1 DEF IoLanes
    <2>5. \A f \in Fds : DOMAIN s_io_request_queues'[Lane(f)'] = {}
      BY <2>1, <2>2, <2>3
    <2>6. PushedOrder'
      BY <2>5 DEF PushedOrder, Lane
    <2> QED
      BY <2>4, <2>6
  <1>8. IoGone'
    <2>1. ASSUME NEW q \in 0 .. io_size' - 1 PROVE work'[<<"io", q>>].pc = "pop"
      <3>1. PICK w \in Workers : w = <<"io", q>>
        BY <1>5
      <3>2. w[1] = "io" /\ w[2] < io_size'
        BY <1>2, <3>1, ThreadNumType DEF IoSizes
      <3> QED
        BY <1>4, <3>1, <3>2
    <2> QED
      BY <2>1 DEF IoGone
  <1>9. IoWaits'
    BY <1>1, <1>6 DEF OrderInv, IoWaits
  <1>10. IoHolder'
    BY <1>4 DEF IoHolder
  <1>11. RunningHeld'
    BY <1>3, <1>6 DEF OrderInv, RunningHeld
  <1>12. PushedPlaced' /\ FifoPerFd'
    BY <1>2, <1>6 DEF OrderInv, PushedPlaced, FifoPerFd, Finished
  <1> QED
    BY <1>7, <1>8, <1>9, <1>10, <1>11, <1>12 DEF OrderInv

\* The join of the io threads ends only when every queue is without a timely command.
LEMMA JoinIoOrder ==
    ASSUME ServiceInv, GroupSizes, OrderInv, PushLane', NEW c \in Controllers, StopJoinIo(c)
    PROVE  OrderInv'
  <1>0. TypeOK /\ OneController /\ ThreadsHaveQueues
    BY DEF ServiceInv, Typed
  <1>1. IoUp /\ ~IoUp'
    BY <1>0, UpStep
  <1>2. UNCHANGED <<stage, pushed, io_size, overlapped, work, s_io_request_queues>> /\ Joined("io")
    BY DEF StopJoinIo, serviceVars, historyVars
  <1>3. \A q \in 0 .. io_size - 1 : \A k \in DOMAIN s_io_request_queues[q] :
            ~Timely(s_io_request_queues[q][k])
    <2>1. \A q \in 0 .. io_size - 1 : work[<<"io", q>>].pc = "gone"
      BY <1>2, LaneType DEF Joined
    <2> QED
      BY <1>1, <2>1 DEF OrderInv, IoGone
  <1>4. \A e : (Timely(e)' <=> Timely(e)) /\ StageOf(e)' = StageOf(e)
    BY <1>2 DEF Timely, StageOf
  <1>5. ASSUME NEW e \in Entries, ~IsPio(e), Timely(e), StageOf(e) = "queued" PROVE FALSE
    <2>1. Lane(FdOf(e)) \in 0 .. io_size - 1
      BY <1>0, <1>1, LaneType, FdType DEF ThreadsHaveQueues
    <2> QED
      BY <1>3, <1>5, <2>1 DEF OrderInv, IoWaits
  <1>6. IoWaits'
    BY <1>4, <1>5 DEF IoWaits
  <1>7. IoLanes' /\ IoGone' /\ PushedOrder'
    BY <1>1 DEF IoLanes, IoGone, PushedOrder
  <1>8. IoHolder'
    BY <1>2, <1>4 DEF OrderInv, IoHolder, Lane
  <1>9. RunningHeld' /\ PushedPlaced' /\ FifoPerFd'
    BY <1>2, <1>4 DEF OrderInv, RunningHeld, PushedPlaced, FifoPerFd, Finished
  <1> QED
    BY <1>6, <1>7, <1>8, <1>9 DEF OrderInv

\* The empty request is put behind what is in the queue.
LEMMA MarkIoOrder ==
    ASSUME ServiceInv, GroupSizes, OrderInv, PushLane', NEW c \in Controllers, StopMarkIo(c)
    PROVE  OrderInv'
  <1>0. TypeOK /\ OneController /\ ThreadsHaveQueues
    BY DEF ServiceInv, Typed
  <1>1. IoUp /\ IoUp' /\ s_state = "STOPPING"
    BY <1>0, UpStep DEF StopMarkIo, OneController
  <1>2. UNCHANGED <<stage, pushed, io_size, overlapped, work, s_state>>
    BY DEF StopMarkIo, historyVars
  <1>3. \A e : (Timely(e)' <=> Timely(e)) /\ StageOf(e)' = StageOf(e)
    BY <1>2 DEF Timely, StageOf
  <1>4. CASE UNCHANGED s_io_request_queues
    <2>1. IoCalm
      BY <1>1, <1>2, <1>4 DEF IoCalm
    <2> QED
      BY <2>1, IoCalmStep
  <1>5. CASE s_io_request_queues' = [s_io_request_queues EXCEPT ![ctl[c].i] = Append(@, Marker)]
    <2>1. s_io_request_queues \in [0 .. io_size - 1 -> Queue] /\ io_size > 0
      BY <1>0, <1>1 DEF ThreadsHaveQueues
    <2>2. DOMAIN s_io_request_queues' = 0 .. io_size - 1 /\ DOMAIN s_io_request_queues = 0 .. io_size - 1
      BY <1>5, <2>1
    <2>3. ASSUME NEW q \in 0 .. io_size - 1
          PROVE  /\ \A k \in DOMAIN s_io_request_queues[q] :
                        /\ k \in DOMAIN s_io_request_queues'[q] /\ k \in Nat
                        /\ s_io_request_queues'[q][k] = s_io_request_queues[q][k]
                 /\ \A k \in DOMAIN s_io_request_queues'[q] :
                        \/ /\ k \in DOMAIN s_io_request_queues[q]
                           /\ s_io_request_queues'[q][k] = s_io_request_queues[q][k]
                        \/ /\ s_io_request_queues'[q][k] = Marker
                           /\ \A l \in DOMAIN s_io_request_queues'[q] : ~(l > k)
      <3>1. CASE q = ctl[c].i
        <4>1. s_io_request_queues[q] \in Seq(Entries \cup {Marker})
          BY <2>1 DEF Queue
        <4>2. s_io_request_queues'[q] = Append(s_io_request_queues[q], Marker)
          BY <1>5, <2>1, <3>1
        <4> QED
          BY <4>1, <4>2
      <3>2. CASE q # ctl[c].i
        <4>1. s_io_request_queues[q] \in Seq(Entries \cup {Marker})
          BY <2>1 DEF Queue
        <4>2. s_io_request_queues'[q] = s_io_request_queues[q]
          BY <1>5, <2>1, <3>2
        <4> QED
          BY <4>1, <4>2
      <3> QED
        BY <3>1, <3>2
    <2>4. \A f : Lane(f)' = Lane(f)
      BY <1>2 DEF Lane
    <2>5. ~Timely(Marker)
      BY DEF Timely
    <2>6. IoLanes'
      <3> SUFFICES ASSUME NEW q \in 0 .. io_size - 1, NEW k \in DOMAIN s_io_request_queues'[q]
                   PROVE  /\ Timely(s_io_request_queues'[q][k]) => Lane(FdOf(s_io_request_queues'[q][k])) = q
                          /\ s_io_request_queues'[q][k] = Marker =>
                                \A l \in DOMAIN s_io_request_queues'[q] :
                                    l > k => ~Timely(s_io_request_queues'[q][l])
        BY <1>1, <1>2, <1>3, <2>2, <2>4 DEF IoLanes
      <3> QED
        BY <1>1, <2>2, <2>3, <2>5 DEF OrderInv, IoLanes
    <2>7. IoGone'
      BY <1>1, <1>2, <1>3, <2>3, <2>5 DEF OrderInv, IoGone
    <2>8. \A e \in Entries : Lane(FdOf(e)) \in 0 .. io_size - 1
      BY <2>1, LaneType, FdType
    <2>9. IoWaits'
      BY <1>1, <1>3, <2>3, <2>4, <2>8 DEF OrderInv, IoWaits
    <2>10. PushedOrder'
      <3> SUFFICES ASSUME NEW f \in Fds, NEW k \in DOMAIN pushed[f], NEW l \in DOMAIN pushed[f], k < l,
                          Timely(pushed[f][k]), Timely(pushed[f][l]),
                          NEW i \in DOMAIN s_io_request_queues'[Lane(f)],
                          NEW j \in DOMAIN s_io_request_queues'[Lane(f)],
                          s_io_request_queues'[Lane(f)][i] = pushed[f][k],
                          s_io_request_queues'[Lane(f)][j] = pushed[f][l]
                   PROVE  i < j
        BY <1>2, <1>3, <2>4 DEF PushedOrder
      <3>1. pushed[f][k] \in Entries /\ FdOf(pushed[f][k]) = f
        BY <1>0 DEF TypeOK, OrderInv, PushedPlaced
      <3>2. Lane(f) \in 0 .. io_size - 1
        BY <2>8, <3>1
      <3>3. /\ i \in DOMAIN s_io_request_queues[Lane(f)] /\ j \in DOMAIN s_io_request_queues[Lane(f)]
            /\ s_io_request_queues[Lane(f)][i] = pushed[f][k]
            /\ s_io_request_queues[Lane(f)][j] = pushed[f][l]
        BY <2>3, <2>5, <3>2
      <3> QED
        BY <1>1, <3>3 DEF OrderInv, PushedOrder
    <2>11. IoHolder'
      BY <1>2, <1>3, <2>4 DEF OrderInv, IoHolder
    <2>12. RunningHeld' /\ PushedPlaced' /\ FifoPerFd'
      BY <1>2, <1>3 DEF OrderInv, RunningHeld, PushedPlaced, FifoPerFd, Finished
    <2> QED
      BY <2>6, <2>7, <2>9, <2>10, <2>11, <2>12 DEF OrderInv
  <1> QED
    BY <1>4, <1>5 DEF StopMarkIo

\* The push of the command of Submit t to a queue that is there.
PushIo(t) ==
    /\ sub[t].q \in DOMAIN s_io_request_queues
    /\ s_io_request_queues' = [s_io_request_queues EXCEPT
           ![sub[t].q] = Append(@, <<sub[t].req, sub[t].idx>>)]
    /\ pushed' = [pushed EXCEPT ![Cmd(t).fd] = Append(@, <<sub[t].req, sub[t].idx>>)]
    /\ Queued(t)

\* It puts the command behind the earlier ones of its fd, in their queue.
LEMMA PushIoOrder ==
    ASSUME ServiceInv, GroupSizes, PlacesInv, OrderInv, PushLane', NEW t \in Submitters,
           SubmitPushIo(t), PushIo(t)
    PROVE  OrderInv'
  <1>0. TypeOK /\ OneController /\ ThreadsHaveQueues /\ SubmitSound /\ StageIsFunction
    BY DEF ServiceInv, Typed
  <1>1. PICK e \in Entries, q \in DOMAIN s_io_request_queues, f \in Fds :
            e = <<sub[t].req, sub[t].idx>> /\ q = sub[t].q /\ f = FdOf(e) /\ f = Cmd(t).fd
    <2>1. sub[t].pc # "out" /\ MoreCmds(t)
      BY <1>0 DEF SubmitPushIo, SubmitSound
    <2> QED
      BY <1>0, <2>1, SubmitEntry DEF FdOf, PushIo
  <1>2. /\ sub[t].pc = "push" /\ ~IsPio(e) /\ StageOf(e) = "new" /\ e # Marker
        /\ StageMoves(e[1], e[2], "queued")
    <2>1. sub[t].pc = "push" /\ MoreCmds(t) /\ ~Cmd(t).pio
      BY <1>0 DEF SubmitPushIo, SubmitSound
    <2>2. sub[t].idx \in Nat /\ sub[t].idx \in DOMAIN CmdsOf[sub[t].req] /\ sub[t].req \in Requests
      BY <1>0, <2>1, SubmitEntry DEF TypeOK, SubState
    <2>3. StageOf(e) = "new"
      <3>1. sub[t].pc # "out" /\ sub[t].idx >= sub[t].idx
        BY <2>1, <2>2
      <3>2. stage[sub[t].req][sub[t].idx] = "new"
        BY <2>2, <3>1 DEF PlacesInv, NewUntilPushed
      <3> QED
        BY <1>1, <3>2 DEF StageOf
    <2>4. StageMoves(sub[t].req, sub[t].idx, "queued")
      BY <1>0, <2>2, StageStep DEF Queued, Stages, PushIo
    <2> QED
      BY <1>1, <2>1, <2>3, <2>4, EntryParts DEF IsPio, Cmd
  <1>3. UNCHANGED <<s_state, ctl, io_size, overlapped, work>> /\ (IoUp' <=> IoUp)
    BY DEF SubmitPushIo, IoUp
  <1>4. \A g : (Timely(g)' <=> Timely(g))
    BY <1>3 DEF Timely
  <1>l. \A x : Lane(x)' = Lane(x)
    BY <1>3 DEF Lane
  <1>5. StageOf(e)' = "queued" /\ \A g \in Entries : g # e => StageOf(g)' = StageOf(g)
    <2>1. StageOf(e)' = "queued"
      BY <1>2 DEF StageMoves, StageOf
    <2> QED
      BY <1>2, <2>1, EntryParts, StageKept
  <1>6. Timely(e) => s_state = "STARTED" /\ IoUp /\ q = Lane(f)
    BY <1>0, <1>1, <1>2 DEF Timely, SubmitSound, OrderInv, PushLane, IoUp
  \* The queues, place by place.
  <1>7. /\ DOMAIN s_io_request_queues' = DOMAIN s_io_request_queues
        /\ \A p \in DOMAIN s_io_request_queues : p # q => s_io_request_queues'[p] = s_io_request_queues[p]
        /\ \A k \in DOMAIN s_io_request_queues[q] :
                k \in DOMAIN s_io_request_queues'[q] /\ s_io_request_queues'[q][k] = s_io_request_queues[q][k]
        /\ \A k \in DOMAIN s_io_request_queues'[q] :
                IF k \in DOMAIN s_io_request_queues[q]
                THEN s_io_request_queues'[q][k] = s_io_request_queues[q][k]
                ELSE /\ s_io_request_queues'[q][k] = e
                     /\ \A l \in DOMAIN s_io_request_queues[q] : l < k
        /\ \E k \in DOMAIN s_io_request_queues'[q] : s_io_request_queues'[q][k] = e
    <2>1. s_io_request_queues[q] \in Seq(Entries \cup {Marker}) /\ e \in Entries \cup {Marker}
      BY <1>0, QueueElements DEF Queue
    <2>2. /\ s_io_request_queues'[q] = Append(s_io_request_queues[q], e)
          /\ DOMAIN s_io_request_queues' = DOMAIN s_io_request_queues
          /\ \A p \in DOMAIN s_io_request_queues : p # q => s_io_request_queues'[p] = s_io_request_queues[p]
      BY <1>0, <1>1 DEF TypeOK, PushIo
    <2>3. ASSUME NEW s \in Seq(Entries \cup {Marker}), NEW a \in Seq(Entries \cup {Marker}), a = Append(s, e)
          PROVE  /\ \A k \in DOMAIN s : k \in DOMAIN a /\ a[k] = s[k]
                 /\ \A k \in DOMAIN a : IF k \in DOMAIN s THEN a[k] = s[k]
                                        ELSE a[k] = e /\ \A l \in DOMAIN s : l < k
                 /\ \E k \in DOMAIN a : a[k] = e
      <3>1. DOMAIN s = 1 .. Len(s) /\ Len(s) \in Nat /\ DOMAIN a = 1 .. Len(s) + 1
        BY <2>1, <2>3
      <3>2. a[Len(s) + 1] = e /\ Len(s) + 1 \in DOMAIN a
        BY <2>3, <3>1
      <3>3. \A k \in 1 .. Len(s) : a[k] = s[k]
        BY <2>3
      <3> QED
        BY <3>1, <3>2, <3>3
    <2>4. Append(s_io_request_queues[q], e) \in Seq(Entries \cup {Marker})
      BY <2>1
    <2>5. PICK a \in Seq(Entries \cup {Marker}) : a = s_io_request_queues'[q]
      BY <2>2, <2>4
    <2> QED
      BY <2>1, <2>2, <2>3, <2>5
  <1>d. DOMAIN s_io_request_queues' = DOMAIN s_io_request_queues
    BY <1>7
  <1>8. \A p \in DOMAIN s_io_request_queues : \A k \in DOMAIN s_io_request_queues[p] :
            s_io_request_queues[p][k] # e
    BY <1>2 DEF PlacesInv, IoOnce
  \* The history of the pushes, place by place.
  <1>9. /\ \A h \in Fds : h # f => pushed'[h] = pushed[h]
        /\ \A k \in DOMAIN pushed'[f] :
                IF k \in DOMAIN pushed[f] THEN pushed'[f][k] = pushed[f][k]
                ELSE pushed'[f][k] = e /\ \A l \in DOMAIN pushed'[f] : ~(k < l)
    <2>1. pushed \in [Fds -> Seq(Entries)] /\ pushed[f] \in Seq(Entries)
      BY <1>0 DEF TypeOK
    <2>2. pushed'[f] = Append(pushed[f], e) /\ \A h \in Fds : h # f => pushed'[h] = pushed[h]
      BY <1>1, <2>1 DEF PushIo
    <2> QED
      BY <2>1, <2>2
  <1>10. \A h \in Fds : \A k \in DOMAIN pushed[h] :
            pushed[h][k] \in Entries /\ FdOf(pushed[h][k]) = h /\ ~IsPio(pushed[h][k])
                /\ StageOf(pushed[h][k]) # "new" /\ pushed[h][k] # e
    BY <1>0, <1>2 DEF TypeOK, OrderInv, PushedPlaced
  <1>11. IoLanes'
    <2> SUFFICES ASSUME IoUp, NEW p \in DOMAIN s_io_request_queues, NEW k \in DOMAIN s_io_request_queues'[p]
                 PROVE  /\ Timely(s_io_request_queues'[p][k]) => Lane(FdOf(s_io_request_queues'[p][k])) = p
                        /\ s_io_request_queues'[p][k] = Marker =>
                              /\ s_state = "STOPPING"
                              /\ \A l \in DOMAIN s_io_request_queues'[p] :
                                    l > k => ~Timely(s_io_request_queues'[p][l])
      BY <1>3, <1>4, <1>d, <1>l DEF IoLanes
    <2>1. CASE p # q
      BY <1>7, <2>1 DEF OrderInv, IoLanes
    <2>2. CASE p = q
      <3>1. Timely(s_io_request_queues'[q][k]) => Lane(FdOf(s_io_request_queues'[q][k])) = q
        BY <1>1, <1>6, <1>7, <2>2 DEF OrderInv, IoLanes
      <3>2. ASSUME s_io_request_queues'[q][k] = Marker
            PROVE  /\ s_state = "STOPPING"
                   /\ \A l \in DOMAIN s_io_request_queues'[q] : l > k => ~Timely(s_io_request_queues'[q][l])
        <4>1. k \in DOMAIN s_io_request_queues[q] /\ s_io_request_queues[q][k] = Marker
          BY <1>2, <1>7, <2>2, <3>2
        <4>2. s_state = "STOPPING" /\ ~Timely(e)
          BY <1>6, <4>1 DEF OrderInv, IoLanes
        <4> QED
          BY <1>7, <4>1, <4>2 DEF OrderInv, IoLanes
      <3> QED
        BY <2>2, <3>1, <3>2
    <2> QED
      BY <2>1, <2>2
  <1>12. IoGone'
    <2> SUFFICES ASSUME IoUp, NEW p \in 0 .. io_size - 1, work[<<"io", p>>].pc = "gone"
                 PROVE  /\ s_state = "STOPPING"
                        /\ \A k \in DOMAIN s_io_request_queues'[p] : ~Timely(s_io_request_queues'[p][k])
      BY <1>3, <1>4 DEF IoGone
    <2>1. s_state = "STOPPING" /\ \A k \in DOMAIN s_io_request_queues[p] : ~Timely(s_io_request_queues[p][k])
      BY DEF OrderInv, IoGone
    <2>2. ~Timely(e) /\ p \in DOMAIN s_io_request_queues
      BY <1>0, <1>6, <2>1 DEF ThreadsHaveQueues
    <2> QED
      BY <1>7, <2>1, <2>2
  <1>13. IoWaits'
    <2> SUFFICES ASSUME NEW g \in Entries, ~IsPio(g), Timely(g), StageOf(g)' = "queued"
                 PROVE  /\ IoUp
                        /\ \E k \in DOMAIN s_io_request_queues'[Lane(FdOf(g))] :
                                s_io_request_queues'[Lane(FdOf(g))][k] = g
      BY <1>3, <1>4, <1>l DEF IoWaits
    <2>1. CASE g = e
      <3>1. IoUp /\ Lane(FdOf(g)) = q
        BY <1>1, <1>6, <2>1
      <3>2. \E k \in DOMAIN s_io_request_queues'[q] : s_io_request_queues'[q][k] = g
        BY <1>7, <2>1
      <3> QED
        BY <3>1, <3>2
    <2>2. CASE g # e
      <3>1. IoUp /\ \E k \in DOMAIN s_io_request_queues[Lane(FdOf(g))] :
                        s_io_request_queues[Lane(FdOf(g))][k] = g
        BY <1>5, <2>2 DEF OrderInv, IoWaits
      <3>2. Lane(FdOf(g)) \in DOMAIN s_io_request_queues
        BY <1>0, <3>1, LaneType, FdType DEF ThreadsHaveQueues
      <3> QED
        BY <1>7, <3>1, <3>2
    <2> QED
      BY <2>1, <2>2
  <1>14. IoHolder'
    BY <1>3, <1>4, <1>l DEF OrderInv, IoHolder
  <1>15. RunningHeld'
    <2>1. ASSUME NEW g \in Entries, StageOf(g)' = "running"
          PROVE  \E w \in Workers : work'[w].pc = "run" /\ work'[w].e = g
      <3>1. StageOf(g) = "running"
        BY <1>5, <2>1
      <3> QED
        BY <1>3, <3>1 DEF OrderInv, RunningHeld
    <2> QED
      BY <2>1 DEF RunningHeld
  <1>16. PushedPlaced'
    <2>1. ASSUME NEW h \in Fds, NEW k \in DOMAIN pushed'[h]
          PROVE  \E d \in Entries : /\ pushed'[h][k] = d /\ FdOf(d) = h /\ ~IsPio(d)
                                   /\ stage'[d[1]][d[2]] # "new"
      <3>1. CASE pushed'[h][k] = e
        <4>1. h = f
          BY <1>9, <1>10, <2>1, <3>1
        <4> QED
          BY <1>1, <1>2, <1>5, <3>1, <4>1 DEF StageOf
      <3>2. CASE pushed'[h][k] # e
        <4>1. k \in DOMAIN pushed[h] /\ pushed'[h][k] = pushed[h][k]
          BY <1>9, <2>1, <3>2
        <4>2. PICK d \in Entries : d = pushed[h][k] /\ FdOf(d) = h /\ ~IsPio(d) /\ StageOf(d) # "new" /\ d # e
          BY <1>10, <4>1
        <4>3. stage'[d[1]][d[2]] # "new"
          BY <1>5, <4>2 DEF StageOf
        <4> QED
          BY <4>1, <4>2, <4>3
      <3> QED
        BY <3>1, <3>2
    <2> QED
      BY <2>1 DEF PushedPlaced, StageOf
  <1>17. PushedOrder'
    <2> SUFFICES ASSUME IoUp, NEW h \in Fds, NEW k \in DOMAIN pushed'[h], NEW l \in DOMAIN pushed'[h], k < l,
                        Timely(pushed'[h][k]), Timely(pushed'[h][l]),
                        NEW i \in DOMAIN s_io_request_queues'[Lane(h)],
                        NEW j \in DOMAIN s_io_request_queues'[Lane(h)],
                        s_io_request_queues'[Lane(h)][i] = pushed'[h][k],
                        s_io_request_queues'[Lane(h)][j] = pushed'[h][l]
                 PROVE  i < j
      BY <1>3, <1>4, <1>l DEF PushedOrder
    <2>1. k \in DOMAIN pushed[h] /\ pushed'[h][k] = pushed[h][k] /\ pushed[h][k] # e
      BY <1>9, <1>10
    <2>2. Lane(h) \in DOMAIN s_io_request_queues
      <3>1. h \in Nat
        BY <1>10, <2>1, FdType
      <3> QED
        BY <1>0, <3>1, LaneType DEF ThreadsHaveQueues
    <2>3. i \in DOMAIN s_io_request_queues[Lane(h)] /\ s_io_request_queues[Lane(h)][i] = pushed[h][k]
      BY <1>7, <2>1, <2>2
    <2>4. CASE l \in DOMAIN pushed[h]
      <3>1. pushed'[h][l] = pushed[h][l] /\ pushed[h][l] # e
        BY <1>9, <1>10, <2>4
      <3>2. j \in DOMAIN s_io_request_queues[Lane(h)] /\ s_io_request_queues[Lane(h)][j] = pushed[h][l]
        BY <1>7, <2>2, <3>1
      <3> QED
        BY <2>1, <2>3, <2>4, <3>1, <3>2 DEF OrderInv, PushedOrder
    <2>5. CASE l \notin DOMAIN pushed[h]
      <3>1. h = f /\ pushed'[h][l] = e
        BY <1>9, <2>5
      <3>2. Lane(h) = q
        BY <1>6, <3>1
      <3>3. j \notin DOMAIN s_io_request_queues[q]
        BY <1>7, <1>8, <3>1, <3>2
      <3> QED
        BY <1>7, <2>3, <3>2, <3>3
    <2> QED
      BY <2>4, <2>5
  <1>18. FifoPerFd'
    <2> SUFFICES ASSUME NEW h \in Fds, NEW k \in DOMAIN pushed'[h], NEW l \in DOMAIN pushed'[h], k < l,
                        {pushed'[h][k][1], pushed'[h][l][1]} \cap overlapped = {},
                        stage'[pushed'[h][l][1]][pushed'[h][l][2]] # "queued"
                 PROVE  stage'[pushed'[h][k][1]][pushed'[h][k][2]] \in {"ok", "failed"}
      BY <1>3 DEF FifoPerFd, Finished
    <2>1. k \in DOMAIN pushed[h] /\ pushed'[h][k] = pushed[h][k]
      BY <1>9
    <2>2. l \in DOMAIN pushed[h] /\ pushed'[h][l] = pushed[h][l]
      <3>1. pushed'[h][l] # e
        BY <1>5 DEF StageOf
      <3> QED
        BY <1>9, <3>1
    <2>3. PICK d \in Entries, g \in Entries : d = pushed[h][k] /\ g = pushed[h][l] /\ d # e /\ g # e
      BY <1>10, <2>1, <2>2
    <2>4. /\ stage'[d[1]][d[2]] = stage[d[1]][d[2]] /\ stage'[g[1]][g[2]] = stage[g[1]][g[2]]
      BY <1>5, <2>3 DEF StageOf
    <2> QED
      BY <2>1, <2>2, <2>3, <2>4 DEF OrderInv, FifoPerFd, Finished
  <1> QED
    BY <1>11, <1>12, <1>13, <1>14, <1>15, <1>16, <1>17, <1>18 DEF OrderInv

\* Another step of one command: a push to, or a pop from, the queue of the pio threads, or
\* the end of a system call.
OtherMove(e, w) ==
    \/ IsPio(e) /\ StageOf(e)' = "queued" /\ UNCHANGED work
    \/ IsPio(e) /\ StageOf(e)' = "running" /\ WorkMoves(w, "run", e) /\ work[w].pc = "pop"
    \/ /\ StageOf(e) = "running" /\ StageOf(e)' \in {"ok", "failed"}
       /\ WorkMoves(w, "count", e) /\ work[w].pc = "run" /\ work[w].e = e

\* It does not disturb the io queues.
LEMMA OtherOrder ==
    ASSUME ServiceInv, GroupSizes, OrderInv, PushLane', NEW e \in Entries, NEW w \in Workers, OtherMove(e, w),
           \A g \in Entries : g # e => StageOf(g)' = StageOf(g),
           UNCHANGED <<s_io_request_queues, pushed, io_size, overlapped, s_state, ctl>>
    PROVE  OrderInv'
  <1>0. TypeOK /\ (IoUp' <=> IoUp) /\ (\A g : Timely(g)' <=> Timely(g)) /\ (\A f : Lane(f)' = Lane(f))
    BY DEF IoUp, Timely, Lane, ServiceInv, Typed
  <1>1. \A v \in Workers : v # w => work'[v] = work[v]
    BY DEF OtherMove, WorkMoves
  <1>2. \A v \in Workers : work'[v].pc = "gone" => work[v].pc = "gone"
    BY <1>1 DEF OtherMove, WorkMoves
  <1>3. ASSUME NEW g \in Entries, ~IsPio(g), StageOf(g)' = "queued"
        PROVE  g # e /\ StageOf(g) = "queued"
    BY <1>3 DEF OtherMove
  <1>4. IoLanes' /\ PushedOrder'
    BY <1>0 DEF OrderInv, IoLanes, PushedOrder
  <1>5. IoGone'
    BY <1>0, <1>2, LaneType DEF OrderInv, IoGone
  <1>6. IoWaits'
    BY <1>0, <1>3 DEF OrderInv, IoWaits
  <1>7. IoHolder'
    <2> SUFFICES ASSUME NEW v \in Workers, work'[v].pc = "run", ~IsPio(work'[v].e), Timely(work'[v].e)
                 PROVE  v = <<"io", Lane(FdOf(work'[v].e))>>
      BY <1>0 DEF IoHolder
    <2>1. CASE v = w
      BY <2>1 DEF OtherMove, WorkMoves, OrderInv, IoHolder
    <2>2. CASE v # w
      BY <1>1, <2>2 DEF OrderInv, IoHolder
    <2> QED
      BY <2>1, <2>2
  <1>8. RunningHeld'
    <2> SUFFICES ASSUME NEW g \in Entries, StageOf(g)' = "running"
                 PROVE  \E v \in Workers : work'[v].pc = "run" /\ work'[v].e = g
      BY DEF RunningHeld
    <2>1. CASE g = e
      <3>1. CASE UNCHANGED work
        BY <2>1, <3>1 DEF OtherMove, WorkMoves
      <3>2. CASE WorkMoves(w, "run", e)
        BY <2>1, <3>2 DEF WorkMoves
      <3> QED
        BY <2>1, <3>1, <3>2 DEF OtherMove
    <2>2. CASE g # e
      <3>1. PICK v \in Workers : work[v].pc = "run" /\ work[v].e = g
        BY <2>2 DEF OrderInv, RunningHeld
      <3>2. work'[v] = work[v]
        BY <1>1, <2>2, <3>1 DEF OtherMove
      <3> QED
        BY <3>1, <3>2
    <2> QED
      BY <2>1, <2>2
  <1>9. \A f \in Fds : \A k \in DOMAIN pushed[f] :
            pushed[f][k] \in Entries /\ FdOf(pushed[f][k]) = f /\ ~IsPio(pushed[f][k])
                /\ StageOf(pushed[f][k]) # "new"
    BY <1>0 DEF TypeOK, OrderInv, PushedPlaced
  <1>10. StageOf(e)' # "new"
    BY DEF OtherMove
  <1>11. PushedPlaced'
    BY <1>9, <1>10 DEF PushedPlaced
  <1>12. FifoPerFd'
    <2> SUFFICES ASSUME NEW h \in Fds, NEW k \in DOMAIN pushed[h], NEW l \in DOMAIN pushed[h], k < l,
                        {pushed[h][k][1], pushed[h][l][1]} \cap overlapped = {},
                        stage'[pushed[h][l][1]][pushed[h][l][2]] # "queued"
                 PROVE  stage'[pushed[h][k][1]][pushed[h][k][2]] \in {"ok", "failed"}
      BY DEF FifoPerFd, Finished
    <2>1. PICK d \in Entries, g \in Entries : d = pushed[h][k] /\ g = pushed[h][l] /\ ~IsPio(d) /\ ~IsPio(g)
      BY <1>9
    <2>2. StageOf(g)' = stage'[g[1]][g[2]] /\ StageOf(d)' = stage'[d[1]][d[2]]
      BY DEF StageOf
    <2>3. StageOf(g) # "queued"
      BY <2>1, <2>2 DEF OtherMove
    <2>4. StageOf(d) \in {"ok", "failed"}
      BY <2>1, <2>3 DEF OrderInv, FifoPerFd, Finished, StageOf
    <2>5. StageOf(d)' \in {"ok", "failed"}
      BY <2>1, <2>4 DEF OtherMove
    <2> QED
      BY <2>1, <2>2, <2>5
  <1> QED
    BY <1>4, <1>5, <1>6, <1>7, <1>8, <1>11, <1>12 DEF OrderInv

\* A worker of the io threads is its index.
LEMMA IoWorker == \A w \in Workers : w[1] = "io" => w = <<"io", w[2]>>
  BY DEF Workers, IoWorkers, PioWorkers

\* A pop takes the first of the timely commands of its fd, when those before are finished.
LEMMA PopIoOrder ==
    ASSUME ServiceInv, GroupSizes, PlacesInv, OrderInv, PushLane', NEW w \in Workers, PopIo(w)
    PROVE  OrderInv'
  <1>0. TypeOK /\ ThreadsHaveQueues /\ StageIsFunction
    BY DEF ServiceInv, Typed
  <1>1. PICK q \in 0 .. io_size - 1, e \in Entries \cup {Marker} :
            /\ w = <<"io", q>> /\ q = w[2] /\ e = Head(s_io_request_queues[q])
            /\ s_io_request_queues \in [0 .. io_size - 1 -> Queue] /\ s_io_request_queues[q] # <<>>
            /\ s_io_request_queues' = [s_io_request_queues EXCEPT ![q] = Tail(@)]
            /\ work[w].pc = "pop" /\ Take(w, e)
    BY <1>0, PopEntry, IoWorker DEF PopIo
  <1>2. /\ UNCHANGED <<pushed, io_size, overlapped, s_state, ctl>>
        /\ IoUp /\ IoUp' /\ (\A g : Timely(g)' <=> Timely(g)) /\ (\A f : Lane(f)' = Lane(f))
    BY <1>0, <1>1 DEF PopIo, IoUp, Timely, Lane, ThreadsHaveQueues
  <1>3. \/ e = Marker /\ WorkMoves(w, "gone", Marker) /\ stage' = stage
        \/ e \in Entries /\ WorkMoves(w, "run", e) /\ StageMoves(e[1], e[2], "running")
    BY <1>0, <1>1, TakeStep
  <1>4. /\ \A v \in Workers : v # w => work'[v] = work[v]
        /\ e = Marker => work'[w].pc = "gone"
        /\ e # Marker => work'[w].pc = "run" /\ work'[w].e = e /\ StageOf(e)' = "running" /\ e \in Entries
        /\ \A g \in Entries : g # e => StageOf(g)' = StageOf(g)
    <2>1. CASE e = Marker
      BY <1>3, <2>1, EntryParts DEF WorkMoves, StageOf
    <2>2. CASE e # Marker
      <3>1. e \in Entries /\ WorkMoves(w, "run", e) /\ StageMoves(e[1], e[2], "running")
        BY <1>3, <2>2
      <3>2. StageOf(e)' = stage'[e[1]][e[2]]
        BY DEF StageOf
      <3> QED
        BY <2>2, <3>1, <3>2, EntryParts, StageKept DEF WorkMoves, StageMoves
    <2> QED
      BY <2>1, <2>2
  \* The queues, place by place.
  <1>5. /\ DOMAIN s_io_request_queues = 0 .. io_size - 1 /\ DOMAIN s_io_request_queues' = 0 .. io_size - 1
        /\ \A p \in 0 .. io_size - 1 : p # q => s_io_request_queues'[p] = s_io_request_queues[p]
        /\ 1 \in DOMAIN s_io_request_queues[q] /\ s_io_request_queues[q][1] = e
        /\ \A k \in DOMAIN s_io_request_queues[q] :
                k \in Nat /\ k >= 1 /\
                (k # 1 => /\ k - 1 \in DOMAIN s_io_request_queues'[q]
                          /\ s_io_request_queues'[q][k - 1] = s_io_request_queues[q][k])
        /\ \A k \in DOMAIN s_io_request_queues'[q] :
                /\ k \in Nat /\ k + 1 \in DOMAIN s_io_request_queues[q] /\ k + 1 > 1
                /\ s_io_request_queues'[q][k] = s_io_request_queues[q][k + 1]
    <2>1. PICK s \in Seq(Entries \cup {Marker}) : s = s_io_request_queues[q] /\ s # <<>>
      BY <1>1 DEF Queue
    <2>2. /\ s_io_request_queues'[q] = Tail(s) /\ DOMAIN s_io_request_queues = 0 .. io_size - 1
          /\ DOMAIN s_io_request_queues' = 0 .. io_size - 1
          /\ \A p \in 0 .. io_size - 1 : p # q => s_io_request_queues'[p] = s_io_request_queues[p]
      BY <1>1, <2>1
    <2>3. /\ Len(s) \in Nat /\ Len(s) > 0 /\ DOMAIN s = 1 .. Len(s) /\ DOMAIN Tail(s) = 1 .. Len(s) - 1
          /\ \A k \in 1 .. Len(s) - 1 : Tail(s)[k] = s[k + 1]
          /\ Head(s) = s[1]
      BY <2>1
    <2>4. \A k \in DOMAIN s : k \in Nat /\ k >= 1 /\ (k # 1 => k - 1 \in DOMAIN Tail(s) /\ Tail(s)[k - 1] = s[k])
      BY <2>3
    <2>5. \A k \in DOMAIN Tail(s) : k \in Nat /\ k + 1 \in DOMAIN s /\ k + 1 > 1 /\ Tail(s)[k] = s[k + 1]
      BY <2>3
    <2>6. 1 \in DOMAIN s /\ s[1] = e
      BY <1>1, <2>1, <2>3
    <2> QED
      BY <2>1, <2>2, <2>4, <2>5, <2>6
  <1>6. e # Marker => StageOf(e) = "queued" /\ ~IsPio(e)
    BY <1>5 DEF PlacesInv, IoOnce
  <1>7. IoLanes'
    <2> SUFFICES ASSUME NEW p \in 0 .. io_size - 1, NEW k \in DOMAIN s_io_request_queues'[p]
                 PROVE  /\ Timely(s_io_request_queues'[p][k]) => Lane(FdOf(s_io_request_queues'[p][k])) = p
                        /\ s_io_request_queues'[p][k] = Marker =>
                              /\ s_state = "STOPPING"
                              /\ \A l \in DOMAIN s_io_request_queues'[p] :
                                    l > k => ~Timely(s_io_request_queues'[p][l])
      <3>1. DOMAIN s_io_request_queues' = 0 .. io_size - 1
        BY <1>5
      <3> QED
        BY <1>2, <3>1 DEF IoLanes
    <2>1. CASE p # q
      BY <1>2, <1>5, <2>1 DEF OrderInv, IoLanes
    <2>2. CASE p = q
      <3>1. k \in Nat /\ k + 1 \in DOMAIN s_io_request_queues[q]
            /\ s_io_request_queues'[q][k] = s_io_request_queues[q][k + 1]
        BY <1>5, <2>2
      <3>2. \A l \in DOMAIN s_io_request_queues'[q] : l > k =>
                /\ l + 1 \in DOMAIN s_io_request_queues[q] /\ l + 1 > k + 1
                /\ s_io_request_queues'[q][l] = s_io_request_queues[q][l + 1]
        BY <1>5, <3>1
      <3>3. q \in DOMAIN s_io_request_queues
        BY <1>5
      <3> QED
        BY <1>2, <2>2, <3>1, <3>2, <3>3 DEF OrderInv, IoLanes
    <2> QED
      BY <2>1, <2>2
  <1>8. IoGone'
    <2> SUFFICES ASSUME NEW p \in 0 .. io_size - 1, work'[<<"io", p>>].pc = "gone"
                 PROVE  /\ s_state = "STOPPING"
                        /\ \A k \in DOMAIN s_io_request_queues'[p] : ~Timely(s_io_request_queues'[p][k])
      BY <1>2 DEF IoGone
    <2>1. CASE p # q
      <3>1. <<"io", p>> \in Workers /\ <<"io", p>> # w
        BY <1>1, <2>1, LaneType
      <3>2. work[<<"io", p>>].pc = "gone"
        BY <1>4, <3>1
      <3> QED
        BY <1>2, <1>5, <2>1, <3>2 DEF OrderInv, IoGone
    <2>2. CASE p = q
      <3>1. s_io_request_queues[q][1] = Marker /\ q \in DOMAIN s_io_request_queues
        BY <1>1, <1>4, <1>5, <2>2
      <3>2. /\ s_state = "STOPPING"
            /\ \A l \in DOMAIN s_io_request_queues[q] : l > 1 => ~Timely(s_io_request_queues[q][l])
        BY <1>2, <1>5, <3>1 DEF OrderInv, IoLanes
      <3> QED
        BY <1>5, <2>2, <3>2
    <2> QED
      BY <2>1, <2>2
  <1>9. \A g \in Entries : Lane(FdOf(g)) \in 0 .. io_size - 1
    BY <1>0, <1>2, LaneType, FdType DEF ThreadsHaveQueues
  <1>10. IoWaits'
    <2> SUFFICES ASSUME NEW g \in Entries, ~IsPio(g), Timely(g), StageOf(g)' = "queued"
                 PROVE  \E k \in DOMAIN s_io_request_queues'[Lane(FdOf(g))] :
                            s_io_request_queues'[Lane(FdOf(g))][k] = g
      BY <1>2 DEF IoWaits
    <2>1. g # e /\ StageOf(g) = "queued"
      BY <1>4, EntryParts
    <2>2. PICK k \in DOMAIN s_io_request_queues[Lane(FdOf(g))] : s_io_request_queues[Lane(FdOf(g))][k] = g
      BY <2>1 DEF OrderInv, IoWaits
    <2>3. CASE Lane(FdOf(g)) = q
      <3>1. k # 1
        BY <1>5, <2>1, <2>2, <2>3
      <3> QED
        BY <1>5, <2>2, <2>3, <3>1
    <2>4. CASE Lane(FdOf(g)) # q
      BY <1>5, <1>9, <2>2, <2>4
    <2> QED
      BY <2>3, <2>4
  <1>11. IoHolder'
    <2> SUFFICES ASSUME NEW v \in Workers, work'[v].pc = "run", ~IsPio(work'[v].e), Timely(work'[v].e)
                 PROVE  v = <<"io", Lane(FdOf(work'[v].e))>>
      BY <1>2 DEF IoHolder
    <2>1. CASE v = w
      <3>1. work'[w].e = e /\ Timely(e)
        BY <1>4, <2>1
      <3>2. q \in DOMAIN s_io_request_queues /\ 1 \in DOMAIN s_io_request_queues[q]
        BY <1>5
      <3>3. Lane(FdOf(e)) = q
        BY <1>2, <1>5, <3>1, <3>2 DEF OrderInv, IoLanes
      <3> QED
        BY <1>1, <2>1, <3>1, <3>3
    <2>2. CASE v # w
      BY <1>4, <2>2 DEF OrderInv, IoHolder
    <2> QED
      BY <2>1, <2>2
  <1>12. RunningHeld'
    <2> SUFFICES ASSUME NEW g \in Entries, StageOf(g)' = "running"
                 PROVE  \E v \in Workers : work'[v].pc = "run" /\ work'[v].e = g
      BY DEF RunningHeld
    <2>1. CASE g = e
      BY <1>4, <2>1, EntryParts
    <2>2. CASE g # e
      <3>1. PICK v \in Workers : work[v].pc = "run" /\ work[v].e = g
        BY <1>4, <2>2 DEF OrderInv, RunningHeld
      <3>2. work'[v] = work[v]
        BY <1>1, <1>4, <3>1
      <3> QED
        BY <3>1, <3>2
    <2> QED
      BY <2>1, <2>2
  <1>13. \A f \in Fds : \A k \in DOMAIN pushed[f] :
            pushed[f][k] \in Entries /\ FdOf(pushed[f][k]) = f /\ ~IsPio(pushed[f][k])
                /\ StageOf(pushed[f][k]) # "new"
    BY <1>0 DEF TypeOK, OrderInv, PushedPlaced
  <1>14. PushedPlaced'
    <2>1. \A g \in Entries : StageOf(g) # "new" => StageOf(g)' # "new"
      BY <1>4, EntryParts
    <2> QED
      BY <1>2, <1>13, <2>1 DEF PushedPlaced
  <1>15. PushedOrder'
    <2> SUFFICES ASSUME NEW h \in Fds, NEW k \in DOMAIN pushed[h], NEW l \in DOMAIN pushed[h], k < l,
                        Timely(pushed[h][k]), Timely(pushed[h][l]),
                        NEW i \in DOMAIN s_io_request_queues'[Lane(h)],
                        NEW j \in DOMAIN s_io_request_queues'[Lane(h)],
                        s_io_request_queues'[Lane(h)][i] = pushed[h][k],
                        s_io_request_queues'[Lane(h)][j] = pushed[h][l]
                 PROVE  i < j
      BY <1>2 DEF PushedOrder
    <2>1. Lane(h) \in 0 .. io_size - 1
      BY <1>9, <1>13
    <2>2. CASE Lane(h) = q
      <3>1. /\ i + 1 \in DOMAIN s_io_request_queues[q] /\ j + 1 \in DOMAIN s_io_request_queues[q]
            /\ s_io_request_queues[q][i + 1] = pushed[h][k] /\ s_io_request_queues[q][j + 1] = pushed[h][l]
            /\ i \in Nat /\ j \in Nat
        BY <1>5, <2>2
      <3>2. i + 1 < j + 1
        BY <1>2, <2>2, <3>1 DEF OrderInv, PushedOrder
      <3> QED
        BY <3>1, <3>2
    <2>3. CASE Lane(h) # q
      <3>1. s_io_request_queues'[Lane(h)] = s_io_request_queues[Lane(h)]
        BY <1>5, <2>1, <2>3
      <3> QED
        BY <1>2, <3>1 DEF OrderInv, PushedOrder
    <2> QED
      BY <2>2, <2>3
  <1>16. FifoPerFd'
    <2> SUFFICES ASSUME NEW h \in Fds, NEW k \in DOMAIN pushed[h], NEW l \in DOMAIN pushed[h], k < l,
                        {pushed[h][k][1], pushed[h][l][1]} \cap overlapped = {},
                        stage'[pushed[h][l][1]][pushed[h][l][2]] # "queued"
                 PROVE  stage'[pushed[h][k][1]][pushed[h][k][2]] \in {"ok", "failed"}
      BY <1>2 DEF FifoPerFd, Finished
    <2>1. PICK d \in Entries, g \in Entries :
            /\ d = pushed[h][k] /\ g = pushed[h][l] /\ Timely(d) /\ Timely(g) /\ ~IsPio(d)
            /\ FdOf(d) = h /\ FdOf(g) = h /\ StageOf(d) # "new"
      BY <1>13, EntryParts DEF Timely
    <2>2. StageOf(g)' = stage'[g[1]][g[2]] /\ StageOf(d)' = stage'[d[1]][d[2]]
      BY DEF StageOf
    <2>3. CASE g # e
      <3>1. StageOf(g) # "queued"
        BY <1>4, <2>1, <2>2, <2>3
      <3>2. StageOf(d) \in {"ok", "failed"}
        BY <2>1, <3>1 DEF OrderInv, FifoPerFd, Finished, StageOf
      <3>3. StageOf(d)' = StageOf(d)
        BY <1>4, <1>6, <3>2, EntryParts
      <3> QED
        BY <2>1, <2>2, <3>2, <3>3
    <2>4. CASE g = e
      <3>0. Lane(h) = q
        <4>1. q \in DOMAIN s_io_request_queues /\ 1 \in DOMAIN s_io_request_queues[q]
          BY <1>5
        <4> QED
          BY <1>2, <1>5, <2>1, <2>4, <4>1 DEF OrderInv, IoLanes
      <3>1. StageOf(d) # "queued"
        <4>1. ASSUME StageOf(d) = "queued" PROVE FALSE
          <5>1. PICK i \in DOMAIN s_io_request_queues[q] : s_io_request_queues[q][i] = d
            BY <2>1, <3>0, <4>1 DEF OrderInv, IoWaits
          <5>2. 1 \in DOMAIN s_io_request_queues[q] /\ s_io_request_queues[q][1] = g
            BY <1>5, <2>4
          <5>3. \A a, b \in DOMAIN s_io_request_queues[Lane(h)] :
                    (/\ s_io_request_queues[Lane(h)][a] = pushed[h][k]
                     /\ s_io_request_queues[Lane(h)][b] = pushed[h][l]) => a < b
            BY <1>2, <2>1 DEF OrderInv, PushedOrder
          <5>4. i < 1
            BY <2>1, <3>0, <5>1, <5>2, <5>3
          <5> QED
            BY <1>5, <5>1, <5>4
        <4> QED
          BY <4>1
      <3>2. StageOf(d) # "running"
        <4>1. ASSUME StageOf(d) = "running" PROVE FALSE
          <5>1. PICK v \in Workers : work[v].pc = "run" /\ work[v].e = d
            BY <4>1 DEF OrderInv, RunningHeld
          <5>2. v = <<"io", q>>
            BY <2>1, <3>0, <5>1 DEF OrderInv, IoHolder
          <5> QED
            BY <1>1, <5>1, <5>2
        <4> QED
          BY <4>1
      <3>3. StageOf(d) \in {"ok", "failed"}
        <4>1. d[1] \in Requests /\ d[2] \in DOMAIN CmdsOf[d[1]]
          BY EntryParts
        <4>2. stage[d[1]][d[2]] \in Stages
          BY <1>0, <4>1 DEF TypeOK
        <4> QED
          BY <2>1, <3>1, <3>2, <4>2 DEF StageOf, Stages
      <3>4. StageOf(d)' = StageOf(d)
        BY <1>4, <1>6, <3>3, EntryParts
      <3> QED
        BY <2>1, <2>2, <3>3, <3>4
    <2> QED
      BY <2>3, <2>4
  <1> QED
    BY <1>7, <1>8, <1>10, <1>11, <1>12, <1>14, <1>15, <1>16 DEF OrderInv

\* Every step keeps the order of the commands.
LEMMA OrderStep ==
    ASSUME ServiceInv, GroupSizes, PlacesInv, OrderInv, [Next]_vars
    PROVE  OrderInv'
  <1>0. TypeOK /\ SubmitSound /\ ThreadsHaveQueues /\ StageIsFunction
    BY DEF ServiceInv, Typed
  <1>l. PushLane'
    BY PushLaneStep DEF OrderInv
  <1>c. IoCalm => OrderInv'
    BY <1>l, IoCalmStep
  <1>o. ASSUME NEW e \in Entries, NEW w \in Workers, NEW x, OtherMove(e, w), StageMoves(e[1], e[2], x),
               UNCHANGED <<s_io_request_queues, pushed, io_size, overlapped, s_state, ctl>>
        PROVE  OrderInv'
    <2>1. \A g \in Entries : g # e => StageOf(g)' = StageOf(g)
      BY <1>o, EntryParts, StageKept
    <2> QED
      BY <1>l, <1>o, <2>1, OtherOrder
  <1>1. ASSUME NEW c \in Controllers, Control(c) \/ StopCas(c) PROVE OrderInv'
    BY <1>1, <1>c, <1>l, CalmSteps, StartIoOrder, JoinIoOrder, MarkIoOrder DEF Control
  <1>2. ASSUME NEW c \in Controllers, NEW m \in IoArgs, NEW n \in PioArgs, StartCas(c, m, n)
        PROVE  OrderInv'
    BY <1>2, <1>c, CalmSteps
  <1>3. ASSUME NEW t \in Clients, NEW r \in Requests, ClientSubmit(t, r) PROVE OrderInv'
    BY <1>3, <1>c, CalmSteps
  <1>4. ASSUME NEW t \in Submitters, SubmitSize(t) \/ SubmitReturn(t) PROVE OrderInv'
    BY <1>4, <1>c, CalmSteps
  <1>5. ASSUME NEW t \in Submitters, SubmitPushIo(t) PROVE OrderInv'
    <2>1. CASE UNCHANGED <<s_io_request_queues, pushed, stage>>
      BY <1>5, <1>c, <2>1, CalmSteps
    <2>2. CASE PushIo(t)
      BY <1>5, <1>l, <2>2, PushIoOrder
    <2> QED
      BY <1>5, <2>1, <2>2 DEF SubmitPushIo, PushIo
  <1>6. ASSUME NEW t \in Submitters, SubmitPushPio(t) PROVE OrderInv'
    <2>1. PICK e \in Entries : e = <<sub[t].req, sub[t].idx>> /\ IsPio(e)
      BY <1>0, <1>6, SubmitEntry DEF SubmitPushPio, IsPio
    <2>2. e[1] = sub[t].req /\ e[2] = sub[t].idx /\ e[1] \in Requests /\ e[2] \in DOMAIN CmdsOf[e[1]]
      BY <2>1, EntryParts
    <2>3. StageMoves(e[1], e[2], "queued")
      BY <1>0, <1>6, <2>2, StageStep DEF SubmitPushPio, Queued, Stages
    <2>4. StageOf(e)' = "queued"
      BY <2>3 DEF StageMoves, StageOf
    <2>5. PICK w \in Workers : TRUE
      <3>1. io_size > 0 /\ io_size \in Nat
        BY <1>0, <1>6 DEF SubmitPushPio, SubmitSound, TypeOK
      <3> QED
        <4>1. 0 \in 0 .. io_size - 1
          BY <3>1
        <4> QED
          BY <4>1, LaneType
    <2>6. UNCHANGED <<s_io_request_queues, pushed, io_size, overlapped, s_state, ctl, work>>
      BY <1>6 DEF SubmitPushPio
    <2> QED
      BY <1>o, <2>1, <2>3, <2>4, <2>5, <2>6 DEF OtherMove
  <1>7. ASSUME NEW w \in Workers, PopIo(w) PROVE OrderInv'
    BY <1>7, <1>l, PopIoOrder
  <1>8. ASSUME NEW w \in Workers, PopPio(w) PROVE OrderInv'
    <2>1. PICK e \in Entries \cup {Marker} :
            e = Head(s_pio_request_queue) /\ Take(w, e) /\ work[w].pc = "pop" /\ w[1] = "pio"
      BY <1>0, <1>8, PopEntry DEF PopPio
    <2>2. UNCHANGED <<s_io_request_queues, pushed, io_size, overlapped, s_state, ctl>>
      BY <1>8 DEF PopPio
    <2>3. CASE e = Marker
      <3>1. WorkMoves(w, "gone", Marker) /\ stage' = stage
        BY <1>0, <2>1, <2>3, TakeStep, EntryParts
      <3>2. IoCalm
        BY <2>1, <2>2, <3>1 DEF IoCalm, IoUp, WorkMoves
      <3> QED
        BY <1>c, <3>2
    <2>4. CASE e # Marker
      <3>1. e \in Entries /\ WorkMoves(w, "run", e) /\ StageMoves(e[1], e[2], "running")
        BY <1>0, <2>1, <2>4, TakeStep
      <3>2. IsPio(e)
        <4>1. 1 \in DOMAIN s_pio_request_queue /\ s_pio_request_queue[1] = e
          BY <1>0, <1>8, <2>1, TailPlaces DEF PopPio, TypeOK
        <4> QED
          BY <2>4, <4>1 DEF PlacesInv, PioOnce
      <3>3. StageOf(e)' = "running"
        BY <3>1 DEF StageMoves, StageOf
      <3> QED
        BY <1>o, <2>1, <2>2, <3>1, <3>2, <3>3 DEF OtherMove
    <2> QED
      BY <2>3, <2>4
  <1>9. ASSUME NEW w \in Workers, NEW ret \in {"ok", "failed"}, ProcessCommand(w, ret) PROVE OrderInv'
    <2>1. PICK e \in Entries : e = work[w].e /\ work[w].pc = "run" /\ StageOf(e) = "running"
      BY <1>0, <1>9 DEF ProcessCommand, ThreadsHaveQueues, PlacesInv, HeldOnce
    <2>2. StageMoves(e[1], e[2], ret) /\ WorkMoves(w, "count", e)
      <3>1. /\ e[1] \in Requests /\ e[2] \in DOMAIN CmdsOf[e[1]]
            /\ stage' = [stage EXCEPT ![e[1]][e[2]] = ret] /\ ret \in Stages
        BY <1>9, <2>1, EntryParts DEF ProcessCommand, Stages
      <3>2. StageMoves(e[1], e[2], ret)
        BY <1>0, <3>1, StageStep
      <3>3. WorkMoves(w, "count", e)
        BY <1>0, <1>9, <2>1, WorkersMove DEF ProcessCommand
      <3> QED
        BY <3>2, <3>3
    <2>3. StageOf(e)' \in {"ok", "failed"}
      BY <2>2 DEF StageMoves, StageOf
    <2>4. UNCHANGED <<s_io_request_queues, pushed, io_size, overlapped, s_state, ctl>>
      BY <1>9 DEF ProcessCommand, serviceVars
    <2> QED
      BY <1>o, <2>1, <2>2, <2>3, <2>4 DEF OtherMove
  <1>10. ASSUME NEW w \in Workers, CountCommand(w) \/ Callback(w) PROVE OrderInv'
    BY <1>10, <1>c, CalmSteps
  <1>11. CASE UNCHANGED vars
    BY <1>11, <1>c, CalmSteps
  <1> QED
    BY <1>1, <1>2, <1>3, <1>4, <1>5, <1>6, <1>7, <1>8, <1>9, <1>10, <1>11
       DEF Next, SubmitStep, WorkerStep

\* Initially nothing is queued, running or pushed.
LEMMA OrderInit ==
    ASSUME Init PROVE GroupSizes /\ OrderInv
  <1>1. ~IoUp /\ ~PioUp
    BY DEF Init, IoUp, PioUp, Idle
  <1>2. GroupSizes
    BY <1>1 DEF Init, GroupSizes, Idle
  <1>3. \A e \in Entries : StageOf(e) = "new"
    BY EntryParts DEF Init, StageOf
  <1>4. IoLanes /\ IoGone /\ PushedOrder
    BY <1>1 DEF IoLanes, IoGone, PushedOrder
  <1>5. IoWaits /\ RunningHeld
    BY <1>3 DEF IoWaits, RunningHeld
  <1>6. IoHolder /\ PushLane
    BY DEF Init, IoHolder, Gone, PushLane, NoSubmit
  <1>7. PushedPlaced /\ FifoPerFd
    BY DEF Init, PushedPlaced, FifoPerFd
  <1> QED
    BY <1>2, <1>4, <1>5, <1>6, <1>7 DEF OrderInv

\* The order of the commands is an invariant, on top of the others.
LEMMA OrderInvariant == Spec => [](ServiceInv /\ PlacesInv /\ GroupSizes /\ OrderInv)
  <1>1. Init => GroupSizes /\ OrderInv
    BY OrderInit
  <1>2. ServiceInv /\ PlacesInv /\ GroupSizes /\ OrderInv /\ [Next]_vars => GroupSizes' /\ OrderInv'
    BY GroupsStep, OrderStep
  <1> QED
    BY <1>1, <1>2, AioInvariant, PTL DEF Spec

\* Of two commands of one fd that no Stop overtook, the one pushed second is not even taken
\* from its queue before the first is finished (FifoPerFd: aio.cpp, the queue index of Submit
\* and the one thread that pops each queue).
THEOREM FifoPerFdHolds == Spec => []FifoPerFd
  <1>1. OrderInv => FifoPerFd
    BY DEF OrderInv
  <1> QED
    BY <1>1, OrderInvariant, PTL
-----------------------------------------------------------------------------
(***************************************************************************)
(* What Stop leaves behind.  The pio queue outlives its threads: each of   *)
(* them must end on an empty request of this Stop, and none may be left    *)
(* for the threads of the next Start.                                      *)
(***************************************************************************)
\* The empty requests are behind the timely commands, and a thread that has ended has left
\* none of these in the queue.  A timely queued command is in the queue.
PioOrder ==
    \A k, l \in DOMAIN s_pio_request_queue :
        k < l /\ s_pio_request_queue[k] = Marker => ~Timely(s_pio_request_queue[l])
PioDrained ==
    (~PioUp \/ \E i \in 0 .. pio_size - 1 : work[<<"pio", i>>].pc = "gone") =>
        \A k \in DOMAIN s_pio_request_queue : ~Timely(s_pio_request_queue[k])
PioWaits ==
    \A e \in Entries : IsPio(e) /\ Timely(e) /\ StageOf(e) = "queued" =>
        \E k \in DOMAIN s_pio_request_queue : s_pio_request_queue[k] = e

\* The living pio threads are those of the group's size.
PioThreads ==
    \A w \in Workers : w[1] = "pio" /\ work[w].pc # "gone" => w[2] < pio_size

\* There is an empty request for every thread: none is left over.
MarkersIn(s) == {k \in DOMAIN s : s[k] = Marker}
Exits == MarkersIn(s_pio_request_queue)
PioLive == {w \in Workers : w[1] = "pio" /\ work[w].pc # "gone"}
EndingPio == {c \in Controllers : ctl[c].pc \in {"mark_pio", "join_pio"}}
PioCount ==
    /\ EndingPio = {} =>
        /\ Exits = {}
        /\ PioUp => \A i \in 0 .. pio_size - 1 : work[<<"pio", i>>].pc # "gone"
    /\ \A c \in Controllers :
        /\ ctl[c].pc = "mark_pio" => Cardinality(Exits) + pio_size = Cardinality(PioLive) + ctl[c].i
        /\ ctl[c].pc = "mark_pio" => ctl[c].i <= pio_size
        /\ ctl[c].pc = "join_pio" => Cardinality(Exits) = Cardinality(PioLive)

PioInv == PioOrder /\ PioDrained /\ PioWaits /\ PioThreads /\ PioCount

\* A Submit has pushed all it passed, unless to a freed queue; the last command that is
\* counted is called back.
PushedSoFar ==
    /\ \A t \in Submitters : sub[t].pc # "out" /\ sub[t].req \notin damaged =>
        \A i \in DOMAIN CmdsOf[sub[t].req] : i < sub[t].idx => stage[sub[t].req][i] # "new"
    /\ \A r \in Requests : ids[r] # 0 /\ r \notin damaged =>
        \A i \in DOMAIN CmdsOf[r] : stage[r][i] # "new"
CalledBack ==
    \A r \in Requests :
        CmdsOf[r] # <<>> /\ request[r].m_completed_cnt = Len(CmdsOf[r]) =>
            callbacks[r] # <<>> \/ \E w \in Workers : CallsBack(w, r)

-----------------------------------------------------------------------------
\* A one-to-one map counts.
LEMMA SameCount ==
    ASSUME NEW S, IsFiniteSet(S), NEW T, NEW f \in [S -> T],
           \A a, b \in S : f[a] = f[b] => a = b, \A t \in T : \E a \in S : f[a] = t
    PROVE  IsFiniteSet(T) /\ Cardinality(T) = Cardinality(S)
  <1>1. f \in Bijection(S, T)
    BY DEF Bijection, Injection, Surjection, IsInjective
  <1> QED
    BY <1>1, FS_Bijection DEF ExistsBijection

\* A group of n pio threads has n members.
LEMMA PioThreadCount ==
    ASSUME NEW n \in Nat
    PROVE  /\ IsFiniteSet({<<"pio", i>> : i \in 0 .. n - 1})
           /\ Cardinality({<<"pio", i>> : i \in 0 .. n - 1}) = n
  <1>1. PICK S : S = 0 .. n - 1
    OBVIOUS
  <1>2. IsFiniteSet(S) /\ Cardinality(S) = n
    BY <1>1, FS_Interval
  <1>3. PICK T : T = {<<"pio", i>> : i \in S}
    OBVIOUS
  <1>4. PICK f : f = [i \in S |-> <<"pio", i>>]
    OBVIOUS
  <1>5. f \in [S -> T] /\ \A t \in T : \E i \in S : f[i] = t
    BY <1>3, <1>4
  <1>6. \A i, j \in S : f[i] = f[j] => i = j
    BY <1>4
  <1>7. IsFiniteSet(T) /\ Cardinality(T) = n
    BY <1>2, <1>5, <1>6, SameCount
  <1> QED
    BY <1>1, <1>3, <1>7

\* Push and Pop, and the empty requests in a queue.
LEMMA MarkerCounts ==
    ASSUME NEW s \in Queue
    PROVE  /\ IsFiniteSet(MarkersIn(s)) /\ Cardinality(MarkersIn(s)) \in Nat
           /\ \A e \in Entries : MarkersIn(Append(s, e)) = MarkersIn(s)
           /\ Cardinality(MarkersIn(Append(s, Marker))) = Cardinality(MarkersIn(s)) + 1
           /\ s # <<>> => Cardinality(MarkersIn(Tail(s))) =
                            IF Head(s) = Marker THEN Cardinality(MarkersIn(s)) - 1
                            ELSE Cardinality(MarkersIn(s))
  <1>0. s \in Seq(Entries \cup {Marker}) /\ Len(s) \in Nat /\ DOMAIN s = 1 .. Len(s)
    BY DEF Queue
  <1>1. IsFiniteSet(MarkersIn(s)) /\ Cardinality(MarkersIn(s)) \in Nat
    <2>1. MarkersIn(s) \in SUBSET (1 .. Len(s))
      BY <1>0 DEF MarkersIn
    <2>2. IsFiniteSet(1 .. Len(s))
      BY <1>0, FS_Interval
    <2>3. IsFiniteSet(MarkersIn(s))
      BY <2>1, <2>2, FS_Subset
    <2> QED
      BY <2>3, FS_CardinalityType
  <1>a. ASSUME NEW e \in Entries \cup {Marker}
        PROVE  MarkersIn(Append(s, e)) = IF e = Marker THEN MarkersIn(s) \cup {Len(s) + 1} ELSE MarkersIn(s)
    <2>0. Append(s, e) \in Seq(Entries \cup {Marker})
      BY <1>0
    <2>1. PICK a \in Seq(Entries \cup {Marker}) : a = Append(s, e)
      BY <2>0
    <2>2. /\ DOMAIN a = 1 .. Len(s) + 1 /\ a[Len(s) + 1] = e
          /\ \A k \in 1 .. Len(s) : a[k] = s[k]
      BY <1>0, <2>1
    <2>3. ASSUME NEW k
          PROVE  k \in DOMAIN a /\ a[k] = Marker
                    <=> (k \in DOMAIN s /\ s[k] = Marker) \/ (e = Marker /\ k = Len(s) + 1)
      BY <1>0, <2>2
    <2> QED
      BY <2>1, <2>3 DEF MarkersIn
  <1>2. \A e \in Entries : MarkersIn(Append(s, e)) = MarkersIn(s)
    BY <1>a, EntryParts
  <1>3. Cardinality(MarkersIn(Append(s, Marker))) = Cardinality(MarkersIn(s)) + 1
    <2>1. Len(s) + 1 \notin MarkersIn(s)
      BY <1>0 DEF MarkersIn
    <2> QED
      BY <1>1, <1>a, <2>1, FS_AddElement
  <1>4. ASSUME s # <<>>
        PROVE  Cardinality(MarkersIn(Tail(s))) =
                    IF Head(s) = Marker THEN Cardinality(MarkersIn(s)) - 1
                    ELSE Cardinality(MarkersIn(s))
    <2>0. Tail(s) \in Seq(Entries \cup {Marker})
      BY <1>0, <1>4
    <2>1. PICK b \in Seq(Entries \cup {Marker}) : b = Tail(s)
      BY <2>0
    <2>2. /\ DOMAIN b = 1 .. Len(s) - 1 /\ Len(s) > 0 /\ Head(s) = s[1]
          /\ \A k \in 1 .. Len(s) - 1 : b[k] = s[k + 1]
      BY <1>0, <1>4, <2>1
    <2>3. PICK S : S = MarkersIn(s) \ {1}
      OBVIOUS
    <2>4. PICK T : T = MarkersIn(b)
      OBVIOUS
    <2>5. PICK f : f = [k \in S |-> k - 1]
      OBVIOUS
    <2>6. \A k \in S : k \in 2 .. Len(s) /\ s[k] = Marker
      BY <1>0, <2>3 DEF MarkersIn
    <2>7. ASSUME NEW k \in S PROVE k - 1 \in T
      <3>1. k - 1 \in 1 .. Len(s) - 1 /\ b[k - 1] = s[(k - 1) + 1] /\ (k - 1) + 1 = k
        BY <1>0, <2>2, <2>6
      <3> QED
        BY <2>2, <2>4, <2>6, <3>1 DEF MarkersIn
    <2>8. ASSUME NEW k \in T PROVE k + 1 \in S /\ (k + 1) - 1 = k
      <3>1. k \in 1 .. Len(s) - 1 /\ s[k + 1] = Marker
        BY <2>2, <2>4 DEF MarkersIn
      <3> QED
        BY <1>0, <2>3, <3>1 DEF MarkersIn
    <2>9. f \in [S -> T] /\ \A k \in T : \E l \in S : f[l] = k
      BY <2>5, <2>7, <2>8
    <2>10. \A k, l \in S : f[k] = f[l] => k = l
      BY <2>5, <2>6
    <2>11. IsFiniteSet(S) /\ Cardinality(S) = IF 1 \in MarkersIn(s) THEN Cardinality(MarkersIn(s)) - 1
                                             ELSE Cardinality(MarkersIn(s))
      BY <1>1, <2>3, FS_RemoveElement
    <2>12. 1 \in MarkersIn(s) <=> Head(s) = Marker
      BY <1>0, <2>2 DEF MarkersIn
    <2>13. Cardinality(T) = Cardinality(S)
      BY <2>9, <2>10, <2>11, SameCount
    <2> QED
      BY <2>1, <2>4, <2>11, <2>12, <2>13
  <1> QED
    BY <1>1, <1>2, <1>3, <1>4

\* The living pio threads can be counted.
LEMMA PioLiveCount ==
    ASSUME TypeOK, PioThreads
    PROVE  /\ IsFiniteSet(PioLive) /\ Cardinality(PioLive) \in Nat
           /\ (\A i \in 0 .. pio_size - 1 : <<"pio", i>> \in Workers /\ work[<<"pio", i>>].pc # "gone")
                => Cardinality(PioLive) = pio_size
  <1>1. ASSUME NEW w \in PioLive PROVE w \in {<<"pio", i>> : i \in 0 .. pio_size - 1}
    <2>1. w \in Workers /\ w[1] = "pio" /\ w[2] < pio_size /\ w[2] \in Nat /\ pio_size \in Nat
      BY WorkersType DEF PioLive, PioThreads, TypeOK
    <2>2. w = <<"pio", w[2]>>
      BY <2>1 DEF Workers, IoWorkers, PioWorkers
    <2>3. w[2] \in 0 .. pio_size - 1
      BY <2>1
    <2> QED
      BY <2>2, <2>3
  <1>2. /\ IsFiniteSet({<<"pio", i>> : i \in 0 .. pio_size - 1})
        /\ Cardinality({<<"pio", i>> : i \in 0 .. pio_size - 1}) = pio_size
    BY PioThreadCount DEF TypeOK
  <1>3. PioLive \in SUBSET {<<"pio", i>> : i \in 0 .. pio_size - 1}
    BY <1>1
  <1>4. ASSUME \A i \in 0 .. pio_size - 1 : <<"pio", i>> \in Workers /\ work[<<"pio", i>>].pc # "gone"
        PROVE  PioLive = {<<"pio", i>> : i \in 0 .. pio_size - 1}
    <2>1. ASSUME NEW i \in 0 .. pio_size - 1 PROVE <<"pio", i>> \in PioLive
      BY <1>4 DEF PioLive
    <2> QED
      BY <1>3, <2>1
  <1> QED
    BY <1>2, <1>3, <1>4, FS_Subset, FS_CardinalityType

-----------------------------------------------------------------------------
\* A step that leaves the pio queue and its threads alone.  (Stop may overtake some Submits.)
PioCalm ==
    /\ UNCHANGED <<s_pio_request_queue, pio_size>> /\ overlapped \subseteq overlapped'
    /\ PioUp' <=> PioUp
    /\ \A w \in Workers : w[1] = "pio" => (work'[w].pc = "gone" <=> work[w].pc = "gone")
    /\ \A c \in Controllers :
        {ctl[c].pc, ctl'[c].pc} \cap {"mark_pio", "join_pio"} # {} => ctl'[c] = ctl[c]
    /\ \A e \in Entries : IsPio(e) /\ StageOf(e)' = "queued" => StageOf(e) = "queued"

\* It keeps what is said of the pio threads.
LEMMA PioCalmStep ==
    ASSUME ServiceInv, GroupSizes, PioInv, PioCalm
    PROVE  PioInv'
  <1>0. \A e : Timely(e)' => Timely(e)
    BY DEF Timely, PioCalm
  <1>1. PioOrder'
    BY <1>0 DEF PioCalm, PioInv, PioOrder
  <1>2. \A i \in 0 .. pio_size - 1 : work'[<<"pio", i>>].pc = "gone" <=> work[<<"pio", i>>].pc = "gone"
    BY LaneType DEF PioCalm
  <1>3. PioDrained'
    BY <1>0, <1>2 DEF PioCalm, PioInv, PioDrained
  <1>4. PioWaits'
    BY <1>0 DEF PioCalm, PioInv, PioWaits
  <1>5. PioThreads'
    BY DEF PioCalm, PioInv, PioThreads
  <1>6. PioLive' = PioLive /\ Exits' = Exits
    BY DEF PioCalm, PioLive, Exits
  <1>7. EndingPio' = EndingPio
    BY DEF PioCalm, EndingPio
  <1>8. PioCount'
    <2>1. EndingPio' = {} =>
            /\ Exits' = {}
            /\ PioUp' => \A i \in 0 .. pio_size' - 1 : work'[<<"pio", i>>].pc # "gone"
      BY <1>2, <1>6, <1>7 DEF PioCalm, PioInv, PioCount
    <2>2. ASSUME NEW c \in Controllers, ctl'[c].pc \in {"mark_pio", "join_pio"}
          PROVE  ctl'[c] = ctl[c] /\ pio_size' = pio_size
      BY <2>2 DEF PioCalm
    <2>3. ASSUME NEW c \in Controllers
          PROVE  /\ ctl'[c].pc = "mark_pio" =>
                        Cardinality(Exits') + pio_size' = Cardinality(PioLive') + ctl'[c].i
                 /\ ctl'[c].pc = "mark_pio" => ctl'[c].i <= pio_size'
                 /\ ctl'[c].pc = "join_pio" => Cardinality(Exits') = Cardinality(PioLive')
      BY <1>6, <2>2 DEF PioInv, PioCount
    <2> QED
      BY <2>1, <2>3 DEF PioCount
  <1> QED
    BY <1>1, <1>3, <1>4, <1>5, <1>8 DEF PioInv

\* The steps that are calm for the pio threads.
LEMMA PioCalmSteps ==
    ASSUME ServiceInv, PlacesInv
    PROVE  /\ \A c \in Controllers :
                StartIo(c) \/ StartDone(c) \/ StopCas(c) \/ StopMarkIo(c) \/ StopJoinIo(c) => PioCalm
           /\ \A c \in Controllers, m \in IoArgs, n \in PioArgs : StartCas(c, m, n) => PioCalm
           /\ \A t \in Clients, r \in Requests : ClientSubmit(t, r) => PioCalm
           /\ \A t \in Submitters : SubmitSize(t) \/ SubmitPushIo(t) \/ SubmitReturn(t) => PioCalm
           /\ \A w \in Workers : PopIo(w) \/ CountCommand(w) \/ Callback(w) => PioCalm
           /\ \A w \in Workers, ret \in {"ok", "failed"} : ProcessCommand(w, ret) => PioCalm
           /\ UNCHANGED vars => PioCalm
  <1>0. TypeOK /\ OneController /\ SubmitSound /\ StageIsFunction /\ ThreadsHaveQueues
    BY DEF ServiceInv, Typed
  <1>a. ASSUME UNCHANGED stage PROVE \A e \in Entries : StageOf(e)' = StageOf(e)
    BY <1>a DEF StageOf
  \* Start and Stop.
  <1>1. ASSUME NEW c \in Controllers,
               StartIo(c) \/ StartDone(c) \/ StopCas(c) \/ StopMarkIo(c) \/ StopJoinIo(c)
        PROVE  PioCalm
    <2>1. PioUp' <=> PioUp
      BY <1>0, <1>1, UpStep
    <2>2. UNCHANGED <<s_pio_request_queue, pio_size, stage>> /\ overlapped \subseteq overlapped'
      BY <1>1 DEF StartIo, StartDone, StopCas, StopMarkIo, StopJoinIo, serviceVars, historyVars
    <2>3. \A w \in Workers : w[1] = "pio" => (work'[w].pc = "gone" <=> work[w].pc = "gone")
      <3>1. CASE StartIo(c)
        BY <1>0, <3>1, SpawnMoves DEF StartIo
      <3>2. CASE StartDone(c) \/ StopCas(c) \/ StopMarkIo(c) \/ StopJoinIo(c)
        BY <3>2 DEF StartDone, StopCas, StopMarkIo, StopJoinIo
      <3> QED
        BY <1>1, <3>1, <3>2
    <2>4. \A d \in Controllers :
            {ctl[d].pc, ctl'[d].pc} \cap {"mark_pio", "join_pio"} # {} => ctl'[d] = ctl[d]
      BY <1>0, <1>1, ControlMoves DEF Moves
    <2> QED
      BY <1>a, <2>1, <2>2, <2>3, <2>4 DEF PioCalm
  <1>2. ASSUME NEW c \in Controllers, NEW m \in IoArgs, NEW n \in PioArgs, StartCas(c, m, n)
        PROVE  PioCalm
    <2>1. PioUp' <=> PioUp
      BY <1>0, <1>2, UpStep
    <2>2. \A d \in Controllers :
            {ctl[d].pc, ctl'[d].pc} \cap {"mark_pio", "join_pio"} # {} => ctl'[d] = ctl[d]
      BY <1>0, <1>2, ControlMoves DEF Moves
    <2> QED
      BY <1>2, <1>a, <2>1, <2>2 DEF StartCas, PioCalm
  \* Clients and workers.
  <1>b. ASSUME UNCHANGED <<ctl, s_state, pio_size, overlapped, s_pio_request_queue>>,
               \A w \in Workers : w[1] = "pio" => (work'[w].pc = "gone" <=> work[w].pc = "gone"),
               \A e \in Entries : IsPio(e) /\ StageOf(e)' = "queued" => StageOf(e) = "queued"
        PROVE  PioCalm
    BY <1>b DEF PioCalm, PioUp
  <1>3. ASSUME NEW t \in Clients, NEW r \in Requests, ClientSubmit(t, r) PROVE PioCalm
    BY <1>3, <1>a, <1>b DEF ClientSubmit, serviceVars, historyVars
  <1>4. ASSUME NEW t \in Submitters, SubmitSize(t) PROVE PioCalm
    BY <1>4, <1>a, <1>b DEF SubmitSize, serviceVars, historyVars
  <1>5. ASSUME NEW t \in Submitters, SubmitPushIo(t) PROVE PioCalm
    <2>1. \A e \in Entries : IsPio(e) /\ StageOf(e)' = "queued" => StageOf(e) = "queued"
      <3>1. CASE UNCHANGED stage
        BY <1>a, <3>1
      <3>2. CASE Queued(t)
        <4>1. /\ sub[t].req \in Requests /\ sub[t].idx \in DOMAIN CmdsOf[sub[t].req]
              /\ ~IsPio(<<sub[t].req, sub[t].idx>>)
          BY <1>0, <1>5, SubmitEntry DEF SubmitPushIo, SubmitSound, Cmd, IsPio
        <4>2. StageMoves(sub[t].req, sub[t].idx, "queued")
          BY <1>0, <3>2, <4>1, StageStep DEF Queued, Stages
        <4> QED
          BY <4>1, <4>2, StageKept
      <3> QED
        BY <1>5, <3>1, <3>2 DEF SubmitPushIo
    <2> QED
      BY <1>5, <1>b, <2>1 DEF SubmitPushIo
  <1>6. ASSUME NEW t \in Submitters, SubmitReturn(t) PROVE PioCalm
    <2>1. \A w \in Workers : work'[w].pc = "gone" <=> work[w].pc = "gone"
      <3>1. CASE t \in Workers
        <4>1. WorkMoves(t, "pop", work[t].e) /\ work[t].pc = "callback"
          BY <1>0, <1>6, <3>1, WorkersMove DEF SubmitReturn, SubmitSound
        <4> QED
          BY <4>1 DEF WorkMoves
      <3>2. CASE t \notin Workers
        BY <1>6, <3>2 DEF SubmitReturn
      <3> QED
        BY <3>1, <3>2
    <2> QED
      BY <1>6, <1>a, <1>b, <2>1 DEF SubmitReturn
  <1>7. ASSUME NEW w \in Workers, PopIo(w) PROVE PioCalm
    <2>1. PICK e \in Entries \cup {Marker} : Take(w, e)
      BY <1>0, <1>7, PopEntry DEF PopIo
    <2>2. \/ WorkMoves(w, "gone", Marker) /\ stage' = stage
          \/ e \in Entries /\ WorkMoves(w, "run", e) /\ StageMoves(e[1], e[2], "running")
      BY <1>0, <2>1, TakeStep
    <2>3. \A v \in Workers : v[1] = "pio" => work'[v] = work[v]
      BY <1>7, <2>2 DEF PopIo, WorkMoves
    <2>4. \A g \in Entries : StageOf(g)' = "queued" => StageOf(g) = "queued"
      <3>1. CASE stage' = stage
        BY <1>a, <3>1
      <3>2. CASE e \in Entries /\ StageMoves(e[1], e[2], "running")
        <4>1. StageOf(e)' = "running"
          BY <3>2 DEF StageOf, StageMoves
        <4>2. \A g \in Entries : g # e => StageOf(g)' = StageOf(g)
          BY <3>2, EntryParts, StageKept
        <4> QED
          BY <4>1, <4>2
      <3> QED
        BY <2>2, <3>1, <3>2
    <2> QED
      BY <1>7, <1>b, <2>3, <2>4 DEF PopIo
  <1>8. ASSUME NEW w \in Workers, CountCommand(w) PROVE PioCalm
    <2>1. work[w].pc = "count" /\ \E p \in {"pop", "callback"} : WorkMoves(w, p, work[w].e)
      BY <1>0, <1>8, WorkersMove DEF CountCommand
    <2>2. \A v \in Workers : work'[v].pc = "gone" <=> work[v].pc = "gone"
      BY <2>1 DEF WorkMoves
    <2> QED
      BY <1>8, <1>a, <1>b, <2>2 DEF CountCommand, serviceVars, historyVars
  <1>9. ASSUME NEW w \in Workers, Callback(w) PROVE PioCalm
    <2>1. UNCHANGED work \/ WorkMoves(w, "pop", work[w].e)
      BY <1>0, <1>9, WorkersMove DEF Callback
    <2>2. \A v \in Workers : work'[v].pc = "gone" <=> work[v].pc = "gone"
      BY <1>9, <2>1 DEF WorkMoves, Callback
    <2> QED
      BY <1>9, <1>a, <1>b, <2>2 DEF Callback, serviceVars
  <1>10. ASSUME NEW w \in Workers, NEW ret \in {"ok", "failed"}, ProcessCommand(w, ret) PROVE PioCalm
    <2>1. work[w].pc = "run" /\ WorkMoves(w, "count", work[w].e) /\ work[w].e \in Entries
      BY <1>0, <1>10, WorkersMove DEF ProcessCommand, ThreadsHaveQueues
    <2>2. \A v \in Workers : work'[v].pc = "gone" <=> work[v].pc = "gone"
      BY <2>1 DEF WorkMoves
    <2>p. PICK e \in Entries : e = work[w].e
      BY <2>1
    <2>3. StageMoves(e[1], e[2], ret)
      <3>1. e[1] \in Requests /\ e[2] \in DOMAIN CmdsOf[e[1]] /\ ret \in Stages
        BY EntryParts DEF Stages
      <3>2. stage' = [stage EXCEPT ![e[1]][e[2]] = ret]
        BY <1>10, <2>p DEF ProcessCommand
      <3> QED
        BY <1>0, <3>1, <3>2, StageStep
    <2>4. StageOf(e)' = ret
      BY <2>3 DEF StageOf, StageMoves
    <2>5. \A g \in Entries : g # e => StageOf(g)' = StageOf(g)
      BY <2>3, EntryParts, StageKept
    <2>6. \A g \in Entries : StageOf(g)' = "queued" => StageOf(g) = "queued"
      BY <2>4, <2>5
    <2> QED
      BY <1>10, <1>b, <2>2, <2>6 DEF ProcessCommand, serviceVars
  <1>11. UNCHANGED vars => PioCalm
    BY <1>a, <1>b DEF vars, serviceVars, historyVars
  <1> QED
    BY <1>1, <1>2, <1>3, <1>4, <1>5, <1>6, <1>7, <1>8, <1>9, <1>10, <1>11

-----------------------------------------------------------------------------
\* The queue a is s with e at its end.
Grown(a, s, e) ==
    /\ \A k \in DOMAIN s : k \in DOMAIN a /\ a[k] = s[k]
    /\ \A k \in DOMAIN a : IF k \in DOMAIN s THEN a[k] = s[k]
                          ELSE a[k] = e /\ \A l \in DOMAIN a : ~(k < l)
    /\ \E k \in DOMAIN a : a[k] = e

\* Push to a queue, place by place, seen from either side.
LEMMA GrownPlaces ==
    ASSUME NEW s \in Queue, NEW e \in Entries \cup {Marker}
    PROVE  Grown(Append(s, e), s, e)
  <1>0. s \in Seq(Entries \cup {Marker}) /\ Len(s) \in Nat /\ DOMAIN s = 1 .. Len(s)
    BY DEF Queue
  <1>1. Append(s, e) \in Seq(Entries \cup {Marker})
    BY <1>0
  <1>2. PICK a \in Seq(Entries \cup {Marker}) : a = Append(s, e)
    BY <1>1
  <1>3. /\ DOMAIN a = 1 .. Len(s) + 1 /\ a[Len(s) + 1] = e
        /\ \A k \in 1 .. Len(s) : a[k] = s[k]
    BY <1>0, <1>2
  <1>4. Len(s) + 1 \in DOMAIN a /\ \A k \in DOMAIN a : k \in 1 .. Len(s) \/ k = Len(s) + 1
    BY <1>0, <1>3
  <1>5. \A k \in DOMAIN a : k = Len(s) + 1 => a[k] = e /\ \A l \in DOMAIN a : ~(k < l)
    BY <1>0, <1>3
  <1>6. Grown(a, s, e)
    BY <1>0, <1>3, <1>4, <1>5 DEF Grown
  <1> QED
    BY <1>2, <1>6

\* Start makes the pio threads: there are as many as the group has, and no empty request
\* of an earlier Stop waits for them.
LEMMA StartPioStep ==
    ASSUME ServiceInv, GroupSizes, PioInv, NEW c \in Controllers, StartPio(c)
    PROVE  PioInv'
  <1>0. TypeOK /\ OneController /\ ThreadsHaveQueues
    BY DEF ServiceInv, Typed
  <1>1. /\ pio_size' = ctl[c].pio /\ Spawn("pio", ctl[c].pio)
        /\ UNCHANGED <<s_pio_request_queue, overlapped, stage>>
        /\ ~PioUp /\ PioUp' /\ Moves(c, "spawn_pio", "started")
    BY <1>0, UpStep, ControlMoves DEF StartPio, historyVars
  <1>2. \A i \in 0 .. pio_size' - 1 : <<"pio", i>> \in Workers /\ work'[<<"pio", i>>].pc = "pop"
    <2>1. ctl[c].pio \in PioSizes /\ ctl[c].pio \in Nat
      BY <1>0, <1>1 DEF GroupSizes, Moves, TypeOK, CtlState
    <2>2. ASSUME NEW i \in 0 .. ctl[c].pio - 1 PROVE <<"pio", i>> \in Workers
      BY <2>1 DEF PioSizes, Workers, PioWorkers
    <2>3. ASSUME NEW i \in 0 .. ctl[c].pio - 1
          PROVE  <<"pio", i>>[1] = "pio" /\ <<"pio", i>>[2] < ctl[c].pio
      BY <2>1
    <2> QED
      BY <1>0, <1>1, <2>2, <2>3, SpawnMoves
  <1>3. \A w \in Workers : w[1] = "pio" /\ work'[w].pc # "gone" => w[2] < pio_size'
    <2>1. \A w \in Workers : w[1] = "pio" => work[w].pc = "gone"
      BY <1>0, <1>1 DEF ThreadsHaveQueues
    <2> QED
      BY <1>0, <1>1, <2>1, SpawnMoves
  <1>4. EndingPio = {} /\ EndingPio' = {}
    <2>1. \A d \in Controllers \ {c} : ctl[d].pc = "idle"
      BY <1>0, <1>1 DEF Moves, OneController
    <2> QED
      BY <1>1, <2>1 DEF Moves, EndingPio
  <1>5. (\A g : Timely(g)' = Timely(g)) /\ (\A g : StageOf(g)' = StageOf(g)) /\ Exits' = Exits
    BY <1>1 DEF Timely, StageOf, Exits
  <1>6. PioOrder' /\ PioWaits'
    BY <1>1, <1>5 DEF PioInv, PioOrder, PioWaits
  <1>7. PioDrained'
    BY <1>1, <1>2 DEF PioDrained
  <1>8. PioThreads'
    BY <1>3 DEF PioThreads
  <1>9. PioCount'
    BY <1>2, <1>4, <1>5 DEF PioInv, PioCount, EndingPio
  <1> QED
    BY <1>6, <1>7, <1>8, <1>9 DEF PioInv

\* Stop turns to the pio threads: all of them live, and there is no empty request yet.
LEMMA StopDeleteStep ==
    ASSUME ServiceInv, GroupSizes, PioInv, NEW c \in Controllers, StopDelete(c)
    PROVE  PioInv'
  <1>0. TypeOK /\ OneController
    BY DEF ServiceInv, Typed
  <1>1. /\ UNCHANGED <<s_pio_request_queue, overlapped, stage, pio_size, work>>
        /\ PioUp /\ PioUp' /\ Moves(c, "delete", "mark_pio") /\ ctl'[c].i = 0
    <2>1. ctl'[c].i = 0
      BY <1>0 DEF StopDelete, TypeOK, CtlState
    <2> QED
      BY <1>0, <2>1, UpStep, ControlMoves DEF StopDelete, historyVars
  <1>2. \A d \in Controllers \ {c} : ctl[d].pc = "idle" /\ ctl'[d].pc = "idle"
    BY <1>0, <1>1 DEF Moves, OneController
  <1>3. EndingPio = {} /\ c \in EndingPio'
    BY <1>1, <1>2 DEF Moves, EndingPio
  <1>4. Exits = {} /\ \A i \in 0 .. pio_size - 1 : work[<<"pio", i>>].pc # "gone"
    BY <1>1, <1>3 DEF PioInv, PioCount
  <1>5. Cardinality(Exits) = 0 /\ Cardinality(PioLive) = pio_size /\ pio_size \in Nat
    BY <1>0, <1>4, FS_EmptySet, PioLiveCount, LaneType DEF PioInv, TypeOK
  <1>6. /\ (\A g : Timely(g)' = Timely(g)) /\ (\A g : StageOf(g)' = StageOf(g))
        /\ Exits' = Exits /\ PioLive' = PioLive
    BY <1>1 DEF Timely, StageOf, Exits, PioLive
  <1>7. PioOrder' /\ PioWaits' /\ PioDrained' /\ PioThreads'
    BY <1>1, <1>6 DEF PioInv, PioOrder, PioWaits, PioDrained, PioThreads
  <1>8. PioCount'
    BY <1>1, <1>2, <1>3, <1>5, <1>6 DEF PioCount, Moves
  <1> QED
    BY <1>7, <1>8 DEF PioInv

\* Stop pushes one empty request per pio thread.
LEMMA MarkPioStep ==
    ASSUME ServiceInv, PioInv, NEW c \in Controllers, StopMarkPio(c)
    PROVE  PioInv'
  <1>0. TypeOK /\ OneController
    BY DEF ServiceInv, Typed
  <1>1. /\ UNCHANGED <<overlapped, stage, pio_size, work>> /\ PioUp /\ PioUp'
        /\ (Moves(c, "mark_pio", "mark_pio") \/ Moves(c, "mark_pio", "join_pio"))
    BY <1>0, UpStep, ControlMoves DEF StopMarkPio, historyVars
  <1>2. \A d \in Controllers \ {c} : ctl[d].pc = "idle" /\ ctl'[d].pc = "idle"
    BY <1>0, <1>1 DEF Moves, OneController
  <1>3. c \in EndingPio' /\ PioLive' = PioLive
    BY <1>1 DEF Moves, EndingPio, PioLive
  <1>4. (\A g : Timely(g)' = Timely(g)) /\ (\A g : StageOf(g)' = StageOf(g))
    BY <1>1 DEF Timely, StageOf
  <1>5. /\ Cardinality(Exits) \in Nat /\ Cardinality(PioLive) \in Nat /\ pio_size \in Nat /\ ctl[c].i \in Nat
        /\ Cardinality(Exits) + pio_size = Cardinality(PioLive) + ctl[c].i /\ ctl[c].i <= pio_size
    BY <1>0, <1>1, MarkerCounts, PioLiveCount DEF PioInv, PioCount, Exits, TypeOK, CtlState, Moves
  <1>6. PioThreads'
    BY <1>1 DEF PioInv, PioThreads
  <1>7. CASE ctl[c].i < pio_size
    <2>1. /\ s_pio_request_queue' = Append(s_pio_request_queue, Marker)
          /\ ctl'[c].pc = "mark_pio" /\ ctl'[c].i = ctl[c].i + 1
      BY <1>0, <1>7 DEF StopMarkPio, TypeOK, CtlState
    <2>g. Grown(s_pio_request_queue', s_pio_request_queue, Marker)
      BY <1>0, <2>1, GrownPlaces DEF TypeOK
    <2>2. \A k \in DOMAIN s_pio_request_queue :
            k \in DOMAIN s_pio_request_queue' /\ s_pio_request_queue'[k] = s_pio_request_queue[k]
      BY <2>g DEF Grown
    <2>3. \A k \in DOMAIN s_pio_request_queue' :
            IF k \in DOMAIN s_pio_request_queue THEN s_pio_request_queue'[k] = s_pio_request_queue[k]
            ELSE s_pio_request_queue'[k] = Marker
      BY <2>g DEF Grown
    <2>4. ~Timely(Marker)
      BY DEF Timely
    <2>5. PioDrained'
      BY <1>1, <1>4, <2>3, <2>4 DEF PioInv, PioDrained
    <2>6. PioOrder'
      <3> SUFFICES ASSUME NEW k \in DOMAIN s_pio_request_queue', NEW l \in DOMAIN s_pio_request_queue',
                          k < l, s_pio_request_queue'[k] = Marker, Timely(s_pio_request_queue'[l])
                   PROVE  FALSE
        BY <1>4 DEF PioOrder
      <3>1. l \in DOMAIN s_pio_request_queue /\ s_pio_request_queue'[l] = s_pio_request_queue[l]
        BY <2>3, <2>4
      <3>2. k \in DOMAIN s_pio_request_queue
        BY <2>g, <3>1 DEF Grown
      <3> QED
        BY <2>3, <3>1, <3>2 DEF PioInv, PioOrder
    <2>7. PioWaits'
      BY <1>4, <2>2 DEF PioInv, PioWaits
    <2>8. Cardinality(Exits') = Cardinality(Exits) + 1
      BY <1>0, <2>1, MarkerCounts DEF Exits, TypeOK
    <2>9. Cardinality(Exits') + pio_size = Cardinality(PioLive) + ctl'[c].i /\ ctl'[c].i <= pio_size
      <3>1. \A x, y, z, i \in Nat : x + z = y + i /\ i < z => (x + 1) + z = y + (i + 1) /\ i + 1 <= z
        OBVIOUS
      <3>2. PICK x \in Nat : x = Cardinality(Exits)
        BY <1>5
      <3>3. PICK y \in Nat : y = Cardinality(PioLive)
        BY <1>5
      <3>4. PICK i \in Nat : i = ctl[c].i
        BY <1>5
      <3>5. pio_size \in Nat /\ x + pio_size = y + i /\ i < pio_size
        BY <1>5, <1>7, <3>2, <3>3, <3>4
      <3>6. (x + 1) + pio_size = y + (i + 1) /\ i + 1 <= pio_size
        BY <3>1, <3>5
      <3>7. Cardinality(Exits') = x + 1 /\ ctl'[c].i = i + 1
        BY <2>1, <2>8, <3>2, <3>4
      <3> QED
        BY <3>3, <3>6, <3>7
    <2>10. PioCount'
      BY <1>1, <1>2, <1>3, <2>1, <2>9 DEF PioCount
    <2> QED
      BY <1>6, <2>5, <2>6, <2>7, <2>10 DEF PioInv
  <1>8. CASE ~(ctl[c].i < pio_size)
    <2>1. s_pio_request_queue' = s_pio_request_queue /\ ctl'[c].pc = "join_pio"
      BY <1>0, <1>8 DEF StopMarkPio, TypeOK, CtlState
    <2>2. Exits' = Exits
      BY <2>1 DEF Exits
    <2>3. Cardinality(Exits) = Cardinality(PioLive)
      BY <1>5, <1>8
    <2>4. PioCount'
      BY <1>1, <1>2, <1>3, <2>1, <2>2, <2>3 DEF PioCount
    <2>5. PioOrder' /\ PioWaits' /\ PioDrained'
      BY <1>1, <1>4, <2>1 DEF PioInv, PioOrder, PioWaits, PioDrained
    <2> QED
      BY <1>6, <2>4, <2>5 DEF PioInv
  <1> QED
    BY <1>7, <1>8

\* Stop returns: every pio thread has ended on an empty request, and each of these has ended one.
LEMMA StopDoneStep ==
    ASSUME ServiceInv, GroupSizes, PioInv, NEW c \in Controllers, StopDone(c)
    PROVE  PioInv'
  <1>0. TypeOK /\ OneController
    BY DEF ServiceInv, Typed
  <1>1. /\ UNCHANGED <<s_pio_request_queue, overlapped, stage, pio_size, work>> /\ PioUp /\ ~PioUp'
        /\ Moves(c, "join_pio", "idle") /\ Joined("pio")
    BY <1>0, UpStep, ControlMoves DEF StopDone, historyVars
  <1>2. \A d \in Controllers : ctl'[d].pc = "idle"
    BY <1>0, <1>1 DEF Moves, OneController
  <1>3. Exits = {}
    <2>1. PioLive = {}
      BY <1>1 DEF PioLive, Joined
    <2>2. Cardinality(Exits) = 0
      BY <1>1, <2>1, FS_EmptySet DEF PioInv, PioCount, Moves
    <2>3. IsFiniteSet(Exits)
      BY <1>0, MarkerCounts DEF Exits, TypeOK
    <2> QED
      BY <2>2, <2>3, FS_EmptySet
  <1>4. \A k \in DOMAIN s_pio_request_queue : ~Timely(s_pio_request_queue[k])
    <2>1. pio_size > 0 /\ pio_size \in Nat
      BY <1>0, <1>1 DEF GroupSizes, TypeOK
    <2>2. 0 \in 0 .. pio_size - 1
      BY <2>1
    <2>3. <<"pio", 0>> \in Workers
      BY <2>2, LaneType
    <2>4. work[<<"pio", 0>>].pc = "gone"
      BY <1>1, <2>3 DEF Joined
    <2> QED
      BY <2>2, <2>4 DEF PioInv, PioDrained
  <1>5. (\A g : Timely(g)' = Timely(g)) /\ (\A g : StageOf(g)' = StageOf(g)) /\ Exits' = Exits
    BY <1>1 DEF Timely, StageOf, Exits
  <1>6. PioOrder' /\ PioWaits' /\ PioThreads' /\ PioDrained'
    BY <1>1, <1>4, <1>5 DEF PioInv, PioOrder, PioWaits, PioThreads, PioDrained
  <1>7. PioCount'
    BY <1>1, <1>2, <1>3, <1>5 DEF PioCount
  <1> QED
    BY <1>6, <1>7 DEF PioInv

-----------------------------------------------------------------------------
\* A Submit that no Stop overtook pushes behind no empty request, to living threads.
LEMMA PushPioStep ==
    ASSUME ServiceInv, GroupSizes, PlacesInv, PioInv, NEW t \in Submitters, SubmitPushPio(t)
    PROVE  PioInv'
  <1>0. TypeOK /\ OneController /\ SubmitSound /\ StageIsFunction
    BY DEF ServiceInv, Typed
  <1>1. PICK e \in Entries : e = <<sub[t].req, sub[t].idx>>
    BY <1>0, SubmitEntry DEF SubmitPushPio
  <1>2. /\ UNCHANGED <<overlapped, pio_size, work, ctl, s_state>> /\ (PioUp' <=> PioUp)
        /\ s_pio_request_queue' = Append(s_pio_request_queue, e)
    BY <1>1 DEF SubmitPushPio, PioUp
  <1>3. \A g \in Entries : g # e => StageOf(g)' = StageOf(g)
    <2>1. sub[t].req \in Requests /\ sub[t].idx \in DOMAIN CmdsOf[sub[t].req] /\ Queued(t)
      BY <1>0, SubmitEntry DEF SubmitPushPio
    <2>2. StageMoves(sub[t].req, sub[t].idx, "queued")
      BY <1>0, <2>1, StageStep DEF Queued, Stages
    <2> QED
      BY <1>1, <2>2, StageKept
  <1>4. /\ \A k \in DOMAIN s_pio_request_queue :
                k \in DOMAIN s_pio_request_queue' /\ s_pio_request_queue'[k] = s_pio_request_queue[k]
        /\ \A k \in DOMAIN s_pio_request_queue' :
                IF k \in DOMAIN s_pio_request_queue THEN s_pio_request_queue'[k] = s_pio_request_queue[k]
                ELSE s_pio_request_queue'[k] = e /\ \A l \in DOMAIN s_pio_request_queue' : ~(k < l)
        /\ \E k \in DOMAIN s_pio_request_queue' : s_pio_request_queue'[k] = e
    <2>1. Grown(s_pio_request_queue', s_pio_request_queue, e)
      BY <1>0, <1>2, GrownPlaces DEF TypeOK
    <2> QED
      BY <2>1 DEF Grown
  <1>5. \A g : Timely(g)' = Timely(g)
    BY <1>2 DEF Timely
  <1>6. Timely(e) => s_state = "STARTED"
    BY <1>0, <1>1 DEF Timely, SubmitSound, SubmitPushPio
  <1>7. s_state = "STARTED" =>
            Exits = {} /\ PioUp /\ \A i \in 0 .. pio_size - 1 : work[<<"pio", i>>].pc # "gone"
    <2>1. s_state = "STARTED" => EndingPio = {} /\ PioUp
      BY <1>0 DEF OneController, EndingPio, PioUp
    <2> QED
      BY <2>1 DEF PioInv, PioCount
  <1>8. Exits' = Exits /\ PioLive' = PioLive /\ EndingPio' = EndingPio
    BY <1>0, <1>2, MarkerCounts DEF Exits, PioLive, EndingPio, TypeOK
  <1>9. e # Marker
    BY EntryParts
  <1>10. PioOrder'
    <2> SUFFICES ASSUME NEW k \in DOMAIN s_pio_request_queue', NEW l \in DOMAIN s_pio_request_queue',
                        k < l, s_pio_request_queue'[k] = Marker, Timely(s_pio_request_queue'[l])
                 PROVE  FALSE
      BY <1>5 DEF PioOrder
    <2>1. k \in DOMAIN s_pio_request_queue /\ s_pio_request_queue[k] = Marker
      BY <1>4, <1>9
    <2>2. CASE l \in DOMAIN s_pio_request_queue
      BY <1>4, <2>1, <2>2 DEF PioInv, PioOrder
    <2>3. CASE l \notin DOMAIN s_pio_request_queue
      BY <1>4, <1>6, <1>7, <2>1, <2>3 DEF Exits, MarkersIn
    <2> QED
      BY <2>2, <2>3
  <1>11. PioDrained'
    <2> SUFFICES ASSUME ~PioUp \/ \E i \in 0 .. pio_size - 1 : work[<<"pio", i>>].pc = "gone",
                        NEW k \in DOMAIN s_pio_request_queue'
                 PROVE  ~Timely(s_pio_request_queue'[k])
      BY <1>2, <1>5 DEF PioDrained
    <2>1. ~Timely(e)
      BY <1>6, <1>7
    <2> QED
      BY <1>4, <2>1 DEF PioInv, PioDrained
  <1>12. PioWaits'
    <2> SUFFICES ASSUME NEW g \in Entries, IsPio(g), Timely(g), StageOf(g)' = "queued"
                 PROVE  \E k \in DOMAIN s_pio_request_queue' : s_pio_request_queue'[k] = g
      BY <1>5 DEF PioWaits
    <2>1. CASE g = e
      BY <1>4, <2>1
    <2>2. CASE g # e
      BY <1>3, <1>4, <2>2 DEF PioInv, PioWaits
    <2> QED
      BY <2>1, <2>2
  <1>13. PioThreads'
    BY <1>2 DEF PioInv, PioThreads
  <1>14. PioCount'
    BY <1>2, <1>8 DEF PioInv, PioCount
  <1> QED
    BY <1>10, <1>11, <1>12, <1>13, <1>14 DEF PioInv

\* A pio thread takes a command, or ends on an empty request.
LEMMA PopPioStep ==
    ASSUME ServiceInv, GroupSizes, PlacesInv, PioInv, NEW w \in Workers, PopPio(w)
    PROVE  PioInv'
  <1>0. TypeOK /\ OneController /\ StageIsFunction /\ ThreadsHaveQueues
    BY DEF ServiceInv, Typed
  <1>1. PICK e \in Entries \cup {Marker} :
            /\ e = Head(s_pio_request_queue) /\ s_pio_request_queue # <<>>
            /\ s_pio_request_queue' = Tail(s_pio_request_queue) /\ Take(w, e)
    BY <1>0, PopEntry DEF PopPio
  <1>2. /\ UNCHANGED <<overlapped, pio_size, ctl, s_state>> /\ (PioUp' <=> PioUp)
        /\ w[1] = "pio" /\ work[w].pc = "pop" /\ PioUp
    BY <1>0 DEF PopPio, PioUp, ThreadsHaveQueues
  <1>3. \/ e = Marker /\ WorkMoves(w, "gone", Marker) /\ stage' = stage
        \/ e \in Entries /\ WorkMoves(w, "run", e) /\ StageMoves(e[1], e[2], "running")
    BY <1>0, <1>1, TakeStep
  <1>4. /\ 1 \in DOMAIN s_pio_request_queue /\ s_pio_request_queue[1] = e
        /\ \A k \in DOMAIN s_pio_request_queue' :
                /\ k \in Nat /\ k > 0 /\ k + 1 \in DOMAIN s_pio_request_queue
                /\ s_pio_request_queue'[k] = s_pio_request_queue[k + 1]
    BY <1>0, <1>1, TailPlaces DEF TypeOK
  <1>5. \A k \in DOMAIN s_pio_request_queue : k = 1 \/ (k - 1 \in DOMAIN s_pio_request_queue'
                /\ s_pio_request_queue'[k - 1] = s_pio_request_queue[k])
    <2>1. ASSUME NEW s \in Seq(Entries \cup {Marker}), s # <<>>
          PROVE  \A k \in DOMAIN s : k = 1 \/ (k - 1 \in DOMAIN Tail(s) /\ Tail(s)[k - 1] = s[k])
      <3>1. /\ Len(s) \in Nat /\ Len(s) > 0 /\ DOMAIN s = 1 .. Len(s) /\ DOMAIN Tail(s) = 1 .. Len(s) - 1
            /\ \A k \in 1 .. Len(s) - 1 : Tail(s)[k] = s[k + 1]
        BY <2>1
      <3>2. ASSUME NEW k \in 1 .. Len(s), k # 1
            PROVE  k - 1 \in 1 .. Len(s) - 1 /\ (k - 1) + 1 = k
        BY <3>1, <3>2
      <3> QED
        BY <3>1, <3>2
    <2> QED
      BY <1>0, <1>1, <2>1 DEF TypeOK, Queue
  <1>6. \A g : Timely(g)' = Timely(g)
    BY <1>2 DEF Timely
  <1>7. \A v \in Workers \ {w} : work'[v] = work[v]
    BY <1>3 DEF WorkMoves
  <1>8. PioOrder'
    <2> SUFFICES ASSUME NEW k \in DOMAIN s_pio_request_queue', NEW l \in DOMAIN s_pio_request_queue',
                        k < l, s_pio_request_queue'[k] = Marker, Timely(s_pio_request_queue'[l])
                 PROVE  FALSE
      BY <1>6 DEF PioOrder
    <2>1. k \in Nat /\ l \in Nat /\ k + 1 < l + 1
      BY <1>4
    <2> QED
      BY <1>4, <2>1 DEF PioInv, PioOrder
  \* Behind an empty request there is no timely command.
  <1>9. PioDrained'
    <2>1. CASE e = Marker
      <3>1. \A k \in DOMAIN s_pio_request_queue' : 1 < k + 1
        BY <1>4
      <3>2. \A k \in DOMAIN s_pio_request_queue' : ~Timely(s_pio_request_queue'[k])
        BY <1>4, <2>1, <3>1 DEF PioInv, PioOrder
      <3> QED
        BY <1>6, <3>2 DEF PioDrained
    <2>2. CASE e # Marker
      <3>1. \A v \in Workers : work'[v].pc = "gone" => work[v].pc = "gone"
        BY <1>3, <1>7, <2>2 DEF WorkMoves
      <3>2. ASSUME NEW i \in 0 .. pio_size - 1, work'[<<"pio", i>>].pc = "gone"
            PROVE  work[<<"pio", i>>].pc = "gone"
        BY <3>1, <3>2, LaneType
      <3> QED
        BY <1>2, <1>4, <1>6, <3>2 DEF PioInv, PioDrained
    <2> QED
      BY <2>1, <2>2
  <1>10. PioWaits'
    <2> SUFFICES ASSUME NEW g \in Entries, IsPio(g), Timely(g), StageOf(g)' = "queued"
                 PROVE  \E k \in DOMAIN s_pio_request_queue' : s_pio_request_queue'[k] = g
      BY <1>6 DEF PioWaits
    <2>1. g # e /\ StageOf(g) = "queued"
      <3>1. CASE e = Marker
        BY <1>3, <3>1, EntryParts DEF StageOf
      <3>2. CASE e # Marker
        <4>1. e \in Entries /\ StageMoves(e[1], e[2], "running")
          BY <1>3, <3>2
        <4>2. StageOf(e)' = "running"
          BY <4>1 DEF StageMoves, StageOf
        <4> QED
          BY <4>1, <4>2, EntryParts, StageKept
      <3> QED
        BY <3>1, <3>2
    <2>2. PICK k \in DOMAIN s_pio_request_queue : s_pio_request_queue[k] = g
      BY <2>1 DEF PioInv, PioWaits
    <2> QED
      BY <1>4, <1>5, <2>1, <2>2
  <1>11. PioThreads'
    BY <1>2, <1>7 DEF PioInv, PioThreads
  <1>12. EndingPio' = EndingPio
    BY <1>2 DEF EndingPio
  \* The thread that ends takes its empty request with it.
  <1>13. CASE e = Marker
    <2>1. /\ IsFiniteSet(PioLive) /\ Cardinality(PioLive) \in Nat /\ Cardinality(Exits) \in Nat
          /\ Cardinality(Exits') = Cardinality(Exits) - 1
      BY <1>0, <1>1, <1>13, PioLiveCount, MarkerCounts DEF PioInv, Exits, TypeOK
    <2>2. PioLive' = PioLive \ {w} /\ w \in PioLive
      <3>1. work'[w].pc = "gone"
        BY <1>3, <1>13, EntryParts DEF WorkMoves
      <3> QED
        BY <1>2, <1>7, <3>1 DEF PioLive
    <2>3. Cardinality(PioLive') = Cardinality(PioLive) - 1
      BY <2>1, <2>2, FS_RemoveElement
    <2>4. EndingPio # {}
      <3>1. 1 \in Exits
        BY <1>4, <1>13 DEF Exits, MarkersIn
      <3> QED
        BY <3>1 DEF PioInv, PioCount
    <2>5. PICK x \in Nat, y \in Nat, x1 \in Int, y1 \in Int :
            /\ x = Cardinality(Exits) /\ y = Cardinality(PioLive)
            /\ x1 = Cardinality(Exits') /\ y1 = Cardinality(PioLive') /\ x1 = x - 1 /\ y1 = y - 1
      BY <2>1, <2>3
    <2>6. ASSUME NEW c \in Controllers
          PROVE  /\ ctl[c].pc = "mark_pio" => x1 + pio_size = y1 + ctl[c].i
                 /\ ctl[c].pc = "mark_pio" => ctl[c].i <= pio_size
                 /\ ctl[c].pc = "join_pio" => x1 = y1
      <3>1. pio_size \in Nat /\ ctl[c].i \in Nat
        BY <1>0 DEF TypeOK, CtlState
      <3>2. /\ ctl[c].pc = "mark_pio" => x + pio_size = y + ctl[c].i
            /\ ctl[c].pc = "mark_pio" => ctl[c].i <= pio_size
            /\ ctl[c].pc = "join_pio" => x = y
        BY <2>5 DEF PioInv, PioCount
      <3> QED
        BY <2>5, <3>1, <3>2
    <2>7. PioCount'
      BY <1>2, <1>12, <2>4, <2>5, <2>6 DEF PioCount
    <2> QED
      BY <1>8, <1>9, <1>10, <1>11, <2>7 DEF PioInv
  <1>14. CASE e # Marker
    <2>1. Cardinality(Exits') = Cardinality(Exits) /\ (Exits = {} => Exits' = {})
      <3>1. Cardinality(Exits') = Cardinality(Exits)
        BY <1>0, <1>1, <1>14, MarkerCounts DEF Exits, TypeOK
      <3>2. Exits = {} => Exits' = {}
        BY <1>4 DEF Exits, MarkersIn
      <3> QED
        BY <3>1, <3>2
    <2>2. \A v \in Workers : work'[v].pc = "gone" <=> work[v].pc = "gone"
      BY <1>2, <1>3, <1>7, <1>14 DEF WorkMoves
    <2>3. PioLive' = PioLive
      BY <2>2 DEF PioLive
    <2>4. ASSUME NEW i \in 0 .. pio_size - 1, work[<<"pio", i>>].pc # "gone"
          PROVE  work'[<<"pio", i>>].pc # "gone"
      BY <2>2, <2>4, LaneType
    <2>5. PioCount'
      BY <1>2, <1>12, <2>1, <2>3, <2>4 DEF PioInv, PioCount
    <2> QED
      BY <1>8, <1>9, <1>10, <1>11, <2>5 DEF PioInv
  <1> QED
    BY <1>13, <1>14

\* Every step keeps the pio queue and its threads in order.
LEMMA PioStep ==
    ASSUME ServiceInv, GroupSizes, PlacesInv, PioInv, [Next]_vars
    PROVE  PioInv'
  <1>c. PioCalm => PioInv'
    BY PioCalmStep
  <1>1. ASSUME NEW c \in Controllers, Control(c) \/ StopCas(c) PROVE PioInv'
    BY <1>1, <1>c, PioCalmSteps, StartPioStep, StopDeleteStep, MarkPioStep, StopDoneStep DEF Control
  <1>2. ASSUME NEW c \in Controllers, NEW m \in IoArgs, NEW n \in PioArgs, StartCas(c, m, n)
        PROVE  PioInv'
    BY <1>2, <1>c, PioCalmSteps
  <1>3. ASSUME NEW t \in Clients, NEW r \in Requests, ClientSubmit(t, r) PROVE PioInv'
    BY <1>3, <1>c, PioCalmSteps
  <1>4. ASSUME NEW t \in Submitters, SubmitStep(t) PROVE PioInv'
    BY <1>4, <1>c, PioCalmSteps, PushPioStep DEF SubmitStep
  <1>5. ASSUME NEW w \in Workers, WorkerStep(w) PROVE PioInv'
    BY <1>5, <1>c, PioCalmSteps, PopPioStep DEF WorkerStep
  <1>6. CASE UNCHANGED vars
    BY <1>6, <1>c, PioCalmSteps
  <1> QED
    BY <1>1, <1>2, <1>3, <1>4, <1>5, <1>6 DEF Next

-----------------------------------------------------------------------------
\* No command is new again.
LEMMA NewBehind ==
    ASSUME ServiceInv, PlacesInv, [Next]_vars
    PROVE  \A r \in Requests : \A i \in DOMAIN CmdsOf[r] : stage[r][i] # "new" => stage'[r][i] # "new"
  <1>0. TypeOK /\ SubmitSound /\ StageIsFunction /\ ThreadsHaveQueues
    BY DEF ServiceInv, Typed
  <1> DEFINE Kept == \A r \in Requests : \A i \in DOMAIN CmdsOf[r] :
                        stage[r][i] # "new" => stage'[r][i] # "new"
  <1>a. ASSUME UNCHANGED stage PROVE Kept
    BY <1>a
  <1>b. ASSUME NEW r \in Requests, NEW i, NEW x, StageMoves(r, i, x), x # "new" PROVE Kept
    BY <1>b DEF StageMoves
  <1>1. ASSUME Quiet PROVE Kept
    BY <1>1, <1>a DEF Quiet
  <1>2. ASSUME NEW t \in Clients, NEW r \in Requests, ClientSubmit(t, r) PROVE Kept
    BY <1>2, <1>a DEF ClientSubmit, historyVars
  <1>3. ASSUME NEW t \in Submitters, SubmitPushIo(t) \/ SubmitPushPio(t) PROVE Kept
    <2>1. sub[t].req \in Requests /\ sub[t].idx \in DOMAIN CmdsOf[sub[t].req]
      BY <1>0, <1>3, SubmitEntry DEF SubmitPushIo, SubmitPushPio, SubmitSound
    <2>2. CASE UNCHANGED stage
      BY <1>a, <2>2
    <2>3. CASE Queued(t)
      BY <1>0, <1>b, <2>1, <2>3, StageStep DEF Queued, Stages
    <2> QED
      BY <1>3, <2>2, <2>3 DEF SubmitPushIo, SubmitPushPio
  <1>4. ASSUME NEW t \in Submitters, SubmitReturn(t) PROVE Kept
    BY <1>4, <1>a DEF SubmitReturn
  <1>5. ASSUME NEW w \in Workers, PopIo(w) \/ PopPio(w) PROVE Kept
    <2>1. PICK e \in Entries \cup {Marker} : Take(w, e)
      BY <1>0, <1>5, PopEntry DEF PopIo, PopPio
    <2> QED
      BY <1>0, <1>a, <1>b, <2>1, TakeStep, EntryParts
  <1>6. ASSUME NEW w \in Workers, CountCommand(w) \/ Callback(w) PROVE Kept
    BY <1>6, <1>a DEF CountCommand, Callback, historyVars
  <1>7. ASSUME NEW w \in Workers, NEW ret \in {"ok", "failed"}, ProcessCommand(w, ret) PROVE Kept
    <2>1. PICK e \in Entries : e = work[w].e
      BY <1>0, <1>7 DEF ProcessCommand, ThreadsHaveQueues
    <2>2. e[1] \in Requests /\ e[2] \in DOMAIN CmdsOf[e[1]] /\ ret \in Stages /\ ret # "new"
      BY EntryParts DEF Stages
    <2>3. stage' = [stage EXCEPT ![e[1]][e[2]] = ret]
      BY <1>7, <2>1 DEF ProcessCommand
    <2>4. StageMoves(e[1], e[2], ret)
      BY <1>0, <2>2, <2>3, StageStep
    <2> QED
      BY <1>b, <2>2, <2>4
  <1> QED
    BY <1>1, <1>2, <1>3, <1>4, <1>5, <1>6, <1>7, QuietSteps DEF Next, SubmitStep, WorkerStep

\* A Submit that goes on, or is over, has left no command out.
LEMMA PushedSoFarStep ==
    ASSUME ServiceInv, PlacesInv, PushedSoFar, [Next]_vars
    PROVE  PushedSoFar'
  <1>0. TypeOK /\ SubmitSound /\ StageIsFunction /\ ThreadsHaveQueues
    BY DEF ServiceInv, Typed
  <1>n. \A r \in Requests : \A i \in DOMAIN CmdsOf[r] : stage[r][i] # "new" => stage'[r][i] # "new"
    BY NewBehind
  <1>r. \A t \in Submitters : sub[t].pc # "out" => sub[t].req \in Requests
    BY <1>0 DEF SubmitSound
  <1>d. \A r \in Requests : \A i \in DOMAIN CmdsOf[r] : i \in Nat /\ i > 0 /\ i <= Len(CmdsOf[r])
    BY ConstantsAssumption
  \* A thread is out of Submit, at its beginning, or where it was.
  <1> DEFINE Same(t) == \/ sub'[t].pc = "out"
                        \/ sub'[t].req \in Requests /\ sub'[t].idx = 1
                        \/ sub[t].pc # "out" /\ sub'[t].req = sub[t].req /\ sub'[t].idx = sub[t].idx
             Passed(t) == sub'[t].pc # "out" /\ sub'[t].req \notin damaged' =>
                            \A i \in DOMAIN CmdsOf[sub'[t].req] :
                                i < sub'[t].idx => stage'[sub'[t].req][i] # "new"
  <1>s. ASSUME NEW t \in Submitters, damaged \subseteq damaged', Same(t) PROVE Passed(t)
    <2>1. CASE sub'[t].pc = "out"
      BY <2>1
    <2>2. CASE sub'[t].req \in Requests /\ sub'[t].idx = 1
      BY <1>d, <2>2
    <2>3. CASE sub[t].pc # "out" /\ sub'[t].req = sub[t].req /\ sub'[t].idx = sub[t].idx
      BY <1>n, <1>r, <1>s, <2>3 DEF PushedSoFar
    <2> QED
      BY <1>s, <2>1, <2>2, <2>3
  <1>i. ASSUME ids' = ids, damaged \subseteq damaged'
        PROVE  \A r \in Requests : ids'[r] # 0 /\ r \notin damaged' =>
                    \A i \in DOMAIN CmdsOf[r] : stage'[r][i] # "new"
    BY <1>i, <1>n DEF PushedSoFar
  <1>a. ASSUME ids' = ids, damaged \subseteq damaged', \A t \in Submitters : Passed(t)
        PROVE  PushedSoFar'
    BY <1>a, <1>i DEF PushedSoFar
  <1> HIDE DEF Passed
  <1>1. ASSUME Quiet, damaged' = damaged PROVE PushedSoFar'
    <2>1. \A t \in Submitters : Same(t)
      BY <1>1 DEF Quiet
    <2> QED
      BY <1>1, <1>a, <1>s, <2>1 DEF Quiet
  <1>2. ASSUME NEW t \in Submitters, NEW r \in Requests, SubmitBegin(t, r), UNCHANGED <<ids, damaged>>
        PROVE  PushedSoFar'
    <2>1. SubMoves(t, "next", r, 1)
      BY <1>0, <1>2, SubmitMoves
    <2>2. \A u \in Submitters : Same(u)
      BY <2>1 DEF SubMoves
    <2> QED
      BY <1>2, <1>a, <1>s, <2>2
  <1>3. ASSUME NEW t \in Submitters, SubmitPushIo(t) \/ SubmitPushPio(t) PROVE PushedSoFar'
    <2>1. SubMoves(t, "next", sub[t].req, sub[t].idx + 1) /\ sub[t].pc # "out"
      BY <1>0, <1>3, SubmitMoves DEF SubmitPushIo, SubmitPushPio
    <2>2. ids' = ids /\ damaged \subseteq damaged'
      BY <1>3 DEF SubmitPushIo, SubmitPushPio
    <2>3. \A u \in Submitters : u # t => Same(u)
      BY <2>1 DEF SubMoves
    <2>4. sub[t].req \in Requests /\ sub[t].idx \in DOMAIN CmdsOf[sub[t].req] /\ sub[t].idx \in Nat
      BY <1>0, <1>3, SubmitEntry DEF SubmitPushIo, SubmitPushPio, SubmitSound, TypeOK, SubState
    <2>5. sub[t].req \in damaged' \/ stage'[sub[t].req][sub[t].idx] = "queued"
      <3>1. CASE Queued(t)
        <4>1. StageMoves(sub[t].req, sub[t].idx, "queued")
          BY <1>0, <2>4, <3>1, StageStep DEF Queued, Stages
        <4> QED
          BY <4>1 DEF StageMoves
      <3>2. CASE sub[t].req \in damaged'
        BY <3>2
      <3> QED
        BY <1>3, <3>1, <3>2 DEF SubmitPushIo, SubmitPushPio
    <2>6. Passed(t)
      <3> SUFFICES ASSUME sub[t].req \notin damaged', NEW i \in DOMAIN CmdsOf[sub[t].req], i < sub[t].idx + 1
                   PROVE  stage'[sub[t].req][i] # "new"
        BY <2>1 DEF SubMoves, Passed
      <3>1. CASE i = sub[t].idx
        BY <2>5, <3>1
      <3>2. CASE i # sub[t].idx
        <4>1. i < sub[t].idx /\ sub[t].req \notin damaged
          BY <1>d, <2>2, <2>4, <3>2
        <4> QED
          BY <1>n, <2>1, <2>4, <4>1 DEF PushedSoFar
      <3> QED
        BY <3>1, <3>2
    <2> QED
      BY <1>a, <1>s, <2>2, <2>3, <2>6
  <1>4. ASSUME NEW t \in Submitters, SubmitReturn(t) PROVE PushedSoFar'
    <2>1. SubMoves(t, "out", None, 0) /\ sub[t].pc # "out" /\ ~MoreCmds(t)
      BY <1>0, <1>4, SubmitMoves DEF SubmitReturn
    <2>2. PICK r \in Requests : r = sub[t].req
      BY <1>r, <2>1
    <2>3. /\ UNCHANGED <<stage, damaged>>
          /\ \A q \in Requests : q # r => ids'[q] = ids[q]
      BY <1>0, <1>4, <2>2 DEF SubmitReturn, TypeOK
    <2>4. \A u \in Submitters : Same(u)
      BY <2>1 DEF SubMoves
    <2>5. r \notin damaged => \A i \in DOMAIN CmdsOf[r] : stage[r][i] # "new"
      <3>1. \A i \in DOMAIN CmdsOf[r] : i < sub[t].idx
        <4>1. Len(CmdsOf[r]) \in Nat /\ sub[t].idx \in Nat /\ ~(sub[t].idx <= Len(CmdsOf[r]))
          BY <1>0, <2>1, <2>2, ConstantsAssumption DEF MoreCmds, TypeOK, SubState
        <4> QED
          BY <1>d, <4>1
      <3> QED
        BY <2>1, <2>2, <3>1 DEF PushedSoFar
    <2>6. \A u \in Submitters : Passed(u)
      BY <1>s, <2>3, <2>4
    <2>7. \A q \in Requests : ids'[q] # 0 /\ q \notin damaged' =>
                \A i \in DOMAIN CmdsOf[q] : stage'[q][i] # "new"
      BY <2>3, <2>5 DEF PushedSoFar
    <2> QED
      BY <2>6, <2>7 DEF PushedSoFar, Passed
  <1>5. ASSUME UNCHANGED <<sub, ids, damaged>> PROVE PushedSoFar'
    <2>1. \A t \in Submitters : Same(t)
      BY <1>5
    <2> QED
      BY <1>5, <1>a, <1>s, <2>1
  <1>6. ASSUME NEW c \in Controllers, Control(c) \/ StopCas(c) PROVE PushedSoFar'
    BY <1>6, <1>5 DEF Control, StartIo, StartPio, StartDone, StopCas, StopMarkIo, StopJoinIo, StopDelete,
                      StopMarkPio, StopDone, historyVars
  <1>7. ASSUME NEW c \in Controllers, NEW m \in IoArgs, NEW n \in PioArgs, StartCas(c, m, n)
        PROVE  PushedSoFar'
    BY <1>7, <1>5 DEF StartCas
  <1>8. ASSUME NEW t \in Clients, NEW r \in Requests, ClientSubmit(t, r) PROVE PushedSoFar'
    BY <1>8, <1>2 DEF ClientSubmit, historyVars, Submitters
  <1>9. ASSUME NEW t \in Submitters, SubmitSize(t) PROVE PushedSoFar'
    BY <1>9, <1>1, QuietSteps DEF SubmitSize, historyVars
  <1>10. ASSUME NEW w \in Workers, WorkerStep(w) PROVE PushedSoFar'
    <2>1. CASE PopIo(w) \/ PopPio(w) \/ CountCommand(w) \/ \E ret \in {"ok", "failed"} : ProcessCommand(w, ret)
      BY <1>5, <2>1 DEF PopIo, PopPio, CountCommand, ProcessCommand, historyVars
    <2>2. CASE Callback(w)
      <3>1. UNCHANGED sub \/ \E f \in Requests : SubmitBegin(w, f)
        <4>1. work[w].e[1] \in Requests
          BY <1>0, <2>2, EntryParts DEF Callback, ThreadsHaveQueues
        <4> QED
          BY <2>2, <4>1, ConstantsAssumption DEF Callback
      <3>2. UNCHANGED <<ids, damaged>> /\ w \in Submitters
        BY <2>2 DEF Callback, Submitters
      <3> QED
        BY <1>2, <1>5, <3>1, <3>2
    <2> QED
      BY <1>10, <2>1, <2>2 DEF WorkerStep
  <1>11. CASE UNCHANGED vars
    BY <1>11, <1>5 DEF vars, historyVars
  <1> QED
    BY <1>3, <1>4, <1>6, <1>7, <1>8, <1>9, <1>10, <1>11 DEF Next, SubmitStep

\* Steps that count nothing and end no callback.
CallersKept ==
    /\ callbacks' = callbacks
    /\ \A r \in Requests : request'[r].m_completed_cnt = request[r].m_completed_cnt
    /\ \A w \in Workers, r \in Requests : CallsBack(w, r) => CallsBack(w, r)'

\* Whoever counts the last command of a request calls back, whatever happens in between.
LEMMA CalledBackStep ==
    ASSUME ServiceInv, PlacesInv, CountsInv, CallbackInv, CalledBack, [Next]_vars
    PROVE  CalledBack'
  <1>0. /\ TypeOK /\ SubmitSound /\ ThreadsHaveQueues /\ StageIsFunction /\ Workers \subseteq Submitters
        /\ request \in [Requests -> Counters] /\ callbacks \in [Requests -> Seq(Nat)]
    BY DEF ServiceInv, Typed, TypeOK, Submitters
  <1>k. ASSUME CallersKept PROVE CalledBack'
    BY <1>k DEF CallersKept, CalledBack
  <1>1. ASSUME Quiet PROVE CallersKept
    BY <1>0, <1>1 DEF Quiet, CallersKept, CallsBack
  <1>2. ASSUME NEW t \in Clients, NEW r \in Requests, ClientSubmit(t, r) PROVE CallersKept
    <2>1. SubMoves(t, "next", r, 1)
      BY <1>0, <1>2, SubmitMoves DEF ClientSubmit, Submitters
    <2>2. request' = request
      BY <1>2, FreshCounters DEF ClientSubmit, SubmitBegin
    <2>3. UNCHANGED <<work, callbacks>>
      BY <1>2 DEF ClientSubmit, historyVars
    <2> QED
      BY <1>0, <2>1, <2>2, <2>3, ThreadsAssumption DEF SubMoves, CallersKept, CallsBack
  <1>3. ASSUME NEW t \in Submitters, SubmitPushIo(t) \/ SubmitPushPio(t) PROVE CallersKept
    <2>1. SubMoves(t, "next", sub[t].req, sub[t].idx + 1) /\ sub[t].pc # "out"
      BY <1>0, <1>3, SubmitMoves DEF SubmitPushIo, SubmitPushPio
    <2>2. UNCHANGED <<work, request, callbacks>>
      BY <1>3 DEF SubmitPushIo, SubmitPushPio
    <2> QED
      BY <1>0, <2>1, <2>2 DEF SubMoves, CallersKept, CallsBack
  <1>4. ASSUME NEW t \in Submitters, SubmitReturn(t) PROVE CallersKept
    <2>1. SubMoves(t, "out", None, 0) /\ sub[t].pc # "out"
      BY <1>0, <1>4, SubmitMoves DEF SubmitReturn
    <2>2. UNCHANGED <<request, callbacks>>
      BY <1>4 DEF SubmitReturn
    <2>3. \A w \in Workers : w # t => work'[w] = work[w]
      BY <1>0, <1>4, WorkersMove DEF SubmitReturn, WorkMoves
    <2> QED
      BY <1>0, <2>1, <2>2, <2>3 DEF SubMoves, CallersKept, CallsBack
  <1>5. ASSUME NEW w \in Workers, PopIo(w) \/ PopPio(w) PROVE CallersKept
    <2>1. PICK e \in Entries \cup {Marker} : Take(w, e)
      BY <1>0, <1>5, PopEntry DEF PopIo, PopPio
    <2>2. \A v \in Workers : v # w => work'[v] = work[v]
      BY <1>0, <2>1, TakeStep DEF WorkMoves
    <2>3. work[w].pc = "pop" /\ UNCHANGED <<request, callbacks, sub>>
      BY <1>5 DEF PopIo, PopPio
    <2> QED
      BY <2>2, <2>3 DEF CallersKept, CallsBack
  <1>6. ASSUME NEW w \in Workers, NEW ret \in {"ok", "failed"}, ProcessCommand(w, ret) PROVE CallersKept
    <2>1. work[w].pc = "run" /\ WorkMoves(w, "count", work[w].e) /\ work[w].e[1] \in Requests
      BY <1>0, <1>6, WorkersMove, EntryParts DEF ProcessCommand, ThreadsHaveQueues
    <2>2. \A r \in Requests : request'[r].m_completed_cnt = request[r].m_completed_cnt
      <3>1. CASE request' = request
        BY <3>1
      <3>2. CASE request' = [request EXCEPT ![work[w].e[1]].m_cmd_fail_cnt = @ + 1]
        <4>1. PICK q \in Requests : q = work[w].e[1]
          BY <2>1
        <4>2. request' = [request EXCEPT ![q].m_cmd_fail_cnt = @ + 1]
          BY <3>2, <4>1
        <4>3. /\ request'[q].m_completed_cnt = request[q].m_completed_cnt
              /\ \A r \in Requests \ {q} : request'[r] = request[r]
          BY <1>0, <4>2, CounterStep
        <4> QED
          BY <4>3
      <3> QED
        BY <1>6, <3>1, <3>2 DEF ProcessCommand
    <2>3. UNCHANGED <<callbacks, sub>>
      BY <1>6 DEF ProcessCommand
    <2> QED
      BY <2>1, <2>2, <2>3 DEF WorkMoves, CallersKept, CallsBack
  \* The one that counts the last command is the one that calls back.
  <1>7. ASSUME NEW w \in Workers, CountCommand(w) PROVE CalledBack'
    <2>1. work[w].pc = "count" /\ work[w].e \in Entries /\ sub[w].pc = "out"
      BY <1>0, <1>7 DEF CountCommand, ThreadsHaveQueues, SubmitSound
    <2>2. PICK r \in Requests : r = work[w].e[1]
      BY <2>1, EntryParts
    <2>3. WorkMoves(w, IF IsLast(r) THEN "callback" ELSE "pop", work[w].e)
      BY <1>0, <1>7, <2>2, WorkersMove DEF CountCommand
    <2>4. UNCHANGED <<callbacks, sub>>
      BY <1>7 DEF CountCommand, historyVars
    <2>5. /\ request'[r].m_completed_cnt = request[r].m_completed_cnt + 1
          /\ \A q \in Requests \ {r} : request'[q] = request[q]
      BY <1>0, <1>7, <2>2, CounterStep DEF CountCommand
    <2>6. ASSUME NEW v \in Workers, NEW q \in Requests, CallsBack(v, q) PROVE CallsBack(v, q)'
      BY <2>1, <2>3, <2>4, <2>6 DEF WorkMoves, CallsBack
    <2>7. request'[r].m_completed_cnt = Len(CmdsOf[r]) => CallsBack(w, r)'
      <3>1. request[r].m_completed_cnt \in Nat /\ Len(CmdsOf[r]) \in Nat
        BY <1>0, CommandSets DEF Counters
      <3>2. request'[r].m_completed_cnt = Len(CmdsOf[r]) => IsLast(r)
        BY <2>5, <3>1 DEF IsLast
      <3> QED
        BY <2>1, <2>2, <2>3, <2>4, <3>2 DEF WorkMoves, CallsBack
    <2> QED
      BY <2>4, <2>5, <2>6, <2>7 DEF CalledBack
  <1>8. ASSUME NEW w \in Workers, Callback(w) PROVE CalledBack'
    <2>1. work[w].pc = "callback" /\ work[w].e \in Entries /\ sub[w].pc = "out"
      BY <1>0, <1>8 DEF Callback, ThreadsHaveQueues
    <2>2. PICK r \in Requests : r = work[w].e[1]
      BY <2>1, EntryParts
    <2>f. FollowUp[r] \in Requests \cup {None}
      BY ConstantsAssumption
    <2>3. request' = request /\ callbacks' = [callbacks EXCEPT ![r] = Append(@, request[r].m_cmd_fail_cnt)]
      BY <1>8, <2>2, <2>f, FreshCounters DEF Callback, SubmitBegin
    <2>4. callbacks'[r] # <<>> /\ \A q \in Requests \ {r} : callbacks'[q] = callbacks[q]
      <3>1. request[r].m_cmd_fail_cnt \in Nat /\ callbacks[r] \in Seq(Nat)
        BY <1>0 DEF Counters
      <3>2. callbacks'[r] = Append(callbacks[r], request[r].m_cmd_fail_cnt)
        BY <1>0, <2>3
      <3>3. Append(callbacks[r], request[r].m_cmd_fail_cnt) # <<>>
        BY <3>1
      <3> QED
        BY <1>0, <2>3, <3>2, <3>3
    <2>5. /\ \A v \in Workers : v # w => work'[v] = work[v]
          /\ \A t \in Submitters : t # w => sub'[t] = sub[t]
      <3>1. CASE FollowUp[r] # None /\ SubmitBegin(w, FollowUp[r]) /\ UNCHANGED work
        BY <1>0, <2>f, <3>1, SubmitMoves DEF SubMoves
      <3>2. CASE work' = [work EXCEPT ![w].pc = "pop"] /\ UNCHANGED sub
        BY <1>0, <3>2, WorkersMove DEF WorkMoves
      <3> QED
        BY <1>8, <2>2, <3>1, <3>2 DEF Callback
    <2>6. ASSUME NEW v \in Workers, NEW q \in Requests, q # r, CallsBack(v, q) PROVE CallsBack(v, q)'
      BY <1>0, <2>2, <2>5, <2>6 DEF CallsBack
    <2> QED
      BY <2>3, <2>4, <2>6 DEF CalledBack
  <1> QED
    BY <1>k, <1>1, <1>2, <1>3, <1>4, <1>5, <1>6, <1>7, <1>8, QuietSteps DEF Next, SubmitStep, WorkerStep

-----------------------------------------------------------------------------
DrainInv == PioInv /\ PushedSoFar /\ CalledBack

\* Initially there is nothing to drain.
LEMMA DrainInit ==
    ASSUME Init PROVE DrainInv
  <1>1. ~PioUp /\ EndingPio = {} /\ \A c \in Controllers : ctl[c].pc = "idle"
    BY DEF Init, PioUp, EndingPio, Idle
  <1>2. Exits = {}
    BY DEF Init, Exits, MarkersIn
  <1>3. PioCount
    BY <1>1, <1>2 DEF PioCount
  <1>4. PioOrder /\ PioDrained
    BY DEF Init, PioOrder, PioDrained
  <1>5. PioWaits
    BY EntryParts DEF Init, PioWaits, StageOf
  <1>6. PioThreads
    BY DEF Init, PioThreads, Gone
  <1>7. PushedSoFar
    BY DEF Init, PushedSoFar, NoSubmit
  <1>8. CalledBack
    <2>1. ASSUME NEW r \in Requests, CmdsOf[r] # <<>> PROVE Len(CmdsOf[r]) # 0
      BY <2>1, ConstantsAssumption
    <2>2. \A r \in Requests : request[r].m_completed_cnt = 0
      BY DEF Init, NotMade
    <2> QED
      BY <2>1, <2>2 DEF CalledBack
  <1> QED
    BY <1>3, <1>4, <1>5, <1>6, <1>7, <1>8 DEF DrainInv, PioInv

\* What Stop leaves behind is an invariant, on top of all the others.
LEMMA DrainInvariant ==
    Spec => [](ServiceInv /\ PlacesInv /\ CountsInv /\ CallbackInv /\ GroupSizes /\ OrderInv /\ DrainInv)
  <1>1. Init => DrainInv
    BY DrainInit
  <1>2. ServiceInv /\ PlacesInv /\ CountsInv /\ CallbackInv /\ GroupSizes /\ DrainInv /\ [Next]_vars => DrainInv'
    BY PioStep, PushedSoFarStep, CalledBackStep DEF DrainInv
  <1> QED
    BY <1>1, <1>2, AioInvariant, OrderInvariant, PTL DEF Spec

\* Once Stop has returned, every accepted request that it did not overtake has been called
\* back, and no empty request and no command in time is left in the pio queue (Drained:
\* aio.cpp, Stop).
THEOREM DrainedHolds == Spec => []Drained
  <1>1. ASSUME ServiceInv, CountsInv, OrderInv, DrainInv, s_state = "STOPPED"
        PROVE  /\ \A r \in Requests : (ids[r] # 0 /\ r \notin overlapped /\ CmdsOf[r] # <<>>)
                                        => callbacks[r] # <<>>
               /\ \A k \in DOMAIN s_pio_request_queue : s_pio_request_queue[k][1] \in overlapped
    <2>0. TypeOK /\ OneController /\ ThreadsHaveQueues /\ damaged \subseteq overlapped
      BY <1>1 DEF ServiceInv, Typed
    <2>1. ~IoUp /\ ~PioUp /\ EndingPio = {}
      BY <1>1, <2>0 DEF OneController, IoUp, PioUp, EndingPio
    <2>2. \A w \in Workers : work[w].pc = "gone"
      BY <2>0, <2>1, WorkersType DEF ThreadsHaveQueues
    <2>3. \A k \in DOMAIN s_pio_request_queue : ~Timely(s_pio_request_queue[k])
      BY <1>1, <2>1 DEF DrainInv, PioInv, PioDrained
    <2>4. Exits = {}
      BY <1>1, <2>1 DEF DrainInv, PioInv, PioCount
    <2>5. \A k \in DOMAIN s_pio_request_queue : s_pio_request_queue[k][1] \in overlapped
      BY <2>3, <2>4 DEF Exits, MarkersIn, Timely
    <2>6. ASSUME NEW r \in Requests, ids[r] # 0, r \notin overlapped, CmdsOf[r] # <<>>
          PROVE  callbacks[r] # <<>>
      <3>1. ASSUME NEW i \in DOMAIN CmdsOf[r] PROVE stage[r][i] \in {"ok", "failed"}
        <4>0. i \in Nat /\ i > 0 /\ i <= Len(CmdsOf[r])
          BY ConstantsAssumption
        <4>1. PICK e \in Entries : e = <<r, i>> /\ e[1] = r /\ e[2] = i
          BY <4>0, EntryType
        <4>2. Timely(e) /\ StageOf(e) = stage[r][i]
          BY <2>6, <4>1, EntryParts DEF Timely, StageOf
        <4>3. StageOf(e) # "new"
          BY <1>1, <2>0, <2>6, <4>2 DEF DrainInv, PushedSoFar
        <4>4. StageOf(e) # "queued"
          <5>1. ~IsPio(e) => StageOf(e) # "queued"
            BY <1>1, <2>1, <4>2 DEF OrderInv, IoWaits
          <5>2. IsPio(e) => StageOf(e) # "queued"
            BY <1>1, <2>3, <4>2 DEF DrainInv, PioInv, PioWaits
          <5> QED
            BY <5>1, <5>2
        <4>5. StageOf(e) # "running"
          BY <1>1, <2>2 DEF OrderInv, RunningHeld
        <4>6. stage[r][i] \in Stages
          BY <2>0 DEF TypeOK
        <4> QED
          BY <4>2, <4>3, <4>4, <4>5, <4>6 DEF Stages
      <3>2. CountedCmds(r) = DOMAIN CmdsOf[r]
        BY <2>2, <3>1 DEF CountedCmds
      <3>3. request[r].m_completed_cnt = Len(CmdsOf[r])
        BY <1>1, <3>2, CommandSets DEF CountsInv
      <3>4. \A w \in Workers : ~CallsBack(w, r)
        BY <2>2 DEF CallsBack
      <3> QED
        BY <1>1, <2>6, <3>3, <3>4 DEF DrainInv, CalledBack
    <2> QED
      BY <2>5, <2>6
  <1>2. ServiceInv /\ CountsInv /\ OrderInv /\ DrainInv => Drained
    BY <1>1 DEF Drained
  <1> QED
    BY <1>2, DrainInvariant, PTL
=============================================================================
