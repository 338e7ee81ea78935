---------------------------- MODULE LoggerProofs ----------------------------
(***************************************************************************)
(* The Logger for any threads, queue, files, blocks and number of crashes: *)
(* Close flushes what LogMsg accepted before it (CloseFlushes), lines are  *)
(* written once and in the order of their threads (LinesInOrder), every    *)
(* block is in one place (BuffersConserved), and the files on disk hold    *)
(* the latest lines in order (FilesInOrder), are bounded (FilesBounded)    *)
(* and lose lines only off the far end (RotationKeeps).                    *)
(*                                                                         *)
(* The inductive invariant has six layers: the types and what each         *)
(* program counter says about the fields beside it (States); the life of   *)
(* the log thread and the one exit marker (Lifetime), from which the       *)
(* promise of Close follows; the order of the lines on their way (Order);  *)
(* who holds which block (Holders), which rests on what BlockPool promises *)
(* (BlockPoolProofs); that a block is handed out after the pool has its    *)
(* block size (Sized); and what lies on disk, in the middle of a rotation  *)
(* and after a crash there (OnDisk).                                       *)
(***************************************************************************)
EXTENDS Logger, BlockPoolProofs

ClientState ==
    [pc : {"out", "buf", "free", "push"}, msg : Blocks \cup {NullPtr},
     buf : Blocks \cup {NullPtr}, line : Lines \cup {NoLine}]
LogState ==
    [pc : {"none", "pop", "write", "remove", "rename", "open"},
     data : LogData \cup {ExitMarker}, i : 0 .. MaxFileNum]
ControlStates == {"idle", "pool", "thread", "level", "marker", "join", "file"}

Types ==
    /\ s_level \in 0 .. LEVEL_MAX
    /\ m_started \in BOOLEAN /\ pool_ready \in BOOLEAN
    /\ undersized \in BOOLEAN /\ forced \in BOOLEAN
    /\ m_data_queue \in Seq(LogData \cup {ExitMarker})
    /\ ctl \in ControlStates
    /\ log_thread \in LogState
    /\ client \in [Threads -> ClientState]
    /\ logged \in [Threads -> Nat]
    /\ written \in Seq(Lines)

\* What a thread has in its hands at each point of LogMsg, and the log thread at Write.
InHands ==
    /\ \A t \in Threads :
        /\ client[t].msg # NullPtr <=> client[t].pc \in {"buf", "free"}
        /\ client[t].buf # NullPtr <=> client[t].pc \in {"free", "push"}
        /\ client[t].pc # "out" =>
             client[t].line \in Lines /\ client[t].line.by = t /\ client[t].line.no = logged[t]
    /\ IF log_thread.pc = "write" THEN log_thread.data \in LogData ELSE log_thread.data = ExitMarker

States == Types /\ InHands

-----------------------------------------------------------------------------
\* The log thread runs from StartThread to the exit marker, and only within m_started.
Running == log_thread.pc # "none"
IsMarker(k) == m_data_queue[k] = ExitMarker
AtWrite(p) == log_thread.pc = "write" /\ log_thread.data.line = p
InQueue(p) == \E j \in DOMAIN m_data_queue : ~IsMarker(j) /\ m_data_queue[j].line = p
QueuedBefore(p, k) == \E j \in DOMAIN m_data_queue : j < k /\ ~IsMarker(j) /\ m_data_queue[j].line = p

Lifetime ==
    /\ Running => m_started /\ ctl \in {"level", "idle", "marker", "join"}
    /\ m_started /\ ctl \in {"level", "idle", "marker"} => Running
    /\ ctl \in {"level", "marker", "join", "file"} => m_started
    /\ ctl \in {"pool", "thread"} => ~m_started
    /\ \A k \in DOMAIN m_data_queue : IsMarker(k) => ctl = "join" /\ Running
    /\ \A k, l \in DOMAIN m_data_queue : IsMarker(k) /\ IsMarker(l) => k = l

\* Lines that LogMsg accepted are queued or being written; those Close owes lie
\* before its marker, and are gone once the log thread has taken it.
Promises ==
    /\ promised \subseteq owed
    /\ \A p \in owed : AtWrite(p) \/ InQueue(p)
    /\ \A k \in DOMAIN m_data_queue : IsMarker(k) =>
         \A p \in promised : AtWrite(p) \/ QueuedBefore(p, k)
    /\ ctl \in {"join", "file"} /\ ~Running => promised = {}

-----------------------------------------------------------------------------
\* The numbers of one thread's lines grow along written, the log thread and the queue;
\* the line it is formatting has the highest one.
Earlier(p, q) == p.by = q.by => p.no < q.no
Sent(p) == p.no <= logged[p.by] /\ (client[p.by].pc # "out" => p.no < logged[p.by])

WrittenSent == \A i \in DOMAIN written : Sent(written[i])
AtWriteLast ==
    log_thread.pc = "write" =>
        /\ Sent(log_thread.data.line)
        /\ \A i \in DOMAIN written : Earlier(written[i], log_thread.data.line)
QueueLast ==
    \A k \in DOMAIN m_data_queue : ~IsMarker(k) =>
        /\ Sent(m_data_queue[k].line)
        /\ \A i \in DOMAIN written : Earlier(written[i], m_data_queue[k].line)
        /\ log_thread.pc = "write" => Earlier(log_thread.data.line, m_data_queue[k].line)
QueueInOrder ==
    \A k, l \in DOMAIN m_data_queue : k < l /\ ~IsMarker(k) /\ ~IsMarker(l) =>
        Earlier(m_data_queue[k].line, m_data_queue[l].line)

Order == LinesInOrder /\ WrittenSent /\ AtWriteLast /\ QueueLast /\ QueueInOrder

-----------------------------------------------------------------------------
\* The blocks that are out of the pool are those that somebody holds, each once.
Cached == IF pool_ready THEN CachedBlocks ELSE {}
Blk(t) == {client[t].msg, client[t].buf} \ {NullPtr}

Holders ==
    /\ PoolSound(Cached)
    /\ Lent(Cached) = HeldByClients \cup HeldByQueue \cup HeldByLogThread
    /\ HeldByClients \cap HeldByQueue = {}
    /\ HeldByClients \cap HeldByLogThread = {}
    /\ HeldByQueue \cap HeldByLogThread = {}
    /\ \A t, u \in Threads : t # u => Blk(t) \cap Blk(u) = {}
    /\ \A t \in Threads : client[t].msg # NullPtr => client[t].msg # client[t].buf
    /\ \A k, l \in DOMAIN m_data_queue :
         m_data_queue[k].buf = m_data_queue[l].buf => k = l \/ IsMarker(k)

\* A line is let in before m_pool.Init only by SetLevel.
Sized ==
    /\ m_started \/ ctl \in {"thread"} => pool_ready
    /\ s_level <= LEVEL_INFO /\ ~pool_ready => forced
    /\ (\E t \in Threads : client[t].pc # "out") /\ ~pool_ready => forced
    /\ undersized => forced

-----------------------------------------------------------------------------
(***************************************************************************)
(* What the steps do.                                                      *)
(***************************************************************************)
\* The exit marker is no line: no block is at the null address.
LEMMA MarkerApart ==
    /\ NullPtr \notin Blocks /\ ExitMarker \notin LogData /\ ExitMarker.buf = NullPtr
    /\ \A d \in LogData : d.buf \in Blocks /\ d.buf # NullPtr /\ d.line \in Lines
  <1>1. NullPtr \notin Blocks
    BY BlockAddresses DEF Blocks, NullPtr
  <1> QED
    BY <1>1 DEF LogData, ExitMarker

\* An element of the queue is a line with a block, or the marker.
LEMMA QueueEntries ==
    ASSUME Types, NEW k \in DOMAIN m_data_queue
    PROVE  /\ m_data_queue[k] \in LogData \cup {ExitMarker}
           /\ ~IsMarker(k) => m_data_queue[k] \in LogData
           /\ IsMarker(k) <=> m_data_queue[k].buf = NullPtr
  <1>1. m_data_queue[k] \in LogData \cup {ExitMarker}
    BY DEF Types
  <1> QED
    BY <1>1, MarkerApart DEF IsMarker

\* Steps in which no line moves.
Quiet ==
    \/ StartOpen \/ StartPool \/ StartThread \/ StartLevel \/ CloseLevel \/ CloseJoin \/ CloseFile
    \/ \E level \in Levels : SetLevel(level)
    \/ ReopenRemove \/ ReopenRename \/ \E ok \in BOOLEAN : ReopenOpen(ok)
    \/ UNCHANGED vars

\* Every step is quiet, or moves a line, a block or the marker.
LEMMA StepKinds ==
    ASSUME [Next]_vars
    PROVE  \/ Quiet \/ CloseMarker \/ Pop \/ Write \/ Crash
           \/ \E t \in Threads : LogAllocBuf(t) \/ LogFreeMsg(t) \/ LogPush(t)
           \/ \E t \in Threads, m \in MsgLens : LogBegin(t, m)
  BY DEF Next, Control, LogStep, LogThread, Quiet

\* The states of the log thread, by their fields.
LEMMA LogStates ==
    ASSUME NEW pc \in {"none", "pop", "write", "remove", "rename", "open"}, NEW d \in LogData \cup {ExitMarker},
           NEW i \in 0 .. MaxFileNum
    PROVE  [pc |-> pc, data |-> d, i |-> i] \in LogState
  BY DEF LogState

\* The log thread after a step that moves no line.
LogQuiet ==
    \/ log_thread' = log_thread
    \/ /\ log_thread.pc # "write" /\ log_thread'.pc \notin {"none", "write"} /\ log_thread' \in LogState
       /\ log_thread'.data = ExitMarker
       /\ log_thread.pc # "none" \/ StartThread

\* A quiet step leaves queue, threads and lines alone; of the log thread, only where it is.
LEMMA QuietKeeps ==
    ASSUME States, Lifetime, Quiet
    PROVE  UNCHANGED <<client, m_data_queue, written, logged, owed>> /\ LogQuiet
  <1> USE DEF States, Types
  <1>a. log_thread \in LogState /\ log_thread.i \in 0 .. MaxFileNum
    BY DEF LogState
  <1>b. log_thread = [pc |-> log_thread.pc, data |-> log_thread.data, i |-> log_thread.i]
    BY <1>a DEF LogState
  <1>c. MaxFileNum - 1 \in 0 .. MaxFileNum /\ 0 \in 0 .. MaxFileNum
    BY LoggerAssumption
  <1>0. /\ log_thread \in LogState /\ log_thread = [pc |-> log_thread.pc, data |-> log_thread.data, i |-> log_thread.i]
        /\ log_thread.i \in 0 .. MaxFileNum /\ MaxFileNum - 1 \in 0 .. MaxFileNum /\ 0 \in 0 .. MaxFileNum
    BY <1>a, <1>b, <1>c
  <1>1. UNCHANGED <<client, m_data_queue, written, logged, owed>>
    BY DEF Quiet, StartOpen, StartPool, StartThread, StartLevel, CloseLevel, CloseJoin, CloseFile, SetLevel,
           ReopenRemove, ReopenRename, ReopenOpen, vars, memory, threads, history
  <1>2. Looping = [pc |-> "pop", data |-> ExitMarker, i |-> 0] /\ Looping \in LogState
    <2>1. Looping = [pc |-> "pop", data |-> ExitMarker, i |-> 0]
      BY DEF Looping, NoThread
    <2> QED
      BY <1>0, <2>1, LogStates
  <1>3. LogQuiet
    <2>1. CASE StartOpen \/ StartPool \/ StartLevel \/ CloseLevel \/ CloseJoin \/ CloseFile
               \/ (\E level \in Levels : SetLevel(level)) \/ UNCHANGED vars
      BY <2>1 DEF StartOpen, StartPool, StartLevel, CloseLevel, CloseJoin, CloseFile, SetLevel,
                  vars, threads, LogQuiet
    <2>2. CASE StartThread
      <3>1. log_thread' = Looping
        BY <2>2 DEF StartThread
      <3>2. log_thread.pc = "none"
        BY <2>2 DEF StartThread, Lifetime, Running
      <3> QED
        BY <1>2, <2>2, <3>1, <3>2 DEF LogQuiet
    <2>3. CASE ReopenRemove
      <3>1. log_thread' = [pc |-> "rename", data |-> log_thread.data, i |-> MaxFileNum - 1] /\ log_thread.pc = "remove"
        BY <1>0, <2>3 DEF ReopenRemove
      <3>2. log_thread' \in LogState
        BY <1>0, <3>1, LogStates DEF LogState
      <3> QED
        BY <3>1, <3>2 DEF InHands, LogQuiet
    <2>4. CASE ReopenRename
      <3>1. /\ log_thread.pc = "rename"
            /\ \/ log_thread' = [pc |-> "open", data |-> log_thread.data, i |-> log_thread.i]
               \/ log_thread.i # 0 /\ log_thread' = [pc |-> "rename", data |-> log_thread.data, i |-> log_thread.i - 1]
        BY <1>0, <2>4 DEF ReopenRename
      <3>2. log_thread.i # 0 => log_thread.i - 1 \in 0 .. MaxFileNum
        BY <1>0, LoggerAssumption
      <3>3. log_thread' \in LogState
        BY <1>0, <3>1, <3>2, LogStates DEF LogState
      <3> QED
        BY <3>1, <3>3 DEF InHands, LogQuiet
    <2>5. CASE \E ok \in BOOLEAN : ReopenOpen(ok)
      BY <1>2, <2>5 DEF ReopenOpen, LogQuiet
    <2> QED
      BY <2>1, <2>2, <2>3, <2>4, <2>5 DEF Quiet
  <1> QED
    BY <1>1, <1>3

\* What a step does to one thread that logs.
ClientMoves(t, pc, msg, buf, line) ==
    /\ client' \in [Threads -> ClientState]
    /\ client'[t].pc = pc /\ client'[t].msg = msg /\ client'[t].buf = buf /\ client'[t].line = line
    /\ \A u \in Threads \ {t} : client'[u] = client[u]

\* The assignments of LogMsg, by what its thread then holds.
LEMMA ClientSteps ==
    ASSUME client \in [Threads -> ClientState], NEW t \in Threads
    PROVE  /\ \A b \in Blocks, l \in Lines :
                client' = [client EXCEPT ![t] = [pc |-> "buf", msg |-> b, buf |-> NullPtr, line |-> l]]
                    => ClientMoves(t, "buf", b, NullPtr, l)
           /\ \A b \in Blocks :
                client' = [client EXCEPT ![t].pc = "free", ![t].buf = b]
                    => ClientMoves(t, "free", client[t].msg, b, client[t].line)
           /\ client' = [client EXCEPT ![t].pc = "push", ![t].msg = NullPtr]
                => ClientMoves(t, "push", NullPtr, client[t].buf, client[t].line)
           /\ client' = [client EXCEPT ![t] = Out] => ClientMoves(t, "out", NullPtr, NullPtr, NoLine)
  <1>1. client[t] \in ClientState /\ client[t].msg \in Blocks \cup {NullPtr}
        /\ client[t].buf \in Blocks \cup {NullPtr} /\ client[t].line \in Lines \cup {NoLine}
    BY DEF ClientState
  <1>2. \A b \in Blocks, l \in Lines : [pc |-> "buf", msg |-> b, buf |-> NullPtr, line |-> l] \in ClientState
    BY DEF ClientState
  <1>3. \A b \in Blocks : [client[t] EXCEPT !.pc = "free", !.buf = b] \in ClientState
    BY <1>1 DEF ClientState
  <1>4. [client[t] EXCEPT !.pc = "push", !.msg = NullPtr] \in ClientState
    BY <1>1 DEF ClientState
  <1>5. Out \in ClientState
    BY DEF ClientState, Out
  <1>6. \A b \in Blocks, l \in Lines :
          client' = [client EXCEPT ![t] = [pc |-> "buf", msg |-> b, buf |-> NullPtr, line |-> l]]
              => ClientMoves(t, "buf", b, NullPtr, l)
    <2> SUFFICES ASSUME NEW b \in Blocks, NEW l \in Lines,
                        client' = [client EXCEPT ![t] = [pc |-> "buf", msg |-> b, buf |-> NullPtr, line |-> l]]
                 PROVE  ClientMoves(t, "buf", b, NullPtr, l)
      OBVIOUS
    <2>1. client' \in [Threads -> ClientState]
      BY <1>2
    <2>2. client'[t] = [pc |-> "buf", msg |-> b, buf |-> NullPtr, line |-> l]
          /\ \A u \in Threads \ {t} : client'[u] = client[u]
      OBVIOUS
    <2> QED
      BY <2>1, <2>2 DEF ClientMoves
  <1>7. \A b \in Blocks : client' = [client EXCEPT ![t].pc = "free", ![t].buf = b]
              => ClientMoves(t, "free", client[t].msg, b, client[t].line)
    <2> SUFFICES ASSUME NEW b \in Blocks, client' = [client EXCEPT ![t].pc = "free", ![t].buf = b]
                 PROVE  ClientMoves(t, "free", client[t].msg, b, client[t].line)
      OBVIOUS
    <2>1. client'[t] = [client[t] EXCEPT !.pc = "free", !.buf = b]
          /\ \A u \in Threads \ {t} : client'[u] = client[u]
      OBVIOUS
    <2>2. client' \in [Threads -> ClientState]
      BY <1>3, <2>1
    <2> QED
      BY <1>1, <2>1, <2>2 DEF ClientMoves, ClientState
  <1>8. client' = [client EXCEPT ![t].pc = "push", ![t].msg = NullPtr]
                => ClientMoves(t, "push", NullPtr, client[t].buf, client[t].line)
    BY <1>1, <1>4 DEF ClientMoves, ClientState
  <1>9. client' = [client EXCEPT ![t] = Out] => ClientMoves(t, "out", NullPtr, NullPtr, NoLine)
    BY <1>5 DEF ClientMoves, Out
  <1> QED
    BY <1>6, <1>7, <1>8, <1>9

\* The log thread takes a line or the marker,
LEMMA PopMoves ==
    ASSUME States, Pop
    PROVE  /\ log_thread.pc = "pop" /\ m_data_queue # <<>> /\ m_data_queue' = Tail(m_data_queue)
           /\ Head(m_data_queue) = m_data_queue[1] /\ 1 \in DOMAIN m_data_queue
           /\ log_thread' \in LogState
           /\ IsMarker(1) => log_thread'.pc = "none" /\ log_thread'.data = ExitMarker
           /\ ~IsMarker(1) => /\ m_data_queue[1] \in LogData
                              /\ log_thread'.pc = "write" /\ log_thread'.data = m_data_queue[1]
           /\ UNCHANGED <<blockPoolVars, s_level, m_started, pool_ready, ctl, client, history>>
  <1>1. /\ log_thread.pc = "pop" /\ m_data_queue # <<>> /\ m_data_queue' = Tail(m_data_queue)
        /\ UNCHANGED <<blockPoolVars, s_level, m_started, pool_ready, ctl, client, history>>
    BY DEF Pop
  <1>2. 1 \in DOMAIN m_data_queue /\ Head(m_data_queue) = m_data_queue[1]
    BY <1>1, TailPlaces DEF States, Types
  <1>3. 0 \in 0 .. MaxFileNum
    BY LoggerAssumption
  <1>4. ~IsMarker(1) => m_data_queue[1] \in LogData
    BY <1>2, QueueEntries DEF States
  <1>5. CASE IsMarker(1)
    <2>1. log_thread' = [pc |-> "none", data |-> ExitMarker, i |-> 0]
      BY <1>2, <1>5 DEF Pop, IsMarker, NoThread
    <2>2. log_thread' \in LogState
      BY <1>3, <2>1, LogStates
    <2> QED
      BY <1>1, <1>2, <1>5, <2>1, <2>2
  <1>6. CASE ~IsMarker(1)
    <2>1. log_thread' = [pc |-> "write", data |-> m_data_queue[1], i |-> 0]
      BY <1>2, <1>6 DEF Pop, IsMarker, Looping, NoThread
    <2>2. log_thread' \in LogState
      BY <1>3, <1>4, <1>6, <2>1, LogStates
    <2> QED
      BY <1>1, <1>2, <1>4, <1>6, <2>1, <2>2
  <1> QED
    BY <1>5, <1>6

\* and writes it.
LEMMA WriteMoves ==
    ASSUME States, Write
    PROVE  /\ log_thread.pc = "write" /\ log_thread.data \in LogData
           /\ log_thread' \in LogState /\ log_thread'.pc \in {"pop", "remove"} /\ log_thread'.data = ExitMarker
           /\ written' = written \/ written' = Append(written, log_thread.data.line)
           /\ owed' = owed \ {log_thread.data.line} /\ promised' = promised \ {log_thread.data.line}
           /\ FreeBlock(log_thread.data.buf)
           /\ UNCHANGED <<s_level, m_started, m_data_queue, pool_ready, ctl, client, logged, undersized, forced>>
  <1>1. 0 \in 0 .. MaxFileNum
    BY LoggerAssumption
  <1>2. \/ log_thread' = [pc |-> "remove", data |-> ExitMarker, i |-> 0]
        \/ log_thread' = [pc |-> "pop", data |-> ExitMarker, i |-> 0]
    BY DEF Write, Looping, NoThread
  <1>3. log_thread' \in LogState /\ log_thread'.pc \in {"pop", "remove"} /\ log_thread'.data = ExitMarker
    BY <1>1, <1>2, LogStates
  <1> QED
    BY <1>3 DEF Write, States, InHands

\* A crash leaves what is on disk, and the history.
LEMMA CrashMoves ==
    ASSUME Crash
    PROVE  /\ m_data_queue' = <<>> /\ log_thread'.pc = "none" /\ log_thread'.data = ExitMarker
           /\ log_thread' \in LogState
           /\ client' \in [Threads -> ClientState]
           /\ \A t \in Threads : client'[t].pc = "out" /\ client'[t].msg = NullPtr /\ client'[t].buf = NullPtr
           /\ ctl' = "idle" /\ m_started' = FALSE /\ pool_ready' = FALSE /\ s_level' = LEVEL_MAX
           /\ owed' = {} /\ promised' = {} /\ undersized' = FALSE /\ forced' = FALSE
           /\ m_free_blocks' = <<>> /\ heap' = {}
           /\ UNCHANGED <<logged, written>>
  <1>1. log_thread' = [pc |-> "none", data |-> ExitMarker, i |-> 0] /\ 0 \in 0 .. MaxFileNum
    BY LoggerAssumption DEF Crash, NoThread
  <1>2. log_thread' \in LogState
    BY <1>1, LogStates
  <1>3. client' = [t \in Threads |-> Out] /\ Out \in ClientState
    BY DEF Crash, Out, ClientState
  <1> QED
    BY <1>1, <1>2, <1>3 DEF Crash, Out

\* A thread begins a line with the next number.
LEMMA BeginMoves ==
    ASSUME States, NEW t \in Threads, NEW m \in MsgLens, LogBegin(t, m)
    PROVE  \E b \in Blocks, l \in Lines :
             /\ TakeBlock(b) /\ client[t].pc = "out" /\ s_level <= LEVEL_INFO
             /\ ClientMoves(t, "buf", b, NullPtr, l)
             /\ l.by = t /\ l.no = logged[t] + 1 /\ logged' = [logged EXCEPT ![t] = @ + 1]
             /\ UNCHANGED <<s_level, m_started, m_data_queue, pool_ready, ctl, log_thread, owed, promised,
                            written, forced>>
  <1> DEFINE l == [by |-> t, no |-> logged[t] + 1, len |-> LineLen(m)]
  <1>1. l \in Lines /\ l.by = t /\ l.no = logged[t] + 1
    BY DEF Lines, States, Types
  <1> HIDE DEF l
  <1>2. PICK b \in Blocks : /\ TakeBlock(b)
                            /\ client' = [client EXCEPT ![t] = [pc |-> "buf", msg |-> b, buf |-> NullPtr, line |-> l]]
    BY DEF LogBegin, l
  <1>3. ClientMoves(t, "buf", b, NullPtr, l)
    BY <1>1, <1>2, ClientSteps DEF States, Types
  <1>4. /\ client[t].pc = "out" /\ s_level <= LEVEL_INFO /\ logged' = [logged EXCEPT ![t] = @ + 1]
        /\ UNCHANGED <<s_level, m_started, m_data_queue, pool_ready, ctl, log_thread, owed, promised,
                       written, forced>>
    BY DEF LogBegin, memory
  <1> QED
    BY <1>1, <1>2, <1>3, <1>4

\* It takes the block of the line,
LEMMA AllocBufMoves ==
    ASSUME States, NEW t \in Threads, LogAllocBuf(t)
    PROVE  \E b \in Blocks :
             /\ TakeBlock(b) /\ client[t].pc = "buf"
             /\ ClientMoves(t, "free", client[t].msg, b, client[t].line)
             /\ UNCHANGED <<s_level, m_started, m_data_queue, pool_ready, ctl, log_thread, logged, owed,
                            promised, written, forced>>
  <1>1. PICK b \in Blocks : TakeBlock(b) /\ client' = [client EXCEPT ![t].pc = "free", ![t].buf = b]
    BY DEF LogAllocBuf
  <1>2. ClientMoves(t, "free", client[t].msg, b, client[t].line)
    BY <1>1, ClientSteps DEF States, Types
  <1> QED
    BY <1>1, <1>2 DEF LogAllocBuf, memory

\* frees the block of the message
LEMMA FreeMsgMoves ==
    ASSUME States, NEW t \in Threads, LogFreeMsg(t)
    PROVE  /\ FreeBlock(client[t].msg) /\ client[t].pc = "free"
           /\ ClientMoves(t, "push", NullPtr, client[t].buf, client[t].line)
           /\ UNCHANGED <<s_level, m_started, m_data_queue, pool_ready, ctl, log_thread, history>>
  BY ClientSteps DEF LogFreeMsg, States, Types, memory

\* and pushes the line.
LEMMA PushMoves ==
    ASSUME States, NEW t \in Threads, LogPush(t)
    PROVE  /\ client[t].pc = "push" /\ [buf |-> client[t].buf, line |-> client[t].line] \in LogData
           /\ client[t].line \in Lines
           /\ m_data_queue' = Append(m_data_queue, [buf |-> client[t].buf, line |-> client[t].line])
           /\ owed' = owed \cup {client[t].line}
           /\ ClientMoves(t, "out", NullPtr, NullPtr, NoLine)
           /\ UNCHANGED <<blockPoolVars, s_level, m_started, pool_ready, ctl, log_thread, logged, promised,
                          written, undersized, forced>>
  <1>1. client[t].pc = "push" /\ client[t].buf # NullPtr /\ client[t].line \in Lines
    BY DEF LogPush, States, InHands
  <1>2. client[t].buf \in Blocks
    BY <1>1 DEF States, Types, ClientState
  <1>3. [buf |-> client[t].buf, line |-> client[t].line] \in LogData
    BY <1>1, <1>2 DEF LogData
  <1>4. ClientMoves(t, "out", NullPtr, NullPtr, NoLine)
    BY ClientSteps DEF LogPush, States, Types
  <1> QED
    BY <1>1, <1>3, <1>4 DEF LogPush

\* Types and program counters.
LEMMA StatesStep ==
    ASSUME States, Lifetime, [Next]_vars
    PROVE  States'
  <1> USE DEF States
  <1>t. /\ s_level \in 0 .. 5 /\ m_data_queue \in Seq(LogData \cup {ExitMarker}) /\ written \in Seq(Lines)
        /\ client \in [Threads -> ClientState] /\ logged \in [Threads -> Nat]
    BY DEF Types, LEVEL_MAX
  <1>1. CASE Quiet
    <2>1. UNCHANGED <<client, m_data_queue, written, logged, owed>> /\ LogQuiet
      BY <1>1, QuietKeeps
    <2>2. /\ s_level' \in 0 .. LEVEL_MAX /\ m_started' \in BOOLEAN /\ pool_ready' \in BOOLEAN
          /\ undersized' \in BOOLEAN /\ forced' \in BOOLEAN /\ ctl' \in ControlStates
      <3> USE DEF Quiet, StartOpen, StartPool, StartThread, StartLevel, CloseLevel, CloseJoin, CloseFile, SetLevel,
                  ReopenRemove, ReopenRename, ReopenOpen, vars, memory, threads, history
      <3>1. s_level' \in 0 .. LEVEL_MAX
        BY <1>1, <1>t, LoggerAssumption DEF LEVEL_INFO, LEVEL_MAX
      <3>2. ctl' \in ControlStates
        BY <1>1 DEF ControlStates, Types
      <3>3. m_started' \in BOOLEAN /\ pool_ready' \in BOOLEAN
        BY <1>1 DEF Types
      <3>4. undersized' \in BOOLEAN
        BY <1>1 DEF Types
      <3>5. forced' \in BOOLEAN
        <4>1. forced' = forced \/ forced' = (forced \/ ~m_started)
          BY <1>1
        <4> QED
          BY <4>1, Zenon DEF Types
      <3> QED
        BY <3>1, <3>2, <3>3, <3>4, <3>5
    <2>3. log_thread' \in LogState
          /\ (IF log_thread'.pc = "write" THEN log_thread'.data \in LogData ELSE log_thread'.data = ExitMarker)
      BY <2>1 DEF Types, InHands, LogQuiet
    <2> QED
      BY <2>1, <2>2, <2>3 DEF Types, InHands
  <1>2. CASE CloseMarker
    <2>1. m_data_queue' \in Seq(LogData \cup {ExitMarker})
      BY <1>2, <1>t, AppendPlaces DEF CloseMarker
    <2> QED
      BY <1>2, <2>1 DEF CloseMarker, Types, InHands, ControlStates, history
  <1>3. CASE Pop
    <2>0. m_data_queue # <<>> /\ m_data_queue' = Tail(m_data_queue)
      BY <1>3, PopMoves
    <2>1. m_data_queue' \in Seq(LogData \cup {ExitMarker})
      BY <1>t, <2>0, TailPlaces
    <2> QED
      BY <1>3, <2>1, PopMoves DEF Types, InHands, history
  <1>4. CASE Write
    <2>0. /\ log_thread.data.line \in Lines
          /\ written' = written \/ written' = Append(written, log_thread.data.line)
      BY <1>4, WriteMoves, MarkerApart
    <2>1. written' \in Seq(Lines)
      BY <1>t, <2>0, AppendPlaces, SMTT(30)
    <2> QED
      BY <1>4, <2>1, WriteMoves DEF Types, InHands
  <1>5. CASE Crash
    <2>1. <<>> \in Seq(LogData \cup {ExitMarker})
      OBVIOUS
    <2> QED
      BY <1>5, <2>1, CrashMoves DEF Types, InHands, ControlStates, LEVEL_MAX
  <1>6. ASSUME NEW t \in Threads, LogAllocBuf(t) PROVE States'
    <2>1. PICK b \in Blocks :
             /\ TakeBlock(b) /\ client[t].pc = "buf"
             /\ ClientMoves(t, "free", client[t].msg, b, client[t].line)
             /\ UNCHANGED <<s_level, m_started, m_data_queue, pool_ready, ctl, log_thread, logged, owed,
                            promised, written, forced>>
      BY <1>6, AllocBufMoves
    <2>2. b # NullPtr
      BY MarkerApart
    <2>3. undersized' \in BOOLEAN
      BY <2>1 DEF TakeBlock
    <2>4. InHands'
      BY <2>1, <2>2 DEF InHands, ClientMoves
    <2> QED
      BY <2>1, <2>3, <2>4 DEF Types, ClientMoves
  <1>7. ASSUME NEW t \in Threads, LogFreeMsg(t) PROVE States'
    <2>1. InHands'
      BY <1>7, FreeMsgMoves DEF InHands, ClientMoves, history
    <2> QED
      BY <1>7, <2>1, FreeMsgMoves DEF Types, ClientMoves, history
  <1>8. ASSUME NEW t \in Threads, LogPush(t) PROVE States'
    <2> DEFINE d == [buf |-> client[t].buf, line |-> client[t].line]
    <2>0. d \in LogData \cup {ExitMarker} /\ m_data_queue' = Append(m_data_queue, d)
      BY <1>8, PushMoves
    <2>1. m_data_queue' \in Seq(LogData \cup {ExitMarker})
      BY <1>t, <2>0, AppendPlaces
    <2>2. InHands'
      <3>1. ClientMoves(t, "out", NullPtr, NullPtr, NoLine) /\ UNCHANGED <<log_thread, logged>>
        BY <1>8, PushMoves
      <3> QED
        BY <3>1 DEF InHands, ClientMoves
    <2> QED
      BY <1>8, <2>1, <2>2, PushMoves DEF Types, ClientMoves
  <1>9. ASSUME NEW t \in Threads, NEW m \in MsgLens, LogBegin(t, m) PROVE States'
    <2>1. PICK b \in Blocks, l \in Lines :
             /\ TakeBlock(b) /\ client[t].pc = "out" /\ s_level <= LEVEL_INFO
             /\ ClientMoves(t, "buf", b, NullPtr, l)
             /\ l.by = t /\ l.no = logged[t] + 1 /\ logged' = [logged EXCEPT ![t] = @ + 1]
             /\ UNCHANGED <<s_level, m_started, m_data_queue, pool_ready, ctl, log_thread, owed, promised,
                            written, forced>>
      BY <1>9, BeginMoves
    <2>2. b # NullPtr
      BY MarkerApart
    <2>3. undersized' \in BOOLEAN
      BY <2>1 DEF TakeBlock
    <2>4. logged' \in [Threads -> Nat] /\ logged'[t] = l.no /\ \A u \in Threads \ {t} : logged'[u] = logged[u]
      BY <1>t, <2>1
    <2>5. InHands'
      BY <2>1, <2>2, <2>4 DEF InHands, ClientMoves
    <2> QED
      BY <2>1, <2>3, <2>4, <2>5 DEF Types, ClientMoves
  <1> QED
    BY <1>1, <1>2, <1>3, <1>4, <1>5, <1>6, <1>7, <1>8, <1>9, StepKinds

-----------------------------------------------------------------------------
(***************************************************************************)
(* The log thread and the marker of Close.                                 *)
(***************************************************************************)
\* Every step keeps the life of the log thread within that of the logger.
LEMMA LifetimeStep ==
    ASSUME States, Lifetime, [Next]_vars
    PROVE  Lifetime'
  <1> USE DEF States
  <1>t. m_data_queue \in Seq(LogData \cup {ExitMarker}) /\ ctl \in ControlStates
    BY DEF Types
  <1>k. ASSUME UNCHANGED <<m_started, ctl, m_data_queue>>, Running' <=> Running PROVE Lifetime'
    BY <1>k DEF Lifetime, IsMarker
  <1>1. CASE Quiet
    <2>1. m_data_queue' = m_data_queue /\ LogQuiet
      BY <1>1, QuietKeeps
    <2>2. ASSUME Running' <=> Running, m_started' = m_started,
                 \/ ctl = "idle" /\ ctl' = "pool" /\ ~m_started
                 \/ ctl = "pool" /\ ctl' = "thread"
                 \/ ctl = "level" /\ ctl' = "idle"
                 \/ ctl = "idle" /\ ctl' = "marker" /\ m_started
                 \/ ctl' = ctl
          PROVE  Lifetime'
      BY <2>1, <2>2 DEF Lifetime, IsMarker
    <2>3. CASE StartOpen \/ StartPool \/ StartLevel \/ CloseLevel \/ (\E level \in Levels : SetLevel(level))
      BY <2>2, <2>3 DEF StartOpen, StartPool, StartLevel, CloseLevel, SetLevel, threads, Running
    <2>4. CASE StartThread
      <3>1. ctl = "thread" /\ ctl' = "level" /\ m_started' = TRUE
        BY <2>4 DEF StartThread
      <3>2. Running'
        BY <2>4 DEF StartThread, Running, Looping, NoThread
      <3> QED
        BY <2>1, <3>1, <3>2 DEF Lifetime, IsMarker
    <2>5. CASE CloseJoin
      <3>1. ctl = "join" /\ ctl' = "file" /\ m_started' = m_started /\ ~Running /\ ~Running'
        BY <2>5 DEF CloseJoin, Running, memory
      <3> QED
        BY <2>1, <3>1 DEF Lifetime, IsMarker
    <2>6. CASE CloseFile
      <3>1. ctl = "file" /\ ctl' = "idle" /\ m_started' = FALSE /\ (Running' <=> Running)
        BY <2>6 DEF CloseFile, Running
      <3> QED
        BY <2>1, <3>1 DEF Lifetime, IsMarker
    <2>7. CASE ReopenRemove \/ ReopenRename \/ (\E ok \in BOOLEAN : ReopenOpen(ok))
      <3>1. m_started' = m_started /\ ctl' = ctl /\ Running /\ ~StartThread
        BY <2>7 DEF ReopenRemove, ReopenRename, ReopenOpen, StartThread, Running, memory, Lifetime
      <3>2. Running'
        BY <2>1, <3>1 DEF LogQuiet, Running
      <3> QED
        BY <1>k, <2>1, <3>1, <3>2
    <2>8. CASE UNCHANGED vars
      BY <1>k, <2>8 DEF vars, memory, threads, Running
    <2> QED
      BY <1>1, <2>3, <2>4, <2>5, <2>6, <2>7, <2>8 DEF Quiet
  <1>2. CASE CloseMarker
    <2>1. /\ ctl = "marker" /\ ctl' = "join" /\ m_started' = m_started /\ log_thread' = log_thread
          /\ m_data_queue' = Append(m_data_queue, ExitMarker)
      BY <1>2 DEF CloseMarker
    <2>2. \A k \in DOMAIN m_data_queue : ~IsMarker(k)
      BY <2>1 DEF Lifetime
    <2>3. \A k \in DOMAIN m_data_queue' : m_data_queue'[k] = ExitMarker => k = Len(m_data_queue) + 1
      BY <1>t, <2>1, <2>2, AppendPlaces DEF IsMarker
    <2>4. Running /\ Running' /\ m_started
      BY <2>1 DEF Lifetime, Running
    <2> QED
      BY <2>1, <2>3, <2>4 DEF Lifetime, IsMarker
  <1>3. CASE Pop
    <2>1. /\ m_data_queue # <<>> /\ m_data_queue' = Tail(m_data_queue) /\ 1 \in DOMAIN m_data_queue
          /\ UNCHANGED <<m_started, ctl>> /\ Running
          /\ IsMarker(1) => ~Running'
          /\ ~IsMarker(1) => Running'
      BY <1>3, PopMoves DEF Running
    <2>2. \A k \in DOMAIN m_data_queue' : k \in Nat /\ k > 0 /\ k + 1 \in DOMAIN m_data_queue
                                          /\ m_data_queue'[k] = m_data_queue[k + 1]
      BY <1>t, <2>1, TailPlaces
    <2>3. CASE IsMarker(1)
      <3>1. \A k \in DOMAIN m_data_queue' : m_data_queue'[k] # ExitMarker
        BY <2>1, <2>2, <2>3 DEF Lifetime, IsMarker
      <3> QED
        BY <2>1, <2>3, <3>1 DEF Lifetime, IsMarker
    <2>4. CASE ~IsMarker(1)
      <3>1. \A k \in DOMAIN m_data_queue' : m_data_queue'[k] = ExitMarker => ctl = "join"
        BY <2>2 DEF Lifetime, IsMarker
      <3>2. \A k, l \in DOMAIN m_data_queue' :
              m_data_queue'[k] = ExitMarker /\ m_data_queue'[l] = ExitMarker => k = l
        BY <2>2 DEF Lifetime, IsMarker
      <3> QED
        BY <2>1, <2>4, <3>1, <3>2 DEF Lifetime, IsMarker
    <2> QED
      BY <2>3, <2>4
  <1>4. CASE Write
    BY <1>4, <1>k, WriteMoves DEF Running
  <1>5. CASE Crash
    BY <1>5, CrashMoves DEF Lifetime, Running
  <1>6. ASSUME NEW t \in Threads, LogPush(t) PROVE Lifetime'
    <2> DEFINE d == [buf |-> client[t].buf, line |-> client[t].line]
    <2>1. d \in LogData /\ m_data_queue' = Append(m_data_queue, d) /\ UNCHANGED <<m_started, ctl, log_thread>>
      BY <1>6, PushMoves
    <2>2. d # ExitMarker
      BY <2>1, MarkerApart
    <2> HIDE DEF d
    <2>3. \A k \in DOMAIN m_data_queue' : m_data_queue'[k] = ExitMarker
                                          => k \in DOMAIN m_data_queue /\ m_data_queue[k] = ExitMarker
      BY <1>t, <2>1, <2>2, AppendPlaces
    <2> QED
      BY <2>1, <2>3 DEF Lifetime, IsMarker, Running
  <1>7. ASSUME NEW t \in Threads, LogAllocBuf(t) \/ LogFreeMsg(t) \/ \E m \in MsgLens : LogBegin(t, m)
        PROVE  Lifetime'
    BY <1>7, <1>k DEF LogAllocBuf, LogFreeMsg, LogBegin, memory, Running
  <1> QED
    BY <1>1, <1>2, <1>3, <1>4, <1>5, <1>6, <1>7, StepKinds

\* Close keeps its promise.
LEMMA PromisesStep ==
    ASSUME States, Lifetime, Promises, [Next]_vars
    PROVE  Promises'
  <1> USE DEF States
  <1>t. m_data_queue \in Seq(LogData \cup {ExitMarker}) /\ Len(m_data_queue) \in Nat
        /\ DOMAIN m_data_queue = 1 .. Len(m_data_queue)
    BY DEF Types
  <1>w. \A p : AtWrite(p) => Running
    BY DEF AtWrite, Running
  \* Nothing is promised or taken away, and the log thread stays.
  <1>k. ASSUME UNCHANGED <<m_data_queue, owed, promised>>, \A p : AtWrite(p) => AtWrite(p)',
               ctl' \in {"join", "file"} /\ ~Running' => ctl \in {"join", "file"} /\ ~Running
        PROVE  Promises'
    <2>1. \A p : (InQueue(p) => InQueue(p)') /\ \A n : QueuedBefore(p, n) => QueuedBefore(p, n)'
      BY <1>k DEF QueuedBefore, InQueue, IsMarker
    <2>2. \A k \in DOMAIN m_data_queue : IsMarker(k)' <=> IsMarker(k)
      BY <1>k DEF IsMarker
    <2> QED
      BY <1>k, <2>1, <2>2 DEF Promises
  <1>1. CASE Quiet
    <2>1. m_data_queue' = m_data_queue /\ owed' = owed /\ LogQuiet
      BY <1>1, QuietKeeps
    <2>2. \A p : AtWrite(p) => AtWrite(p)'
      BY <2>1 DEF LogQuiet, AtWrite
    <2>3. CASE CloseLevel
      <3>1. log_thread' = log_thread /\ ctl = "idle" /\ ctl' \in {"idle", "marker"}
            /\ (promised' = promised \/ promised' = owed)
        BY <2>3 DEF CloseLevel
      <3>2. \A k \in DOMAIN m_data_queue : ~IsMarker(k)
        BY <3>1 DEF Lifetime
      <3>3. \A p : InQueue(p) => InQueue(p)'
        BY <2>1 DEF InQueue, IsMarker
      <3>4. \A k \in DOMAIN m_data_queue' : ~IsMarker(k)'
        BY <2>1, <3>2 DEF IsMarker
      <3> QED
        BY <2>1, <2>2, <3>1, <3>3, <3>4 DEF Promises
    <2>4. CASE ~CloseLevel
      <3>1. promised' = promised
        BY <1>1, <2>4 DEF Quiet, StartOpen, StartPool, StartThread, StartLevel, CloseJoin, CloseFile, SetLevel,
                          ReopenRemove, ReopenRename, ReopenOpen, vars, history
      <3>2. ASSUME ctl' \in {"join", "file"}, ~Running' PROVE ctl \in {"join", "file"} /\ ~Running
        <4>1. Running => Running'
          BY <2>1 DEF LogQuiet, Running
        <4>2. ctl \in {"join", "file"}
          BY <1>1, <2>4, <3>2 DEF Quiet, StartOpen, StartPool, StartThread, StartLevel, CloseJoin, CloseFile,
             SetLevel, ReopenRemove, ReopenRename, ReopenOpen, vars, threads
        <4> QED
          BY <3>2, <4>1, <4>2
      <3> QED
        BY <1>k, <2>1, <2>2, <3>1, <3>2
    <2> QED
      BY <2>3, <2>4
  \* The queue grows at its end: by the marker, behind all that is promised, or by a line.
  <1>a. ASSUME NEW d \in LogData \cup {ExitMarker}, m_data_queue' = Append(m_data_queue, d)
        PROVE  /\ \A p : InQueue(p) => InQueue(p)' /\ QueuedBefore(p, Len(m_data_queue) + 1)
               /\ \A p, n : QueuedBefore(p, n) => QueuedBefore(p, n)'
               /\ \A p : d # ExitMarker /\ d.line = p => InQueue(p)'
               /\ \A k \in DOMAIN m_data_queue' : IsMarker(k)' =>
                    \/ k \in DOMAIN m_data_queue /\ IsMarker(k)
                    \/ k = Len(m_data_queue) + 1 /\ d = ExitMarker
    <2>1. /\ \A k \in DOMAIN m_data_queue : k \in DOMAIN m_data_queue' /\ m_data_queue'[k] = m_data_queue[k]
          /\ \A k \in DOMAIN m_data_queue' : k # Len(m_data_queue) + 1 => k \in DOMAIN m_data_queue
          /\ Len(m_data_queue) + 1 \in DOMAIN m_data_queue' /\ m_data_queue'[Len(m_data_queue) + 1] = d
      BY <1>a, <1>t, AppendPlaces
    <2>2. \A p : InQueue(p) => InQueue(p)' /\ QueuedBefore(p, Len(m_data_queue) + 1)
      BY <1>t, <2>1 DEF InQueue, QueuedBefore, IsMarker
    <2>3. \A p, n : QueuedBefore(p, n) => QueuedBefore(p, n)'
      BY <2>1 DEF QueuedBefore, IsMarker
    <2>4. \A p : d # ExitMarker /\ d.line = p => InQueue(p)'
      BY <2>1 DEF InQueue, IsMarker
    <2>5. \A k \in DOMAIN m_data_queue' : IsMarker(k)' =>
                    \/ k \in DOMAIN m_data_queue /\ IsMarker(k)
                    \/ k = Len(m_data_queue) + 1 /\ d = ExitMarker
      BY <2>1 DEF IsMarker
    <2> QED
      BY <2>2, <2>3, <2>4, <2>5
  <1>2. CASE CloseMarker
    <2>1. /\ ctl = "marker" /\ m_data_queue' = Append(m_data_queue, ExitMarker)
          /\ UNCHANGED <<log_thread, owed, promised>>
      BY <1>2 DEF CloseMarker, history
    <2>2. Running /\ Running' /\ \A p : AtWrite(p)' <=> AtWrite(p)
      BY <2>1 DEF Running, AtWrite, Lifetime
    <2>3. \A k \in DOMAIN m_data_queue : ~IsMarker(k)
      BY <2>1 DEF Lifetime
    <2>4. \A p \in owed : AtWrite(p)' \/ InQueue(p)'
      BY <1>a, <2>1, <2>2 DEF Promises
    <2>5. ASSUME NEW k \in DOMAIN m_data_queue', IsMarker(k)', NEW p \in promised
          PROVE  AtWrite(p)' \/ QueuedBefore(p, k)'
      <3>1. k = Len(m_data_queue) + 1
        BY <1>a, <2>1, <2>3, <2>5
      <3> QED
        BY <1>a, <2>1, <2>2, <2>5, <3>1 DEF Promises
    <2> QED
      BY <2>1, <2>2, <2>4, <2>5 DEF Promises
  <1>3. ASSUME NEW t \in Threads, LogPush(t) PROVE Promises'
    <2> DEFINE d == [buf |-> client[t].buf, line |-> client[t].line]
    <2>1. /\ d \in LogData /\ d # ExitMarker /\ d.line = client[t].line
          /\ m_data_queue' = Append(m_data_queue, d) /\ owed' = owed \cup {client[t].line}
          /\ UNCHANGED <<log_thread, ctl, promised>>
      BY <1>3, PushMoves, MarkerApart
    <2> HIDE DEF d
    <2>2. (Running' <=> Running) /\ \A p : AtWrite(p)' <=> AtWrite(p)
      BY <2>1 DEF Running, AtWrite
    <2>3. \A p \in owed' : AtWrite(p)' \/ InQueue(p)'
      BY <1>a, <2>1, <2>2 DEF Promises
    <2>4. ASSUME NEW k \in DOMAIN m_data_queue', IsMarker(k)', NEW p \in promised
          PROVE  AtWrite(p)' \/ QueuedBefore(p, k)'
      BY <1>a, <2>1, <2>2, <2>4 DEF Promises
    <2> QED
      BY <2>1, <2>2, <2>3, <2>4 DEF Promises
  <1>4. CASE Pop
    <2>1. /\ m_data_queue # <<>> /\ m_data_queue' = Tail(m_data_queue) /\ 1 \in DOMAIN m_data_queue
          /\ UNCHANGED <<ctl, owed, promised>> /\ Running /\ \A p : ~AtWrite(p)
          /\ IsMarker(1) => ~Running'
          /\ ~IsMarker(1) => Running' /\ \A p : p = m_data_queue[1].line => AtWrite(p)'
      BY <1>4, PopMoves DEF Running, AtWrite, history
    <2>2. /\ \A k \in DOMAIN m_data_queue' : k \in Nat /\ k > 0 /\ k + 1 \in DOMAIN m_data_queue
                                              /\ m_data_queue'[k] = m_data_queue[k + 1]
          /\ \A k \in DOMAIN m_data_queue : k # 1 =>
                k - 1 \in DOMAIN m_data_queue' /\ m_data_queue'[k - 1] = m_data_queue[k]
      BY <1>t, <2>1, TailPlaces
    <2>3. ASSUME NEW p, InQueue(p) PROVE (~IsMarker(1) /\ p = m_data_queue[1].line) \/ InQueue(p)'
      <3>1. PICK j \in DOMAIN m_data_queue : ~IsMarker(j) /\ m_data_queue[j].line = p
        BY <2>3 DEF InQueue
      <3>2. CASE j = 1
        BY <3>1, <3>2
      <3>3. CASE j # 1
        BY <2>2, <3>1, <3>3 DEF InQueue, IsMarker
      <3> QED
        BY <3>2, <3>3
    <2>4. ASSUME NEW p, NEW k \in DOMAIN m_data_queue', QueuedBefore(p, k + 1)
          PROVE  (~IsMarker(1) /\ p = m_data_queue[1].line) \/ QueuedBefore(p, k)'
      <3>1. PICK j \in DOMAIN m_data_queue : j < k + 1 /\ ~IsMarker(j) /\ m_data_queue[j].line = p
        BY <2>4 DEF QueuedBefore
      <3>2. CASE j = 1
        BY <3>1, <3>2
      <3>3. CASE j # 1
        <4>1. j - 1 \in DOMAIN m_data_queue' /\ m_data_queue'[j - 1] = m_data_queue[j] /\ j - 1 < k
          BY <1>t, <2>2, <3>1, <3>3
        <4> QED
          BY <3>1, <4>1 DEF QueuedBefore, IsMarker
      <3> QED
        BY <3>2, <3>3
    <2>5. \A p \in owed : AtWrite(p)' \/ InQueue(p)'
      BY <2>1, <2>3 DEF Promises
    <2>6. CASE IsMarker(1)
      <3>1. promised = {}
        <4>1. \A p : ~QueuedBefore(p, 1)
          BY <1>t DEF QueuedBefore
        <4> QED
          BY <2>1, <2>6, <4>1 DEF Promises
      <3> QED
        BY <2>1, <2>5, <3>1 DEF Promises
    <2>7. CASE ~IsMarker(1)
      <3>1. ASSUME NEW k \in DOMAIN m_data_queue', IsMarker(k)', NEW p \in promised
            PROVE  AtWrite(p)' \/ QueuedBefore(p, k)'
        <4>1. k + 1 \in DOMAIN m_data_queue /\ IsMarker(k + 1)
          BY <2>2, <3>1 DEF IsMarker
        <4>2. QueuedBefore(p, k + 1)
          BY <2>1, <3>1, <4>1 DEF Promises
        <4> QED
          BY <2>1, <2>4, <4>2
      <3> QED
        BY <2>1, <2>5, <2>7, <3>1 DEF Promises
    <2> QED
      BY <2>6, <2>7
  <1>5. CASE Write
    <2>1. /\ owed' = owed \ {log_thread.data.line} /\ promised' = promised \ {log_thread.data.line}
          /\ UNCHANGED <<m_data_queue, ctl>> /\ Running' /\ \A p : AtWrite(p) => p = log_thread.data.line
      BY <1>5, WriteMoves DEF Running, AtWrite
    <2>2. \A p : (InQueue(p) => InQueue(p)') /\ \A n : QueuedBefore(p, n) => QueuedBefore(p, n)'
      BY <2>1 DEF QueuedBefore, InQueue, IsMarker
    <2>3. \A k \in DOMAIN m_data_queue : IsMarker(k)' <=> IsMarker(k)
      BY <2>1 DEF IsMarker
    <2> QED
      BY <2>1, <2>2, <2>3 DEF Promises
  <1>6. CASE Crash
    BY <1>6, CrashMoves DEF Promises
  <1>7. ASSUME NEW t \in Threads, LogAllocBuf(t) \/ LogFreeMsg(t) \/ \E m \in MsgLens : LogBegin(t, m)
        PROVE  Promises'
    BY <1>7, <1>k DEF LogAllocBuf, LogFreeMsg, LogBegin, memory, history, Running, AtWrite
  <1> QED
    BY <1>1, <1>2, <1>3, <1>4, <1>5, <1>6, <1>7, StepKinds

-----------------------------------------------------------------------------
(***************************************************************************)
(* The order of the lines.                                                 *)
(***************************************************************************)
\* A line that was sent stays below the next number of its thread.
LEMMA SentStays ==
    ASSUME States, Lifetime, [Next]_vars, NEW p \in Lines, Sent(p)
    PROVE  Sent(p)'
  <1>1. p.by \in Threads /\ p.no \in Nat /\ client \in [Threads -> ClientState] /\ logged \in [Threads -> Nat]
    BY DEF Lines, States, Types
  <1>k. ASSUME logged' = logged, client'[p.by].pc # "out" => client[p.by].pc # "out" PROVE Sent(p)'
    BY <1>k DEF Sent
  <1>2. CASE Quiet \/ CloseMarker \/ Pop \/ Write
    <2>1. logged' = logged /\ client' = client
      BY <1>2, QuietKeeps, PopMoves, WriteMoves DEF CloseMarker, history
    <2> QED
      BY <1>k, <2>1
  <1>3. CASE Crash
    BY <1>1, <1>k, <1>3, CrashMoves
  <1>4. ASSUME NEW t \in Threads, LogAllocBuf(t) \/ LogFreeMsg(t) \/ LogPush(t) PROVE Sent(p)'
    <2>1. logged' = logged
      BY <1>4 DEF LogAllocBuf, LogFreeMsg, LogPush, history
    <2>2. client[t].pc # "out" /\ \A u \in Threads \ {t} : client'[u] = client[u]
      BY <1>4, AllocBufMoves, FreeMsgMoves, PushMoves DEF ClientMoves
    <2> QED
      BY <1>1, <1>k, <2>1, <2>2
  <1>5. ASSUME NEW t \in Threads, NEW m \in MsgLens, LogBegin(t, m) PROVE Sent(p)'
    <2>1. /\ logged' = [logged EXCEPT ![t] = @ + 1] /\ \A u \in Threads \ {t} : client'[u] = client[u]
      BY <1>5, BeginMoves DEF ClientMoves
    <2>2. CASE p.by = t
      BY <1>1, <2>1, <2>2 DEF Sent
    <2>3. CASE p.by # t
      BY <1>1, <2>1, <2>3 DEF Sent
    <2> QED
      BY <2>2, <2>3
  <1> QED
    BY <1>2, <1>3, <1>4, <1>5, StepKinds

\* Every step keeps the lines in order on their way from LogMsg to the file.
LEMMA OrderStep ==
    ASSUME States, Lifetime, Order, [Next]_vars
    PROVE  Order'
  <1> USE DEF States
  <1>p. LinesInOrder /\ WrittenSent /\ AtWriteLast /\ QueueLast /\ QueueInOrder
    BY DEF Order
  <1>o. SUFFICES LinesInOrder' /\ WrittenSent' /\ AtWriteLast' /\ QueueLast' /\ QueueInOrder'
    BY DEF Order
  <1>t. /\ m_data_queue \in Seq(LogData \cup {ExitMarker}) /\ written \in Seq(Lines)
        /\ Len(m_data_queue) \in Nat /\ DOMAIN m_data_queue = 1 .. Len(m_data_queue)
        /\ \A i \in DOMAIN written : written[i] \in Lines
        /\ \A k \in DOMAIN m_data_queue : ~IsMarker(k) => m_data_queue[k].line \in Lines
        /\ log_thread.pc = "write" => log_thread.data.line \in Lines
    BY MarkerApart, QueueEntries DEF Types, InHands
  <1>s. \A p \in Lines : Sent(p) => Sent(p)'
    BY SentStays
  \* No line moves, but there may be a marker more.
  <1>k. ASSUME written' = written,
               log_thread'.pc = "write" => log_thread' = log_thread,
               \A k \in DOMAIN m_data_queue' : m_data_queue'[k] # ExitMarker =>
                    k \in DOMAIN m_data_queue /\ m_data_queue'[k] = m_data_queue[k]
        PROVE  LinesInOrder' /\ WrittenSent' /\ AtWriteLast' /\ QueueLast' /\ QueueInOrder'
    <2>1. LinesInOrder' /\ WrittenSent'
      BY <1>k, <1>p, <1>s, <1>t DEF LinesInOrder, WrittenSent
    <2>2. AtWriteLast'
      BY <1>k, <1>p, <1>s, <1>t DEF AtWriteLast
    <2>3. QueueLast'
      BY <1>k, <1>p, <1>s, <1>t DEF QueueLast, IsMarker
    <2>4. QueueInOrder'
      BY <1>k, <1>p DEF QueueInOrder, IsMarker
    <2> QED
      BY <2>1, <2>2, <2>3, <2>4
  <1>1. CASE Quiet
    <2>1. written' = written /\ m_data_queue' = m_data_queue /\ LogQuiet
      BY <1>1, QuietKeeps
    <2> QED
      BY <1>k, <2>1 DEF LogQuiet
  <1>2. CASE CloseMarker
    <2>1. written' = written /\ log_thread' = log_thread /\ m_data_queue' = Append(m_data_queue, ExitMarker)
      BY <1>2 DEF CloseMarker, history
    <2>2. \A k \in DOMAIN m_data_queue' : m_data_queue'[k] # ExitMarker =>
                    k \in DOMAIN m_data_queue /\ m_data_queue'[k] = m_data_queue[k]
      BY <1>t, <2>1, AppendPlaces
    <2> QED
      BY <1>k, <2>1, <2>2
  <1>3. CASE Pop
    <2>1. /\ m_data_queue # <<>> /\ m_data_queue' = Tail(m_data_queue) /\ 1 \in DOMAIN m_data_queue
          /\ written' = written
          /\ log_thread'.pc = "write" => ~IsMarker(1) /\ log_thread'.data = m_data_queue[1]
      BY <1>3, PopMoves DEF history
    <2>2. \A k \in DOMAIN m_data_queue' :
            /\ k \in Nat /\ k > 0 /\ k + 1 \in DOMAIN m_data_queue
            /\ m_data_queue'[k] = m_data_queue[k + 1] /\ (IsMarker(k)' <=> IsMarker(k + 1))
      BY <1>t, <2>1, TailPlaces DEF IsMarker
    <2>3. LinesInOrder' /\ WrittenSent'
      BY <1>p, <1>s, <1>t, <2>1 DEF LinesInOrder, WrittenSent
    <2>4. AtWriteLast'
      BY <1>p, <1>s, <1>t, <2>1 DEF AtWriteLast, QueueLast
    <2>5. QueueLast'
      <3> SUFFICES ASSUME NEW k \in DOMAIN m_data_queue', ~IsMarker(k)'
                   PROVE  /\ Sent(m_data_queue[k].line)'
                          /\ \A i \in DOMAIN written' : Earlier(written'[i], m_data_queue'[k].line)
                          /\ log_thread'.pc = "write" => Earlier(log_thread'.data.line, m_data_queue'[k].line)
        BY DEF QueueLast, Earlier
      <3>1. k + 1 \in DOMAIN m_data_queue /\ ~IsMarker(k + 1) /\ 1 < k + 1
        BY <2>2
      <3>2. PICK p \in Lines : p = m_data_queue[k + 1].line
        BY <1>t, <3>1
      <3>3. m_data_queue'[k].line = p
        BY <2>2, <3>2
      <3>4. Sent(p) /\ \A i \in DOMAIN written : Earlier(written[i], p)
        BY <1>p, <3>1, <3>2 DEF QueueLast
      <3>5. Sent(m_data_queue[k].line)'
        BY <1>s, <3>3, <3>4
      <3>6. log_thread'.pc = "write" => Earlier(log_thread'.data.line, p)
        BY <1>p, <2>1, <3>1, <3>2 DEF QueueInOrder
      <3> QED
        BY <2>1, <3>3, <3>4, <3>5, <3>6
    <2>6. QueueInOrder'
      <3> SUFFICES ASSUME NEW k \in DOMAIN m_data_queue', NEW l \in DOMAIN m_data_queue', k < l,
                          ~IsMarker(k)', ~IsMarker(l)'
                   PROVE  Earlier(m_data_queue'[k].line, m_data_queue'[l].line)
        BY DEF QueueInOrder, Earlier
      <3>1. k + 1 < l + 1 /\ ~IsMarker(k + 1) /\ ~IsMarker(l + 1) /\ k + 1 \in DOMAIN m_data_queue
            /\ l + 1 \in DOMAIN m_data_queue
        BY <2>2
      <3> QED
        BY <1>p, <2>2, <3>1 DEF QueueInOrder
    <2> QED
      BY <2>3, <2>4, <2>5, <2>6
  <1>4. CASE Write
    <2>1. /\ log_thread.pc = "write" /\ log_thread'.pc # "write" /\ m_data_queue' = m_data_queue
          /\ written' = written \/ written' = Append(written, log_thread.data.line)
      BY <1>4, WriteMoves
    <2>2. CASE written' = written
      BY <1>k, <2>1, <2>2
    <2>3. CASE written' = Append(written, log_thread.data.line)
      <3>1. PICK p \in Lines : p = log_thread.data.line
        BY <1>t, <2>1
      <3>2. Sent(p)' /\ \A i \in DOMAIN written : Earlier(written[i], p)
        BY <1>p, <1>s, <2>1, <3>1 DEF AtWriteLast
      <3>3. \A i \in DOMAIN written' : /\ i = Len(written) + 1 => written'[i] = p
                                       /\ i # Len(written) + 1 => i \in DOMAIN written /\ written'[i] = written[i]
        BY <1>t, <2>3, <3>1, AppendPlaces
      <3>4. WrittenSent'
        BY <1>p, <1>s, <1>t, <3>2, <3>3 DEF WrittenSent
      <3>5. LinesInOrder'
        <4> SUFFICES ASSUME NEW i \in DOMAIN written', NEW j \in DOMAIN written', i < j
                     PROVE  Earlier(written'[i], written'[j])
          BY DEF LinesInOrder, Earlier
        <4>1. DOMAIN written' = 1 .. Len(written) + 1 /\ DOMAIN written = 1 .. Len(written) /\ Len(written) \in Nat
          BY <1>t, <2>3, <3>1
        <4>2. i \in DOMAIN written /\ written'[i] = written[i]
          BY <3>3, <4>1
        <4>3. CASE j = Len(written) + 1
          BY <3>2, <3>3, <4>2, <4>3
        <4>4. CASE j # Len(written) + 1
          BY <1>p, <3>3, <4>2, <4>4 DEF LinesInOrder, Earlier
        <4> QED
          BY <4>3, <4>4
      <3>6. AtWriteLast'
        BY <2>1 DEF AtWriteLast
      <3>7. QueueLast'
        BY <1>p, <1>s, <1>t, <2>1, <3>1, <3>3 DEF QueueLast, IsMarker
      <3>8. QueueInOrder'
        BY <1>p, <2>1 DEF QueueInOrder, IsMarker
      <3> QED
        BY <3>4, <3>5, <3>6, <3>7, <3>8
    <2> QED
      BY <2>1, <2>2, <2>3
  <1>5. CASE Crash
    BY <1>5, <1>k, CrashMoves
  <1>6. ASSUME NEW t \in Threads, LogPush(t)
        PROVE  LinesInOrder' /\ WrittenSent' /\ AtWriteLast' /\ QueueLast' /\ QueueInOrder'
    <2> DEFINE d == [buf |-> client[t].buf, line |-> client[t].line]
    <2>1. /\ d \in LogData \cup {ExitMarker} /\ d.line = client[t].line /\ m_data_queue' = Append(m_data_queue, d)
          /\ client[t].pc = "push" /\ client[t].line \in Lines /\ ClientMoves(t, "out", NullPtr, NullPtr, NoLine)
          /\ UNCHANGED <<log_thread, logged, written>>
      BY <1>6, PushMoves
    <2> HIDE DEF d
    <2>2. PICK p \in Lines : p = client[t].line
      BY <2>1
    <2>3. p.by = t /\ p.no = logged[t] /\ p.no \in Nat
      BY <2>1, <2>2 DEF InHands, Lines
    <2>4. \A q \in Lines : Sent(q) => Earlier(q, p)
      BY <2>1, <2>3 DEF Sent, Earlier
    <2>5. Sent(p)'
      BY <2>1, <2>3 DEF Sent, ClientMoves
    <2>6. \A k \in DOMAIN m_data_queue' :
            /\ k = Len(m_data_queue) + 1 => m_data_queue'[k].line = p
            /\ k # Len(m_data_queue) + 1 => k \in DOMAIN m_data_queue /\ m_data_queue'[k] = m_data_queue[k]
      BY <1>t, <2>1, <2>2, AppendPlaces
    <2>7. LinesInOrder' /\ WrittenSent' /\ AtWriteLast'
      BY <1>p, <1>s, <1>t, <2>1 DEF LinesInOrder, WrittenSent, AtWriteLast
    <2>8. QueueLast'
      <3> SUFFICES ASSUME NEW k \in DOMAIN m_data_queue', ~IsMarker(k)'
                   PROVE  /\ Sent(m_data_queue[k].line)'
                          /\ \A i \in DOMAIN written' : Earlier(written'[i], m_data_queue'[k].line)
                          /\ log_thread'.pc = "write" => Earlier(log_thread'.data.line, m_data_queue'[k].line)
        BY DEF QueueLast, Earlier
      <3>1. CASE k = Len(m_data_queue) + 1
        <4>1. m_data_queue'[k].line = p
          BY <2>6, <3>1
        <4>2. \A i \in DOMAIN written' : Earlier(written'[i], p)
          BY <1>p, <1>t, <2>1, <2>4 DEF WrittenSent
        <4>3. log_thread'.pc = "write" => Earlier(log_thread'.data.line, p)
          BY <1>p, <1>t, <2>1, <2>4 DEF AtWriteLast
        <4> QED
          BY <2>5, <4>1, <4>2, <4>3
      <3>2. CASE k # Len(m_data_queue) + 1
        <4>1. k \in DOMAIN m_data_queue /\ m_data_queue'[k] = m_data_queue[k] /\ ~IsMarker(k)
          BY <2>6, <3>2 DEF IsMarker
        <4> QED
          BY <1>p, <1>s, <1>t, <2>1, <4>1 DEF QueueLast
      <3> QED
        BY <3>1, <3>2
    <2>9. QueueInOrder'
      <3> SUFFICES ASSUME NEW k \in DOMAIN m_data_queue', NEW l \in DOMAIN m_data_queue', k < l,
                          ~IsMarker(k)', ~IsMarker(l)'
                   PROVE  Earlier(m_data_queue'[k].line, m_data_queue'[l].line)
        BY DEF QueueInOrder, Earlier
      <3>1. DOMAIN m_data_queue' = 1 .. Len(m_data_queue) + 1
        BY <1>t, <2>1
      <3>2. k \in DOMAIN m_data_queue /\ m_data_queue'[k] = m_data_queue[k] /\ ~IsMarker(k)
        BY <1>t, <2>6, <3>1 DEF IsMarker
      <3>3. CASE l = Len(m_data_queue) + 1
        BY <1>p, <1>t, <2>4, <2>6, <3>2, <3>3 DEF QueueLast
      <3>4. CASE l # Len(m_data_queue) + 1
        <4>1. l \in DOMAIN m_data_queue /\ m_data_queue'[l] = m_data_queue[l] /\ ~IsMarker(l)
          BY <2>6, <3>4 DEF IsMarker
        <4> QED
          BY <1>p, <3>2, <4>1 DEF QueueInOrder
      <3> QED
        BY <3>3, <3>4
    <2> QED
      BY <2>7, <2>8, <2>9
  <1>7. ASSUME NEW t \in Threads, LogAllocBuf(t) \/ LogFreeMsg(t) \/ \E m \in MsgLens : LogBegin(t, m)
        PROVE  LinesInOrder' /\ WrittenSent' /\ AtWriteLast' /\ QueueLast' /\ QueueInOrder'
    BY <1>7, <1>k DEF LogAllocBuf, LogFreeMsg, LogBegin, memory, history
  <1> QED
    BY <1>1, <1>2, <1>3, <1>4, <1>5, <1>6, <1>7, StepKinds

-----------------------------------------------------------------------------
(***************************************************************************)
(* Who holds which block.                                                  *)
(***************************************************************************)
\* A block is held by the threads exactly when it is held by one of them.
LEMMA ClientsHold ==
    ASSUME NEW c \in [Threads -> ClientState]
    PROVE  \A b : b \in (UNION {{c[t].msg, c[t].buf} : t \in Threads}) \ {NullPtr}
                 <=> \E t \in Threads : b \in {c[t].msg, c[t].buf} \ {NullPtr}
  <1> TAKE b
  <1>1. b \in UNION {{c[t].msg, c[t].buf} : t \in Threads} <=> \E t \in Threads : b \in {c[t].msg, c[t].buf}
    OBVIOUS
  <1>2. b \in (UNION {{c[t].msg, c[t].buf} : t \in Threads}) \ {NullPtr}
          <=> b \in UNION {{c[t].msg, c[t].buf} : t \in Threads} /\ b # NullPtr
    BY Zenon
  <1>3. (\E t \in Threads : b \in {c[t].msg, c[t].buf}) /\ b # NullPtr
          <=> \E t \in Threads : b \in {c[t].msg, c[t].buf} \ {NullPtr}
    OBVIOUS
  <1> QED
    BY <1>1, <1>2, <1>3, Zenon

\* The three sets of held blocks, by their elements.
LEMMA HeldBlocks ==
    ASSUME Types
    PROVE
    /\ \A b : b \in HeldByClients <=> \E t \in Threads : b \in Blk(t)
    /\ \A b : b \in HeldByQueue <=> b # NullPtr /\ \E k \in DOMAIN m_data_queue : m_data_queue[k].buf = b
    /\ \A b : b \in HeldByLogThread <=> b # NullPtr /\ log_thread.data.buf = b
  <1>1. \A b : b \in HeldByClients <=> \E t \in Threads : b \in Blk(t)
    BY ClientsHold DEF HeldByClients, Blk, Types
  <1>2. \A b : b \in HeldByQueue <=> b # NullPtr /\ \E k \in DOMAIN m_data_queue : m_data_queue[k].buf = b
    BY DEF HeldByQueue, ToSet
  <1>3. \A b : b \in HeldByLogThread <=> b # NullPtr /\ log_thread.data.buf = b
    BY DEF HeldByLogThread
  <1> QED
    BY <1>1, <1>2, <1>3

\* Who holds a block, when nothing but the pool can have changed.
LEMMA HeldKept ==
    /\ client' = client => HeldByClients' = HeldByClients /\ \A t \in Threads : Blk(t)' = Blk(t)
    /\ m_data_queue' = m_data_queue => HeldByQueue' = HeldByQueue
    /\ log_thread'.data = log_thread.data => HeldByLogThread' = HeldByLogThread
  BY DEF HeldByClients, Blk, HeldByQueue, HeldByLogThread

\* A thread takes the block b, or gives it away.
LEMMA ClientHolds ==
    ASSUME Types, Types', Holders, NEW t \in Threads, NEW b, b # NullPtr,
           \A u \in Threads \ {t} : client'[u] = client[u]
    PROVE  /\ Blk(t)' = Blk(t) \cup {b} => HeldByClients' = HeldByClients \cup {b}
           /\ b \in Blk(t) /\ Blk(t)' = Blk(t) \ {b} => HeldByClients' = HeldByClients \ {b}
  <1>1. \A u \in Threads \ {t} : Blk(u)' = Blk(u)
    BY DEF Blk
  <1>2. /\ \A c : c \in HeldByClients <=> \E u \in Threads : c \in Blk(u)
        /\ \A c : c \in HeldByClients' <=> \E u \in Threads : c \in Blk(u)'
    BY ClientsHold DEF HeldByClients, Blk, Types
  <1>3. ASSUME Blk(t)' = Blk(t) \cup {b} PROVE HeldByClients' = HeldByClients \cup {b}
    BY <1>1, <1>2, <1>3
  <1>4. ASSUME b \in Blk(t), Blk(t)' = Blk(t) \ {b} PROVE HeldByClients' = HeldByClients \ {b}
    <2>1. \A u \in Threads \ {t} : b \notin Blk(u)
      BY <1>4 DEF Holders
    <2> QED
      BY <1>1, <1>2, <1>4, <2>1
  <1> QED
    BY <1>3, <1>4

\* Every step leaves each block with one holder.
LEMMA HoldersStep ==
    ASSUME States, States', Lifetime, Holders, [Next]_vars
    PROVE  Holders'
  <1> USE DEF States
  <1>t. m_data_queue \in Seq(LogData \cup {ExitMarker}) /\ pool_ready \in BOOLEAN
    BY DEF Types
  <1>c. PICK C \in {{}, CachedBlocks} : C = Cached
    BY DEF Cached
  <1>s. PoolSound(C) /\ Lent(C) = HeldByClients \cup HeldByQueue \cup HeldByLogThread
    BY <1>c DEF Holders
  <1>r. ASSUME pool_ready' = pool_ready PROVE Cached' = C
    BY <1>c, <1>r DEF Cached
  \* The pool and the threads are as before.
  <1>k. ASSUME UNCHANGED <<client, m_data_queue>>, log_thread'.data = log_thread.data,
               PoolSound(Cached)', Lent(Cached)' = Lent(C)
        PROVE  Holders'
    <2>1. /\ HeldByClients' = HeldByClients /\ HeldByQueue' = HeldByQueue /\ HeldByLogThread' = HeldByLogThread
          /\ \A t \in Threads : Blk(t)' = Blk(t)
      BY <1>k, HeldKept
    <2> QED
      BY <1>k, <1>s, <2>1 DEF Holders, IsMarker
  <1>f. ASSUME UNCHANGED <<m_free_blocks, heap, pool_ready>> PROVE PoolSound(Cached)' /\ Lent(Cached)' = Lent(C)
    BY <1>f, <1>r, <1>s DEF PoolSound, Lent
  <1>1. CASE Quiet
    <2>1. UNCHANGED <<client, m_data_queue>> /\ log_thread'.data = log_thread.data
      BY <1>1, QuietKeeps DEF LogQuiet, InHands
    <2>2. CASE StartPool
      <3>1. CASE pool_ready
        BY <1>f, <1>k, <2>1, <2>2, <3>1 DEF StartPool
      <3>2. CASE ~pool_ready
        <4>1. C = {} /\ Cached' = CachedBlocks /\ m_free_blocks' = CacheBlocks /\ heap' = heap
          BY <1>c, <2>2, <3>2 DEF StartPool, Cached
        <4>2. m_free_blocks = <<>> /\ heap \subseteq HeapBlocks
          BY <1>s, <4>1 DEF PoolSound
        <4>3. PoolSound(Cached)'
          BY <4>1, <4>2, CacheBlocksSound DEF PoolSound
        <4>4. Lent(Cached)' = heap
          BY <4>1, <4>2, CacheBlocksSound, BlockAddresses DEF Lent
        <4>5. Lent(C) = heap
          BY <4>1, <4>2 DEF Lent, ToSet
        <4> QED
          BY <1>k, <2>1, <4>3, <4>4, <4>5
      <3> QED
        BY <3>1, <3>2
    <2>3. CASE ~StartPool
      <3>1. UNCHANGED <<m_free_blocks, heap, pool_ready>>
        BY <1>1, <2>3 DEF Quiet, StartOpen, StartThread, StartLevel, CloseLevel, CloseJoin, CloseFile, SetLevel,
           ReopenRemove, ReopenRename, ReopenOpen, vars, memory, blockPoolVars
      <3> QED
        BY <1>f, <1>k, <2>1, <3>1
    <2> QED
      BY <2>2, <2>3
  <1>2. CASE CloseMarker
    <2>1. /\ m_data_queue' = Append(m_data_queue, ExitMarker)
          /\ UNCHANGED <<m_free_blocks, heap, pool_ready, client, log_thread>>
      BY <1>2 DEF CloseMarker, blockPoolVars
    <2>2. \A k \in DOMAIN m_data_queue' : IF k = Len(m_data_queue) + 1 THEN m_data_queue'[k] = ExitMarker
                                          ELSE k \in DOMAIN m_data_queue /\ m_data_queue'[k] = m_data_queue[k]
      BY <1>t, <2>1, AppendPlaces
    <2>3. \A k \in DOMAIN m_data_queue : k \in DOMAIN m_data_queue' /\ m_data_queue'[k] = m_data_queue[k]
      BY <1>t, <2>1, AppendPlaces
    <2>4. HeldByQueue' = HeldByQueue
      BY <2>2, <2>3, MarkerApart DEF HeldByQueue, ToSet
    <2>5. \A k, l \in DOMAIN m_data_queue' :
            m_data_queue'[k].buf = m_data_queue'[l].buf => k = l \/ m_data_queue'[k] = ExitMarker
      BY <2>2, MarkerApart, QueueEntries DEF Holders, IsMarker
    <2>6. HeldByClients' = HeldByClients /\ HeldByLogThread' = HeldByLogThread /\ \A t \in Threads : Blk(t)' = Blk(t)
      BY <2>1, HeldKept
    <2> QED
      BY <1>f, <1>s, <2>1, <2>4, <2>5, <2>6 DEF Holders, IsMarker
  <1>3. CASE Pop
    <2>1. /\ m_data_queue # <<>> /\ m_data_queue' = Tail(m_data_queue) /\ 1 \in DOMAIN m_data_queue
          /\ log_thread.data = ExitMarker
          /\ log_thread'.data = m_data_queue[1]
          /\ UNCHANGED <<m_free_blocks, heap, pool_ready, client>>
      BY <1>3, PopMoves DEF history, blockPoolVars, InHands, IsMarker
    <2>2. \A k \in DOMAIN m_data_queue' : k \in Nat /\ k > 0 /\ k + 1 \in DOMAIN m_data_queue
                                          /\ m_data_queue'[k] = m_data_queue[k + 1]
      BY <1>t, <2>1, TailPlaces
    <2>3. \A k \in DOMAIN m_data_queue : k # 1 => k - 1 \in DOMAIN m_data_queue' /\ m_data_queue'[k - 1] = m_data_queue[k]
      BY <1>t, <2>1, TailPlaces
    <2>4. HeldByLogThread = {} /\ HeldByLogThread' = {m_data_queue[1].buf} \ {NullPtr}
      BY <2>1, MarkerApart DEF HeldByLogThread
    <2>5. HeldByQueue' = HeldByQueue \ {m_data_queue[1].buf}
      <3>1. ASSUME NEW b \in HeldByQueue' PROVE b \in HeldByQueue /\ b # m_data_queue[1].buf
        <4>1. PICK k \in DOMAIN m_data_queue' : m_data_queue'[k].buf = b /\ b # NullPtr
          BY <3>1 DEF HeldByQueue, ToSet
        <4>2. k + 1 \in DOMAIN m_data_queue /\ m_data_queue[k + 1].buf = b /\ k + 1 # 1
          BY <2>2, <4>1
        <4>3. ~IsMarker(k + 1)
          BY <4>1, <4>2, MarkerApart DEF IsMarker
        <4>4. b # m_data_queue[1].buf
          BY <2>1, <4>2, <4>3 DEF Holders
        <4> QED
          BY <4>1, <4>2, <4>4, HeldBlocks
      <3>2. ASSUME NEW b \in HeldByQueue, b # m_data_queue[1].buf PROVE b \in HeldByQueue'
        <4>1. PICK k \in DOMAIN m_data_queue : m_data_queue[k].buf = b /\ b # NullPtr
          BY HeldBlocks
        <4>2. k - 1 \in DOMAIN m_data_queue' /\ m_data_queue'[k - 1].buf = b
          BY <2>3, <3>2, <4>1
        <4> QED
          BY <4>1, <4>2 DEF HeldByQueue, ToSet
      <3> QED
        BY <3>1, <3>2
    <2>6. \A k, l \in DOMAIN m_data_queue' :
            m_data_queue'[k].buf = m_data_queue'[l].buf => k = l \/ m_data_queue'[k] = ExitMarker
      BY <2>2 DEF Holders, IsMarker
    <2>7. {m_data_queue[1].buf} \ {NullPtr} \subseteq HeldByQueue /\ NullPtr \notin HeldByQueue
      BY <2>1, HeldBlocks
    <2>8. HeldByClients' = HeldByClients /\ \A t \in Threads : Blk(t)' = Blk(t)
      BY <2>1, HeldKept
    <2>9. PoolSound(Cached)' /\ Lent(Cached)' = HeldByClients' \cup HeldByQueue' \cup HeldByLogThread'
      BY <1>f, <1>s, <2>1, <2>4, <2>5, <2>7, <2>8
    <2> QED
      BY <2>1, <2>4, <2>5, <2>6, <2>7, <2>8, <2>9 DEF Holders, IsMarker
  <1>4. CASE Write
    <2>1. /\ log_thread.data \in LogData /\ log_thread'.data = ExitMarker /\ FreeBlock(log_thread.data.buf)
          /\ UNCHANGED <<m_data_queue, client, pool_ready>>
      BY <1>4, WriteMoves
    <2>2. PICK b : b = log_thread.data.buf
      OBVIOUS
    <2>3. HeldByLogThread = {b} /\ HeldByLogThread' = {} /\ b # NullPtr
      BY <2>1, <2>2, MarkerApart DEF HeldByLogThread
    <2>4. PoolSound(C)' /\ Lent(C)' = Lent(C) \ {b}
      BY <1>s, <2>1, <2>2, <2>3, FreeTakesBack
    <2>5. HeldByClients' = HeldByClients /\ HeldByQueue' = HeldByQueue /\ \A t \in Threads : Blk(t)' = Blk(t)
      BY <2>1, HeldKept
    <2>6. b \notin HeldByClients /\ b \notin HeldByQueue
      BY <2>3 DEF Holders
    <2>7. PoolSound(Cached)' /\ Lent(Cached)' = HeldByClients' \cup HeldByQueue' \cup HeldByLogThread'
      BY <1>r, <1>s, <2>1, <2>3, <2>4, <2>5, <2>6 DEF PoolSound, Lent
    <2> QED
      BY <2>1, <2>3, <2>5, <2>7 DEF Holders, IsMarker
  <1>5. CASE Crash
    <2>1. HeldByClients' = {} /\ HeldByQueue' = {} /\ HeldByLogThread' = {} /\ \A t \in Threads : Blk(t)' = {}
      <3>1. \A t \in Threads : Blk(t)' = {}
        BY <1>5, CrashMoves DEF Blk
      <3>2. \A b : b \in HeldByClients' <=> \E t \in Threads : b \in Blk(t)'
        BY ClientsHold DEF HeldByClients, Blk, Types
      <3>4. HeldByClients' = {}
        BY <3>1, <3>2
      <3>3. HeldByQueue' = {} /\ HeldByLogThread' = {}
        BY <1>5, CrashMoves, MarkerApart DEF HeldByQueue, HeldByLogThread, ToSet
      <3> QED
        BY <3>1, <3>3, <3>4
    <2>2. Cached' = {} /\ m_free_blocks' = <<>> /\ heap' = {} /\ m_data_queue' = <<>>
          /\ \A t \in Threads : client'[t].msg = NullPtr
      BY <1>5, CrashMoves DEF Cached
    <2>3. PoolSound(Cached)' /\ Lent(Cached)' = {}
      BY <2>2 DEF PoolSound, Lent, IsInjective, ToSet
    <2> QED
      BY <2>1, <2>2, <2>3 DEF Holders
  \* A block is taken, for the message or for the line.
  <1>a. ASSUME NEW t \in Threads, NEW b \in Blocks, TakeBlock(b), UNCHANGED <<m_data_queue, log_thread, pool_ready>>,
               \A u \in Threads \ {t} : client'[u] = client[u], Blk(t)' = Blk(t) \cup {b},
               client'[t].msg # NullPtr => client'[t].msg # client'[t].buf
        PROVE  Holders'
    <2>1. /\ PoolSound(C)' /\ b # 0 /\ b \notin Lent(C) /\ Lent(C)' = Lent(C) \cup {b}
      BY <1>a, <1>s, AllocLends DEF TakeBlock
    <2>2. HeldByClients' = HeldByClients \cup {b}
      BY <1>a, <2>1, ClientHolds DEF NullPtr
    <2>3. HeldByQueue' = HeldByQueue /\ HeldByLogThread' = HeldByLogThread
      BY <1>a, HeldKept
    <2>4. b \notin HeldByClients /\ b \notin HeldByQueue /\ b \notin HeldByLogThread
      BY <1>s, <2>1
    <2>5. \A u, v \in Threads : u # v => Blk(u)' \cap Blk(v)' = {}
      <3>1. \A u \in Threads \ {t} : Blk(u)' = Blk(u)
        BY <1>a DEF Blk
      <3>2. \A u \in Threads : b \notin Blk(u)
        BY <2>4, HeldBlocks
      <3> QED
        BY <1>a, <3>1, <3>2 DEF Holders
    <2>6. PoolSound(Cached)' /\ Lent(Cached)' = HeldByClients' \cup HeldByQueue' \cup HeldByLogThread'
      BY <1>a, <1>r, <1>s, <2>1, <2>2, <2>3 DEF PoolSound, Lent
    <2> QED
      BY <1>a, <2>2, <2>3, <2>4, <2>5, <2>6 DEF Holders, IsMarker
  <1>6. ASSUME NEW t \in Threads, NEW m \in MsgLens, LogBegin(t, m) PROVE Holders'
    <2>1. PICK b \in Blocks :
             /\ TakeBlock(b) /\ client[t].pc = "out"
             /\ \E l : ClientMoves(t, "buf", b, NullPtr, l)
             /\ UNCHANGED <<m_data_queue, pool_ready, log_thread>>
      BY <1>6, BeginMoves
    <2>2. Blk(t) = {} /\ Blk(t)' = {b} /\ b # NullPtr
      BY <2>1, MarkerApart DEF Blk, InHands, ClientMoves
    <2> QED
      BY <1>a, <2>1, <2>2 DEF ClientMoves
  <1>7. ASSUME NEW t \in Threads, LogAllocBuf(t) PROVE Holders'
    <2>1. PICK b \in Blocks :
             /\ TakeBlock(b) /\ client[t].pc = "buf"
             /\ ClientMoves(t, "free", client[t].msg, b, client[t].line)
             /\ UNCHANGED <<m_data_queue, pool_ready, log_thread>>
      BY <1>7, AllocBufMoves
    <2>2. client[t].msg # NullPtr /\ client[t].buf = NullPtr /\ b # NullPtr
      BY <2>1, MarkerApart DEF InHands
    <2>3. Blk(t) = {client[t].msg} /\ Blk(t)' = {client[t].msg, b}
      BY <2>1, <2>2 DEF Blk, ClientMoves
    <2>4. client[t].msg \in Lent(C) /\ b \notin Lent(C)
      <3>1. b \notin Lent(C)
        BY <1>s, <2>1, AllocLends DEF TakeBlock
      <3> QED
        BY <1>s, <2>3, <3>1, HeldBlocks
    <2> QED
      BY <1>a, <2>1, <2>3, <2>4 DEF ClientMoves
  <1>8. ASSUME NEW t \in Threads, LogFreeMsg(t) PROVE Holders'
    <2>1. /\ FreeBlock(client[t].msg) /\ client[t].pc = "free"
          /\ ClientMoves(t, "push", NullPtr, client[t].buf, client[t].line)
          /\ UNCHANGED <<m_data_queue, pool_ready, log_thread>>
      BY <1>8, FreeMsgMoves
    <2>2. PICK b : b = client[t].msg
      OBVIOUS
    <2>3. b # NullPtr /\ client[t].buf # NullPtr /\ b # client[t].buf
      BY <2>1, <2>2 DEF InHands, Holders
    <2>4. b \in Blk(t) /\ Blk(t)' = Blk(t) \ {b}
      BY <2>1, <2>2, <2>3 DEF Blk, ClientMoves
    <2>5. HeldByClients' = HeldByClients \ {b}
      BY <2>1, <2>3, <2>4, ClientHolds DEF ClientMoves
    <2>6. b \in HeldByClients
      BY <2>4, HeldBlocks
    <2>7. PoolSound(C)' /\ Lent(C)' = Lent(C) \ {b}
      BY <1>s, <2>1, <2>2, <2>6, FreeTakesBack
    <2>8. HeldByQueue' = HeldByQueue /\ HeldByLogThread' = HeldByLogThread
      BY <2>1, HeldKept
    <2>9. b \notin HeldByQueue /\ b \notin HeldByLogThread
      BY <2>6 DEF Holders
    <2>10. PoolSound(Cached)' /\ Lent(Cached)' = HeldByClients' \cup HeldByQueue' \cup HeldByLogThread'
      BY <1>r, <1>s, <2>1, <2>5, <2>7, <2>8, <2>9 DEF PoolSound, Lent
    <2>11. \A u \in Threads \ {t} : Blk(u)' = Blk(u)
      BY <2>1 DEF Blk, ClientMoves
    <2>12. \A u, v \in Threads : u # v => Blk(u)' \cap Blk(v)' = {}
      BY <2>4, <2>11 DEF Holders
    <2>13. \A u \in Threads : client'[u].msg # NullPtr => client'[u].msg # client'[u].buf
      BY <2>1 DEF Holders, ClientMoves
    <2> QED
      BY <2>1, <2>5, <2>8, <2>10, <2>12, <2>13 DEF Holders, IsMarker
  <1>9. ASSUME NEW t \in Threads, LogPush(t) PROVE Holders'
    <2> DEFINE d == [buf |-> client[t].buf, line |-> client[t].line]
    <2>1. /\ d \in LogData /\ d.buf = client[t].buf /\ m_data_queue' = Append(m_data_queue, d)
          /\ client[t].pc = "push" /\ ClientMoves(t, "out", NullPtr, NullPtr, NoLine)
          /\ UNCHANGED <<m_free_blocks, heap, pool_ready, log_thread>>
      BY <1>9, PushMoves DEF blockPoolVars
    <2> HIDE DEF d
    <2>2. PICK b : b = client[t].buf
      OBVIOUS
    <2>3. b # NullPtr /\ client[t].msg = NullPtr
      BY <2>1, <2>2 DEF InHands
    <2>4. b \in Blk(t) /\ Blk(t)' = Blk(t) \ {b}
      BY <2>1, <2>2, <2>3 DEF Blk, ClientMoves
    <2>5. HeldByClients' = HeldByClients \ {b}
      BY <2>1, <2>3, <2>4, ClientHolds DEF ClientMoves
    <2>6. b \in HeldByClients /\ b \notin HeldByQueue /\ b \notin HeldByLogThread
      BY <2>4, HeldBlocks DEF Holders
    <2>7. \A k \in DOMAIN m_data_queue' : IF k = Len(m_data_queue) + 1 THEN m_data_queue'[k].buf = b
                                          ELSE k \in DOMAIN m_data_queue /\ m_data_queue'[k] = m_data_queue[k]
      BY <1>t, <2>1, <2>2, AppendPlaces
    <2>8. /\ \A k \in DOMAIN m_data_queue : k \in DOMAIN m_data_queue' /\ m_data_queue'[k] = m_data_queue[k]
          /\ Len(m_data_queue) + 1 \in DOMAIN m_data_queue' /\ m_data_queue'[Len(m_data_queue) + 1].buf = b
      BY <1>t, <2>1, <2>2, AppendPlaces
    <2>9. HeldByQueue' = HeldByQueue \cup {b}
      BY <2>3, <2>7, <2>8 DEF HeldByQueue, ToSet
    <2>10. \A k \in DOMAIN m_data_queue : m_data_queue[k].buf # b
      BY <2>3, <2>6, HeldBlocks
    <2>11. \A k, l \in DOMAIN m_data_queue' :
            m_data_queue'[k].buf = m_data_queue'[l].buf => k = l \/ m_data_queue'[k] = ExitMarker
      BY <2>7, <2>10 DEF Holders, IsMarker
    <2>12. \A u \in Threads \ {t} : Blk(u)' = Blk(u)
      BY <2>1 DEF Blk, ClientMoves
    <2>13. \A u, v \in Threads : u # v => Blk(u)' \cap Blk(v)' = {}
      BY <2>4, <2>12 DEF Holders
    <2>14. \A u \in Threads : client'[u].msg # NullPtr => client'[u].msg # client'[u].buf
      BY <2>1 DEF Holders, ClientMoves
    <2>15. HeldByLogThread' = HeldByLogThread
      BY <2>1, HeldKept
    <2>16. PoolSound(Cached)' /\ Lent(Cached)' = HeldByClients' \cup HeldByQueue' \cup HeldByLogThread'
      BY <1>f, <1>s, <2>1, <2>5, <2>6, <2>9, <2>15
    <2> QED
      BY <2>5, <2>6, <2>9, <2>11, <2>13, <2>14, <2>15, <2>16 DEF Holders, IsMarker
  <1> QED
    BY <1>1, <1>2, <1>3, <1>4, <1>5, <1>6, <1>7, <1>8, <1>9, StepKinds

\* m_pool is ready before a line is let in, unless SetLevel let it in.
LEMMA SizedStep ==
    ASSUME States, Lifetime, Sized, [Next]_vars
    PROVE  Sized'
  <1> DEFINE busy == \E t \in Threads : client[t].pc # "out"
  <1> DEFINE low == s_level <= LEVEL_INFO
  <1>0. /\ m_started \/ ctl = "thread" => pool_ready
        /\ low /\ ~pool_ready => forced
        /\ busy /\ ~pool_ready => forced
        /\ undersized => forced
    BY DEF Sized
  <1>b. pool_ready \in BOOLEAN /\ pool_ready' \in BOOLEAN /\ forced \in BOOLEAN /\ undersized \in BOOLEAN
    <2>1. pool_ready \in BOOLEAN /\ forced \in BOOLEAN /\ undersized \in BOOLEAN
      BY DEF States, Types
    <2>2. States'
      BY StatesStep
    <2>3. pool_ready' \in BOOLEAN
      BY <2>2 DEF States, Types
    <2> QED
      BY <2>1, <2>3
  \* Neither the level, nor the pool, nor the history changes.
  <1>k. ASSUME UNCHANGED <<pool_ready, s_level, forced, undersized>>, m_started' \/ ctl' = "thread" => pool_ready,
               busy' => busy
        PROVE  Sized'
    <2>1. low' => low
      BY <1>k
    <2> QED
      BY <1>0, <1>k, <2>1, Zenon DEF Sized
  <1>1. CASE StartPool
    <2>1. pool_ready' = TRUE /\ undersized' = undersized /\ forced' = forced
      BY <1>1 DEF StartPool, history
    <2> QED
      BY <1>0, <2>1 DEF Sized
  <1>2. CASE StartLevel
    <2>1. UNCHANGED <<pool_ready, m_started, client, undersized, forced>> /\ m_started /\ ctl' = "idle"
      BY <1>2 DEF StartLevel, history, Lifetime
    <2>2. pool_ready
      BY <1>0, <2>1
    <2> QED
      BY <1>0, <2>1, <2>2, Zenon DEF Sized
  <1>3. CASE CloseLevel
    <2>1. /\ s_level' = LEVEL_MAX /\ UNCHANGED <<pool_ready, m_started, client, undersized, forced>>
          /\ ctl' \in {ctl, "marker"}
      BY <1>3 DEF CloseLevel
    <2>2. ~low'
      BY <2>1 DEF LEVEL_MAX, LEVEL_INFO
    <2>3. ctl' = "thread" => ctl = "thread"
      BY <2>1
    <2> QED
      BY <1>0, <2>1, <2>2, <2>3, Zenon DEF Sized
  <1>4. CASE \E level \in Levels : SetLevel(level)
    <2>1. /\ UNCHANGED <<pool_ready, m_started, ctl, client, undersized>>
          /\ forced' = (forced \/ ~m_started)
      BY <1>4 DEF SetLevel, threads
    <2>2. forced => forced'
      BY <1>b, <2>1, Zenon
    <2>3. ~pool_ready => forced'
      BY <1>0, <2>1, Zenon
    <2>4. busy' => busy
      BY <2>1
    <2> QED
      BY <1>0, <2>1, <2>2, <2>3, <2>4, Zenon DEF Sized
  <1>5. CASE Crash
    <2>1. /\ s_level' = LEVEL_MAX /\ m_started' = FALSE /\ ctl' = "idle" /\ undersized' = FALSE
          /\ \A t \in Threads : client'[t].pc = "out"
      BY <1>5, CrashMoves
    <2>2. ~low'
      BY <2>1 DEF LEVEL_MAX, LEVEL_INFO
    <2>3. ctl' # "thread"
      BY <2>1
    <2> QED
      BY <2>1, <2>2, <2>3, Zenon DEF Sized
  \* A block is taken: the thread has been let in.
  <1>a. ASSUME NEW b \in Blocks, TakeBlock(b), busy \/ low, UNCHANGED <<pool_ready, m_started, ctl, s_level, forced>>
        PROVE  Sized'
    <2>1. undersized' = (undersized \/ ~pool_ready)
      BY <1>a DEF TakeBlock
    <2>2. ~pool_ready => forced
      BY <1>0, <1>a
    <2>3. undersized' => forced
      BY <1>0, <2>1, <2>2, Zenon
    <2>4. low' => low
      BY <1>a
    <2> QED
      BY <1>0, <1>a, <2>2, <2>3, <2>4, Zenon DEF Sized
  <1>6. ASSUME NEW t \in Threads, NEW m \in MsgLens, LogBegin(t, m) PROVE Sized'
    <2>1. PICK b \in Blocks : TakeBlock(b) /\ low /\ UNCHANGED <<pool_ready, m_started, ctl, s_level, forced>>
      BY <1>6, BeginMoves
    <2> QED
      BY <1>a, <2>1
  <1>7. ASSUME NEW t \in Threads, LogAllocBuf(t) PROVE Sized'
    <2>1. PICK b \in Blocks : TakeBlock(b) /\ client[t].pc = "buf" /\ UNCHANGED <<pool_ready, m_started, ctl, s_level, forced>>
      BY <1>7, AllocBufMoves
    <2>2. busy
      BY <2>1
    <2> QED
      BY <1>a, <2>1, <2>2
  <1>8. ASSUME NEW t \in Threads, LogFreeMsg(t) \/ LogPush(t) PROVE Sized'
    <2>1. /\ client[t].pc # "out" /\ UNCHANGED <<pool_ready, m_started, ctl, s_level, forced, undersized>>
      BY <1>8 DEF LogFreeMsg, LogPush, memory, history
    <2> QED
      BY <1>0, <1>k, <2>1
  <1>9. CASE Write \/ Pop
    <2>1. UNCHANGED <<pool_ready, m_started, ctl, s_level, forced, undersized, client>>
      BY <1>9 DEF Write, Pop, history
    <2> QED
      BY <1>0, <1>k, <2>1
  <1>10. CASE StartThread \/ CloseMarker \/ CloseJoin \/ CloseFile
    <2>1. UNCHANGED <<pool_ready, s_level, forced, undersized, client>>
      BY <1>10 DEF StartThread, CloseMarker, CloseJoin, CloseFile, memory, history
    <2>2. m_started' => m_started \/ ctl = "thread"
      BY <1>10 DEF StartThread, CloseMarker, CloseJoin, CloseFile, memory
    <2>3. ctl' # "thread"
      BY <1>10 DEF StartThread, CloseMarker, CloseJoin, CloseFile
    <2> QED
      BY <1>0, <1>k, <2>1, <2>2, <2>3
  <1>11. CASE StartOpen
    <2>1. UNCHANGED <<pool_ready, m_started, s_level, forced, undersized, client>> /\ ctl' = "pool"
      BY <1>11 DEF StartOpen, history
    <2> QED
      BY <1>0, <1>k, <2>1
  <1>12. CASE ReopenRemove \/ ReopenRename \/ (\E ok \in BOOLEAN : ReopenOpen(ok)) \/ UNCHANGED vars
    <2>1. UNCHANGED <<pool_ready, m_started, ctl, s_level, forced, undersized, client>>
      BY <1>12 DEF ReopenRemove, ReopenRename, ReopenOpen, vars, memory, threads, history
    <2> QED
      BY <1>0, <1>k, <2>1
  <1> QED
    BY <1>1, <1>2, <1>3, <1>4, <1>5, <1>6, <1>7, <1>8, <1>9, <1>10, <1>11, <1>12, StepKinds DEF Quiet

-----------------------------------------------------------------------------
(***************************************************************************)
(* The theorems.                                                           *)
(***************************************************************************)
Invariant == States /\ Lifetime /\ Promises /\ Order /\ Holders /\ Sized

\* The process begins with empty memory and no thread.
LEMMA InvariantInit == Init => Invariant
  <1> SUFFICES ASSUME Init PROVE Invariant
    OBVIOUS
  <1>1. /\ m_data_queue = <<>> /\ ctl = "idle" /\ m_started = FALSE /\ pool_ready = FALSE /\ s_level = LEVEL_MAX
        /\ client = [t \in Threads |-> Out] /\ owed = {} /\ promised = {} /\ undersized = FALSE /\ forced = FALSE
        /\ m_free_blocks = <<>> /\ heap = {} /\ logged = [t \in Threads |-> 0] /\ written = <<>>
        /\ log_thread = [pc |-> "none", data |-> ExitMarker, i |-> 0] /\ 0 \in 0 .. MaxFileNum
    BY LoggerAssumption DEF Init, NoThread
  <1>2. log_thread \in LogState /\ log_thread.pc = "none" /\ log_thread.data = ExitMarker
    BY <1>1, LogStates
  <1>3. /\ client \in [Threads -> ClientState]
        /\ \A t \in Threads : client[t].pc = "out" /\ client[t].msg = NullPtr /\ client[t].buf = NullPtr
    BY <1>1 DEF Out, ClientState
  <1>4. Types
    <2>1. m_data_queue \in Seq(LogData \cup {ExitMarker}) /\ written \in Seq(Lines)
      BY <1>1
    <2>2. logged \in [Threads -> Nat] /\ s_level \in 0 .. LEVEL_MAX /\ ctl \in ControlStates
      BY <1>1 DEF LEVEL_MAX, ControlStates
    <2> QED
      BY <1>1, <1>2, <1>3, <2>1, <2>2, Zenon DEF Types
  <1>5. InHands
    BY <1>2, <1>3 DEF InHands
  <1>6. Lifetime /\ Promises
    BY <1>1, <1>2 DEF Lifetime, Promises, Running
  <1>7. Order
    BY <1>1, <1>2 DEF Order, LinesInOrder, WrittenSent, AtWriteLast, QueueLast, QueueInOrder
  <1>8. \A t \in Threads : Blk(t) = {}
    BY <1>3 DEF Blk
  <1>9. HeldByClients = {} /\ HeldByQueue = {} /\ HeldByLogThread = {}
    <2>1. HeldByClients = {}
      BY <1>4, <1>8, HeldBlocks
    <2> QED
      BY <1>1, <1>2, <2>1, MarkerApart DEF HeldByQueue, HeldByLogThread, ToSet
  <1>10. Cached = {} /\ PoolSound(Cached) /\ Lent(Cached) = {}
    BY <1>1 DEF Cached, PoolSound, Lent, IsInjective, ToSet
  <1>11. Holders
    BY <1>1, <1>3, <1>8, <1>9, <1>10 DEF Holders
  <1>12. ~(s_level <= LEVEL_INFO) /\ ctl # "thread"
    BY <1>1 DEF LEVEL_MAX, LEVEL_INFO
  <1>13. Sized
    BY <1>1, <1>3, <1>12, Zenon DEF Sized
  <1> QED
    BY <1>4, <1>5, <1>6, <1>7, <1>11, <1>13 DEF Invariant, States

\* The inductive invariant.
LEMMA LoggerInvariant == Spec => []Invariant
  <1>1. Init => Invariant
    BY InvariantInit
  <1>2. Invariant /\ [Next]_vars => Invariant'
    <2> SUFFICES ASSUME Invariant, [Next]_vars PROVE Invariant'
      OBVIOUS
    <2>0. States /\ Lifetime /\ Promises /\ Order /\ Holders /\ Sized
      BY DEF Invariant
    <2>1. States'
      BY <2>0, StatesStep
    <2>2. Lifetime' /\ Promises' /\ Order'
      BY <2>0, LifetimeStep, PromisesStep, OrderStep
    <2>3. Holders'
      BY <2>0, <2>1, HoldersStep
    <2>4. Sized'
      BY <2>0, SizedStep
    <2> QED
      BY <2>1, <2>2, <2>3, <2>4 DEF Invariant
  <1> QED
    BY <1>1, <1>2, PTL DEF Spec

\* Close loses no line: when it closes the file, every line whose LogMsg had
\* returned before Close began has been through Write, whatever the queue's
\* capacity and however the threads that log overtake Close.
THEOREM CloseFlushesHolds == Spec => []CloseFlushes
  <1>1. Invariant => CloseFlushes
    BY DEF Invariant, Lifetime, Promises, CloseFlushes
  <1> QED
    BY <1>1, LoggerInvariant, PTL

\* The lines of one thread are written once and in the order in which it
\* logged them, over restarts of the logger and crashes of the process.
THEOREM LinesInOrderHolds == Spec => []LinesInOrder
  <1>1. Invariant => LinesInOrder
    BY DEF Invariant, Order
  <1> QED
    BY <1>1, LoggerInvariant, PTL

\* Every block of the pool is in one place, in the pool, with the thread that
\* fills it, in the queue or with the log thread: none is lost, shared or
\* freed twice, and none is taken before m_pool.Init unless SetLevel forced it.
THEOREM BuffersConservedHolds == Spec => []BuffersConserved
  <1>1. ASSUME Invariant PROVE BuffersConserved
    <2> USE <1>1 DEF Invariant
    <2> DEFINE places == <<ToSet(m_free_blocks), HeldByClients, HeldByQueue, HeldByLogThread>>
    <2>1. places[1] = ToSet(m_free_blocks) /\ places[2] = HeldByClients
          /\ places[3] = HeldByQueue /\ places[4] = HeldByLogThread
      OBVIOUS
    <2> HIDE DEF places
    <2>2. ToSet(m_free_blocks) \subseteq Cached /\ IsInjective(m_free_blocks)
      BY DEF Holders, PoolSound, ToSet
    <2>3. HeldByClients \cup HeldByQueue \cup HeldByLogThread = (Cached \cup heap) \ ToSet(m_free_blocks)
      BY DEF Holders, Lent
    <2>4. /\ HeldByClients \cap HeldByQueue = {} /\ HeldByClients \cap HeldByLogThread = {}
          /\ HeldByQueue \cap HeldByLogThread = {}
      BY DEF Holders
    <2>5. \A i, j \in 1 .. 4 : i # j => places[i] \cap places[j] = {}
      <3>1. \A i \in 1 .. 4 : i = 1 \/ i = 2 \/ i = 3 \/ i = 4
        OBVIOUS
      <3> QED
        BY <2>1, <2>3, <2>4, <3>1
    <2>6. \A t, u \in Threads : t # u =>
            {client[t].msg, client[t].buf} \cap {client[u].msg, client[u].buf} \subseteq {NullPtr}
      BY DEF Holders, Blk
    <2>7. UNION {places[i] : i \in 1 .. 4} = heap \cup Cached
      <3>1. {places[i] : i \in 1 .. 4} = {places[1], places[2], places[3], places[4]}
        OBVIOUS
      <3> QED
        BY <2>1, <2>2, <2>3, <3>1
    <2>8. \A t \in Threads : client[t].msg # NullPtr => client[t].msg # client[t].buf
      BY DEF Holders
    <2>9. undersized => forced
      BY DEF Sized
    <2> QED
      BY <2>2, <2>5, <2>6, <2>7, <2>8, <2>9 DEF BuffersConserved, places, Cached
  <1> QED
    BY <1>1, LoggerInvariant, PTL

-----------------------------------------------------------------------------
(***************************************************************************)
(* Sequences laid one behind the other.                                    *)
(***************************************************************************)
\* What the first parts of s are, one behind the other.
Joins(u, s, n) == u[0] = <<>> /\ \A i \in 1 .. n : u[i] = u[i - 1] \o s[i]

\* These exist,
LEMMA JoinsExist ==
    ASSUME NEW S, NEW s \in Seq(Seq(S)), NEW n, n = Len(s)
    PROVE  \E u \in [0 .. n -> Seq(S)] : Joins(u, s, n)
  <1> DEFINE step == [p \in (1 .. n) \X Seq(S) |-> p[2] \o s[p[1]]]
  <1>0. n \in Nat /\ \A i \in 1 .. n : s[i] \in Seq(S)
    OBVIOUS
  <1>1. n \in Nat /\ step \in [(1 .. n) \X Seq(S) -> Seq(S)]
    BY <1>0
  <1>2. \A i \in 1 .. n, v \in Seq(S) : step[<<i, v>>] = v \o s[i]
    OBVIOUS
  <1> HIDE DEF step
  <1>3. PICK u \in [0 .. n -> Seq(S)] : Steps(u, <<>>, step, n)
    <2>1. <<>> \in Seq(S)
      OBVIOUS
    <2>2. \E u \in [0 .. n -> Seq(S)] : Steps(u, <<>>, step, n)
      BY <1>1, <2>1, StepsExist
    <2> QED
      BY <2>2
  <1>4. \A i \in 1 .. n : i - 1 \in 0 .. n /\ u[i - 1] \in Seq(S)
    <2>1. \A i \in 1 .. n : i - 1 \in 0 .. n
      BY <1>1
    <2>2. \A i \in 0 .. n : u[i] \in Seq(S)
      OBVIOUS
    <2> QED
      BY <2>1, <2>2
  <1>5. \A i \in 1 .. n : u[i] = u[i - 1] \o s[i]
    <2>1. \A i \in 1 .. n : u[i] = step[<<i, u[i - 1]>>]
      BY <1>3 DEF Steps
    <2> QED
      BY <1>2, <1>4, <2>1
  <1>6. u[0] = <<>>
    BY <1>3 DEF Steps
  <1> QED
    BY <1>5, <1>6 DEF Joins

\* and the last of them is the whole.
Whole(S, s, n) == \E u \in [0 .. n -> Seq(S)] : Joins(u, s, n) /\ FlattenSeq(s) = u[n]

\* FlattenSeq, which is defined by recursion, is the last of the joined parts.
LEMMA FlattenIsJoin ==
    ASSUME NEW S, NEW s \in Seq(Seq(S)), NEW n, n = Len(s), n > 0
    PROVE  Whole(S, s, n)
  <1>1. n = Len(s)
    OBVIOUS
  <1>2. n \in Nat /\ n > 0 /\ \A i \in 1 .. n : s[i] \in Seq(S)
    BY <1>1
  <1>3. PICK u \in [0 .. n -> Seq(S)] : Joins(u, s, n)
    BY <1>1, JoinsExist
  <1> DEFINE U == CHOOSE f : f = [i \in 1 .. Len(s) |-> IF i = 1 THEN s[i] ELSE f[i - 1] \o s[i]]
             w == [i \in 1 .. n |-> u[i]]
  <1>4. FlattenSeq(s) = U[n]
    BY <1>1, <1>2 DEF FlattenSeq
  <1>5. \A i \in 1 .. n : u[i] = u[i - 1] \o s[i]
    BY <1>3 DEF Joins
  <1>6. u[1] = s[1]
    <2>1. u[1] = <<>> \o s[1] /\ s[1] \in Seq(S)
      <3>1. u[0] = <<>>
        BY <1>3 DEF Joins
      <3>2. 1 \in 1 .. n /\ 1 - 1 = 0
        BY <1>2
      <3>3. u[1] = u[1 - 1] \o s[1]
        BY <1>5, <3>2
      <3> QED
        BY <1>2, <3>1, <3>2, <3>3
    <2> QED
      BY <2>1
  <1>7. \A i \in 1 .. n : w[i] = u[i]
    OBVIOUS
  <1>8. w = [i \in 1 .. Len(s) |-> IF i = 1 THEN s[i] ELSE w[i - 1] \o s[i]]
    <2>1. \A i \in 1 .. n : w[i] = IF i = 1 THEN s[i] ELSE w[i - 1] \o s[i]
      <3> SUFFICES ASSUME NEW i \in 1 .. n
                   PROVE  w[i] = IF i = 1 THEN s[i] ELSE w[i - 1] \o s[i]
        OBVIOUS
      <3>1. CASE i = 1
        BY <1>6, <1>7, <3>1
      <3>2. CASE i # 1
        <4>1. i - 1 \in 1 .. n
          BY <1>2, <3>2
        <4>2. w[i] = u[i] /\ w[i - 1] = u[i - 1]
          BY <1>7, <4>1
        <4> HIDE DEF w
        <4> QED
          BY <1>5, <3>2, <4>2
      <3> QED
        BY <3>1, <3>2
    <2>2. w = [i \in 1 .. n |-> w[i]]
      OBVIOUS
    <2> HIDE DEF w
    <2> QED
      BY <1>1, <2>1, <2>2
  <1> HIDE DEF w
  <1>9. U = [i \in 1 .. Len(s) |-> IF i = 1 THEN s[i] ELSE U[i - 1] \o s[i]]
    BY <1>8, Zenon
  <1> HIDE DEF U
  <1>10. \A i \in 1 .. n : U[i] = IF i = 1 THEN s[i] ELSE U[i - 1] \o s[i]
    BY <1>1, <1>9
  <1> DEFINE Bad == {i \in 1 .. n : U[i] # u[i]}
  <1>11. Bad = {}
    <2> SUFFICES ASSUME Bad # {} PROVE FALSE
      OBVIOUS
    <2>1. PICK i \in Bad : \A j \in Bad : i <= j
      <3>1. Bad \in SUBSET Nat
        BY <1>2
      <3> HIDE DEF Bad
      <3> QED
        BY <3>1, LeastNat
    <2>2. i \in 1 .. n /\ U[i] # u[i]
      OBVIOUS
    <2>3. i # 1
      BY <1>6, <1>10, <2>2
    <2>4. i - 1 \in 1 .. n /\ i - 1 \notin Bad
      <3>1. i - 1 \in 1 .. n /\ i \in Nat
        BY <1>2, <2>2, <2>3
      <3>2. ~ (i <= i - 1)
        BY <3>1
      <3> HIDE DEF Bad
      <3> QED
        BY <2>1, <3>1, <3>2
    <2>5. U[i - 1] = u[i - 1]
      BY <2>4
    <2>6. u[i] = u[i - 1] \o s[i]
      BY <1>5, <2>2
    <2>7. U[i] = U[i - 1] \o s[i]
      BY <1>10, <2>2, <2>3
    <2> QED
      BY <2>2, <2>5, <2>6, <2>7
  <1>12. FlattenSeq(s) = u[n]
    <2>1. n \in 1 .. n /\ n \notin Bad
      <3>1. n \in 1 .. n
        BY <1>2
      <3> QED
        BY <1>11, <3>1
    <2>2. U[n] = u[n]
      BY <2>1
    <2> QED
      BY <1>4, <2>2
  <1> QED
    BY <1>3, <1>12 DEF Whole

\* Nothing adds nothing,
LEMMA ConcatEmpty ==
    ASSUME NEW S, NEW a \in Seq(S)
    PROVE  a \o <<>> = a /\ <<>> \o a = a
  OBVIOUS

\* three sequences are put together in either order,
LEMMA ConcatAssoc ==
    ASSUME NEW S, NEW a \in Seq(S), NEW b \in Seq(S), NEW c \in Seq(S)
    PROVE  (a \o b) \o c = a \o (b \o c)
  <1>1. PICK x, y, ab, bc : ab = a \o b /\ bc = b \o c /\ x = ab \o c /\ y = a \o bc
    OBVIOUS
  <1>2. PICK k, m, n : k = Len(a) /\ m = Len(b) /\ n = Len(c)
    OBVIOUS
  <1>3. /\ k \in Nat /\ m \in Nat /\ n \in Nat /\ ab \in Seq(S) /\ Len(ab) = k + m
        /\ \A i \in 1 .. k + m : ab[i] = IF i <= k THEN a[i] ELSE b[i - k]
    BY <1>1, <1>2, ConcatPlaces
  <1>4. /\ bc \in Seq(S) /\ Len(bc) = m + n
        /\ \A i \in 1 .. m + n : bc[i] = IF i <= m THEN b[i] ELSE c[i - m]
    BY <1>1, <1>2, ConcatPlaces
  <1>5. /\ x \in Seq(S) /\ Len(x) = (k + m) + n
        /\ \A i \in 1 .. (k + m) + n : x[i] = IF i <= k + m THEN ab[i] ELSE c[i - (k + m)]
    BY <1>1, <1>2, <1>3, ConcatPlaces
  <1>6. /\ y \in Seq(S) /\ Len(y) = k + (m + n)
        /\ \A i \in 1 .. k + (m + n) : y[i] = IF i <= k THEN a[i] ELSE bc[i - k]
    BY <1>1, <1>2, <1>4, ConcatPlaces
  <1>7. Len(x) = Len(y) /\ Len(x) = (k + m) + n
    BY <1>3, <1>5, <1>6
  <1>8. ASSUME NEW i \in 1 .. (k + m) + n PROVE x[i] = y[i]
    <2>0. i \in 1 .. k + (m + n) /\ i \in Nat /\ i > 0
      BY <1>3
    <2>1. CASE i <= k
      <3>1. i <= k + m /\ i \in 1 .. k + m
        BY <1>3, <2>0, <2>1
      <3> QED
        BY <1>3, <1>5, <1>6, <2>0, <2>1, <3>1
    <2>2. CASE ~ (i <= k) /\ i <= k + m
      <3>1. i \in 1 .. k + m /\ i - k \in 1 .. m + n /\ i - k <= m
        BY <1>3, <2>0, <2>2
      <3>2. x[i] = b[i - k]
        BY <1>3, <1>5, <2>2, <3>1
      <3>3. y[i] = b[i - k]
        BY <1>4, <1>6, <2>0, <2>2, <3>1
      <3> QED
        BY <3>2, <3>3
    <2>3. CASE ~ (i <= k + m)
      <3>1. ~ (i <= k) /\ i - k \in 1 .. m + n /\ ~ (i - k <= m) /\ (i - k) - m = i - (k + m)
        BY <1>3, <2>0, <2>3
      <3>2. x[i] = c[i - (k + m)]
        BY <1>5, <2>3
      <3>3. y[i] = c[(i - k) - m]
        BY <1>4, <1>6, <2>0, <3>1
      <3> QED
        BY <3>1, <3>2, <3>3
    <2> QED
      BY <2>1, <2>2, <2>3
  <1>9. x = y
    BY <1>5, <1>6, <1>7, <1>8, SeqsEqual
  <1> QED
    BY <1>1, <1>9

EitherOrder(S) == \A a, b, c \in Seq(S) : (a \o b) \o c = a \o (b \o c)

\* Any three sequences of S are put together in either order.
LEMMA ConcatEitherOrder ==
    ASSUME NEW S
    PROVE  EitherOrder(S)
  <1>1. ASSUME NEW a \in Seq(S), NEW b \in Seq(S), NEW c \in Seq(S)
        PROVE  (a \o b) \o c = a \o (b \o c)
    BY ConcatAssoc
  <1> QED
    BY <1>1, Zenon DEF EitherOrder

\* and an element at the end stays at the end.
LEMMA ConcatAppend ==
    ASSUME NEW S, NEW a \in Seq(S), NEW b \in Seq(S), NEW e \in S
    PROVE  a \o Append(b, e) = Append(a \o b, e)
  <1>1. Append(b, e) = b \o <<e>> /\ a \o b \in Seq(S) /\ <<e>> \in Seq(S)
    OBVIOUS
  <1>2. Append(a \o b, e) = (a \o b) \o <<e>>
    BY <1>1
  <1>3. (a \o b) \o <<e>> = a \o (b \o <<e>>)
    BY <1>1, ConcatAssoc
  <1> QED
    BY <1>1, <1>2, <1>3

\* An element behind the last part is behind the whole.
LEMMA FlattenAppend ==
    ASSUME NEW S, NEW s \in Seq(Seq(S)), NEW t \in Seq(Seq(S)), NEW e \in S,
           Len(s) > 0, Len(t) = Len(s), t[Len(s)] = Append(s[Len(s)], e),
           \A i \in 1 .. Len(s) : i # Len(s) => t[i] = s[i]
    PROVE  FlattenSeq(t) = Append(FlattenSeq(s), e) /\ FlattenSeq(s) \in Seq(S)
  <1>1. PICK n : n = Len(s)
    OBVIOUS
  <1>2. /\ n \in Nat /\ n > 0 /\ Len(t) = n /\ \A i \in 1 .. n : s[i] \in Seq(S)
        /\ t[n] = Append(s[n], e) /\ \A i \in 1 .. n : i # n => t[i] = s[i]
    BY <1>1
  <1>3. PICK u \in [0 .. n -> Seq(S)] : Joins(u, s, n) /\ FlattenSeq(s) = u[n]
    <2>1. n = Len(s) /\ n > 0
      BY <1>1, <1>2
    <2>2. Whole(S, s, n)
      BY <2>1, FlattenIsJoin
    <2> QED
      BY <2>2 DEF Whole
  <1>4. PICK v \in [0 .. n -> Seq(S)] : Joins(v, t, n) /\ FlattenSeq(t) = v[n]
    <2>1. n = Len(t) /\ n > 0
      BY <1>1, <1>2
    <2>2. Whole(S, t, n)
      BY <2>1, FlattenIsJoin
    <2> QED
      BY <2>2 DEF Whole
  <1>5. u[0] = <<>> /\ \A i \in 1 .. n : u[i] = u[i - 1] \o s[i]
    BY <1>3 DEF Joins
  <1>6. v[0] = <<>> /\ \A i \in 1 .. n : v[i] = v[i - 1] \o t[i]
    BY <1>4 DEF Joins
  <1> DEFINE Bad == {i \in 0 .. n - 1 : u[i] # v[i]}
  <1>7. Bad = {}
    <2> SUFFICES ASSUME Bad # {} PROVE FALSE
      OBVIOUS
    <2>1. PICK i \in Bad : \A j \in Bad : i <= j
      <3>1. Bad \in SUBSET Nat
        BY <1>2
      <3> HIDE DEF Bad
      <3> QED
        BY <3>1, LeastNat
    <2>2. i \in 0 .. n - 1 /\ u[i] # v[i]
      OBVIOUS
    <2>3. i # 0
      BY <1>5, <1>6, <2>2
    <2>4. i \in 1 .. n /\ i # n /\ i - 1 \in 0 .. n - 1 /\ i - 1 \notin Bad
      <3>1. i \in 1 .. n /\ i # n /\ i - 1 \in 0 .. n - 1 /\ ~ (i <= i - 1)
        BY <1>2, <2>2, <2>3
      <3> HIDE DEF Bad
      <3> QED
        BY <2>1, <3>1
    <2>5. u[i - 1] = v[i - 1]
      BY <2>4
    <2>6. s[i] = t[i]
      BY <1>2, <2>4
    <2> QED
      BY <1>5, <1>6, <2>2, <2>4, <2>5, <2>6
  <1>8. u[n - 1] = v[n - 1] /\ u[n - 1] \in Seq(S) /\ n \in 1 .. n
    <2>1. n - 1 \in 0 .. n - 1 /\ n - 1 \in 0 .. n /\ n \in 1 .. n
      BY <1>2
    <2>2. n - 1 \notin Bad
      BY <1>7
    <2> QED
      BY <2>1, <2>2
  <1>9. u[n] = u[n - 1] \o s[n] /\ v[n] = u[n - 1] \o Append(s[n], e)
    BY <1>2, <1>5, <1>6, <1>8
  <1>10. s[n] \in Seq(S)
    BY <1>2, <1>8
  <1>11. v[n] = Append(u[n], e)
    <2>1. PICK a, b : a = u[n - 1] /\ b = s[n]
      OBVIOUS
    <2>2. a \in Seq(S) /\ b \in Seq(S)
      BY <1>8, <1>10, <2>1, Zenon
    <2>3. a \o Append(b, e) = Append(a \o b, e)
      BY <2>2, ConcatAppend, SMTT(60)
    <2> QED
      BY <1>9, <2>1, <2>3
  <1>12. u[n] \in Seq(S)
    BY <1>2
  <1> QED
    BY <1>3, <1>4, <1>11, <1>12

\* A part may move over an empty one.
LEMMA FlattenMove ==
    ASSUME NEW S, NEW s \in Seq(Seq(S)), NEW t \in Seq(Seq(S)), Len(t) = Len(s),
           NEW p \in 1 .. Len(s) - 1, s[p] = <<>>, t[p] = s[p + 1], t[p + 1] = <<>>,
           \A i \in 1 .. Len(s) : i # p /\ i # p + 1 => t[i] = s[i]
    PROVE  FlattenSeq(t) = FlattenSeq(s)
  <1>1. PICK n : n = Len(s)
    OBVIOUS
  <1>2. /\ n \in Nat /\ n > 0 /\ Len(t) = n /\ \A i \in 1 .. n : s[i] \in Seq(S)
        /\ p \in Nat /\ p > 0 /\ p < n
        /\ \A i \in 1 .. n : i # p /\ i # p + 1 => t[i] = s[i]
    <2>1. n \in Nat /\ p \in Nat /\ p > 0 /\ p < n
      BY <1>1
    <2>2. Len(t) = n /\ \A i \in 1 .. n : i # p /\ i # p + 1 => t[i] = s[i]
      BY <1>1
    <2>3. \A i \in 1 .. n : s[i] \in Seq(S)
      BY <1>1
    <2> QED
      BY <2>1, <2>2, <2>3
  <1>3. PICK u \in [0 .. n -> Seq(S)] : Joins(u, s, n) /\ FlattenSeq(s) = u[n]
    <2>1. n = Len(s) /\ n > 0
      BY <1>1, <1>2
    <2>2. Whole(S, s, n)
      BY <2>1, FlattenIsJoin
    <2> QED
      BY <2>2 DEF Whole
  <1>4. PICK v \in [0 .. n -> Seq(S)] : Joins(v, t, n) /\ FlattenSeq(t) = v[n]
    <2>1. n = Len(t) /\ n > 0
      BY <1>1, <1>2
    <2>2. Whole(S, t, n)
      BY <2>1, FlattenIsJoin
    <2> QED
      BY <2>2 DEF Whole
  <1>5. u[0] = <<>> /\ \A i \in 1 .. n : u[i] = u[i - 1] \o s[i]
    BY <1>3 DEF Joins
  <1>6. v[0] = <<>> /\ \A i \in 1 .. n : v[i] = v[i - 1] \o t[i]
    BY <1>4 DEF Joins
  <1> DEFINE Bad == {i \in 0 .. n : i # p /\ u[i] # v[i]}
  <1>7. Bad = {}
    <2> SUFFICES ASSUME Bad # {} PROVE FALSE
      OBVIOUS
    <2>1. PICK i \in Bad : \A j \in Bad : i <= j
      <3>1. Bad \in SUBSET Nat
        BY <1>2
      <3> HIDE DEF Bad
      <3> QED
        BY <3>1, LeastNat
    <2>2. i \in 0 .. n /\ i # p /\ u[i] # v[i]
      OBVIOUS
    <2>3. i # 0
      BY <1>5, <1>6, <2>2
    <2>4. i \in 1 .. n /\ i - 1 \in 0 .. n /\ i - 1 \notin Bad
      BY <1>2, <2>1, <2>2, <2>3
    <2>5. CASE i - 1 # p
      <3>1. u[i - 1] = v[i - 1]
        BY <2>4, <2>5
      <3>2. s[i] = t[i]
        <4>1. i # p + 1
          BY <1>2, <2>4, <2>5
        <4> QED
          BY <1>2, <2>2, <2>4, <4>1
      <3> QED
        BY <1>5, <1>6, <2>2, <2>4, <3>1, <3>2
    <2>6. CASE i - 1 = p
      <3>1. i = p + 1 /\ p \in 1 .. n /\ p + 1 \in 1 .. n /\ p - 1 \in 0 .. n /\ p - 1 # p /\ (p + 1) - 1 = p
        BY <1>2, <2>4, <2>6
      <3>2. p - 1 \notin Bad
        BY <1>2, <2>1, <3>1
      <3>3. u[p - 1] = v[p - 1] /\ u[p - 1] \in Seq(S)
        BY <3>1, <3>2
      <3>4. PICK a, b : a = u[p - 1] /\ b = s[p + 1]
        OBVIOUS
      <3>5. a \in Seq(S) /\ b \in Seq(S)
        BY <1>2, <3>1, <3>3, <3>4
      <3>6. u[p] = a \o <<>> /\ v[p] = a \o b
        <4>1. u[p] = u[p - 1] \o s[p] /\ v[p] = v[p - 1] \o t[p]
          BY <1>5, <1>6, <3>1
        <4> QED
          BY <3>3, <3>4, <4>1
      <3>7. u[p + 1] = u[p] \o b /\ v[p + 1] = v[p] \o <<>>
        <4>1. u[p + 1] = u[p] \o s[p + 1] /\ v[p + 1] = v[p] \o t[p + 1]
          BY <1>5, <1>6, <3>1
        <4> QED
          BY <3>4, <4>1
      <3>8. u[p] = a /\ a \o b \in Seq(S)
        BY <3>5, <3>6, ConcatEmpty
      <3>9. v[p + 1] = a \o b /\ u[p + 1] = a \o b
        BY <3>6, <3>7, <3>8, ConcatEmpty
      <3> QED
        BY <2>2, <3>1, <3>9
    <2> QED
      BY <2>5, <2>6
  <1>8. n \in 0 .. n /\ n # p
    <2>1. n \in Nat /\ p \in Nat /\ p < n
      BY <1>2
    <2> QED
      BY <2>1
  <1>9. u[n] = v[n]
    BY <1>7, <1>8
  <1> QED
    BY <1>3, <1>4, <1>9

\* The first part may be taken away.
LEMMA FlattenDrop ==
    ASSUME NEW S, NEW s \in Seq(Seq(S)), NEW t \in Seq(Seq(S)), Len(s) > 0, Len(t) = Len(s),
           t[1] = <<>>, \A i \in 1 .. Len(s) : i # 1 => t[i] = s[i]
    PROVE  FlattenSeq(s) = s[1] \o FlattenSeq(t) /\ FlattenSeq(t) \in Seq(S)
  <1>1. PICK n, a : n = Len(s) /\ a = s[1]
    OBVIOUS
  <1>2. /\ n \in Nat /\ n > 0 /\ Len(t) = n /\ \A i \in 1 .. n : s[i] \in Seq(S) /\ t[i] \in Seq(S)
        /\ a \in Seq(S)
        /\ \A i \in 1 .. n : i # 1 => t[i] = s[i]
    <2>1. n \in Nat /\ n > 0 /\ Len(t) = n /\ \A i \in 1 .. n : i # 1 => t[i] = s[i]
      <3>1. Len(s) \in Nat
        OBVIOUS
      <3>2. n = Len(s)
        BY <1>1
      <3> QED
        BY <3>1, <3>2
    <2>2. \A i \in 1 .. n : s[i] \in Seq(S) /\ t[i] \in Seq(S)
      <3>1. \A i \in 1 .. Len(s) : s[i] \in Seq(S)
        OBVIOUS
      <3>2. \A i \in 1 .. Len(t) : t[i] \in Seq(S)
        OBVIOUS
      <3>3. Len(s) = n /\ Len(t) = n
        BY <1>1
      <3> QED
        BY <3>1, <3>2, <3>3
    <2>3. 1 \in 1 .. n
      BY <2>1
    <2> QED
      BY <1>1, <2>1, <2>2, <2>3
  <1>3. PICK u \in [0 .. n -> Seq(S)] : Joins(u, s, n) /\ FlattenSeq(s) = u[n]
    <2>1. n = Len(s) /\ n > 0
      BY <1>1, <1>2
    <2>2. Whole(S, s, n)
      BY <2>1, FlattenIsJoin
    <2> QED
      BY <2>2 DEF Whole
  <1>4. PICK v \in [0 .. n -> Seq(S)] : Joins(v, t, n) /\ FlattenSeq(t) = v[n]
    <2>1. n = Len(t) /\ n > 0
      BY <1>1, <1>2
    <2>2. Whole(S, t, n)
      BY <2>1, FlattenIsJoin
    <2> QED
      BY <2>2 DEF Whole
  <1>5. u[0] = <<>> /\ \A i \in 1 .. n : u[i] = u[i - 1] \o s[i]
    BY <1>3 DEF Joins
  <1>6. v[0] = <<>> /\ \A i \in 1 .. n : v[i] = v[i - 1] \o t[i]
    BY <1>4 DEF Joins
  <1>10. EitherOrder(S)
    BY ConcatEitherOrder, Zenon
  <1> DEFINE Bad == {i \in 1 .. n : u[i] # a \o v[i]}
  <1>7. Bad = {}
    <2> SUFFICES ASSUME Bad # {} PROVE FALSE
      OBVIOUS
    <2>1. PICK i \in Bad : \A j \in Bad : i <= j
      <3>1. Bad \in SUBSET Nat
        BY <1>2
      <3> HIDE DEF Bad
      <3> QED
        BY <3>1, LeastNat
    <2>2. i \in 1 .. n /\ u[i] # a \o v[i]
      OBVIOUS
    <2>3. i # 1
      <3>1. 1 \in 1 .. n /\ 1 - 1 = 0
        BY <1>2
      <3>2. u[1] = u[1 - 1] \o s[1] /\ v[1] = v[1 - 1] \o t[1]
        BY <1>5, <1>6, <3>1
      <3>3. u[1] = <<>> \o a /\ v[1] = <<>> \o <<>>
        BY <1>1, <1>5, <1>6, <3>1, <3>2
      <3>4. u[1] = a /\ v[1] = <<>>
        BY <1>2, <3>3, ConcatEmpty
      <3>5. a \o v[1] = a
        BY <1>2, <3>4, ConcatEmpty
      <3> QED
        BY <2>2, <3>4, <3>5
    <2>4. i - 1 \in 1 .. n /\ i - 1 \notin Bad /\ i - 1 \in 0 .. n
      <3>1. i - 1 \in 1 .. n /\ i \in Nat /\ i - 1 \in 0 .. n
        BY <1>2, <2>2, <2>3
      <3>2. ~ (i <= i - 1)
        BY <3>1
      <3> HIDE DEF Bad
      <3> QED
        BY <2>1, <3>1, <3>2
    <2>5. u[i - 1] = a \o v[i - 1]
      BY <2>4
    <2>6. s[i] = t[i] /\ t[i] \in Seq(S) /\ v[i - 1] \in Seq(S)
      BY <1>2, <2>2, <2>3, <2>4
    <2>7. u[i] = (a \o v[i - 1]) \o t[i] /\ v[i] = v[i - 1] \o t[i]
      <3>1. v[i] = v[i - 1] \o t[i]
        BY <1>6, <2>2
      <3>2. u[i] = u[i - 1] \o s[i]
        BY <1>5, <2>2
      <3> QED
        BY <2>5, <2>6, <3>1, <3>2, Zenon
    <2>8. (a \o v[i - 1]) \o t[i] = a \o (v[i - 1] \o t[i])
      <3>1. PICK x, y, z : x = a /\ y = v[i - 1] /\ z = t[i]
        OBVIOUS
      <3>2. x \in Seq(S) /\ y \in Seq(S) /\ z \in Seq(S)
        BY <1>2, <2>6, <3>1, Zenon
      <3>3. (x \o y) \o z = x \o (y \o z)
        BY <1>10, <3>2, Zenon DEF EitherOrder
      <3> QED
        BY <3>1, <3>3, Zenon
    <2> QED
      BY <2>2, <2>7, <2>8
  <1>8. n \in 1 .. n /\ n \in 0 .. n
    BY <1>2
  <1>9. u[n] = a \o v[n] /\ v[n] \in Seq(S)
    BY <1>7, <1>8
  <1> QED
    BY <1>1, <1>3, <1>4, <1>9

\* Nothing but empty parts is nothing.
LEMMA FlattenEmpty ==
    ASSUME NEW S, NEW s \in Seq(Seq(S)), Len(s) > 0, \A i \in 1 .. Len(s) : s[i] = <<>>
    PROVE  FlattenSeq(s) = <<>>
  <1>1. PICK n : n = Len(s)
    OBVIOUS
  <1>2. n \in Nat /\ n > 0 /\ \A i \in 1 .. n : s[i] = <<>>
    BY <1>1
  <1>3. PICK u \in [0 .. n -> Seq(S)] : Joins(u, s, n) /\ FlattenSeq(s) = u[n]
    <2>1. n = Len(s) /\ n > 0
      BY <1>1, <1>2
    <2>2. Whole(S, s, n)
      BY <2>1, FlattenIsJoin
    <2> QED
      BY <2>2 DEF Whole
  <1>4. u[0] = <<>> /\ \A i \in 1 .. n : u[i] = u[i - 1] \o s[i]
    BY <1>3 DEF Joins
  <1> DEFINE Bad == {i \in 0 .. n : u[i] # <<>>}
  <1>5. Bad = {}
    <2> SUFFICES ASSUME Bad # {} PROVE FALSE
      OBVIOUS
    <2>1. PICK i \in Bad : \A j \in Bad : i <= j
      <3>1. Bad \in SUBSET Nat
        BY <1>2
      <3> HIDE DEF Bad
      <3> QED
        BY <3>1, LeastNat
    <2>2. i \in 0 .. n /\ u[i] # <<>>
      OBVIOUS
    <2>3. i \in 1 .. n /\ i - 1 \in 0 .. n
      <3>1. i # 0
        BY <1>4, <2>2
      <3> QED
        BY <1>2, <2>2, <3>1
    <2>4. i - 1 \notin Bad
      <3>1. ~ (i <= i - 1)
        BY <2>3
      <3> HIDE DEF Bad
      <3> QED
        BY <2>1, <3>1
    <2>5. u[i - 1] = <<>>
      BY <2>3, <2>4
    <2>6. u[i] = <<>> \o <<>>
      BY <1>2, <1>4, <2>3, <2>5
    <2>7. <<>> \o <<>> = <<>>
      OBVIOUS
    <2> QED
      BY <2>2, <2>6, <2>7
  <1>6. n \in 0 .. n
    BY <1>2
  <1>7. n \notin Bad
    BY <1>5
  <1> QED
    BY <1>3, <1>6, <1>7

\* The parts of sequences make a sequence.
LEMMA FlattenTyped ==
    ASSUME NEW S, NEW s \in Seq(Seq(S)), Len(s) > 0
    PROVE  FlattenSeq(s) \in Seq(S)
  <1>1. PICK n : n = Len(s)
    OBVIOUS
  <1>2. n \in Nat /\ n = Len(s) /\ n > 0
    BY <1>1
  <1>3. Whole(S, s, n)
    BY <1>2, FlattenIsJoin
  <1>4. PICK u \in [0 .. n -> Seq(S)] : FlattenSeq(s) = u[n]
    BY <1>3 DEF Whole
  <1>5. n \in 0 .. n
    BY <1>2
  <1> QED
    BY <1>4, <1>5

\* A suffix, by its places.
LEMMA SuffixPlaces ==
    ASSUME NEW S, NEW d \in Seq(S), NEW w \in Seq(S)
    PROVE  IsSuffix(d, w) <=>
             Len(d) <= Len(w) /\ \A i \in 1 .. Len(d) : d[i] = w[Len(w) - Len(d) + i]
  <1>1. PICK m, n : m = Len(d) /\ n = Len(w)
    OBVIOUS
  <1>2. m \in Nat /\ n \in Nat
    BY <1>1
  <1>3. PICK x, y : x = Reverse(d) /\ y = Reverse(w)
    OBVIOUS
  <1>4. /\ x \in Seq(S) /\ y \in Seq(S) /\ Len(x) = m /\ Len(y) = n
        /\ \A i \in 1 .. m : x[i] = d[(m - i) + 1]
        /\ \A i \in 1 .. n : y[i] = w[(n - i) + 1]
    BY <1>1, <1>2, <1>3 DEF Reverse
  <1>5. CASE m <= n
    <2>1. PICK p, q : p = SubSeq(x, 1, m) /\ q = SubSeq(y, 1, m)
      OBVIOUS
    <2>2. /\ p \in Seq(S) /\ q \in Seq(S) /\ Len(p) = m /\ Len(q) = m
          /\ \A i \in 1 .. m : p[i] = x[i] /\ q[i] = y[i]
      BY <1>2, <1>4, <1>5, <2>1
    <2>3. (p = q) <=> \A i \in 1 .. m : x[i] = y[i]
      BY <2>2, SeqsEqual
    <2>4. ASSUME \A i \in 1 .. m : x[i] = y[i], NEW i \in 1 .. m
          PROVE  d[i] = w[n - m + i]
      <3>1. m - i + 1 \in 1 .. m /\ m - i + 1 \in 1 .. n
        BY <1>2, <1>5
      <3>2. x[m - i + 1] = d[(m - (m - i + 1)) + 1] /\ y[m - i + 1] = w[(n - (m - i + 1)) + 1]
        BY <1>4, <3>1
      <3>3. (m - (m - i + 1)) + 1 = i /\ (n - (m - i + 1)) + 1 = n - m + i
        BY <1>2
      <3> QED
        BY <2>4, <3>1, <3>2, <3>3
    <2>5. ASSUME \A i \in 1 .. m : d[i] = w[n - m + i], NEW i \in 1 .. m
          PROVE  x[i] = y[i]
      <3>1. m - i + 1 \in 1 .. m /\ i \in 1 .. n
        BY <1>2, <1>5
      <3>2. d[m - i + 1] = w[n - m + (m - i + 1)]
        BY <2>5, <3>1
      <3>3. x[i] = d[m - i + 1] /\ y[i] = w[n - i + 1] /\ n - m + (m - i + 1) = n - i + 1
        BY <1>2, <1>4, <3>1
      <3> QED
        BY <3>2, <3>3
    <2>6. IsSuffix(d, w) <=> p = q
      BY <1>3, <1>4, <1>5, <2>1 DEF IsSuffix, IsPrefix
    <2> QED
      BY <1>1, <1>5, <2>3, <2>4, <2>5, <2>6
  <1>6. CASE ~ (m <= n)
    BY <1>1, <1>3, <1>4, <1>6 DEF IsSuffix, IsPrefix
  <1> QED
    BY <1>5, <1>6

\* A suffix stays one when both grow by the same element, and when its front is cut off.
LEMMA SuffixAppend ==
    ASSUME NEW S, NEW d \in Seq(S), NEW w \in Seq(S), NEW e \in S, IsSuffix(d, w)
    PROVE  IsSuffix(Append(d, e), Append(w, e))
  <1>1. PICK x, y : x = Append(d, e) /\ y = Append(w, e)
    OBVIOUS
  <1>2. PICK m, n : m = Len(d) /\ n = Len(w)
    OBVIOUS
  <1>3. m \in Nat /\ n \in Nat /\ m <= n /\ \A i \in 1 .. m : d[i] = w[n - m + i]
    BY <1>2, SuffixPlaces
  <1>4. /\ x \in Seq(S) /\ y \in Seq(S) /\ Len(x) = m + 1 /\ Len(y) = n + 1 /\ x[m + 1] = e /\ y[n + 1] = e
        /\ \A i \in 1 .. m : x[i] = d[i]
        /\ \A i \in 1 .. n : y[i] = w[i]
    BY <1>1, <1>2
  <1>5. ASSUME NEW i \in 1 .. m + 1 PROVE x[i] = y[(n + 1) - (m + 1) + i]
    <2>1. CASE i = m + 1
      <3>1. (n + 1) - (m + 1) + i = n + 1
        BY <1>3, <2>1
      <3> QED
        BY <1>4, <2>1, <3>1
    <2>2. CASE i # m + 1
      <3>1. i \in 1 .. m /\ n - m + i \in 1 .. n /\ (n + 1) - (m + 1) + i = n - m + i
        BY <1>3, <2>2
      <3>2. x[i] = d[i] /\ y[n - m + i] = w[n - m + i] /\ d[i] = w[n - m + i]
        BY <1>3, <1>4, <3>1
      <3> QED
        BY <3>1, <3>2
    <2> QED
      BY <2>1, <2>2
  <1>6. IsSuffix(x, y)
    <2>1. Len(x) <= Len(y)
      BY <1>3, <1>4
    <2>2. \A i \in 1 .. Len(x) : x[i] = y[Len(y) - Len(x) + i]
      BY <1>4, <1>5
    <2> QED
      BY <1>4, <2>1, <2>2, SuffixPlaces
  <1> QED
    BY <1>1, <1>6

\* What is behind a in a suffix is a suffix.
LEMMA SuffixDrop ==
    ASSUME NEW S, NEW a \in Seq(S), NEW d \in Seq(S), NEW w \in Seq(S), IsSuffix(a \o d, w)
    PROVE  IsSuffix(d, w)
  <1>1. PICK x : x = a \o d
    OBVIOUS
  <1>2. PICK k, m, n : k = Len(a) /\ m = Len(d) /\ n = Len(w)
    OBVIOUS
  <1>3. /\ k \in Nat /\ m \in Nat /\ n \in Nat /\ x \in Seq(S) /\ Len(x) = k + m
        /\ \A i \in 1 .. k + m : x[i] = IF i <= k THEN a[i] ELSE d[i - k]
    BY <1>1, <1>2, ConcatPlaces
  <1>4. k + m <= n /\ \A i \in 1 .. k + m : x[i] = w[n - (k + m) + i]
    <2>1. x \in Seq(S) /\ IsSuffix(x, w) /\ Len(x) = k + m /\ Len(w) = n
      BY <1>1, <1>2, <1>3
    <2>2. Len(x) <= Len(w) /\ \A i \in 1 .. Len(x) : x[i] = w[Len(w) - Len(x) + i]
      BY <2>1, SuffixPlaces
    <2> QED
      BY <2>1, <2>2
  <1>5. ASSUME NEW i \in 1 .. m PROVE d[i] = w[n - m + i]
    <2>1. k + i \in 1 .. k + m /\ ~ (k + i <= k) /\ (k + i) - k = i /\ n - (k + m) + (k + i) = n - m + i
      BY <1>3
    <2>2. x[k + i] = d[(k + i) - k]
      BY <1>3, <2>1
    <2>3. x[k + i] = w[n - (k + m) + (k + i)]
      BY <1>4, <2>1
    <2> QED
      BY <2>1, <2>2, <2>3
  <1>6. m <= n
    BY <1>3, <1>4
  <1> QED
    BY <1>2, <1>5, <1>6, SuffixPlaces

-----------------------------------------------------------------------------
(***************************************************************************)
(* The files, and the lines in them.                                       *)
(***************************************************************************)
At(fs, i) == IF i \in DOMAIN fs THEN fs[i] ELSE <<>>
Parts(fs) == [k \in 1 .. MaxFileNum + 1 |-> At(fs, MaxFileNum + 1 - k)]
DiskOf(fs) == FlattenSeq(Parts(fs))
FilesTyped(fs) == DOMAIN fs \subseteq 0 .. MaxFileNum /\ \A i \in DOMAIN fs : fs[i] \in Seq(Lines)

\* What lies on disk, by the files.
LEMMA DiskIs == Disk = DiskOf(files)
  BY DEF Disk, DiskOf, Parts, At

\* The parts of the disk, the oldest file first.
LEMMA PartsPlaces ==
    ASSUME NEW fs, FilesTyped(fs)
    PROVE  /\ Parts(fs) \in Seq(Seq(Lines)) /\ Len(Parts(fs)) = MaxFileNum + 1
           /\ \A k \in 1 .. MaxFileNum + 1 : Parts(fs)[k] = At(fs, MaxFileNum + 1 - k)
           /\ \A i : At(fs, i) \in Seq(Lines)
  <1>1. MaxFileNum \in Nat
    BY LoggerAssumption
  <1>2. \A i : At(fs, i) \in Seq(Lines)
    <2>1. ASSUME NEW i PROVE At(fs, i) \in Seq(Lines)
      <3>1. CASE i \in DOMAIN fs
        BY <3>1 DEF At, FilesTyped
      <3>2. CASE i \notin DOMAIN fs
        BY <3>2 DEF At
      <3> QED
        BY <3>1, <3>2
    <2> QED
      BY <2>1
  <1>3. \A k \in 1 .. MaxFileNum + 1 : Parts(fs)[k] = At(fs, MaxFileNum + 1 - k)
    BY DEF Parts
  <1>4. Parts(fs) \in [1 .. MaxFileNum + 1 -> Seq(Lines)]
    BY <1>2 DEF Parts
  <1> QED
    BY <1>1, <1>2, <1>3, <1>4

\* Files with the same lines are the same disk.
LEMMA DiskSame ==
    ASSUME NEW fs, NEW g, \A i \in 0 .. MaxFileNum : At(g, i) = At(fs, i)
    PROVE  DiskOf(g) = DiskOf(fs)
  <1>1. \A k \in 1 .. MaxFileNum + 1 : MaxFileNum + 1 - k \in 0 .. MaxFileNum
    BY LoggerAssumption
  <1>2. \A k \in 1 .. MaxFileNum + 1 : At(g, MaxFileNum + 1 - k) = At(fs, MaxFileNum + 1 - k)
    BY <1>1
  <1>3. Parts(g) = Parts(fs)
    BY <1>2, Zenon DEF Parts
  <1> QED
    BY <1>3 DEF DiskOf

\* A line behind the base file is behind the disk.
LEMMA DiskAppend ==
    ASSUME NEW fs, NEW g, NEW l \in Lines, FilesTyped(fs), FilesTyped(g),
           At(g, 0) = Append(At(fs, 0), l), \A i \in 1 .. MaxFileNum : At(g, i) = At(fs, i)
    PROVE  DiskOf(g) = Append(DiskOf(fs), l) /\ DiskOf(fs) \in Seq(Lines)
  <1>1. PICK s, t, n : s = Parts(fs) /\ t = Parts(g) /\ n = MaxFileNum + 1
    OBVIOUS
  <1>2. n \in Nat /\ n > 0 /\ MaxFileNum \in Nat /\ MaxFileNum + 1 - n = 0
    BY <1>1, LoggerAssumption
  <1>3. /\ s \in Seq(Seq(Lines)) /\ Len(s) = n /\ t \in Seq(Seq(Lines)) /\ Len(t) = n
        /\ \A k \in 1 .. n : s[k] = At(fs, MaxFileNum + 1 - k)
        /\ \A k \in 1 .. n : t[k] = At(g, MaxFileNum + 1 - k)
    BY <1>1, PartsPlaces
  <1>4. t[n] = Append(s[n], l)
    <2>1. n \in 1 .. n
      BY <1>2
    <2>2. s[n] = At(fs, 0) /\ t[n] = At(g, 0)
      BY <1>2, <1>3, <2>1
    <2> QED
      BY <2>2
  <1>5. ASSUME NEW k \in 1 .. n, k # n PROVE t[k] = s[k]
    <2>1. MaxFileNum + 1 - k \in 1 .. MaxFileNum
      BY <1>1, <1>2, <1>5
    <2> QED
      BY <1>3, <2>1
  <1>6. FlattenSeq(t) = Append(FlattenSeq(s), l) /\ FlattenSeq(s) \in Seq(Lines)
    <2>1. Len(s) > 0 /\ Len(t) = Len(s)
      BY <1>2, <1>3
    <2>2. t[Len(s)] = Append(s[Len(s)], l)
      BY <1>3, <1>4
    <2>3. \A i \in 1 .. Len(s) : i # Len(s) => t[i] = s[i]
      BY <1>3, <1>5
    <2>4. s \in Seq(Seq(Lines)) /\ t \in Seq(Seq(Lines))
      BY <1>3
    <2> QED
      BY <2>1, <2>2, <2>3, <2>4, FlattenAppend
  <1> QED
    BY <1>1, <1>6 DEF DiskOf

\* A file moves to the next index, where there was none.
LEMMA DiskMove ==
    ASSUME NEW fs, NEW g, FilesTyped(fs), FilesTyped(g), NEW j \in 0 .. MaxFileNum - 1,
           At(fs, j + 1) = <<>>, At(g, j + 1) = At(fs, j), At(g, j) = <<>>,
           \A i \in 0 .. MaxFileNum : i # j /\ i # j + 1 => At(g, i) = At(fs, i)
    PROVE  DiskOf(g) = DiskOf(fs)
  <1>1. PICK s, t, n, p : s = Parts(fs) /\ t = Parts(g) /\ n = MaxFileNum + 1 /\ p = MaxFileNum - j
    OBVIOUS
  <1>2. n \in Nat /\ n > 0 /\ MaxFileNum \in Nat /\ j \in Nat /\ p \in 1 .. n - 1
    BY <1>1, LoggerAssumption
  <1>3. /\ s \in Seq(Seq(Lines)) /\ Len(s) = n /\ t \in Seq(Seq(Lines)) /\ Len(t) = n
        /\ \A k \in 1 .. n : s[k] = At(fs, MaxFileNum + 1 - k)
        /\ \A k \in 1 .. n : t[k] = At(g, MaxFileNum + 1 - k)
    BY <1>1, PartsPlaces
  <1>4. /\ p \in 1 .. n /\ p + 1 \in 1 .. n
        /\ MaxFileNum + 1 - p = j + 1 /\ MaxFileNum + 1 - (p + 1) = j
    BY <1>1, <1>2
  <1>5. s[p] = <<>> /\ t[p] = s[p + 1] /\ t[p + 1] = <<>>
    <2>1. s[p] = At(fs, j + 1) /\ t[p] = At(g, j + 1)
      BY <1>3, <1>4
    <2>2. s[p + 1] = At(fs, j) /\ t[p + 1] = At(g, j)
      BY <1>3, <1>4
    <2> QED
      BY <2>1, <2>2
  <1>6. ASSUME NEW k \in 1 .. n, k # p, k # p + 1 PROVE t[k] = s[k]
    <2>1. /\ MaxFileNum + 1 - k \in 0 .. MaxFileNum
          /\ MaxFileNum + 1 - k # j /\ MaxFileNum + 1 - k # j + 1
      BY <1>1, <1>2, <1>6
    <2> QED
      BY <1>3, <2>1
  <1>7. FlattenSeq(t) = FlattenSeq(s)
    <2>1. p \in 1 .. Len(s) - 1 /\ Len(t) = Len(s)
      BY <1>2, <1>3
    <2>2. \A i \in 1 .. Len(s) : i # p /\ i # p + 1 => t[i] = s[i]
      BY <1>3, <1>6
    <2> QED
      BY <1>3, <1>5, <2>1, <2>2, FlattenMove
  <1> QED
    BY <1>1, <1>7 DEF DiskOf

\* The oldest file goes away.
LEMMA DiskDrop ==
    ASSUME NEW fs, NEW g, FilesTyped(fs), FilesTyped(g), At(g, MaxFileNum) = <<>>,
           \A i \in 0 .. MaxFileNum - 1 : At(g, i) = At(fs, i)
    PROVE  DiskOf(fs) = At(fs, MaxFileNum) \o DiskOf(g) /\ DiskOf(g) \in Seq(Lines)
  <1>1. PICK s, t, n : s = Parts(fs) /\ t = Parts(g) /\ n = MaxFileNum + 1
    OBVIOUS
  <1>2. n \in Nat /\ n > 0 /\ MaxFileNum \in Nat /\ MaxFileNum + 1 - 1 = MaxFileNum
    BY <1>1, LoggerAssumption
  <1>3. /\ s \in Seq(Seq(Lines)) /\ Len(s) = n /\ t \in Seq(Seq(Lines)) /\ Len(t) = n
        /\ \A k \in 1 .. n : s[k] = At(fs, MaxFileNum + 1 - k)
        /\ \A k \in 1 .. n : t[k] = At(g, MaxFileNum + 1 - k)
    BY <1>1, PartsPlaces
  <1>4. s[1] = At(fs, MaxFileNum) /\ t[1] = <<>>
    <2>1. 1 \in 1 .. n
      BY <1>2
    <2> QED
      BY <1>2, <1>3, <2>1
  <1>5. ASSUME NEW k \in 1 .. n, k # 1 PROVE t[k] = s[k]
    <2>1. MaxFileNum + 1 - k \in 0 .. MaxFileNum - 1
      BY <1>1, <1>2, <1>5
    <2> QED
      BY <1>3, <2>1
  <1>6. FlattenSeq(s) = s[1] \o FlattenSeq(t) /\ FlattenSeq(t) \in Seq(Lines)
    <2>1. Len(s) > 0 /\ Len(t) = Len(s)
      BY <1>2, <1>3
    <2>2. t[1] = <<>>
      BY <1>4
    <2>3. \A i \in 1 .. Len(s) : i # 1 => t[i] = s[i]
      BY <1>3, <1>5
    <2>4. s \in Seq(Seq(Lines)) /\ t \in Seq(Seq(Lines))
      BY <1>3
    <2> QED
      BY <2>1, <2>2, <2>3, <2>4, FlattenDrop
  <1> QED
    BY <1>1, <1>4, <1>6 DEF DiskOf

-----------------------------------------------------------------------------
\* A message is cut to a block, so that there is a longest line.
Longest == Max({LineLen(m) : m \in MsgLens})

\* No line is longer than the longest one.
LEMMA LineLengths ==
    /\ \A l \in Lines : l.len \in Nat
    /\ MsgLens # {} => Longest \in Nat /\ \A l \in Lines : l.len <= Longest
  <1>1. HeadLen \in Nat /\ BlockSize \in Nat /\ BlockSize >= 4096 /\ MsgLens \subseteq Nat
    BY LoggerAssumption, BlockPoolAssumption
  <1>2. ASSUME NEW m \in MsgLens
        PROVE  LineLen(m) \in Nat /\ LineLen(m) <= HeadLen + BlockSize
    <2>1. PICK b : b = BlockSize - 1
      OBVIOUS
    <2>2. m \in Nat /\ b \in Nat
      BY <1>1, <2>1
    <2>3. \E x \in {m, b} : \A y \in {m, b} : x =< y
      BY <2>2
    <2>4. Min({m, b}) \in {m, b} /\ \A y \in {m, b} : Min({m, b}) =< y
      BY <2>3, Zenon DEF Min
    <2>5. Min({m, b}) \in Nat /\ Min({m, b}) <= b
      BY <2>2, <2>4
    <2> QED
      BY <1>1, <2>1, <2>5 DEF LineLen
  <1>3. ASSUME NEW l \in Lines
        PROVE  \E m \in MsgLens : l.len = LineLen(m)
    BY DEF Lines
  <1>4. \A l \in Lines : l.len \in Nat
    BY <1>2, <1>3
  <1>5. ASSUME MsgLens # {}
        PROVE  Longest \in Nat /\ \A l \in Lines : l.len <= Longest
    <2> DEFINE all == {LineLen(m) : m \in MsgLens}
               top == HeadLen + BlockSize
               below == {top - x : x \in all}
    <2>1. top \in Nat /\ \A x \in all : x \in Nat /\ x <= top
      BY <1>1, <1>2
    <2>2. all # {}
      BY <1>5
    <2>3. \A m \in MsgLens : LineLen(m) \in all
      OBVIOUS
    <2>4. Longest = Max(all)
      BY DEF Longest
    <2> HIDE DEF all, top
    <2>5. below \in SUBSET Nat /\ below # {}
      BY <2>1, <2>2
    <2>6. PICK k \in below : \A y \in below : k <= y
      <3> HIDE DEF below
      <3> QED
        BY <2>5, LeastNat
    <2>7. PICK x \in all : k = top - x
      OBVIOUS
    <2>8. \A y \in all : x >= y
      <3>1. \A y \in all : top - x <= top - y
        BY <2>6, <2>7
      <3> QED
        BY <2>1, <3>1
    <2>9. Max(all) \in all /\ \A y \in all : Max(all) >= y
      <3> HIDE DEF below
      <3> QED
        BY <2>8, Zenon DEF Max
    <2>10. Longest \in Nat
      BY <2>1, <2>4, <2>9
    <2>11. ASSUME NEW l \in Lines PROVE l.len <= Longest
      <3>1. PICK m \in MsgLens : l.len = LineLen(m)
        BY <1>3
      <3>2. l.len \in all
        BY <2>3, <3>1
      <3> QED
        BY <2>1, <2>4, <2>9, <3>2
    <2> QED
      BY <2>10, <2>11
  <1> QED
    BY <1>4, <1>5

\* The size of a file, when it is empty and when a line is written.
LEMMA SizesAdd ==
    /\ FileSize(<<>>) = 0
    /\ \A f \in Seq(Lines) : FileSize(f) \in Nat
    /\ \A f \in Seq(Lines), l \in Lines : FileSize(Append(f, l)) = FileSize(f) + l.len
  <1> DEFINE Lens(f) == [k \in 1 .. Len(f) |-> f[k].len]
  <1>1. ASSUME NEW f \in Seq(Lines)
        PROVE  Lens(f) \in Seq(Nat) /\ Len(Lens(f)) = Len(f) /\ \A k \in 1 .. Len(f) : Lens(f)[k] = f[k].len
    <2>1. \A k \in 1 .. Len(f) : f[k].len \in Nat
      BY LineLengths
    <2>2. Len(f) \in Nat /\ Lens(f) \in [1 .. Len(f) -> Nat]
      BY <2>1
    <2> QED
      BY <2>2
  <1>2. \A f : FileSize(f) = Total(Lens(f))
    BY DEF FileSize
  <1>3. FileSize(<<>>) = 0
    <2>1. Lens(<<>>) = <<>>
      OBVIOUS
    <2> QED
      BY <1>2, <2>1, TotalConcat
  <1> HIDE DEF Lens
  <1>4. ASSUME NEW f \in Seq(Lines) PROVE FileSize(f) \in Nat
    BY <1>1, <1>2, TotalConcat
  <1>5. ASSUME NEW f \in Seq(Lines), NEW l \in Lines
        PROVE  FileSize(Append(f, l)) = FileSize(f) + l.len
    <2>1. PICK g, a, b, n : g = Append(f, l) /\ a = Lens(f) /\ b = Lens(g) /\ n = Len(f)
      OBVIOUS
    <2>2. g \in Seq(Lines) /\ n \in Nat /\ Len(g) = n + 1 /\ g[n + 1] = l /\ \A k \in 1 .. n : g[k] = f[k]
      BY <2>1
    <2>3. a \in Seq(Nat) /\ Len(a) = n /\ \A k \in 1 .. n : a[k] = f[k].len
      BY <1>1, <2>1
    <2>4. b \in Seq(Nat) /\ Len(b) = n + 1 /\ \A k \in 1 .. n + 1 : b[k] = g[k].len
      <3>1. b = Lens(g) /\ Len(g) = n + 1
        BY <2>1, <2>2
      <3> QED
        BY <1>1, <2>2, <3>1
    <2>5. PICK x : x = l.len
      OBVIOUS
    <2>6. x \in Nat
      BY <2>5, LineLengths
    <2>7. PICK c : c = a \o <<x>>
      OBVIOUS
    <2>8. <<x>> \in Seq(Nat) /\ Len(<<x>>) = 1 /\ <<x>>[1] = x
      BY <2>6
    <2>9. /\ c \in Seq(Nat) /\ Len(c) = n + 1
          /\ \A i \in 1 .. n + 1 : c[i] = IF i <= n THEN a[i] ELSE <<x>>[i - n]
      BY <2>3, <2>7, <2>8, ConcatPlaces
    <2>10. ASSUME NEW i \in 1 .. n + 1 PROVE b[i] = c[i]
      <3>1. CASE i <= n
        <4>1. i \in 1 .. n
          BY <2>2, <3>1
        <4>2. b[i] = g[i].len /\ g[i] = f[i] /\ a[i] = f[i].len /\ c[i] = a[i]
          BY <2>2, <2>3, <2>4, <2>9, <3>1, <4>1
        <4> QED
          BY <4>2
      <3>2. CASE ~ (i <= n)
        <4>1. i = n + 1 /\ i - n = 1
          BY <2>2, <3>2
        <4>2. c[i] = <<x>>[1]
          BY <2>9, <3>2, <4>1
        <4>3. b[i] = l.len
          BY <2>2, <2>4, <4>1
        <4> QED
          BY <2>5, <2>8, <4>2, <4>3
      <3> QED
        BY <3>1, <3>2
    <2>11. b = c
      BY <2>4, <2>9, <2>10, SeqsEqual
    <2>12. Total(c) = Total(a) + Total(<<x>>) /\ Total(<<x>>) = x
      BY <2>3, <2>6, <2>7, <2>8, TotalConcat
    <2> QED
      BY <1>2, <2>1, <2>5, <2>11, <2>12
  <1> QED
    BY <1>3, <1>4, <1>5

-----------------------------------------------------------------------------
(***************************************************************************)
(* What lies on disk.  Under rotation the files have one gap: the index    *)
(* after the file that is renamed next, and at last the base file's.       *)
(***************************************************************************)
Calm == {"none", "pop", "write"}

FileTypes ==
    /\ FilesTyped(files) /\ opened \in BOOLEAN /\ failed \in BOOLEAN
    /\ m_filesize \in Nat /\ m_capacity \in Nat /\ crashes \in 0 .. MaxCrashes
    /\ owed \subseteq Lines

Rotation ==
    /\ opened => 0 \in DOMAIN files /\ m_filesize = FileSize(files[0])
    /\ log_thread.pc \in {"rename", "open"} => ~opened
    /\ log_thread.pc = "open" => 0 \notin DOMAIN files
    /\ log_thread.pc = "rename" => log_thread.i < MaxFileNum /\ log_thread.i + 1 \notin DOMAIN files

\* Between rotations the base file has room for another line, but for what crashes left behind.
Sizable ==
    MsgLens # {} =>
        /\ \A i \in DOMAIN files : FileSize(files[i]) < MaxFileSize + (1 + crashes) * Longest
        /\ log_thread.pc \in Calm /\ 0 \in DOMAIN files =>
             FileSize(files[0]) < MaxFileSize + crashes * Longest

Gap == IF log_thread.pc = "rename" THEN {log_thread.i + 1}
       ELSE IF log_thread.pc = "open" THEN {0} ELSE {}
Contiguous ==
    crashes = 0 /\ ~failed =>
        \A j \in DOMAIN files, k \in 0 .. MaxFileNum : k < j => k \in DOMAIN files \/ k \in Gap

OnDisk == FileTypes /\ Rotation /\ Sizable /\ Contiguous /\ IsSuffix(DiskOf(files), written)

-----------------------------------------------------------------------------
\* Steps that touch no file.
Still ==
    /\ UNCHANGED <<files, opened, m_filesize, failed, crashes, written>>
    /\ m_capacity' \in Nat /\ owed' \subseteq Lines
    /\ log_thread' = log_thread \/ (log_thread.pc \in Calm /\ log_thread'.pc \in Calm)

FileSteps ==
    \/ StartOpen \/ CloseFile \/ Write \/ ReopenRemove \/ ReopenRename
    \/ (\E ok \in BOOLEAN : ReopenOpen(ok)) \/ Crash

\* Every other step is such a step.
LEMMA StillOrFiles ==
    ASSUME States, Lifetime, FileTypes, [Next]_vars
    PROVE  FileSteps \/ Still
  <1>1. m_capacity \in Nat /\ owed \subseteq Lines
    BY DEF FileTypes
  <1>2. CASE Quiet
    <2>1. CASE StartThread
      <3>1. log_thread.pc = "none" /\ log_thread' = Looping
        BY <2>1 DEF StartThread, Lifetime, Running
      <3>2. log_thread'.pc = "pop"
        BY <3>1 DEF Looping, NoThread
      <3> QED
        BY <1>1, <2>1, <3>1, <3>2 DEF StartThread, Still, Calm, history
    <2>2. CASE StartPool
      <3>1. m_capacity' \in Nat
        BY <2>2, LoggerAssumption DEF StartPool
      <3> QED
        BY <1>1, <2>2, <3>1 DEF StartPool, Still, history
    <2>3. CASE StartLevel \/ CloseJoin \/ (\E level \in Levels : SetLevel(level)) \/ UNCHANGED vars
      BY <1>1, <2>3 DEF StartLevel, CloseJoin, SetLevel, vars, memory, threads, history, Still
    <2>4. CASE CloseLevel
      BY <1>1, <2>4 DEF CloseLevel, Still
    <2> QED
      BY <1>2, <2>1, <2>2, <2>3, <2>4 DEF Quiet, FileSteps
  <1>3. CASE CloseMarker
    BY <1>1, <1>3 DEF CloseMarker, Still, history
  <1>4. CASE Pop
    <2>1. log_thread.pc = "pop" /\ log_thread'.pc \in {"none", "write"}
      BY <1>4, PopMoves
    <2> QED
      BY <1>1, <1>4, <2>1 DEF Pop, Still, Calm, history
  <1>5. ASSUME NEW t \in Threads, LogAllocBuf(t) PROVE Still
    BY <1>1, <1>5 DEF LogAllocBuf, Still, memory
  <1>6. ASSUME NEW t \in Threads, LogFreeMsg(t) PROVE Still
    BY <1>1, <1>6 DEF LogFreeMsg, Still, memory, history
  <1>7. ASSUME NEW t \in Threads, LogPush(t) PROVE Still
    <2>1. client[t].line \in Lines
      BY <1>7 DEF LogPush, States, InHands
    <2> QED
      BY <1>1, <1>7, <2>1 DEF LogPush, Still
  <1>8. ASSUME NEW t \in Threads, NEW m \in MsgLens, LogBegin(t, m) PROVE Still
    BY <1>1, <1>8 DEF LogBegin, Still, memory
  <1> QED
    BY <1>2, <1>3, <1>4, <1>5, <1>6, <1>7, <1>8, StepKinds DEF FileSteps

\* Opening the base file keeps what it has.
LEMMA OpenedFiles ==
    ASSUME NEW fs, FilesTyped(fs), NEW g, g = Opened(fs)
    PROVE  /\ FilesTyped(g) /\ DOMAIN g = DOMAIN fs \cup {0}
           /\ \A i \in DOMAIN fs : g[i] = fs[i]
           /\ 0 \notin DOMAIN fs => g[0] = <<>>
           /\ \A i : At(g, i) = At(fs, i)
  <1>1. DOMAIN g = DOMAIN fs \cup {0} /\ \A i \in DOMAIN fs : g[i] = fs[i]
    BY DEF Opened
  <1>2. 0 \notin DOMAIN fs => g[0] = <<>>
    BY DEF Opened
  <1>3. 0 \in 0 .. MaxFileNum
    BY LoggerAssumption
  <1>4. FilesTyped(g)
    <2>1. \A i \in DOMAIN g : g[i] \in Seq(Lines)
      <3>1. \A i \in DOMAIN g : i \in DOMAIN fs \/ g[i] = <<>>
        BY <1>1, <1>2
      <3>2. \A i \in DOMAIN fs : g[i] \in Seq(Lines)
        BY <1>1 DEF FilesTyped
      <3>3. <<>> \in Seq(Lines)
        OBVIOUS
      <3> QED
        BY <3>1, <3>2, <3>3, Zenon
    <2> QED
      BY <1>1, <1>3, <2>1 DEF FilesTyped
  <1>5. \A i : At(g, i) = At(fs, i)
    BY <1>1, <1>2 DEF At
  <1> QED
    BY <1>1, <1>2, <1>4, <1>5

\* A line is written, to the base file if it is open.
LEMMA WriteFiles ==
    ASSUME States, FileTypes, Rotation, Write, NEW l, l = log_thread.data.line
    PROVE  /\ l \in Lines /\ log_thread.pc = "write" /\ log_thread'.pc \in {"pop", "remove"}
           /\ m_filesize' = m_filesize + l.len /\ m_filesize' \in Nat
           /\ log_thread'.pc = "pop" => m_filesize' < MaxFileSize
           /\ FilesTyped(files')
           /\ opened => /\ DOMAIN files' = DOMAIN files /\ 0 \in DOMAIN files /\ files[0] \in Seq(Lines)
                        /\ files'[0] = Append(files[0], l)
                        /\ \A i \in DOMAIN files : i # 0 => files'[i] = files[i]
                        /\ written' = Append(written, l)
           /\ ~opened => UNCHANGED <<files, written>>
           /\ owed' \subseteq Lines /\ UNCHANGED <<opened, failed, crashes, m_capacity>>
  <1>1. l \in Lines /\ log_thread.pc = "write" /\ log_thread'.pc \in {"pop", "remove"}
    BY WriteMoves, MarkerApart
  <1>2. m_filesize' = m_filesize + l.len /\ m_filesize' \in Nat
    BY <1>1, LineLengths DEF Write, FileTypes
  <1>3. log_thread'.pc = "pop" => m_filesize' < MaxFileSize
    <2>1. m_filesize' >= MaxFileSize => log_thread' = [NoThread EXCEPT !.pc = "remove"]
      BY DEF Write
    <2>2. m_filesize' >= MaxFileSize => log_thread'.pc = "remove"
      BY <2>1 DEF NoThread
    <2>3. MaxFileSize \in Nat
      BY LoggerAssumption
    <2> QED
      BY <1>2, <2>2, <2>3
  <1>4. CASE opened
    <2>1. 0 \in DOMAIN files /\ files[0] \in Seq(Lines)
      BY <1>4 DEF FileTypes, FilesTyped, Rotation
    <2>2. files' = [files EXCEPT ![0] = Append(@, l)] /\ written' = Append(written, l)
      BY <1>4 DEF Write
    <2>3. /\ DOMAIN files' = DOMAIN files /\ files'[0] = Append(files[0], l)
          /\ \A i \in DOMAIN files : i # 0 => files'[i] = files[i]
      BY <2>1, <2>2
    <2>4. Append(files[0], l) \in Seq(Lines)
      BY <1>1, <2>1, AppendPlaces
    <2>5. FilesTyped(files')
      BY <2>3, <2>4 DEF FileTypes, FilesTyped
    <2> QED
      BY <1>1, <1>2, <1>3, <1>4, <2>1, <2>2, <2>3, <2>5 DEF Write, FileTypes
  <1>5. CASE ~opened
    <2>1. UNCHANGED <<files, written>>
      BY <1>5 DEF Write
    <2> QED
      BY <1>1, <1>2, <1>3, <1>5, <2>1 DEF Write, FileTypes
  <1> QED
    BY <1>4, <1>5

\* Reopen first closes the base file and removes the oldest one,
LEMMA RemoveFiles ==
    ASSUME States, FileTypes, ReopenRemove
    PROVE  /\ log_thread.pc = "remove" /\ log_thread'.pc = "rename" /\ log_thread'.i = MaxFileNum - 1
           /\ opened' = FALSE /\ FilesTyped(files')
           /\ DOMAIN files' = DOMAIN files \ {MaxFileNum}
           /\ \A i \in DOMAIN files' : files'[i] = files[i]
           /\ UNCHANGED <<m_filesize, m_capacity, failed, crashes, owed, written>>
  <1>1. log_thread \in LogState
    BY DEF States, Types
  <1>2. log_thread'.pc = "rename" /\ log_thread'.i = MaxFileNum - 1
    BY <1>1 DEF ReopenRemove, LogState
  <1>3. DOMAIN files' = DOMAIN files \ {MaxFileNum} /\ \A i \in DOMAIN files' : files'[i] = files[i]
    BY DEF ReopenRemove, Removed
  <1>4. FilesTyped(files')
    BY <1>3 DEF FileTypes, FilesTyped
  <1> QED
    BY <1>2, <1>3, <1>4 DEF ReopenRemove, history

\* and then renames the files, the one with the largest index first.
LEMMA RenameFiles ==
    ASSUME States, FileTypes, Rotation, ReopenRename, NEW n, n = log_thread.i
    PROVE  /\ log_thread.pc = "rename" /\ n \in 0 .. MaxFileNum - 1 /\ n + 1 \notin DOMAIN files
           /\ n = 0 => log_thread'.pc = "open"
           /\ n # 0 => log_thread'.pc = "rename" /\ log_thread'.i = n - 1
           /\ ~opened /\ FilesTyped(files')
           /\ n \in DOMAIN files =>
                /\ DOMAIN files' = (DOMAIN files \ {n}) \cup {n + 1}
                /\ files'[n + 1] = files[n]
                /\ \A i \in DOMAIN files : i # n => files'[i] = files[i]
           /\ n \notin DOMAIN files => files' = files
           /\ UNCHANGED <<opened, m_filesize, m_capacity, failed, crashes, owed, written>>
  <1>1. log_thread \in LogState /\ log_thread.i \in 0 .. MaxFileNum /\ MaxFileNum \in Nat
    BY LoggerAssumption DEF States, Types, LogState
  <1>2. log_thread.pc = "rename"
    BY DEF ReopenRename
  <1>3. n \in 0 .. MaxFileNum - 1 /\ n + 1 \notin DOMAIN files /\ ~opened
    BY <1>1, <1>2 DEF Rotation
  <1>4. n = 0 => log_thread'.pc = "open"
    BY <1>1 DEF ReopenRename, LogState
  <1>5. n # 0 => log_thread'.pc = "rename" /\ log_thread'.i = n - 1
    <2>1. n # 0 => log_thread' = [log_thread EXCEPT !.i = @ - 1]
      BY DEF ReopenRename
    <2> QED
      BY <1>1, <1>2, <2>1 DEF LogState
  <1>6. n \in DOMAIN files =>
          /\ DOMAIN files' = (DOMAIN files \ {n}) \cup {n + 1}
          /\ files'[n + 1] = files[n]
          /\ \A i \in DOMAIN files : i # n => files'[i] = files[i]
    <2> SUFFICES ASSUME n \in DOMAIN files
                 PROVE  /\ DOMAIN files' = (DOMAIN files \ {n}) \cup {n + 1}
                        /\ files'[n + 1] = files[n]
                        /\ \A i \in DOMAIN files : i # n => files'[i] = files[i]
      OBVIOUS
    <2>1. files' = [k \in (DOMAIN files \ {n}) \cup {n + 1} |-> IF k = n + 1 THEN files[n] ELSE files[k]]
      BY DEF ReopenRename, Renamed
    <2>2. \A i \in DOMAIN files : i # n + 1
      BY <1>3
    <2> QED
      BY <2>1, <2>2
  <1>7. n \notin DOMAIN files => files' = files
    BY DEF ReopenRename, Renamed
  <1>8. FilesTyped(files')
    <2>1. CASE n \in DOMAIN files
      <3>1. n + 1 \in 0 .. MaxFileNum
        BY <1>1, <1>3
      <3>2. \A i \in DOMAIN files' : i = n + 1 \/ (i \in DOMAIN files /\ i # n)
        BY <1>6, <2>1
      <3>3. DOMAIN files' \subseteq 0 .. MaxFileNum
        BY <3>1, <3>2 DEF FileTypes, FilesTyped
      <3>4. \A i \in DOMAIN files' : files'[i] \in Seq(Lines)
        BY <1>6, <2>1, <3>2 DEF FileTypes, FilesTyped
      <3> QED
        BY <3>3, <3>4 DEF FilesTyped
    <2>2. CASE n \notin DOMAIN files
      BY <1>7, <2>2 DEF FileTypes, FilesTyped
    <2> QED
      BY <2>1, <2>2
  <1>9. UNCHANGED <<opened, m_filesize, m_capacity, failed, crashes, owed, written>>
    BY DEF ReopenRename, memory, history
  <1> QED
    BY <1>2, <1>3, <1>4, <1>5, <1>6, <1>7, <1>8, <1>9

\* A rotation ends with a new base file, or with none.
LEMMA OpenFiles ==
    ASSUME States, FileTypes, Rotation, NEW ok \in BOOLEAN, ReopenOpen(ok)
    PROVE  /\ log_thread.pc = "open" /\ log_thread'.pc = "pop" /\ m_filesize' = 0 /\ opened' = ok
           /\ 0 \notin DOMAIN files /\ FilesTyped(files')
           /\ ok => /\ DOMAIN files' = DOMAIN files \cup {0} /\ files'[0] = <<>>
                    /\ \A i \in DOMAIN files : files'[i] = files[i]
           /\ ~ok => files' = files /\ failed' = TRUE
           /\ failed' \in BOOLEAN /\ (failed => failed')
           /\ \A i : At(files', i) = At(files, i)
           /\ UNCHANGED <<m_capacity, crashes, owed, written>>
  <1>1. log_thread.pc = "open" /\ log_thread' = Looping /\ 0 \notin DOMAIN files
    BY DEF ReopenOpen, Rotation
  <1>2. log_thread'.pc = "pop"
    BY <1>1 DEF Looping, NoThread
  <1>3. failed' \in BOOLEAN /\ (failed => failed') /\ (~ok => failed' = TRUE)
    BY Zenon DEF ReopenOpen, FileTypes
  <1>4. FilesTyped(files)
    BY DEF FileTypes
  <1>5. CASE ok
    <2>1. files' = Opened(files)
      BY <1>5 DEF ReopenOpen
    <2>2. /\ FilesTyped(files') /\ DOMAIN files' = DOMAIN files \cup {0}
          /\ \A i \in DOMAIN files : files'[i] = files[i]
          /\ files'[0] = <<>> /\ \A i : At(files', i) = At(files, i)
      BY <1>1, <1>4, <2>1, OpenedFiles
    <2> QED
      BY <1>1, <1>2, <1>3, <1>5, <2>2 DEF ReopenOpen
  <1>6. CASE ~ok
    <2>1. files' = files
      BY <1>6 DEF ReopenOpen
    <2> QED
      BY <1>1, <1>2, <1>3, <1>4, <1>6, <2>1 DEF ReopenOpen
  <1> QED
    BY <1>5, <1>6

\* Start opens the base file, with what it has.
LEMMA StartFiles ==
    ASSUME States, Lifetime, FileTypes, StartOpen
    PROVE  /\ log_thread.pc = "none" /\ log_thread' = log_thread
           /\ opened' = TRUE /\ FilesTyped(files')
           /\ DOMAIN files' = DOMAIN files \cup {0} /\ \A i \in DOMAIN files : files'[i] = files[i]
           /\ 0 \notin DOMAIN files => files'[0] = <<>>
           /\ \A i : At(files', i) = At(files, i)
           /\ m_filesize' = FileSize(files'[0])
           /\ UNCHANGED <<m_capacity, failed, crashes, owed, written>>
  <1>1. log_thread.pc = "none"
    BY DEF StartOpen, Lifetime, Running
  <1>2. files' = Opened(files) /\ FilesTyped(files)
    BY DEF StartOpen, FileTypes
  <1>3. /\ FilesTyped(files') /\ DOMAIN files' = DOMAIN files \cup {0}
        /\ \A i \in DOMAIN files : files'[i] = files[i]
        /\ 0 \notin DOMAIN files => files'[0] = <<>>
        /\ \A i : At(files', i) = At(files, i)
    BY <1>2, OpenedFiles
  <1> QED
    BY <1>1, <1>2, <1>3 DEF StartOpen, history

\* Close closes the base file; nothing rotates then.
LEMMA EndFiles ==
    ASSUME Lifetime, CloseFile
    PROVE  /\ log_thread.pc = "none" /\ log_thread' = log_thread /\ opened' = FALSE
           /\ UNCHANGED <<files, m_filesize, m_capacity, failed, crashes, owed, written>>
  BY DEF CloseFile, Lifetime, Running, history

\* A crash leaves the files as they are.
LEMMA CrashFiles ==
    ASSUME Crash
    PROVE  /\ log_thread'.pc = "none" /\ opened' = FALSE /\ m_filesize' = 0 /\ m_capacity' = NoLimit
           /\ crashes < MaxCrashes /\ crashes' = crashes + 1 /\ owed' = {}
           /\ UNCHANGED <<files, failed, written>>
  BY CrashMoves DEF Crash

-----------------------------------------------------------------------------
\* The types of files and counters.
LEMMA FileTypesStep ==
    ASSUME States, Lifetime, FileTypes, Rotation, [Next]_vars
    PROVE  FileTypes'
  <1>0. /\ FilesTyped(files) /\ opened \in BOOLEAN /\ failed \in BOOLEAN
        /\ m_filesize \in Nat /\ m_capacity \in Nat /\ crashes \in 0 .. MaxCrashes
        /\ owed \subseteq Lines
    BY DEF FileTypes
  <1>1. CASE Still
    BY <1>0, <1>1 DEF Still, FileTypes
  <1>2. CASE StartOpen
    <2>1. /\ opened' = TRUE /\ FilesTyped(files') /\ m_filesize' = FileSize(files'[0])
          /\ 0 \in DOMAIN files' /\ UNCHANGED <<m_capacity, failed, crashes, owed>>
      BY <1>2, StartFiles
    <2>2. m_filesize' \in Nat
      BY <2>1, SizesAdd DEF FilesTyped
    <2> QED
      BY <1>0, <2>1, <2>2 DEF FileTypes
  <1>3. CASE CloseFile
    BY <1>0, <1>3, EndFiles DEF FileTypes
  <1>4. CASE Write
    <2>1. /\ m_filesize' \in Nat /\ FilesTyped(files') /\ owed' \subseteq Lines
          /\ UNCHANGED <<opened, failed, crashes, m_capacity>>
      BY <1>4, WriteFiles
    <2> QED
      BY <1>0, <2>1 DEF FileTypes
  <1>5. CASE ReopenRemove
    BY <1>0, <1>5, RemoveFiles DEF FileTypes
  <1>6. CASE ReopenRename
    <2>1. FilesTyped(files') /\ UNCHANGED <<opened, m_filesize, m_capacity, failed, crashes, owed>>
      BY <1>6, RenameFiles
    <2> QED
      BY <1>0, <2>1 DEF FileTypes
  <1>7. ASSUME NEW ok \in BOOLEAN, ReopenOpen(ok) PROVE FileTypes'
    <2>1. /\ FilesTyped(files') /\ opened' = ok /\ failed' \in BOOLEAN /\ m_filesize' = 0
          /\ UNCHANGED <<m_capacity, crashes, owed>>
      BY <1>7, OpenFiles
    <2> QED
      BY <1>0, <2>1 DEF FileTypes
  <1>8. CASE Crash
    <2>1. NoLimit \in Nat /\ MaxCrashes \in Nat
      BY LoggerAssumption DEF NoLimit
    <2>2. crashes' \in 0 .. MaxCrashes
      BY <1>0, <1>8, <2>1, CrashFiles
    <2> QED
      BY <1>0, <1>8, <2>1, <2>2, CrashFiles DEF FileTypes
  <1> QED
    BY <1>1, <1>2, <1>3, <1>4, <1>5, <1>6, <1>7, <1>8, StillOrFiles DEF FileSteps

\* The size that Logger counts is that of the open base file, and a rotation
\* never renames onto a file.
LEMMA RotationStep ==
    ASSUME States, Lifetime, FileTypes, Rotation, [Next]_vars
    PROVE  Rotation'
  <1>0. /\ FilesTyped(files)
        /\ opened => 0 \in DOMAIN files /\ m_filesize = FileSize(files[0])
        /\ log_thread.pc \in {"rename", "open"} => ~opened
        /\ log_thread.pc = "open" => 0 \notin DOMAIN files
        /\ log_thread.pc = "rename" => log_thread.i < MaxFileNum /\ log_thread.i + 1 \notin DOMAIN files
    BY DEF FileTypes, Rotation
  <1>m. MaxFileNum \in Nat /\ MaxFileNum > 0
    BY LoggerAssumption
  <1>1. CASE Still
    BY <1>0, <1>1 DEF Still, Calm, Rotation
  <1>2. CASE StartOpen
    <2>1. /\ log_thread'.pc = "none" /\ 0 \in DOMAIN files' /\ m_filesize' = FileSize(files'[0])
      BY <1>2, StartFiles
    <2> QED
      BY <2>1 DEF Rotation
  <1>3. CASE CloseFile
    <2>1. log_thread'.pc = "none" /\ opened' = FALSE
      BY <1>3, EndFiles
    <2> QED
      BY <2>1 DEF Rotation
  <1>4. CASE Write
    <2>1. PICK l : l = log_thread.data.line
      OBVIOUS
    <2>2. /\ l \in Lines /\ log_thread'.pc \in {"pop", "remove"} /\ m_filesize' = m_filesize + l.len
          /\ opened => /\ DOMAIN files' = DOMAIN files /\ files[0] \in Seq(Lines)
                       /\ files'[0] = Append(files[0], l)
          /\ opened' = opened
      BY <1>4, <2>1, WriteFiles
    <2>3. opened => FileSize(files'[0]) = FileSize(files[0]) + l.len
      BY <2>2, SizesAdd
    <2> QED
      BY <1>0, <2>2, <2>3 DEF Rotation
  <1>5. CASE ReopenRemove
    <2>1. /\ log_thread'.pc = "rename" /\ log_thread'.i = MaxFileNum - 1 /\ opened' = FALSE
          /\ DOMAIN files' = DOMAIN files \ {MaxFileNum}
      BY <1>5, RemoveFiles
    <2>2. log_thread'.i < MaxFileNum /\ log_thread'.i + 1 = MaxFileNum
      BY <1>m, <2>1
    <2> QED
      BY <2>1, <2>2 DEF Rotation
  <1>6. CASE ReopenRename
    <2>1. PICK n : n = log_thread.i
      OBVIOUS
    <2>2. /\ n \in 0 .. MaxFileNum - 1 /\ n + 1 \notin DOMAIN files
          /\ n = 0 => log_thread'.pc = "open"
          /\ n # 0 => log_thread'.pc = "rename" /\ log_thread'.i = n - 1
          /\ ~opened /\ opened' = opened
          /\ n \in DOMAIN files => DOMAIN files' = (DOMAIN files \ {n}) \cup {n + 1}
          /\ n \notin DOMAIN files => files' = files
      BY <1>6, <2>1, RenameFiles
    <2>3. n \notin DOMAIN files' /\ n # n + 1
      BY <2>2
    <2>4. n # 0 => log_thread'.i < MaxFileNum /\ log_thread'.i + 1 = n
      BY <1>m, <2>2
    <2> QED
      BY <2>2, <2>3, <2>4 DEF Rotation
  <1>7. ASSUME NEW ok \in BOOLEAN, ReopenOpen(ok) PROVE Rotation'
    <2>1. /\ log_thread'.pc = "pop" /\ m_filesize' = 0 /\ opened' = ok
          /\ ok => DOMAIN files' = DOMAIN files \cup {0} /\ files'[0] = <<>>
      BY <1>7, OpenFiles
    <2> QED
      BY <2>1, SizesAdd DEF Rotation
  <1>8. CASE Crash
    <2>1. log_thread'.pc = "none" /\ opened' = FALSE
      BY <1>8, CrashFiles
    <2> QED
      BY <2>1 DEF Rotation
  <1> QED
    BY <1>1, <1>2, <1>3, <1>4, <1>5, <1>6, <1>7, <1>8, StillOrFiles DEF FileSteps

\* The limit grows by a line with every crash.
LEMMA OneMore == ASSUME NEW c \in Nat, NEW n \in Nat PROVE c * n \in Nat /\ (1 + c) * n = c * n + n
  OBVIOUS

\* No file outgrows the limit by more than a line, and one more for every crash.
LEMMA SizableStep ==
    ASSUME States, Lifetime, FileTypes, Rotation, Sizable, [Next]_vars
    PROVE  Sizable'
  <1> SUFFICES ASSUME MsgLens # {} PROVE Sizable'
    BY DEF Sizable
  <1>0. Longest \in Nat /\ \A l \in Lines : l.len \in Nat /\ l.len <= Longest
    BY LineLengths
  <1>t. crashes \in Nat /\ MaxFileSize \in Nat /\ MaxFileSize > 0 /\ FilesTyped(files)
    BY LoggerAssumption DEF FileTypes
  <1>1. PICK b : b = MaxFileSize + crashes * Longest
    OBVIOUS
  <1>2. b \in Nat /\ b >= MaxFileSize /\ MaxFileSize + (1 + crashes) * Longest = b + Longest
    <2>1. PICK p : p = crashes * Longest
      OBVIOUS
    <2>2. p \in Nat /\ (1 + crashes) * Longest = p + Longest
      BY <1>0, <1>t, <2>1
    <2> QED
      BY <1>1, <1>t, <1>0, <2>1, <2>2
  <1>3. /\ \A i \in DOMAIN files : FileSize(files[i]) < b + Longest
        /\ log_thread.pc \in Calm /\ 0 \in DOMAIN files => FileSize(files[0]) < b
    BY <1>1, <1>2 DEF Sizable
  <1>4. \A i \in DOMAIN files : FileSize(files[i]) \in Nat
    BY <1>t, SizesAdd DEF FilesTyped
  <1> DEFINE Fits == /\ \A i \in DOMAIN files' : FileSize(files'[i]) < b + Longest
                     /\ log_thread'.pc \in Calm /\ 0 \in DOMAIN files' => FileSize(files'[0]) < b
  <1>5. crashes' = crashes /\ Fits => Sizable'
    BY <1>1, <1>2 DEF Sizable, Longest, LineLen
  <1>6. FileSize(<<>>) = 0 /\ 0 < b /\ 0 < b + Longest
    BY <1>0, <1>2, <1>t, SizesAdd
  <1>7. CASE Still
    <2>1. files' = files /\ crashes' = crashes
      BY <1>7 DEF Still
    <2>2. log_thread'.pc \in Calm => log_thread.pc \in Calm
      BY <1>7 DEF Still
    <2> QED
      BY <1>3, <1>5, <2>1, <2>2
  <1>8. CASE StartOpen
    <2>1. /\ log_thread.pc = "none" /\ DOMAIN files' = DOMAIN files \cup {0} /\ crashes' = crashes
          /\ \A i \in DOMAIN files : files'[i] = files[i]
          /\ 0 \notin DOMAIN files => files'[0] = <<>>
      BY <1>8, StartFiles
    <2>2. ASSUME NEW i \in DOMAIN files' PROVE FileSize(files'[i]) < b + Longest
      <3>1. CASE i \in DOMAIN files
        BY <1>3, <2>1, <3>1
      <3>2. CASE i \notin DOMAIN files
        BY <1>6, <2>1, <3>2
      <3> QED
        BY <3>1, <3>2
    <2>3. FileSize(files'[0]) < b
      <3>1. CASE 0 \in DOMAIN files
        BY <1>3, <2>1, <3>1 DEF Calm
      <3>2. CASE 0 \notin DOMAIN files
        BY <1>6, <2>1, <3>2
      <3> QED
        BY <3>1, <3>2
    <2> QED
      BY <1>5, <2>1, <2>2, <2>3
  <1>9. CASE CloseFile
    <2>1. log_thread' = log_thread /\ files' = files /\ crashes' = crashes
      BY <1>9, EndFiles
    <2> QED
      BY <1>3, <1>5, <2>1
  <1>10. CASE Write
    <2>1. PICK l : l = log_thread.data.line
      OBVIOUS
    <2>2. /\ l \in Lines /\ log_thread.pc = "write" /\ log_thread'.pc \in {"pop", "remove"}
          /\ m_filesize' = m_filesize + l.len
          /\ log_thread'.pc = "pop" => m_filesize' < MaxFileSize
          /\ opened => /\ DOMAIN files' = DOMAIN files /\ 0 \in DOMAIN files /\ files[0] \in Seq(Lines)
                       /\ files'[0] = Append(files[0], l)
                       /\ \A i \in DOMAIN files : i # 0 => files'[i] = files[i]
          /\ ~opened => files' = files
          /\ crashes' = crashes
      BY <1>10, <2>1, WriteFiles
    <2>3. l.len \in Nat /\ l.len <= Longest
      BY <1>0, <2>2
    <2>4. CASE opened
      <3>1. FileSize(files'[0]) = FileSize(files[0]) + l.len /\ m_filesize = FileSize(files[0])
        BY <2>2, <2>4, SizesAdd DEF Rotation
      <3>2. FileSize(files[0]) < b /\ FileSize(files[0]) \in Nat
        BY <1>3, <1>4, <2>2, <2>4 DEF Calm
      <3>3. FileSize(files'[0]) < b + Longest
        BY <1>0, <1>2, <2>3, <3>1, <3>2
      <3>4. log_thread'.pc \in Calm => FileSize(files'[0]) < b
        <4>1. log_thread'.pc \in Calm => log_thread'.pc = "pop"
          BY <2>2 DEF Calm
        <4>2. log_thread'.pc = "pop" => FileSize(files'[0]) < MaxFileSize
          BY <2>2, <3>1
        <4>3. FileSize(files'[0]) \in Nat
          BY <2>3, <3>1, <3>2
        <4> QED
          BY <1>2, <1>t, <4>1, <4>2, <4>3
      <3>5. \A i \in DOMAIN files' : FileSize(files'[i]) < b + Longest
        BY <1>3, <2>2, <2>4, <3>3
      <3> QED
        BY <1>5, <2>2, <3>4, <3>5
    <2>5. CASE ~opened
      BY <1>3, <1>5, <2>2, <2>5 DEF Calm
    <2> QED
      BY <2>4, <2>5
  <1>11. CASE ReopenRemove
    <2>1. /\ log_thread'.pc = "rename" /\ DOMAIN files' = DOMAIN files \ {MaxFileNum}
          /\ \A i \in DOMAIN files' : files'[i] = files[i] /\ crashes' = crashes
      BY <1>11, RemoveFiles
    <2>2. crashes' = crashes
      BY <1>11, RemoveFiles
    <2>3. \A i \in DOMAIN files' : FileSize(files'[i]) < b + Longest
      BY <1>3, <2>1
    <2> QED
      BY <1>5, <2>1, <2>2, <2>3 DEF Calm
  <1>12. CASE ReopenRename
    <2>1. PICK n : n = log_thread.i
      OBVIOUS
    <2>2. /\ log_thread'.pc \in {"rename", "open"} /\ crashes' = crashes
          /\ n \in DOMAIN files =>
               /\ DOMAIN files' = (DOMAIN files \ {n}) \cup {n + 1}
               /\ files'[n + 1] = files[n]
               /\ \A i \in DOMAIN files : i # n => files'[i] = files[i]
          /\ n \notin DOMAIN files => files' = files
      BY <1>12, <2>1, RenameFiles
    <2>3. ASSUME NEW i \in DOMAIN files' PROVE FileSize(files'[i]) < b + Longest
      <3>1. CASE n \notin DOMAIN files
        BY <1>3, <2>2, <3>1
      <3>2. CASE n \in DOMAIN files /\ i = n + 1
        BY <1>3, <2>2, <3>2
      <3>3. CASE n \in DOMAIN files /\ i # n + 1
        BY <1>3, <2>2, <3>3
      <3> QED
        BY <3>1, <3>2, <3>3
    <2> QED
      BY <1>5, <2>2, <2>3 DEF Calm
  <1>13. ASSUME NEW ok \in BOOLEAN, ReopenOpen(ok) PROVE Sizable'
    <2>1. /\ 0 \notin DOMAIN files /\ crashes' = crashes
          /\ ok => /\ DOMAIN files' = DOMAIN files \cup {0} /\ files'[0] = <<>>
                   /\ \A i \in DOMAIN files : files'[i] = files[i]
          /\ ~ok => files' = files
      BY <1>13, OpenFiles
    <2>2. CASE ok
      <3>1. \A i \in DOMAIN files' : FileSize(files'[i]) < b + Longest
        BY <1>3, <1>6, <2>1, <2>2
      <3> QED
        BY <1>5, <1>6, <2>1, <2>2, <3>1
    <2>3. CASE ~ok
      BY <1>3, <1>5, <2>1, <2>3
    <2> QED
      BY <2>2, <2>3
  <1>14. CASE Crash
    <2>1. files' = files /\ crashes' = crashes + 1
      BY <1>14, CrashFiles
    <2>2. PICK c : c = crashes'
      OBVIOUS
    <2>3. c = crashes + 1 /\ c \in Nat /\ c = 1 + crashes
      BY <1>t, <2>1, <2>2
    <2>4. MaxFileSize + c * Longest = b + Longest
      BY <1>2, <2>3
    <2>5. PICK q : q = c * Longest
      OBVIOUS
    <2>6. q \in Nat /\ (1 + c) * Longest = q + Longest
      BY <1>0, <2>3, <2>5, OneMore
    <2>7. MaxFileSize + (1 + c) * Longest = (b + Longest) + Longest
      <3>1. MaxFileSize + q = b + Longest
        BY <2>4, <2>5
      <3>2. PICK r : r = (1 + c) * Longest
        OBVIOUS
      <3>3. r = q + Longest
        BY <2>6, <3>2
      <3> QED
        BY <1>0, <1>2, <1>t, <2>6, <3>1, <3>2, <3>3
    <2>8. \A i \in DOMAIN files : FileSize(files[i]) < (b + Longest) + Longest
      BY <1>0, <1>2, <1>3, <1>4
    <2>9. /\ \A i \in DOMAIN files' : FileSize(files'[i]) < MaxFileSize + (1 + crashes') * Longest
          /\ 0 \in DOMAIN files' => FileSize(files'[0]) < MaxFileSize + crashes' * Longest
      BY <1>3, <2>1, <2>2, <2>4, <2>7, <2>8
    <2> QED
      BY <2>9 DEF Sizable, Longest, LineLen
  <1> QED
    BY <1>7, <1>8, <1>9, <1>10, <1>11, <1>12, <1>13, <1>14, StillOrFiles DEF FileSteps

\* While nothing failed, the files are numbered without a gap but the one of a rotation.
LEMMA ContiguousStep ==
    ASSUME States, Lifetime, FileTypes, Rotation, Contiguous, [Next]_vars
    PROVE  Contiguous'
  <1> SUFFICES ASSUME crashes' = 0, ~failed' PROVE Contiguous'
    BY DEF Contiguous
  <1>m. MaxFileNum \in Nat /\ MaxFileNum > 0 /\ DOMAIN files \subseteq 0 .. MaxFileNum /\ crashes \in Nat
    BY LoggerAssumption DEF FileTypes, FilesTyped
  <1> DEFINE Full(d, gap) == \A j \in d, k \in 0 .. MaxFileNum : k < j => k \in d \/ k \in gap
  <1>0. crashes = 0 /\ ~failed => Full(DOMAIN files, Gap)
    BY DEF Contiguous
  <1>g. Full(DOMAIN files', Gap') => Contiguous'
    BY DEF Contiguous
  <1>1. CASE Still
    <2>1. UNCHANGED <<files, failed, crashes>>
      BY <1>1 DEF Still
    <2>2. Gap' = Gap
      <3>1. log_thread' = log_thread \/ (log_thread.pc \in Calm /\ log_thread'.pc \in Calm)
        BY <1>1 DEF Still
      <3> QED
        BY <3>1 DEF Gap, Calm
    <2> QED
      BY <1>0, <1>g, <2>1, <2>2
  <1>2. CASE StartOpen
    <2>1. /\ log_thread.pc = "none" /\ log_thread' = log_thread /\ DOMAIN files' = DOMAIN files \cup {0}
          /\ UNCHANGED <<failed, crashes>>
      BY <1>2, StartFiles
    <2>2. Full(DOMAIN files, Gap) /\ Gap' = Gap
      BY <1>0, <2>1 DEF Gap
    <2>3. ASSUME NEW j \in DOMAIN files', NEW k \in 0 .. MaxFileNum, k < j PROVE k \in DOMAIN files' \/ k \in Gap'
      <3>1. j # 0
        BY <2>3
      <3> QED
        BY <2>1, <2>2, <2>3, <3>1
    <2> QED
      BY <1>g, <2>3
  <1>3. CASE CloseFile
    BY <1>0, <1>3, <1>g, EndFiles DEF Gap
  <1>4. CASE Write
    <2>1. /\ log_thread.pc = "write" /\ log_thread'.pc \in {"pop", "remove"} /\ DOMAIN files' = DOMAIN files
          /\ UNCHANGED <<failed, crashes>>
      BY <1>4, WriteFiles
    <2>2. Gap' = Gap
      BY <2>1 DEF Gap
    <2> QED
      BY <1>0, <1>g, <2>1, <2>2
  <1>5. CASE ReopenRemove
    <2>1. /\ log_thread.pc = "remove" /\ log_thread'.pc = "rename" /\ UNCHANGED <<failed, crashes>>
          /\ DOMAIN files' = DOMAIN files \ {MaxFileNum}
      BY <1>5, RemoveFiles
    <2>2. Full(DOMAIN files, {})
      BY <1>0, <2>1 DEF Gap
    <2>3. ASSUME NEW j \in DOMAIN files', NEW k \in 0 .. MaxFileNum, k < j PROVE k \in DOMAIN files'
      <3>1. j \in DOMAIN files /\ j < MaxFileNum
        BY <1>m, <2>1
      <3>2. k \in DOMAIN files /\ k # MaxFileNum
        BY <1>m, <2>2, <2>3, <3>1
      <3> QED
        BY <2>1, <3>2
    <2> QED
      BY <1>g, <2>3
  <1>6. CASE ReopenRename
    <2>1. PICK n : n = log_thread.i
      OBVIOUS
    <2>2. /\ log_thread.pc = "rename" /\ n \in 0 .. MaxFileNum - 1 /\ n + 1 \notin DOMAIN files
          /\ n = 0 => log_thread'.pc = "open"
          /\ n # 0 => log_thread'.pc = "rename" /\ log_thread'.i = n - 1
          /\ n \in DOMAIN files => DOMAIN files' = (DOMAIN files \ {n}) \cup {n + 1}
          /\ n \notin DOMAIN files => files' = files
          /\ UNCHANGED <<failed, crashes>>
      BY <1>6, <2>1, RenameFiles
    <2>3. Full(DOMAIN files, {n + 1})
      BY <1>0, <2>1, <2>2 DEF Gap
    <2>4. Gap' = {n}
      <3>1. CASE n = 0
        BY <2>2, <3>1 DEF Gap
      <3>2. CASE n # 0
        <4>1. log_thread'.pc = "rename" /\ log_thread'.i + 1 = n
          BY <1>m, <2>2, <3>2
        <4> QED
          BY <4>1 DEF Gap
      <3> QED
        BY <3>1, <3>2
    <2>5. ASSUME NEW j \in DOMAIN files', NEW k \in 0 .. MaxFileNum, k < j, k # n PROVE k \in DOMAIN files'
      <3>1. CASE n \in DOMAIN files
        <4>1. j = n + 1 \/ (j \in DOMAIN files /\ j # n)
          BY <2>2, <3>1
        <4>2. CASE j = n + 1
          <5>1. k < n /\ k # n + 1
            BY <2>2, <2>5, <4>2
          <5>2. k \in DOMAIN files
            BY <2>3, <3>1, <5>1
          <5> QED
            BY <2>2, <2>5, <3>1, <5>2
        <4>3. CASE j \in DOMAIN files /\ j # n
          <5>1. k \in DOMAIN files \/ k = n + 1
            BY <2>3, <2>5, <4>3
          <5> QED
            BY <2>2, <2>5, <3>1, <5>1
        <4> QED
          BY <4>1, <4>2, <4>3
      <3>2. CASE n \notin DOMAIN files
        <4>1. j \in DOMAIN files /\ files' = files
          BY <2>2, <3>2
        <4>2. k \in DOMAIN files \/ k = n + 1
          BY <2>3, <2>5, <4>1
        <4>3. k # n + 1
          <5> SUFFICES ASSUME k = n + 1 PROVE FALSE
            OBVIOUS
          <5>1. n < j /\ n \in 0 .. MaxFileNum /\ n # n + 1
            BY <1>m, <2>2, <2>5, <4>1
          <5>2. n \in DOMAIN files \/ n \in {n + 1}
            BY <2>3, <4>1, <5>1
          <5> QED
            BY <3>2, <5>1, <5>2
        <4> QED
          BY <4>1, <4>2, <4>3
      <3> QED
        BY <3>1, <3>2
    <2> QED
      BY <1>g, <2>4, <2>5
  <1>7. ASSUME NEW ok \in BOOLEAN, ReopenOpen(ok) PROVE Contiguous'
    <2>1. /\ log_thread.pc = "open" /\ log_thread'.pc = "pop" /\ crashes' = crashes /\ (failed => failed')
          /\ ok => DOMAIN files' = DOMAIN files \cup {0}
          /\ ~ok => failed' = TRUE
      BY <1>7, OpenFiles
    <2>2. ok /\ DOMAIN files' = DOMAIN files \cup {0} /\ Full(DOMAIN files, {0})
      BY <1>0, <2>1 DEF Gap
    <2>3. ASSUME NEW j \in DOMAIN files', NEW k \in 0 .. MaxFileNum, k < j PROVE k \in DOMAIN files'
      <3>1. j # 0
        BY <2>3
      <3> QED
        BY <2>2, <2>3, <3>1
    <2> QED
      BY <1>g, <2>3
  <1>8. CASE Crash
    <2>1. crashes' = crashes + 1
      BY <1>8, CrashFiles
    <2> QED
      BY <1>m, <2>1
  <1> QED
    BY <1>1, <1>2, <1>3, <1>4, <1>5, <1>6, <1>7, <1>8, StillOrFiles DEF FileSteps

\* What a step does to the disk: nothing, a line at its end, or the oldest file away.
DiskKept == DiskOf(files') = DiskOf(files) /\ written' = written
DiskWritten ==
    /\ DiskOf(files) \in Seq(Lines)
    /\ \E l \in Lines : DiskOf(files') = Append(DiskOf(files), l) /\ written' = Append(written, l)
DiskDropped ==
    /\ log_thread.pc = "remove" /\ written' = written
    /\ DiskOf(files') \in Seq(Lines) /\ At(files, MaxFileNum) \in Seq(Lines)
    /\ DiskOf(files) = At(files, MaxFileNum) \o DiskOf(files')

\* Every step of the Logger does one of the three to the disk.
LEMMA DiskMoves ==
    ASSUME States, Lifetime, FileTypes, Rotation, [Next]_vars
    PROVE  DiskKept \/ DiskWritten \/ DiskDropped
  <1>0. FilesTyped(files) /\ MaxFileNum \in Nat /\ MaxFileNum > 0
    BY LoggerAssumption DEF FileTypes
  <1>1. CASE Still
    BY <1>1 DEF Still, DiskKept
  <1>2. CASE StartOpen
    <2>1. (\A i : At(files', i) = At(files, i)) /\ written' = written
      BY <1>2, StartFiles
    <2> QED
      BY <2>1, DiskSame DEF DiskKept
  <1>3. CASE CloseFile
    BY <1>3, EndFiles DEF DiskKept
  <1>4. CASE Write
    <2>1. PICK l : l = log_thread.data.line
      OBVIOUS
    <2>2. /\ l \in Lines /\ FilesTyped(files')
          /\ opened => /\ DOMAIN files' = DOMAIN files /\ 0 \in DOMAIN files
                       /\ files'[0] = Append(files[0], l)
                       /\ \A i \in DOMAIN files : i # 0 => files'[i] = files[i]
                       /\ written' = Append(written, l)
          /\ ~opened => files' = files /\ written' = written
      BY <1>4, <2>1, WriteFiles
    <2>3. CASE opened
      <3>1. At(files', 0) = Append(At(files, 0), l)
        BY <2>2, <2>3 DEF At
      <3>2. \A i \in 1 .. MaxFileNum : At(files', i) = At(files, i)
        BY <2>2, <2>3 DEF At
      <3>3. DiskOf(files') = Append(DiskOf(files), l) /\ DiskOf(files) \in Seq(Lines)
        BY <1>0, <2>2, <3>1, <3>2, DiskAppend
      <3> QED
        BY <2>2, <2>3, <3>3 DEF DiskWritten
    <2>4. CASE ~opened
      BY <2>2, <2>4 DEF DiskKept
    <2> QED
      BY <2>3, <2>4
  <1>5. CASE ReopenRemove
    <2>1. /\ log_thread.pc = "remove" /\ FilesTyped(files') /\ DOMAIN files' = DOMAIN files \ {MaxFileNum}
          /\ written' = written
      BY <1>5, RemoveFiles
    <2>2. \A i \in DOMAIN files' : files'[i] = files[i]
      BY <1>5, RemoveFiles
    <2>3. At(files', MaxFileNum) = <<>>
      BY <2>1 DEF At
    <2>4. ASSUME NEW i \in 0 .. MaxFileNum - 1 PROVE At(files', i) = At(files, i)
      <3>1. i # MaxFileNum
        BY <1>0
      <3> QED
        BY <2>1, <2>2, <3>1 DEF At
    <2>5. DiskOf(files) = At(files, MaxFileNum) \o DiskOf(files') /\ DiskOf(files') \in Seq(Lines)
      BY <1>0, <2>1, <2>3, <2>4, DiskDrop
    <2>6. At(files, MaxFileNum) \in Seq(Lines)
      BY <1>0, PartsPlaces
    <2> QED
      BY <2>1, <2>5, <2>6 DEF DiskDropped
  <1>6. CASE ReopenRename
    <2>1. PICK n : n = log_thread.i
      OBVIOUS
    <2>2. /\ n \in 0 .. MaxFileNum - 1 /\ n + 1 \notin DOMAIN files /\ FilesTyped(files')
          /\ n \in DOMAIN files =>
                /\ DOMAIN files' = (DOMAIN files \ {n}) \cup {n + 1}
                /\ files'[n + 1] = files[n]
                /\ \A i \in DOMAIN files : i # n => files'[i] = files[i]
          /\ n \notin DOMAIN files => files' = files
          /\ written' = written
      BY <1>6, <2>1, RenameFiles
    <2>3. CASE n \in DOMAIN files
      <3>1. n # n + 1
        BY <2>2
      <3>2. At(files, n + 1) = <<>> /\ At(files', n + 1) = At(files, n) /\ At(files', n) = <<>>
        BY <2>2, <2>3, <3>1 DEF At
      <3>3. ASSUME NEW i \in 0 .. MaxFileNum, i # n, i # n + 1 PROVE At(files', i) = At(files, i)
        BY <2>2, <2>3, <3>3 DEF At
      <3>4. DiskOf(files') = DiskOf(files)
        BY <1>0, <2>2, <3>2, <3>3, DiskMove
      <3> QED
        BY <2>2, <3>4 DEF DiskKept
    <2>4. CASE n \notin DOMAIN files
      BY <2>2, <2>4 DEF DiskKept
    <2> QED
      BY <2>3, <2>4
  <1>7. ASSUME NEW ok \in BOOLEAN, ReopenOpen(ok) PROVE DiskKept
    <2>1. (\A i : At(files', i) = At(files, i)) /\ written' = written
      BY <1>7, OpenFiles
    <2> QED
      BY <2>1, DiskSame DEF DiskKept
  <1>8. CASE Crash
    BY <1>8, CrashFiles DEF DiskKept
  <1> QED
    BY <1>1, <1>2, <1>3, <1>4, <1>5, <1>6, <1>7, <1>8, StillOrFiles DEF FileSteps

\* The disk is the end of what was written.
LEMMA InOrderStep ==
    ASSUME States, Lifetime, FileTypes, Rotation, IsSuffix(DiskOf(files), written), [Next]_vars
    PROVE  IsSuffix(DiskOf(files'), written')
  <1>1. written \in Seq(Lines)
    BY DEF States, Types
  <1>2. CASE DiskKept
    BY <1>2 DEF DiskKept
  <1>3. CASE DiskWritten
    <2>1. PICK l \in Lines : DiskOf(files') = Append(DiskOf(files), l) /\ written' = Append(written, l)
      BY <1>3 DEF DiskWritten
    <2>2. DiskOf(files) \in Seq(Lines)
      BY <1>3 DEF DiskWritten
    <2>3. IsSuffix(Append(DiskOf(files), l), Append(written, l))
      BY <1>1, <2>2, SuffixAppend
    <2> QED
      BY <2>1, <2>3
  <1>4. CASE DiskDropped
    <2>1. PICK a, d, e : a = At(files, MaxFileNum) /\ d = DiskOf(files') /\ e = DiskOf(files)
      OBVIOUS
    <2>2. a \in Seq(Lines) /\ d \in Seq(Lines) /\ e = a \o d /\ written' = written
      BY <1>4, <2>1 DEF DiskDropped
    <2>3. IsSuffix(a \o d, written)
      BY <2>1, <2>2
    <2>4. IsSuffix(d, written)
      BY <1>1, <2>2, <2>3, SuffixDrop
    <2> QED
      BY <2>1, <2>2, <2>4
  <1> QED
    BY <1>2, <1>3, <1>4, DiskMoves

\* At the start there is no file.
LEMMA OnDiskInit == Init => OnDisk
  <1> SUFFICES ASSUME Init PROVE OnDisk
    OBVIOUS
  <1>1. /\ files = <<>> /\ opened = FALSE /\ failed = FALSE /\ m_filesize = 0 /\ m_capacity = NoLimit
        /\ crashes = 0 /\ owed = {} /\ written = <<>> /\ log_thread.pc = "none"
    BY DEF Init, NoThread
  <1>2. DOMAIN files = {}
    BY <1>1
  <1>3. FilesTyped(files)
    BY <1>2 DEF FilesTyped
  <1>m. MaxCrashes \in Nat /\ MaxLines \in Nat /\ MaxFileNum \in Nat /\ MaxFileNum > 0
    BY LoggerAssumption
  <1>4. FileTypes
    <2>1. crashes \in 0 .. MaxCrashes /\ m_capacity \in Nat /\ m_filesize \in Nat
      BY <1>1, <1>m DEF NoLimit
    <2>2. opened \in BOOLEAN /\ failed \in BOOLEAN /\ owed \subseteq Lines
      BY <1>1
    <2> QED
      BY <1>3, <2>1, <2>2 DEF FileTypes
  <1>5. Rotation
    BY <1>1 DEF Rotation
  <1>6. Sizable
    BY <1>2 DEF Sizable
  <1>7. Contiguous
    BY <1>2 DEF Contiguous
  <1>8. IsSuffix(DiskOf(files), written)
    <2>1. PICK d : d = DiskOf(files)
      OBVIOUS
    <2>2. d = <<>>
      <3>1. PICK s, n : s = Parts(files) /\ n = MaxFileNum + 1
        OBVIOUS
      <3>2. /\ n \in Nat /\ n > 0 /\ s \in Seq(Seq(Lines)) /\ Len(s) = n
            /\ \A k \in 1 .. n : s[k] = At(files, MaxFileNum + 1 - k)
        BY <1>3, <1>m, <3>1, PartsPlaces
      <3>3. \A i : At(files, i) = <<>>
        BY <1>2 DEF At
      <3>4. FlattenSeq(s) = <<>>
        <4>1. s \in Seq(Seq(Lines)) /\ Len(s) > 0 /\ \A i \in 1 .. Len(s) : s[i] = <<>>
          BY <3>2, <3>3
        <4> QED
          BY <4>1, FlattenEmpty
      <3> QED
        BY <2>1, <3>1, <3>4 DEF DiskOf
    <2>3. PICK e : e = <<>>
      OBVIOUS
    <2>4. e \in Seq(Lines) /\ Len(e) = 0
      BY <2>3
    <2>5. Len(e) <= Len(e) /\ \A i \in 1 .. Len(e) : e[i] = e[Len(e) - Len(e) + i]
      BY <2>4
    <2>6. IsSuffix(e, e)
      BY <2>4, <2>5, SuffixPlaces
    <2> QED
      BY <1>1, <2>1, <2>2, <2>3, <2>6
  <1> QED
    BY <1>4, <1>5, <1>6, <1>7, <1>8 DEF OnDisk

\* Every step keeps what is said of the files.
LEMMA OnDiskStep ==
    ASSUME States, Lifetime, OnDisk, [Next]_vars
    PROVE  OnDisk'
  <1>0. FileTypes /\ Rotation /\ Sizable /\ Contiguous /\ IsSuffix(DiskOf(files), written)
    BY DEF OnDisk
  <1>1. FileTypes' /\ Rotation'
    BY <1>0, FileTypesStep, RotationStep
  <1>2. Sizable' /\ Contiguous'
    BY <1>0, SizableStep, ContiguousStep
  <1>3. IsSuffix(DiskOf(files'), written')
    BY <1>0, InOrderStep
  <1> QED
    BY <1>1, <1>2, <1>3 DEF OnDisk

\* The files together with the threads that fill them.
LEMMA OnDiskInvariant == Spec => [](Invariant /\ OnDisk)
  <1>1. Init => OnDisk
    BY OnDiskInit
  <1>2. Invariant /\ OnDisk /\ [Next]_vars => OnDisk'
    BY OnDiskStep DEF Invariant
  <1> QED
    BY <1>1, <1>2, LoggerInvariant, PTL DEF Spec

\* Read from the oldest file to the base file, the disk holds the lines that
\* were written last, without a gap and in order: between any two renames of
\* a rotation, after a crash there, and after a Start that appends.
THEOREM FilesInOrderHolds == Spec => []FilesInOrder
  <1>1. OnDisk => FilesInOrder
    BY DiskIs DEF OnDisk, FilesInOrder
  <1> QED
    BY <1>1, OnDiskInvariant, PTL

\* What the run calls TypeOK, from the layers.
LEMMA InvariantTypes == ASSUME Invariant, OnDisk PROVE TypeOK
  <1> USE DEF Invariant, OnDisk
  <1>1. BlockPoolTypeOK
    <2>1. m_free_blocks \in Seq(Cached) /\ heap \subseteq HeapBlocks
      BY DEF Holders, PoolSound
    <2>2. Cached \subseteq CachedBlocks
      BY DEF Cached
    <2> QED
      BY <2>1, <2>2 DEF BlockPoolTypeOK
  <1>2. /\ s_level \in 0 .. LEVEL_MAX /\ m_started \in BOOLEAN /\ pool_ready \in BOOLEAN
        /\ undersized \in BOOLEAN /\ forced \in BOOLEAN
        /\ m_data_queue \in Seq(LogData \cup {ExitMarker})
        /\ ctl \in ControlStates /\ log_thread \in LogState /\ client \in [Threads -> ClientState]
        /\ logged \in [Threads -> Nat] /\ written \in Seq(Lines)
    BY DEF States, Types
  <1>3. /\ opened \in BOOLEAN /\ failed \in BOOLEAN /\ m_filesize \in Nat /\ m_capacity \in Nat
        /\ crashes \in 0 .. MaxCrashes /\ owed \subseteq Lines
        /\ DOMAIN files \subseteq 0 .. MaxFileNum /\ \A i \in DOMAIN files : files[i] \in Seq(Lines)
    BY DEF FileTypes, FilesTyped
  <1>4. promised \subseteq owed
    BY DEF Promises
  <1> QED
    BY <1>1, <1>2, <1>3, <1>4 DEF TypeOK, ControlStates, LogState, ClientState

\* No file outgrows MaxFileSize by a line, and one more for every crash that
\* came between a write and its rotation; no file has an index above
\* MaxFileNum; and the other variables are of their types.
THEOREM FilesBoundedHolds ==
    ASSUME MsgLens # {}
    PROVE  Spec => []FilesBounded
  <1>1. ASSUME Invariant, OnDisk PROVE FilesBounded
    <2>1. TypeOK
      BY <1>1, InvariantTypes
    <2>2. \A i \in DOMAIN files : FileSize(files[i]) < MaxFileSize + (1 + crashes) * Longest
      BY <1>1 DEF OnDisk, Sizable
    <2> QED
      BY <2>1, <2>2 DEF FilesBounded, Longest
  <1> QED
    BY <1>1, OnDiskInvariant, PTL

\* A rotation takes lines from the disk only when all MaxFileNum old files are
\* in use, unless a crash cut one short or one found no base file: files move
\* up one after the other, and the only gap among them is the one in motion.
THEOREM RotationKeepsHolds == Spec => RotationKeeps
  <1> DEFINE Keeps == Len(Disk') < Len(Disk) =>
                        (0 .. MaxFileNum \subseteq DOMAIN files \/ crashes > 0 \/ failed)
  <1>1. ASSUME Invariant, OnDisk, [Next]_vars PROVE Keeps
    <2>0. States /\ Lifetime /\ FileTypes /\ Rotation /\ Contiguous
      BY <1>1 DEF Invariant, OnDisk
    <2>1. PICK x, y, a : x = DiskOf(files) /\ y = DiskOf(files') /\ a = At(files, MaxFileNum)
      OBVIOUS
    <2>2. Disk = x /\ Disk' = y
      BY <2>1 DEF Disk, DiskOf, Parts, At
    <2>3. CASE DiskKept
      <3>1. x = y
        BY <2>1, <2>3 DEF DiskKept
      <3>2. x \in Seq(Lines)
        <4>1. PICK p : p = Parts(files)
          OBVIOUS
        <4>2. p \in Seq(Seq(Lines)) /\ Len(p) > 0
          BY <2>0, <4>1, PartsPlaces, LoggerAssumption DEF FileTypes
        <4>3. FlattenSeq(p) \in Seq(Lines)
          BY <4>2, FlattenTyped
        <4> QED
          BY <2>1, <4>1, <4>3 DEF DiskOf
      <3>3. Len(x) \in Nat
        BY <3>2
      <3>4. ~ (Len(y) < Len(x))
        BY <3>1, <3>3
      <3> QED
        BY <2>2, <3>4
    <2>4. CASE DiskWritten
      <3>1. PICK l \in Lines : y = Append(x, l)
        BY <2>1, <2>4 DEF DiskWritten
      <3>2. x \in Seq(Lines)
        BY <2>1, <2>4 DEF DiskWritten
      <3>3. Len(x) \in Nat /\ Len(y) = Len(x) + 1
        BY <3>1, <3>2, AppendPlaces
      <3>4. ~ (Len(y) < Len(x))
        BY <3>3
      <3> QED
        BY <2>2, <3>4
    <2>5. CASE DiskDropped
      <3>1. log_thread.pc = "remove" /\ y \in Seq(Lines) /\ a \in Seq(Lines) /\ x = a \o y
        BY <2>1, <2>5 DEF DiskDropped
      <3>2. Len(a) \in Nat /\ Len(y) \in Nat /\ Len(x) = Len(a) + Len(y)
        BY <3>1, ConcatPlaces
      <3>3. MaxFileNum \in DOMAIN files \/ ~ (Len(y) < Len(x))
        <4>1. MaxFileNum \notin DOMAIN files => a = <<>>
          BY <2>1 DEF At
        <4>2. Len(<<>>) = 0
          OBVIOUS
        <4>3. a = <<>> => Len(x) = Len(y)
          BY <3>2, <4>2
        <4> QED
          BY <3>2, <4>1, <4>3
      <3>4. Gap = {}
        BY <3>1 DEF Gap
      <3>5. crashes > 0 \/ crashes = 0
        BY <2>0 DEF FileTypes
      <3>6. ASSUME MaxFileNum \in DOMAIN files, crashes = 0, ~failed PROVE 0 .. MaxFileNum \subseteq DOMAIN files
        <4>1. ASSUME NEW k \in 0 .. MaxFileNum PROVE k \in DOMAIN files
          <5>1. k < MaxFileNum \/ k = MaxFileNum
            BY LoggerAssumption
          <5> QED
            BY <2>0, <3>4, <3>6, <5>1 DEF Contiguous
        <4> QED
          BY <4>1
      <3> QED
        BY <2>2, <3>3, <3>5, <3>6
    <2> QED
      BY <2>0, <2>3, <2>4, <2>5, <1>1, DiskMoves
  <1>2. (Invariant /\ OnDisk) /\ [Next]_vars => [Keeps]_vars
    BY <1>1
  <1> QED
    BY <1>2, OnDiskInvariant, PTL DEF Spec, RotationKeeps
=============================================================================
