------------------------------- MODULE Logger -------------------------------
(***************************************************************************)
(* xfutil::Logger (src/logger.cpp, src/logger_impl.cpp).  A thread that    *)
(* logs formats its line into a block of m_pool and pushes it to           *)
(* m_data_queue; one log thread pops lines, writes them to the file, frees *)
(* the block and rotates the files: base -> .1 -> ... -> .MaxFileNum.      *)
(* Close pushes an exit marker and joins the log thread.                   *)
(*                                                                         *)
(* One thread calls Start and Close, in turn: Start of a running logger    *)
(* replaces a joinable std::thread, which ends the process.  The process   *)
(* may crash between any two steps; only the files survive.                *)
(***************************************************************************)
EXTENDS BlockPool, Totals, SequencesExt

CONSTANTS Threads,       \* the threads that log
          MsgLens,       \* lengths of formatted messages
          HeadLen,       \* length of the date, the level and the position
          MaxFileSize, MaxFileNum,  \* of LogConfig
          Levels,        \* arguments of SetLevel
          QueueCapacity, \* QUEUE_CAPACITY
          MaxLines,      \* bound: lines that are logged
          MaxCrashes     \* bound: crashes of the process

ASSUME LoggerAssumption ==
    /\ MsgLens \subseteq Nat /\ HeadLen \in Nat /\ Levels \subseteq 0 .. 5
    /\ MaxFileSize \in Nat \ {0} /\ MaxFileNum \in Nat \ {0}
    /\ QueueCapacity \in Nat \ {0} /\ MaxLines \in Nat /\ MaxCrashes \in Nat

NullPtr == 0
LEVEL_INFO == 1     \* the level of every line, and of LogConfig
LEVEL_MAX == 5      \* above every level: nothing is logged

VARIABLES s_level,
          m_started,
          m_filesize,
          m_data_queue, m_capacity,
          opened,      \* m_logfile has a descriptor
          pool_ready,  \* m_pool.Init has run
          files,       \* index -> lines; 0 is the base file, i is ".i"
          ctl,         \* the thread that calls Start and Close
          log_thread,  \* where the log thread is, its line, its loop index
          client,      \* each logging thread: where it is, its blocks, its line
          logged,      \* history: how many lines each thread began
          owed,        \* history: lines whose LogMsg returned, before their Write
          promised,    \* history: those of them that a running Close found
          written,     \* history: lines written, in order, over all processes
          undersized,  \* history: a block was taken before m_pool.Init
          forced,      \* history: SetLevel was called without a running logger
          failed,      \* history: a rotated file could not be opened
          crashes

memory == <<s_level, m_started, m_filesize, m_data_queue, m_capacity, opened, pool_ready>>
threads == <<ctl, log_thread, client>>
history == <<logged, owed, promised, written, undersized, forced, failed, crashes>>
vars == <<blockPoolVars, memory, files, threads, history>>

\* snprintf returns the length the line would have; the message has been cut
\* to one block, the line has not.
LineLen(m) == HeadLen + Min({m, BlockSize - 1}) + 1
Lines == [by : Threads, no : Nat, len : {LineLen(m) : m \in MsgLens}]
NoLine == [by |-> "none", no |-> 0, len |-> 0]
LogData == [buf : Blocks, line : Lines]
ExitMarker == [buf |-> NullPtr, line |-> NoLine]
FileSize(f) == Total([k \in 1 .. Len(f) |-> f[k].len])

Out == [pc |-> "out", msg |-> NullPtr, buf |-> NullPtr, line |-> NoLine]
NoThread == [pc |-> "none", data |-> ExitMarker, i |-> 0]
Looping == [NoThread EXCEPT !.pc = "pop"]

TypeOK ==
    /\ BlockPoolTypeOK
    /\ s_level \in 0 .. LEVEL_MAX
    /\ m_started \in BOOLEAN /\ opened \in BOOLEAN /\ pool_ready \in BOOLEAN
    /\ m_filesize \in Nat /\ m_capacity \in Nat
    /\ m_data_queue \in Seq(LogData \cup {ExitMarker})
    /\ DOMAIN files \subseteq 0 .. MaxFileNum
    /\ \A i \in DOMAIN files : files[i] \in Seq(Lines)
    /\ ctl \in {"idle", "pool", "thread", "level", "marker", "join", "file"}
    /\ log_thread \in [pc : {"none", "pop", "write", "remove", "rename", "open"},
                       data : LogData \cup {ExitMarker}, i : 0 .. MaxFileNum]
    /\ client \in [Threads ->
            [pc : {"out", "buf", "free", "push"}, msg : Blocks \cup {NullPtr},
             buf : Blocks \cup {NullPtr}, line : Lines \cup {NoLine}]]
    /\ logged \in [Threads -> Nat]
    /\ owed \subseteq Lines /\ promised \subseteq owed
    /\ written \in Seq(Lines)
    /\ undersized \in BOOLEAN /\ forced \in BOOLEAN /\ failed \in BOOLEAN
    /\ crashes \in 0 .. MaxCrashes

NoLimit == MaxLines + 1

Init ==
    /\ s_level = LEVEL_MAX
    /\ m_started = FALSE /\ opened = FALSE /\ pool_ready = FALSE
    /\ m_filesize = 0
    /\ m_data_queue = <<>> /\ m_capacity = NoLimit
    /\ m_free_blocks = <<>> /\ heap = {}
    /\ ctl = "idle" /\ log_thread = NoThread
    /\ client = [t \in Threads |-> Out]
    /\ owed = {} /\ promised = {}
    /\ undersized = FALSE /\ forced = FALSE
    /\ files = <<>>
    /\ logged = [t \in Threads |-> 0]
    /\ written = <<>>
    /\ failed = FALSE /\ crashes = 0
-----------------------------------------------------------------------------
(***************************************************************************)
(* The files.  open(O_CREAT | O_APPEND) keeps what a file has; rename      *)
(* replaces its target and does nothing when there is no such file.        *)
(***************************************************************************)

\* Mistake: O_TRUNC for O_APPEND.
OpenedTruncated(fs) == [i \in DOMAIN fs \cup {0} |-> IF i = 0 THEN <<>> ELSE fs[i]]

Opened(fs) == [i \in DOMAIN fs \cup {0} |-> IF i \in DOMAIN fs THEN fs[i] ELSE <<>>]
Removed(fs, i) == [k \in DOMAIN fs \ {i} |-> fs[k]]
Renamed(fs, i, j) ==
    IF i \in DOMAIN fs
    THEN [k \in (DOMAIN fs \ {i}) \cup {j} |-> IF k = j THEN fs[i] ELSE fs[k]]
    ELSE fs
-----------------------------------------------------------------------------
(***************************************************************************)
(* Start.                                                                  *)
(***************************************************************************)
\* (If the file cannot be opened, Start returns false and nothing changes.)
StartOpen ==
    /\ ctl = "idle" /\ ~m_started
    /\ files' = Opened(files) /\ opened' = TRUE
    /\ m_filesize' = FileSize(Opened(files)[0])
    /\ ctl' = "pool"
    /\ UNCHANGED <<blockPoolVars, s_level, m_started, m_data_queue, m_capacity, pool_ready,
                   log_thread, client, history>>

\* A second m_pool.Init of the process is refused and changes nothing.
StartPool ==
    /\ ctl = "pool"
    /\ pool_ready' = TRUE
    /\ m_free_blocks' = IF pool_ready THEN m_free_blocks ELSE CacheBlocks
    /\ m_capacity' = QueueCapacity
    /\ ctl' = "thread"
    /\ UNCHANGED <<heap, s_level, m_started, m_filesize, m_data_queue, opened, files,
                   log_thread, client, history>>

StartThread ==
    /\ ctl = "thread"
    /\ log_thread' = Looping
    /\ m_started' = TRUE
    /\ ctl' = "level"
    /\ UNCHANGED <<blockPoolVars, s_level, m_filesize, m_data_queue, m_capacity, opened,
                   pool_ready, files, client, history>>

\* Logger::Start lets the lines in only when the logger is ready.
StartLevel ==
    /\ ctl = "level"
    /\ s_level' = LEVEL_INFO
    /\ ctl' = "idle"
    /\ UNCHANGED <<blockPoolVars, m_started, m_filesize, m_data_queue, m_capacity, opened,
                   pool_ready, files, log_thread, client, history>>
-----------------------------------------------------------------------------
(***************************************************************************)
(* Close.                                                                  *)
(***************************************************************************)
\* Logger::Close stops new lines; LoggerImpl::Close returns if not started.
CloseLevel ==
    /\ ctl = "idle"
    /\ s_level' = LEVEL_MAX
    /\ IF m_started THEN promised' = owed /\ ctl' = "marker" ELSE UNCHANGED <<promised, ctl>>
    /\ UNCHANGED <<blockPoolVars, m_started, m_filesize, m_data_queue, m_capacity, opened,
                   pool_ready, files, log_thread, client, logged, owed, written, undersized,
                   forced, failed, crashes>>

\* Mistake: the marker is dropped when the queue is full.
CloseMarkerTry ==
    /\ ctl = "marker"
    /\ m_data_queue' = IF Len(m_data_queue) < m_capacity
                       THEN Append(m_data_queue, ExitMarker) ELSE m_data_queue
    /\ ctl' = "join"
    /\ UNCHANGED <<blockPoolVars, s_level, m_started, m_filesize, m_capacity, opened,
                   pool_ready, files, log_thread, client, history>>

CloseMarker ==
    /\ ctl = "marker" /\ Len(m_data_queue) < m_capacity
    /\ m_data_queue' = Append(m_data_queue, ExitMarker)
    /\ ctl' = "join"
    /\ UNCHANGED <<blockPoolVars, s_level, m_started, m_filesize, m_capacity, opened,
                   pool_ready, files, log_thread, client, history>>

\* Mistake: Detach for Join.
CloseDetach ==
    /\ ctl = "join"
    /\ ctl' = "file"
    /\ UNCHANGED <<blockPoolVars, memory, files, log_thread, client, history>>

CloseJoin ==
    /\ ctl = "join" /\ log_thread.pc = "none"
    /\ ctl' = "file"
    /\ UNCHANGED <<blockPoolVars, memory, files, log_thread, client, history>>

CloseFile ==
    /\ ctl = "file"
    /\ opened' = FALSE /\ m_started' = FALSE
    /\ ctl' = "idle"
    /\ UNCHANGED <<blockPoolVars, s_level, m_filesize, m_data_queue, m_capacity, pool_ready,
                   files, log_thread, client, history>>

SetLevel(level) ==
    /\ s_level' = level
    /\ forced' = (forced \/ ~m_started)
    /\ UNCHANGED <<blockPoolVars, m_started, m_filesize, m_data_queue, m_capacity, opened,
                   pool_ready, files, threads, logged, owed, promised, written, undersized, failed, crashes>>
-----------------------------------------------------------------------------
(***************************************************************************)
(* LogMsg: two blocks, one for the message and one for the line.           *)
(***************************************************************************)
\* m_pool.Alloc; before m_pool.Init its blocks have no size.  Which block
\* the heap gives does not matter here: the lowest one.
TakeBlock(b) ==
    /\ \/ AllocCached(b)
       \/ /\ m_free_blocks = <<>> /\ AllocHeap(b)
          /\ \A c \in HeapBlocks \ heap : b <= c
    /\ undersized' = (undersized \/ ~pool_ready)

\* The macros LogInfo, LogError... read s_level once, before the call; the
\* first thing LogMsg does that others can see is to take a block.
LogBegin(t, m) ==
    /\ client[t].pc = "out" /\ s_level <= LEVEL_INFO
    /\ SumFunction(logged) < MaxLines
    /\ logged' = [logged EXCEPT ![t] = @ + 1]
    /\ \E b \in Blocks :
        /\ TakeBlock(b)
        /\ client' = [client EXCEPT ![t] =
               [pc |-> "buf", msg |-> b, buf |-> NullPtr,
                line |-> [by |-> t, no |-> logged[t] + 1, len |-> LineLen(m)]]]
    /\ UNCHANGED <<memory, files, ctl, log_thread, owed, promised, written, forced, failed,
                   crashes>>

LogAllocBuf(t) ==
    /\ client[t].pc = "buf"
    /\ \E b \in Blocks : TakeBlock(b) /\ client' = [client EXCEPT ![t].pc = "free", ![t].buf = b]
    /\ UNCHANGED <<memory, files, ctl, log_thread, logged, owed, promised, written, forced,
                   failed, crashes>>

\* Mistake: the block of the line is freed for the one of the message.
LogFreeBuf(t) ==
    /\ client[t].pc = "free"
    /\ FreeBlock(client[t].buf)
    /\ client' = [client EXCEPT ![t].pc = "push", ![t].msg = NullPtr]
    /\ UNCHANGED <<memory, files, ctl, log_thread, history>>

LogFreeMsg(t) ==
    /\ client[t].pc = "free"
    /\ FreeBlock(client[t].msg)
    /\ client' = [client EXCEPT ![t].pc = "push", ![t].msg = NullPtr]
    /\ UNCHANGED <<memory, files, ctl, log_thread, history>>

\* Push blocks while the queue is full.
LogPush(t) ==
    /\ client[t].pc = "push" /\ Len(m_data_queue) < m_capacity
    /\ m_data_queue' = Append(m_data_queue, [buf |-> client[t].buf, line |-> client[t].line])
    /\ owed' = owed \cup {client[t].line}
    /\ client' = [client EXCEPT ![t] = Out]
    /\ UNCHANGED <<blockPoolVars, s_level, m_started, m_filesize, m_capacity, opened, pool_ready,
                   files, ctl, log_thread, logged, promised, written, undersized, forced, failed,
                   crashes>>
-----------------------------------------------------------------------------
(***************************************************************************)
(* The log thread.                                                         *)
(***************************************************************************)
\* Mistake: the last element of the queue.
PopLast ==
    /\ log_thread.pc = "pop" /\ m_data_queue # <<>>
    /\ m_data_queue' = Front(m_data_queue)
    /\ log_thread' = IF Last(m_data_queue) = ExitMarker THEN NoThread
                     ELSE [Looping EXCEPT !.pc = "write", !.data = Last(m_data_queue)]
    /\ UNCHANGED <<blockPoolVars, s_level, m_started, m_filesize, m_capacity, opened, pool_ready,
                   files, ctl, client, history>>

Pop ==
    /\ log_thread.pc = "pop" /\ m_data_queue # <<>>
    /\ m_data_queue' = Tail(m_data_queue)
    /\ log_thread' = IF Head(m_data_queue) = ExitMarker THEN NoThread
                     ELSE [Looping EXCEPT !.pc = "write", !.data = Head(m_data_queue)]
    /\ UNCHANGED <<blockPoolVars, s_level, m_started, m_filesize, m_capacity, opened, pool_ready,
                   files, ctl, client, history>>

\* Mistake: ">" for ">=".
WriteAbove ==
    LET line == log_thread.data.line IN
    /\ log_thread.pc = "write"
    /\ IF opened
       THEN /\ files' = [files EXCEPT ![0] = Append(@, line)]
            /\ written' = Append(written, line)
       ELSE UNCHANGED <<files, written>>
    /\ owed' = owed \ {line} /\ promised' = promised \ {line}
    /\ m_filesize' = m_filesize + line.len
    /\ FreeBlock(log_thread.data.buf)
    /\ log_thread' = IF m_filesize' > MaxFileSize
                     THEN [NoThread EXCEPT !.pc = "remove"] ELSE Looping
    /\ UNCHANGED <<s_level, m_started, m_data_queue, m_capacity, opened, pool_ready, ctl, client,
                   logged, undersized, forced, failed, crashes>>

\* Write: the result of m_logfile.Write is not looked at.
Write ==
    LET line == log_thread.data.line IN
    /\ log_thread.pc = "write"
    /\ IF opened
       THEN /\ files' = [files EXCEPT ![0] = Append(@, line)]
            /\ written' = Append(written, line)
       ELSE UNCHANGED <<files, written>>
    /\ owed' = owed \ {line} /\ promised' = promised \ {line}
    /\ m_filesize' = m_filesize + line.len
    /\ FreeBlock(log_thread.data.buf)
    /\ log_thread' = IF m_filesize' >= MaxFileSize
                     THEN [NoThread EXCEPT !.pc = "remove"] ELSE Looping
    /\ UNCHANGED <<s_level, m_started, m_data_queue, m_capacity, opened, pool_ready, ctl, client,
                   logged, undersized, forced, failed, crashes>>

\* Reopen closes the file; Rename first removes the oldest one.
ReopenRemove ==
    /\ log_thread.pc = "remove"
    /\ opened' = FALSE
    /\ files' = Removed(files, MaxFileNum)
    /\ log_thread' = [log_thread EXCEPT !.pc = "rename", !.i = MaxFileNum - 1]
    /\ UNCHANGED <<blockPoolVars, s_level, m_started, m_filesize, m_data_queue, m_capacity,
                   pool_ready, ctl, client, history>>

\* Mistake: the newest first.
ReopenRenameUp ==
    /\ log_thread.pc = "rename"
    /\ LET i == MaxFileNum - 1 - log_thread.i IN files' = Renamed(files, i, i + 1)
    /\ log_thread' = IF log_thread.i = 0 THEN [log_thread EXCEPT !.pc = "open"]
                     ELSE [log_thread EXCEPT !.i = @ - 1]
    /\ UNCHANGED <<blockPoolVars, memory, ctl, client, history>>

\* The loop over .i, the oldest first, and the base file as the last one.
ReopenRename ==
    /\ log_thread.pc = "rename"
    /\ files' = Renamed(files, log_thread.i, log_thread.i + 1)
    /\ log_thread' = IF log_thread.i = 0 THEN [log_thread EXCEPT !.pc = "open"]
                     ELSE [log_thread EXCEPT !.i = @ - 1]
    /\ UNCHANGED <<blockPoolVars, memory, ctl, client, history>>

\* If open fails, later lines go nowhere until the next rotation.
ReopenOpen(ok) ==
    /\ log_thread.pc = "open"
    /\ m_filesize' = 0
    /\ opened' = ok
    /\ files' = IF ok THEN Opened(files) ELSE files
    /\ log_thread' = Looping
    /\ failed' = (failed \/ ~ok)
    /\ UNCHANGED <<blockPoolVars, s_level, m_started, m_data_queue, m_capacity, pool_ready,
                   ctl, client, logged, owed, promised, written, undersized, forced, crashes>>
-----------------------------------------------------------------------------
\* The process ends and begins again: the lines it held are gone.
Crash ==
    /\ crashes < MaxCrashes
    /\ crashes' = crashes + 1
    /\ s_level' = LEVEL_MAX
    /\ m_started' = FALSE /\ opened' = FALSE /\ pool_ready' = FALSE
    /\ m_filesize' = 0
    /\ m_data_queue' = <<>> /\ m_capacity' = NoLimit
    /\ m_free_blocks' = <<>> /\ heap' = {}
    /\ ctl' = "idle" /\ log_thread' = NoThread
    /\ client' = [t \in Threads |-> Out]
    /\ owed' = {} /\ promised' = {}
    /\ undersized' = FALSE /\ forced' = FALSE
    /\ UNCHANGED <<files, logged, written, failed>>

Control ==
    \/ StartPool \/ StartThread \/ StartLevel
    \/ CloseMarker \/ CloseJoin \/ CloseFile

LogStep(t) == LogAllocBuf(t) \/ LogFreeMsg(t) \/ LogPush(t)

LogThread ==
    \/ Pop \/ Write \/ ReopenRemove \/ ReopenRename
    \/ \E ok \in BOOLEAN : ReopenOpen(ok)

Next ==
    \/ StartOpen \/ CloseLevel \/ Control
    \/ \E level \in Levels : SetLevel(level)
    \/ \E t \in Threads : LogStep(t) \/ \E m \in MsgLens : LogBegin(t, m)
    \/ LogThread
    \/ Crash

Spec == Init /\ [][Next]_vars

\* Close and the log thread run.  Nobody is bound to call anything, and a logging thread
\* may stop anywhere between its steps: Close does not wait for it.
FairSpec == Spec /\ WF_vars(Control) /\ WF_vars(LogThread)
-----------------------------------------------------------------------------
(***************************************************************************)
(* Properties.                                                             *)
(***************************************************************************)
HeldByClients == (UNION {{client[t].msg, client[t].buf} : t \in Threads}) \ {NullPtr}
HeldByQueue == {d.buf : d \in ToSet(m_data_queue)} \ {NullPtr}
HeldByLogThread == {log_thread.data.buf} \ {NullPtr}

\* Every block is in one place, and is freed once: in the pool, with the
\* thread that fills it, in the queue or with the log thread.  None is filled
\* before it has a size, unless SetLevel lets a line in without a running logger.
BuffersConserved ==
    LET places == <<ToSet(m_free_blocks), HeldByClients, HeldByQueue, HeldByLogThread>> IN
    /\ \A i, j \in 1 .. 4 : i # j => places[i] \cap places[j] = {}
    /\ IsInjective(m_free_blocks)
    /\ \A t, u \in Threads : t # u =>
         {client[t].msg, client[t].buf} \cap {client[u].msg, client[u].buf} \subseteq {NullPtr}
    /\ \A t \in Threads : client[t].msg # NullPtr => client[t].msg # client[t].buf
    /\ UNION {places[i] : i \in 1 .. 4} = heap \cup (IF pool_ready THEN CachedBlocks ELSE {})
    /\ undersized => forced

\* Lines are written at most once, those of one thread in the order in which
\* it logged them, over restarts of the logger and of the process.
LinesInOrder ==
    \A i, j \in DOMAIN written :
        (i < j /\ written[i].by = written[j].by) => written[i].no < written[j].no

\* Close loses no line: the lines whose LogMsg returned before it began have
\* been through Write when it closes the file.
CloseFlushes == ctl = "file" => promised = {}

\* The lines on disk, from the oldest file to the base file.
Disk ==
    LET at(i) == IF i \in DOMAIN files THEN files[i] ELSE <<>> IN
    FlattenSeq([k \in 1 .. MaxFileNum + 1 |-> at(MaxFileNum + 1 - k)])

\* Read from the oldest file to the base file, the lines on disk are the
\* latest that were written, without a gap: also in the middle of a
\* rotation, and after a crash there.
FilesInOrder == IsSuffix(Disk, written)

\* Lines leave the disk only when all MaxFileNum old files are in use, unless
\* a crash cut a rotation short or a rotation found no base file.
RotationKeeps ==
    [][Len(Disk') < Len(Disk) =>
          (0 .. MaxFileNum \subseteq DOMAIN files \/ crashes > 0 \/ failed)]_vars

\* A file is over the limit by less than one line, and one more for every
\* crash between a write and its rotation; there are no more than MaxFileNum
\* rotated files, and queue, threads and counters are what their types say.
FilesBounded ==
    TypeOK /\ \A i \in DOMAIN files :
        FileSize(files[i]) < MaxFileSize + (1 + crashes) * Max({LineLen(m) : m \in MsgLens})

\* Close (logger_impl.cpp) returns, also when threads stand still in a LogMsg.
CloseCompletes == (ctl = "marker") ~> (ctl = "idle")
=============================================================================
