# TLA+ specifications of xfutil

xfutil is a C++11 base library for Linux: a blocking queue, thread groups, an
asynchronous I/O service, block and memory pools, an LRU cache, a logger with
file rotation, serialisation, and a set of small helpers (strings, time, files,
hashes, an ini reader, a file watcher).  This directory holds TLA+ models of its
stateful parts, the TLC configurations that check them on small instances, and
TLAPS proofs.  `PROJECT.json` lists components, runs, the source lines every
definition stands for, the hazards the properties are aimed at, the findings and
the theorems.

To check one configuration: `tlc -config BlockingQueue.cfg MCBlockingQueue`.
To check the proofs of a component: `tlapm MemoryPoolProofs.tla`, and likewise the
other modules that end in `Proofs`.

## 1. Inventory

Paths are relative to `src/` of the repository.

| Component | State | Operations | What is hard, and what makes it correct |
|---|---|---|---|
| Blocking queue (`include/xfutil/queue.h`) | deque, capacity, mutex, two condition variables | Push, PushFront, timed Push, TryPush, Pop, timed Pop, TryPop, SetCapacity | `notify_one` against several sleepers, spurious wake-ups, a timeout racing a notification, a capacity that changes: no wake-up is lost, every call takes effect once, in order |
| Asynchronous I/O (`src/aio.cpp`, `src/aio_request.*`, `src/aio_cmd.cpp`) | service state, one queue per io thread, one shared pio queue, two thread groups, request objects with counters | Start, Stop, Submit, the two thread bodies, the callback | Submit racing Stop, callbacks that Submit, completion counted by several threads, restart with other thread numbers: one exact callback per request, order per descriptor, Stop drains and returns |
| Thread group (`src/thread.cpp`) | vector of threads under a mutex | Start, Join, Detach, Size | Join holds the mutex while it waits |
| Block pool (`src/block_pool.cpp`) | deque of free cached blocks under a spin lock | Init, Alloc, Free | a block must go back to where it came from, decided by its address |
| Memory pool (`src/memory_pool.cpp`, `src/memory_block.*`) | own first block, free list, full list, ordered set of block ends, one header per block | Init, Alloc, Free | Alloc and Free leave their critical section for the block pool; any thread frees: no block or element in two hands, counters and lists exact |
| Intrusive list (`include/xfutil/list.h`) | two pointers per node | add, delete, walk | pointer surgery in the order of its assignments: both directions agree, also when a node leaves from the middle |
| LRU cache (`include/xfutil/lru_cache.h`) | hot and cold list, two maps of iterators, two sizes | Add, Get, Delete | a key on both lists, iterators into erased nodes, a hot size that is never increased and wraps |
| Logger (`src/logger.cpp`, `src/logger_impl.*`) | level, configuration, queue of lines, block pool, file and its size, the log thread, the rotated files | Start, Close, SetLevel, LogMsg, the log thread, Reopen | lines in flight during Close, restart after Close, a crash inside the rename chain, a file that cannot be opened: lines once and in order, Close flushes and returns, rotation keeps the latest lines |
| Write and block buffers (`src/buffer.cpp`) | chain of blocks, position, size | Write, Clear, Alloc, Free | small and large pieces in any order: no two share memory, none lies outside its block; a block goes back to where it came from |
| Pack, unpack, encodings (`src/pack.cpp`, `src/unpack.cpp`, `src/coding.cpp`) | position in a buffer | encode and decode each type | round trip across block boundaries, room for the longest encoding before it is written |
| Bloom filter (`src/bloom_filter.cpp`) | bit array | Create, Attach, Check | no false negative, also over bits of an earlier Create and data of another filter |
| Ini file, trimming (`src/ini_file.cpp`, `src/strutil.cpp`) | sections, keys, the current section | Parse, Get | blanks, quotes and comments in every place, a second file on the same reader, a stream that fails: the sections hold what the files say |
| Time formatting (`src/time.cpp`) | - | formatting, parsing | boundaries |
| File watcher (`src/file_watcher.cpp`) | watch table | Add, Remove, Read | decoding of events |
| Files and directories (`src/file.cpp`, `src/directory.cpp`) | a descriptor, the tree, the mask of the process | Create, Create_r, Remove, Rename, Open, Copy, single system calls | a test and the call that relies on it are two steps, a mask that all threads share is cleared and restored, results of nested calls are ignored: a call does what it reports |
| Paths (`src/path.cpp`) | - | string functions | - |
| Locks, process, system information, hashes | - | wrappers, bit mixing | - |

How they interact.  The blocking queue is the only channel between threads:
`aio` has one per io thread and one for all pio threads, the logger has one of
10000 places.  A null entry in a queue is the message "end".  The block pool is
shared: by the memory pool, which takes a block when it has no room and returns
it when it is empty, and by the logger, which formats each line into two blocks
and lets the log thread free the one that travelled through the queue, and by the two
buffers, which fill blocks and return them all at once.  A `Packer` writes into a
`BlockBuffer` and an `Unpacker` walks its blocks.  The memory pool keeps its blocks on
two intrusive lists.  `File` and `Directory` share nothing but the operating system: the
tree, and the mask that each of their calls clears and restores.  Callbacks
go from the aio threads into user code and, through Submit, back into aio.

## 2. Modules

| Module | Models | State and actions in the code's terms |
|---|---|---|
| `BlockingQueueSpec` | the promise of `BlockingQueue<T>` | a bounded sequence; a call is pending from its invocation to its one effect |
| `BlockingQueue` | `queue.h` | `m_queue`, `m_capacity`, per thread its call and where it is.  A critical section is one action; `Wait` releases the mutex, `notify_one` is a choice among the sleepers, a wake-up and the next lock are two steps |
| `BlockPool` | `block_pool.cpp` | integer addresses; `AllocBlock` and `FreeBlock` are used inside the actions of its users |
| `List` | `list.h` | memory as a function from addresses to pairs of pointers; every function returns the memory after its assignments |
| `MemoryPool` (extends `BlockPool`, `List`) | `memory_pool.cpp`, `memory_block.cpp` | each critical section is one action, so another thread can run between a miss and `AddBlock`, and between the removal of an empty block and its return; `OthersTake`/`OthersReturn` are other users of the block pool |
| `Aio` | `aio.cpp`, `aio_request.*`, `thread.cpp` as used | `s_state` changes by compare-and-swap; Start and Stop go through their loops one thread at a time; Submit evaluates Size, computes the index and pushes in separate steps; system calls succeed or fail |
| `LruCache` | `lru_cache.h` | sequences of nodes with identities (what an iterator points at), maps as sets of iterators, sizes modulo `SizeMod`; each call is one action because a mutex covers it |
| `Logger` (extends `BlockPool`) | `logger.cpp`, `logger_impl.cpp` | Start and Close step by step, LogMsg with its two Allocs, Free and Push, the log thread with every rename of Reopen, `Crash` |
| `WriteBuffer` (extends `BlockPool`) | `WriteBuffer` of `buffer.cpp` | `m_ptr`, `m_size` and the buffers; Write of a small and of a large piece and Clear, with and without a pool.  Clear gives one block back per step, since each Free takes the pool's lock for itself |
| `Coding` | `coding.cpp`, `coding.h` | the encodings as operators; a word of 16, 32 or 64 bits is the set of its bit positions, so the full width is checked without large numbers |
| `Packing` (extends `BlockPool`, `Coding`) | `BlockBuffer` of `buffer.cpp`, `pack.cpp`, `unpack.cpp` | blocks with capacity, size and content, the positions of the `Packer` and the `Unpacker`; the body of a string is one cell with a length; Free gives one block back per step |
| `Totals` | - | the sum of a sequence, shared by `Coding`, `LruCache` and `Logger` |
| `Serialization` | the composition | a `WriteBuffer` and a `BlockBuffer` with its `Packer` and `Unpacker` that share one pool |
| `BloomFilter` | `bloom_filter.cpp` | each filter's bytes and the bits that are one; Create, Attach |
| `FileSystem` | what `File` and `Directory` call | external: the tree (paths to directories and inodes), contents, search permission, the mask of the process; the steps all calls share |
| `Directory` (extends `FileSystem`) | `directory.cpp`, `directory.h` | Create, Create_r with the caller's path that it cuts at each slash, Remove with a stack of nested calls, Rename; one system call per step |
| `File` (extends `FileSystem`) | `Open`, `Copy`, `Remove` of `file.cpp`, `file.h` | the two open files of a Copy with their positions, its buffer, errors and short writes |
| `Files` (extends `Directory`, `File`) | the composition | threads that call both on one tree and under one mask; what others changed below a call's paths since it began |
| `Strings` | `TrimLeft`, `TrimRight` of `strutil.cpp` | strings as sequences of characters; bytes from 0x80 on count as blanks, as the comparison of `char` makes them |
| `IniFile` (extends `Strings`) | `ini_file.cpp`, `ini_file.h` | `m_sections`, `m_curr_section`; a line is rendered from an item of the format and parsed by the code's steps, next to a record of what the item says |
| `MC...` | - | constants for TLC |
| `BlockPoolProofs` | - | what users of a `BlockPool` rely on, as lemmas, with sequences, sums and the induction that the next rows share |
| `MemoryPoolProofs`, `LoggerProofs`, `SerializationProofs` | - | theorems about `MemoryPool`, `Logger` and the two buffers of `Serialization` |
| `LookupProofs` | - | theorems about what looks a key up: `LruCache` and `BloomFilter` |
| `BlockingQueueProofs`, `AioProofs`, `FilesProofs` | - | theorems about the modules of these names |

`Aio` and `Logger` use queues by what `BlockingQueueSpec` promises (Pop takes the
front, Push appends when there is room); that `BlockingQueue` keeps that promise
is checked and proved.

Data is abstracted.  A command is the kind of queue it goes to and a descriptor; a
logged line is its thread, its number and its length; a cached value is a size; a
string to be packed is its length and a name; a file's content is a sequence of
buffers.  In `Directory` opendir reads the whole list of names, as the C library does for
a directory that fits its buffer; the order in which readdir hands them out is left open.
What stays in full are locks, program order inside each handler, early
returns and error paths.  In `Logger` the first test of `s_level` and the first
Alloc are one step, and the heap hands out its lowest free block: both only remove
interleavings that no property tells apart.  History variables (`written`, `owed`,
`callbacks`, `recency`, `lapses` and so on) are marked as such where they are
declared; no action's guard depends on them except for the bounds named below.

Definitions preceded by "Mistake:" are faulty variants of the definition that
follows.  No specification uses them; they serve to confirm that each property
fails when the code has the corresponding fault.

## 3. Runs

### Passing

* **BlockingQueue** - three threads, two items, all eight operations, capacity
  switching between 1 and 2.  `NoStrandedPop` and `NoStrandedPush`: nobody sleeps
  beside an element (free place) unless a woken thread is on its way to it.  The
  run also delimits the exceptions in the code: a timed call that was notified and
  returns false on its deadline (lines 79 and 130) swallows the wake-up, and
  `SetCapacity` raises the bound without notifying (line 41).  `Linearizable`: the
  queue implements `BlockingQueueSpec`.  Three threads are enough for two sleepers
  and a notifier, or two waiters of different kinds and one that overtakes.
  Deadlock is checked: threads may always call something.
* **BlockingQueueLive** - four threads, untimed Push and Pop, two places.
  `PopServed` and `PushServed`: elements do not stay for ever in front of sleeping
  consumers, nor room in front of sleeping producers.
* **Aio** - two clients, two controllers that both call Start and Stop, two
  requests on one descriptor, of which the callback of the first submits the second, and
  a restart with one or two io threads.  `CallbackExact`, `FifoPerFd`, `Drained`,
  `SafeAccess`.  The exceptions, named in the properties, are
  requests whose Submit a Stop overtook between the test of `s_state` and the Push:
  they may reach a freed queue, or one that nobody serves.
* **AioLive** - one client, one controller.  `StopCompletes` and
  `CallbackEventually`, both up to `JoinBlocked`: Stop holds the mutex of the io
  thread group while it joins (thread.cpp:49), and a callback's Submit on an
  io thread needs that mutex for Size.
* **MemoryPool** - two threads that allocate and free each other's elements of
  1304 bytes (three to a block), a cache of one element, one cached and two heap
  blocks, all of which touch, and other users.  `BlocksConserved`,
  `LiveElementsSafe`, `CountsExact`, `ListsExact`, `EmptyBlocksReturned`.
  `ListsExact` follows the pointers of the two lists in both directions.  Three elements to a block give a full, a partly used
  and an empty block; the blocks that touch exercise the search by address.
* **LruCache** - three keys, sizes 1 and 3, limit 5 (hot 3, cold 2), sizes modulo
  16 so that the wrap-around of `m_hot_size` happens.  `MapsMatchLists`,
  `ColdSizeExact`, `HotByRecency`, `GetLosesNothing`, `AddMakesRoom`.
* **Logger** - two threads, three lines, a queue of one place, one cached block and
  three heap blocks, a file that is full after one line, two old files, one crash.
  `BuffersConserved`, `LinesInOrder`, `CloseFlushes`, `FilesInOrder`,
  `FilesBounded`, `RotationKeeps`, and under fairness `CloseCompletes`.  A queue of
  one place makes producers and Close's marker block.
* **Serialization** - a `WriteBuffer` and a packed `BlockBuffer` on one pool with one
  cached and one heap block.  `RegionsSafe`: with a pool, pieces that Write handed
  out do not overlap and lie inside memory the buffer owns.  `PackedInBounds`: no encoding goes
  behind its block.  `RoundTrip`: an Unpacker reads back the values that were packed,
  in order, across blocks, except behind an empty block in the middle, which a
  Packer that packed nothing leaves.  `BlocksShared`: every block is in one place, so that Clear
  and Free return each where it came from.  The values sit at the boundaries: the
  longest varint, a string that leaves nine bytes of a block for it, a string just
  above a block, an empty one, the most negative number; pieces of half a block and
  one byte more.
* **BloomFilter** - two filters, of five and of twelve bits per key, hashes scaled to eight
  bits.  `NoFalseNegative`, up to data that was made with fewer probes than the
  filter that attached it looks for.
* **Files** - two threads, three calls, on a tree with two levels and on one where the
  directory is still to be made, in a process with and without privileges.
  `CreateReports`: a call nobody interfered with returns true exactly when the
  directory is there, and false only behind an obstruction; two threads that make the
  same directory at once make it between them, though one may hear false.  For a process without
  privileges Create_r itself makes the obstruction: directories get mode 0644, which
  does not let their owner look below them, so that two new names in a path
  fail.  `RemoveComplete`: a tree that nobody else changes is gone as a whole.  `CopyFaithful`: a
  copy that reports true is equal to its source, also when the same copy ran at the
  same time.  `UmaskKept`: every path through every call restores the mask, unless two
  calls had it cleared at once; then it may stay 0 for the rest of the process.
  Interference is recorded per path, so calls on other paths do not excuse anything.
  Two calls overlap and a third comes before, between or after them.
* **IniFile** - two files on one reader, three lines out of sections, pairs in the three
  forms of a value, comments, blank and malformed lines, with keys and values that
  contain blanks, quotes, comment signs, `=` and bytes from 0x80 on.
  `ParsedAsWritten`: `m_sections` is what the items say.  The exceptions are in the
  format (`Writable`: a value without quotes neither begins nor ends with a blank or a byte
  from 0x80 on) and in `carried`: the section in force survives Parse, so pairs before the first section
  of a later file do not go to the unnamed section.

### Violation: where a comment and the code disagree

* **WriteBufferNoPool** - `buffer.h:37` says that Write allocates space and returns the
  pointer to it; without a pool a new block has only the bytes of its first piece while
  `m_size` says a whole block, and the second piece lies behind it.

### Bounds

`MaxStarts` (Aio) bounds restarts, each request is submitted at most once;
`MaxLines` and `MaxCrashes` bound the logger's histories; the sets of blocks bound
the heap; `MaxWrites`, `MaxFields` and `MaxBlocks` bound one filling of the
buffers, `MaxCount` the hashes of a Create; `MaxCalls` bounds the calls on files,
`MaxLines` and `MaxFiles` what an ini reader reads.  `HashBits` is 8 where the code has
32: only the rotation depends on it.  Thread, key and block
numbers are the constants of each cfg.  `CHECK_DEADLOCK FALSE` stands where the
bounded system may really stop: all requests submitted, a crashed
process, all calls made, a Stop that deadlocks (this one is stated in `JoinBlocked`).

### Fairness

Weak fairness for every thread that is inside a call or a thread body: the
operating system runs it and mutexes are acquired when they stay free.  Nobody is
bound to make a call, and no spurious wake-up, timeout or crash is relied on.
`CloseCompletes` needs less: only Close and the log thread are bound to run, and a thread that stops outside the locks in the
middle of a LogMsg, with its blocks, does not hold Close up.
`CloseCompletes` holds for finitely many lines: the mutex of the queue is not
fair, so a stream of lines admitted by SetLevel during Close could in principle
keep the marker out.  A LogMsg that found the level open and reaches a full queue after Close sleeps
there until the next Start; the model keeps that behaviour.

## 4. Proofs

`BlockingQueueProofs` proves, for any sets of threads, items and capacities:

* `TypeCorrect`: `Spec => []TypeOK`.
* `NoStrandedPopHolds`, `NoStrandedPushHolds`.  The properties are not inductive:
  with two elements queued, two consumers asleep and one woken, that one takes an
  element and leaves the other in front of a sleeper with nobody on the way.  The
  inductive invariant counts: while anyone sleeps, there are at least as many woken
  consumers as elements (`EnoughWokenPoppers`), and at least as many woken producers
  as free places (`EnoughWokenPushers`).  It is conjoined with the type invariant.
  A push adds one element and one woken consumer, or finds no
  sleeper; a consumer that goes to sleep finds the queue empty; and a woken
  thread that takes an element lowers both counts.
* `LinearizableHolds`: `Spec => Promise!Spec`, with the refinement mapping that
  takes a call to be pending while its thread is not idle.  One step per action: an
  effect maps to the abstract effect, a sleep or wake-up to a stutter.

`LookupProofs` proves, for any keys, sizes and limits of the cache:

* `MapsMatchListsHolds`, `LruTypeOKHolds`, `ColdSizeExactHolds`, `HotByRecencyHolds`, and of the
  steps `GetLosesNothingHolds` and `AddMakesRoomHolds`.  The invariant (`LruInv`) says that each map
  is the set of the iterators of its list and a key is at most once on a list (`Sound`),
  that no node is on both, and that `m_cold_size` is the exact sum of the cold list, without
  a wrap: the keys of a list differ, so at most `Cardinality(Keys)` nodes of the
  largest size are added up, and that fits (`ConstantsAssumption`).  `m_hot_size`, which wraps,
  decides only how many nodes are demoted, so it needs no more than its type.  The loops
  that evict and demote are unrolled by induction over their rounds.  `RecencyInv` is the
  order of the hot list against the history.

and for any filters, hash widths, hashes and numbers of bits per key:

* `NoFalseNegativeHolds`: `BloomSpec => []NoFalseNegative`.  The property says nothing of
  data with too few probes, which a third filter may attach, so it is not
  inductive.  `Covered` is: the bits of every key are set, as many as were probed when
  the data was made.

`AioProofs` proves, for any numbers of clients, controllers, service threads, requests,
commands and restarts:

* `SafeAccessHolds`: `Spec => []SafeAccess`.  `ServiceInv` says which threads and
  queues are up at each step of Start and Stop, that the compare-and-swap lets one
  controller in at a time, and that a Submit which holds an index of a queue that is
  gone has been recorded as overtaken.
* `CallbackExactHolds`: `Spec => []CallbackExact`.  Nothing in the property says why two
  workers cannot both see the last command: the argument needs where each command is
  (`PlacesInv`: at most one place in one queue, or one worker), what
  the counters count (`CountsInv`: the commands whose worker is past the increment, so
  that only one worker reads the full number), and who may call back (`CallbackInv`).
* `FifoPerFdHolds`: `Spec => []FifoPerFd`.  The property speaks of stages only; the
  argument is about places (`OrderInv`).  While the io threads are up, a command in time
  (one that no Stop overtook in Submit) waits in the queue of its descriptor and runs on the thread
  of that queue; in the queue, two commands of one descriptor stand in the order of their pushes; an empty
  request has no such command behind it, and a thread that ended has none left.  The
  index computed before the push is still right at the push, since the number of threads changes only
  when every Submit under way has been overtaken.
* `DrainedHolds`: `Spec => []Drained`.  The pio queue outlives its threads, so that an empty request
  too many would end a thread of the next Start, and one too few would leave Stop
  waiting.  `PioCount` counts: while Stop marks, the empty requests in the queue and those still to be
  pushed are as many as the living pio threads, and when it joins, both are equal; so no thread left
  means no empty request left.  With it go that commands in time stand before the empty
  requests (`PioOrder`), that a Submit has passed no command without pushing it
  (`PushedSoFar`), and that the worker which counts the last command stays on its way to the
  callback (`CalledBack`).

`BlockPoolProofs` has no property of its own.  Its lemmas are, beside those on sequences and sums, the contract of the pool:
cached and heap blocks do not overlap (`BlocksApart`), Alloc lends a block that nobody has
(`AllocLends`) and Free takes back that block and no other (`FreeTakesBack`),
for any block size, cache and heap.

`MemoryPoolProofs` proves, for any threads, blocks, element size and cache:

* `BlocksConservedHolds`, `LiveElementsSafeHolds`; and, when a block has room for an
  element (`Roomy`), `CountsExactHolds` and `EmptyBlocksReturnedHolds`;
  `ListsExactHolds`: a walk along either list, in either direction, meets each block
  that belongs there once.  The first four properties are inductive only together:
  Free returns a block when its counter says it is empty, and if that were early, elements in use
  would go with it.  The invariant has four layers.  `Places`: the blocks lent by the
  BlockPool are in the pool, carried by one thread between two critical sections, or
  with others.  `Elements`: in each block, the elements in use, those on the chain and
  those not yet carved add up to its capacity, no place is counted twice, and all lie on
  the block's grid, counted from its end; an element of an Alloc that has yet to add its
  block belongs to that block.  `Links`: the two lists as a set of nodes closed under
  their pointers; the blocks outside the free list's set are full.  `Counted`: the counters.  One lemma each says what
  MemoryBlockInit, MemoryAlloc and MemoryFree do to one block (`InitOK`, `AllocOK`, `FreeOK`)
  and what deletion, insertion and a move do to the lists (`DeleteJoined`,
  `InsertJoined`, `MoveJoined`, `RemoveJoined`).
  `Links` alone would allow a ring of blocks that the walk from the head never
  reaches.  `Chained` excludes it: every set of nodes closed under `next` contains a
  head (`Anchored`), which each insertion and deletion preserves.  That the
  walk which `ListsExact` makes ends where it began follows by counting: in as many
  steps as there are nodes it cannot meet one twice.
  `Roomy` is not a restriction of the proof but of the code: with elements larger than a
  block, Alloc adds a block, counts an element and returns nullptr.

`LoggerProofs` proves, for any threads, queue length, blocks, files and crashes:

* `CloseFlushesHolds`, `LinesInOrderHolds`, `BuffersConservedHolds`.  `States` ties each
  program counter to the fields beside it; `Lifetime` says when the log thread runs and that one exit
  marker is on its way, behind every promised line; `Order` orders the lines a
  thread has written, queued and is formatting; `Holders` gives each lent block one
  holder; `Sized` says that a block is handed out after the pool was initialised unless
  SetLevel opened the level by hand.
* `FilesInOrderHolds`, `RotationKeepsHolds` and, when there is a line at all (`MsgLens # {}`),
  `FilesBoundedHolds`.  `OnDisk` relates the files to the lines written at every step of
  the rename chain, with the gap that a rotation carries from the oldest index to the base
  file's (`Gap`), and none otherwise (`Contiguous`) unless a crash or a failure left one.  The files read one after the other are a recursive concatenation; its lemmas
  (a file appended to, removed, moved over a hole) are proved by induction.

`SerializationProofs` proves, for any pool, sizes and sequences of calls:

* `BlocksSharedHolds`: `Spec => []BlocksShared`.  `Sharing` gives each lent block to one
  buffer, of which Clear and Free have given back a prefix so far.
* `RegionsSafeHolds`: `Spec => []RegionsSafe`.  The property does not say what the next piece
  relies on: the rest of the current block, from `m_ptr` on, lies in a block of the writer, apart from
  everything handed out (`Handing`).
* `PackedInBoundsHolds`: `Spec => []PackedInBounds`, for strings below 2^21 characters
  (`ShortStrings`), the limit of the three bytes that Pack makes room for.  The encodings are sums
  of cells; that a varint of w bits has at most `MaxVarintSize(w)` bytes is proved from
  its definition.

`FilesProofs` proves, for any threads, trees and calls:

* `UmaskKeptHolds`: `Spec => []UmaskKept`.  The property speaks of the mask only; the
  invariant adds that whoever has it cleared is alone and remembers the user's value.
* `CreateReportsHolds`: `Spec => []CreateReports`.  The invariant (`Reporting`) says that the
  levels which Create_r has passed are directories, and that a result in hand is right: true
  only with the directory there, false only when the call is excused (`Fine`) by the directory, by an
  obstruction, or by a thread that goes on with the same call.  The last is the heart of it: of
  threads that make the same directory at once, whoever fails because its mkdir came second
  leaves a `Maker` behind, which is past that level.  What others do keeps this (`Kept`), because
  history records every change at, above or below the paths of a call.
* `RemoveCompleteHolds`: `Spec => []RemoveComplete`.  The recursion is a stack of frames, each a directory and
  the entries not yet taken.  `Chained`: every frame's path is the frame before it and a name taken
  from its list, so the paths grow by one name each and none is met twice.  `Emptying`: each
  directory holds only what is still on its list or the one entry that Remove is at; so that an empty
  list is an empty directory.  This needs that the tree is one: what is in it stands in
  directories, and what must not be searched is empty (`TreeInv`), which every
  call preserves, rename included.
* `CopyFaithfulHolds`: `Spec => []CopyFaithful`.  `Handled`: the files that are open are those the paths
  name.  `Filling`: what is in the destination is the source's buffer at that place or a
  hole, left by a truncation between another copy's writes.  A single copy is as far as it
  has written (`Ahead`); that is not so of each of several, since another's truncation takes away
  what one has written.  It is so of at least one (`Copied`): a copy that truncates has
  written nothing and is ahead trivially, and its later writes keep it ahead until the next truncation.  When all are back with true, that
  one has written everything, so nothing is a hole.

Assumptions: those of the constants named in the modules.  Threads are finite where
cardinalities are taken; capacities are natural numbers; a filter has at least one bit per key; the
threads of the aio service are not its clients (`ThreadsAssumption`); the memory of the two
lists, of the pool's own block and of the blocks is disjoint, and block sizes fit
`uint32_t` (`MemoryPoolAssumption`); blocks are multiples of 4096 bytes that do not overlap
(`BlockPoolAssumption`, from what xmalloc promises); calls on files are made with non-empty paths
(`DirectoryAssumption`, `FileAssumption`), and in the trees to start from what is there stands in directories, a
directory that must not be searched is empty, as mkdir makes it, and inode 0 is none
(`FileSystemAssumption`).

Only model-checked:

* the liveness properties `PopServed`, `PushServed`, `StopCompletes`,
  `CallbackEventually`, `CloseCompletes`: fairness and ENABLED are out of the prover's reach;
* `RoundTrip`, which needs that Decode undoes Encode for every word, zigzag and varint: arithmetic
  of powers of two over sets of bits that the provers do not find, and that the tests at the boundaries
  of the run cover;
* `ParsedAsWritten`, which compares two programs over characters, the renderer of a line and its parser.

Induction over data.  The library's induction theorems take an operator as a parameter, which none
of the provers used here can instantiate, so inductions are made in first-order form: a
counterexample has a least one (`LeastNat`, from the well-foundedness of the naturals), and the step
refutes it.  Recursive functions, also those inside community operators like `FlattenSeq`, are a
CHOOSE whose witness is shown to exist first (`StepsExist`).

## 5. Not modelled, and why

* Start of aio with zero threads (a division by zero at aio.cpp:186) and requests
  without commands (never called back, aio.cpp:85) are left out of the inputs.
* The order between the io and the pio queues of one descriptor: the code promises
  none.
* Start of a running logger, which replaces a joinable `std::thread`, and
  `max_file_num = 0`, where the loop at logger_impl.cpp:64 starts at 65535.
* Element sizes of a memory pool that leave no room in a block, and block sizes
  that are not powers of two, on which `xmalloc` asserts (strutil.h:37).
* Hashes, paths, time formatting, process information: bit arithmetic, string
  functions or single calls without protocol.  The locks of `rwlock.h` and
  `spinlock.h` are the pthread ones; what they protect is modelled with its users.
* The file watcher: its Add goes on only when there is no inotify descriptor
  (file_watcher.cpp:56-60), so that it never makes a watch and the rest of the class is out
  of reach.
* Class `String` and the comparisons of `StrView`: no other part of the library keeps
  state in them.
* Calls on one open file (Read, Write, Seek, Truncate, Allocate, flock), which
  hand on the result of one system call.  Two of them hand it on wrongly: `Allocate` returns
  true on failure (file.h:96), `Seek` false for offset 0 (file.h:101).
* Symbolic links: Remove follows them with stat and would empty their target.
* Two overlapping calls of Remove on one tree: each may give up, or pass over, what the other
  is about to remove, and leave the tree although one of them returned true
  (directory.cpp:95, 111).  The model has these behaviours; no property promises more
  than the code.
* A read error of an ini file: the loop at ini_file.cpp:37 tests eof only and does not
  end.  The model has the state (`ReadError`).
* Two more comments that the code does not keep: `lru_cache.h:64` says that Add of an
  existing key does nothing, but it has evicted other keys by then and a hot key gets a second
  node (`MapsMatchLists` and `ColdSizeExact` hold all the same); `logger.h:66` says
  that a line has at most 8 KiB, but the length that goes with it is what `snprintf`
  returns, which may be more (logger_impl.cpp:189).
* The completion time of an aio request (nothing sets it, so the elapsed time given to
  a callback is meaningless, aio.cpp:87) and what follows a failed `BlockPool::Alloc`
  in a memory pool, which goes on with the null block (memory_pool.cpp:99).
* Strings of 2^21 characters or more, whose length needs more than the three bytes
  that `Packer` makes room for (pack.cpp:154); reading a buffer while it is still
  written; two Packers on one buffer, whose blocks move when the vector grows
  (buffer.cpp:157); input that no Packer wrote.

## 6. Plan

1. Done: queue, aio, block pool, memory pool with its lists at pointer level, LRU cache,
   logger, buffers and serialisation, Bloom filter, files and directories, ini reader.
2. Done: proofs about the queue, aio, the block pool, the memory pool and its lists, the
   logger and its files, the LRU cache, the Bloom filter, the buffers and the packer,
   files and directories.
3. Proofs left, in this order: the round trip of the encodings; `ParsedAsWritten`.
