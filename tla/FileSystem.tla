----------------------------- MODULE FileSystem -----------------------------
(***************************************************************************)
(* What File and Directory call: the file tree of the operating system and *)
(* the file mode creation mask, which is one per process and not one per   *)
(* thread.  A path is the sequence of its names.  A directory records      *)
(* whether its owner may search it (0644 says no, and only a privileged    *)
(* process passes all the same), a file its inode; the content of an inode *)
(* is a sequence of buffers of 1 MiB.  Every system call is one step.      *)
(***************************************************************************)
EXTENDS Integers, FiniteSets, SequencesExt

CONSTANTS
    Threads,
    Inodes,
    Pieces,      \* the buffers that are in the files at first
    Names,       \* of files and directories
    UserMask,    \* the mask the process was started with
    InitTrees,   \* the trees to start from, [fs, data]
    MaxCalls     \* bound: the calls made in a behaviour

Paths == Seq(Names) \ {<<>>}
\* The directories above p.
Parents(p) == {SubSeq(p, 1, i) : i \in 1 .. Len(p) - 1}

Dir(search) == [kind |-> "dir", search |-> search]
Regular(ino) == [kind |-> "file", ino |-> ino]

Nodes == {Dir(search) : search \in BOOLEAN} \cup {Regular(ino) : ino \in Inodes}

\* Everything in a tree stands in directories of the tree.
Tree(f) ==
    /\ DOMAIN f \subseteq Paths
    /\ f \in [DOMAIN f -> Nodes]
    /\ \A p \in DOMAIN f : \A q \in Parents(p) : q \in DOMAIN f /\ f[q].kind = "dir"
\* A directory that must not be searched is empty, as it was when mkdir made it.
LockedEmpty(f) ==
    \A p, q \in DOMAIN f : f[p] = Dir(FALSE) => ~IsStrictPrefix(p, q)

NoInode == 0

ASSUME FileSystemAssumption ==
    /\ NoInode \notin Inodes
    /\ \A tree \in InitTrees :
         Tree(tree.fs) /\ LockedEmpty(tree.fs) /\ tree.data \in [Inodes -> Seq(Pieces)]

VARIABLES
    fs,          \* path -> directory or file
    data,        \* inode -> content
    privileged,  \* whether permissions bind the process
    umask,
    call,        \* thread -> the call it makes, or made last: [op, from, to]
    pc,          \* thread -> where it is in that call, "idle" outside
    ret,         \* thread -> what the call returns
    old_mask,    \* thread -> old_mask of File::Open, Create and Create_r
    calls        \* the calls begun so far

kernelVars == <<fs, data, privileged, umask>>
threadVars == <<call, pc, ret, old_mask, calls>>

ContentAt(p) == data[fs[p].ino]

Passable(p) == fs[p].kind = "dir" /\ (privileged \/ fs[p].search)
Reach(p) == \A q \in Parents(p) : q \in DOMAIN fs /\ Passable(q)
Empty(p) == \A q \in DOMAIN fs : ~IsStrictPrefix(p, q)

\* stat, and the two tests made with it.
Stat(p) == Reach(p) /\ p \in DOMAIN fs
IsDir(p) == Stat(p) /\ fs[p].kind = "dir"
IsFile(p) == Stat(p) /\ fs[p].kind = "file"

Without(q) == [p \in DOMAIN fs \ {q} |-> fs[p]]
With(p, node) == [q \in DOMAIN fs \cup {p} |-> IF q = p THEN node ELSE fs[q]]

\* mkdir(p, 0644), rmdir and unlink: whether each succeeds, and the tree after it.
MkdirOk(p) == Reach(p) /\ p \notin DOMAIN fs
Mkdir(p) == IF MkdirOk(p) THEN With(p, Dir(FALSE)) ELSE fs
Rmdir(p) == IF IsDir(p) /\ Empty(p) THEN Without(p) ELSE fs
Unlink(p) == IF IsFile(p) THEN Without(p) ELSE fs

\* readdir, without "." and ".."; it promises no order.
Listing(p) == {name \in Names : Append(p, name) \in DOMAIN fs}

\* rename(from, to): a file replaces a file, a directory an empty one.
RenameOk(from, to) ==
    /\ Stat(from) /\ Reach(to) /\ ~IsStrictPrefix(from, to)
    /\ \/ to \notin DOMAIN fs
       \/ fs[to].kind = fs[from].kind /\ (from = to \/ Empty(to))
\* The name of q, at or below from, once from is called to.
Renamed(from, to, q) == to \o SubSeq(q, Len(from) + 1, Len(q))
Moved(from, to) ==
    LET image == {Renamed(from, to, q) : q \in {q \in DOMAIN fs : IsPrefix(from, q)}}
        kept == {q \in DOMAIN fs : ~IsPrefix(from, q) /\ q # to}
    IN [q \in image \cup kept |-> IF q \in kept THEN fs[q] ELSE fs[Renamed(to, from, q)]]
Rename(from, to) == IF RenameOk(from, to) THEN Moved(from, to) ELSE fs

-----------------------------------------------------------------------------
\* The steps every call shares.

Goto(t, where) == pc' = [pc EXCEPT ![t] = where]
Return(t, value) == Goto(t, "idle") /\ ret' = [ret EXCEPT ![t] = value]

\* old_mask = umask(0)
SetMask(t, from, next) ==
    /\ pc[t] = from
    /\ old_mask' = [old_mask EXCEPT ![t] = umask]
    /\ umask' = 0
    /\ Goto(t, next)
    /\ UNCHANGED <<fs, data, privileged, call, ret, calls>>

\* umask(old_mask)
RestoreMask(t, from, next) ==
    /\ pc[t] = from
    /\ umask' = old_mask[t]
    /\ Goto(t, next)
    /\ UNCHANGED <<fs, data, privileged, call, ret, old_mask, calls>>

\* A system call that changes the tree and whose result is not looked at here.
ChangeTree(t, from, tree, next) ==
    /\ pc[t] = from
    /\ fs' = tree
    /\ Goto(t, next)
    /\ UNCHANGED <<data, privileged, umask, call, ret, old_mask, calls>>

Begin(t, op, from, to, first) ==
    /\ pc[t] = "idle" /\ calls < MaxCalls
    /\ calls' = calls + 1
    /\ call' = [call EXCEPT ![t] = [op |-> op, from |-> from, to |-> to]]
    /\ Goto(t, first)
    /\ UNCHANGED <<fs, data, privileged, umask, ret, old_mask>>

InitSystem ==
    /\ \E tree \in InitTrees : fs = tree.fs /\ data = tree.data
    /\ privileged \in BOOLEAN
    /\ umask = UserMask
    /\ call = [t \in Threads |-> [op |-> "none", from |-> <<>>, to |-> <<>>]]
    /\ pc = [t \in Threads |-> "idle"]
    /\ ret = [t \in Threads |-> FALSE]
    /\ old_mask = [t \in Threads |-> UserMask]
    /\ calls = 0
=============================================================================
