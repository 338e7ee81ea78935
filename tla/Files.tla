-------------------------------- MODULE Files --------------------------------
(***************************************************************************)
(* Threads of one process that use File and Directory on one tree and      *)
(* share one mask.  Neither class locks anything.                          *)
(***************************************************************************)
EXTENDS Directory, File

VARIABLES
    seen,        \* history, thread -> what others did to the paths of its last call
                 \* since it began: 0 nothing, 1 the same call, 2 another call
    crossed      \* history: two threads have had the mask cleared at once

vars == <<kernelVars, threadVars, directoryVars, fileVars, seen, crossed>>

Init ==
    /\ InitSystem /\ InitDirectory /\ InitFile
    /\ seen = [t \in Threads |-> 0]
    /\ crossed = FALSE

\* The paths a step changed, and whether they concern a call.
Changed ==
    {p \in DOMAIN fs \cup DOMAIN fs' :
        \/ p \notin DOMAIN fs \/ p \notin DOMAIN fs'
        \/ fs[p] # fs'[p]
        \/ fs[p].kind = "file" /\ data[fs[p].ino] # data'[fs[p].ino]}
Concerns(c, p) == \E q \in {c.from, c.to} \ {<<>>} : IsPrefix(p, q) \/ IsPrefix(q, p)

Cleared(t) ==
    pc[t] \in {"create_mkdir", "create_restore", "create_r_exist", "create_r_mkdir",
               "create_r_restore", "open_src", "restore_src", "open_dst", "restore_dst"}

Recorded(t) ==
    /\ seen' = [u \in Threads |->
                   CASE u = t -> seen[u]
                     [] u # t /\ ~(\E p \in Changed : Concerns(call[u], p)) -> seen[u]
                     [] OTHER -> IF call[u] = call[t] /\ seen[u] < 2 THEN 1 ELSE 2]
    /\ crossed' = (crossed \/ \E u, v \in Threads : u # v /\ Cleared(u)' /\ Cleared(v)')

\* A thread that goes on to another call no longer counts as making the same one.
Start(t) ==
    /\ \/ BeginDirectory(t) /\ UNCHANGED fileVars
       \/ BeginFile(t) /\ UNCHANGED directoryVars
    /\ seen' = [u \in Threads |->
                   CASE u = t -> 0
                     [] u # t /\ seen[u] = 1 /\ call[u] = call[t] -> 2
                     [] OTHER -> seen[u]]
    /\ UNCHANGED crossed

Step(t) ==
    /\ \/ DirectoryStep(t) /\ UNCHANGED fileVars
       \/ FileStep(t) /\ UNCHANGED directoryVars
    /\ Recorded(t)

Next == \E t \in Threads : Start(t) \/ Step(t)

Spec == Init /\ [][Next]_vars

-----------------------------------------------------------------------------
\* Properties.

Returned(t) == pc[t] = "idle" /\ call[t].op # "none"
\* Nobody is in the call that t made last, t included.
Settled(t) == \A u \in Threads : call[u] = call[t] => pc[u] = "idle"

\* What keeps a directory from being made: a file in its place, a file or a directory that
\* must not be searched above it, or, for Create, no parent.
Obstructed(c) ==
    \/ c.from \in DOMAIN fs /\ fs[c.from].kind # "dir"
    \/ \E p \in Parents(c.from) : p \in DOMAIN fs /\ ~Passable(p)
    \/ c.op = "Create" /\ ~Reach(c.from)

(***************************************************************************)
(* Create and Create_r (directory.cpp:28-74) report what happened: a call  *)
(* nobody interfered with returns true exactly when the directory is       *)
(* there, and false only behind an obstruction.  Two threads that make the *)
(* same directory at once may send one of them away with false, because    *)
(* the test and the mkdir are two steps, but between them they make it.    *)
(* Create_r that succeeds gives the caller's path back as it was.          *)
(***************************************************************************)
CreateReports ==
    \A t \in Threads :
        Returned(t) /\ call[t].op \in {"Create", "Create_r"} =>
            /\ call[t].op = "Create_r" /\ ret[t] => path[t] = call[t].from
            /\ seen[t] = 0 => /\ ret[t] <=> IsDir(call[t].from)
                              /\ ~ret[t] => Obstructed(call[t])
            /\ seen[t] = 1 => /\ ret[t] => IsDir(call[t].from)
                              /\ Settled(t) => IsDir(call[t].from) \/ Obstructed(call[t])

(***************************************************************************)
(* Remove (directory.cpp:76-115) empties and removes a whole tree, however *)
(* deep, when nobody else changes it: afterwards no directory of that name *)
(* and nothing below it is left, and nothing was left locked up in it.     *)
(***************************************************************************)
RemoveComplete ==
    \A t \in Threads :
        Returned(t) /\ call[t].op = "RemoveDir" /\ seen[t] = 0 =>
            ~IsDir(call[t].from) /\ (ret[t] => call[t].from \notin DOMAIN fs /\ Empty(call[t].from))

(***************************************************************************)
(* Copy (file.cpp:146-187) that returns true has made the destination      *)
(* equal to the source, also when another thread made the same copy at the *)
(* same time and its truncation and its writes went in between, once both  *)
(* are back with true.  A file copied to itself is excepted: it is emptied.*)
(***************************************************************************)
CopyFaithful ==
    \A t \in Threads :
        LET c == call[t] IN
        (/\ c.op = "Copy" /\ c.from # c.to /\ seen[t] < 2 /\ Settled(t)
         /\ \A u \in Threads : call[u] = c => ret[u] /\ seen[u] < 2) =>
            IsFile(c.from) /\ IsFile(c.to) /\ ContentAt(c.to) = ContentAt(c.from)

(***************************************************************************)
(* The mask of the process (directory.cpp:33-35,70-72, file.cpp:54-56) is  *)
(* back at the user's value whenever no call has it cleared, on every path *)
(* through every call, as long as no two calls cleared it at the same      *)
(* time.  After such a crossing it may stay cleared for good.              *)
(***************************************************************************)
UmaskKept == ~crossed => umask = IF \E t \in Threads : Cleared(t) THEN 0 ELSE UserMask
=============================================================================
