-------------------------------- MODULE File --------------------------------
(***************************************************************************)
(* File::Open, Copy, Remove and Rename (file.cpp, file.h).  An open file   *)
(* is its inode and its position; the inode stays when its name is removed *)
(* or moved.                                                               *)
(***************************************************************************)
EXTENDS FileSystem

CONSTANTS
    Copies,      \* the pairs of paths Copy is called with
    FilePaths,   \* the paths File::Remove is called with
    Part,        \* what a short write left of a buffer
    Hole         \* what a write behind the end leaves before it

ASSUME FileAssumption == Copies \subseteq Paths \X Paths /\ FilePaths \subseteq Paths

VARIABLES
    src_file,    \* thread -> [ino, pos] of the source of its Copy
    dst_file,    \* thread -> [ino, pos] of its destination
    buf          \* thread -> the buffer between Read and Write

fileVars == <<src_file, dst_file, buf>>

\* A directory opens for reading too, but every read of it fails.
Closed == [ino |-> NoInode, pos |-> 0]

InitFile ==
    /\ src_file = [t \in Threads |-> Closed]
    /\ dst_file = [t \in Threads |-> Closed]
    /\ buf = [t \in Threads |-> <<>>]

\* The inodes no name and no open file refers to.
FreeInodes ==
    LET named == {fs[p].ino : p \in {q \in DOMAIN fs : fs[q].kind = "file"}}
        open == UNION {{src_file[t].ino, dst_file[t].ino} : t \in Threads}
    IN Inodes \ (named \cup open)

\* open(p, O_WRONLY|O_CREAT): whether it succeeds, and the inode it opens.
OpenOk(p) == Reach(p) /\ ~IsDir(p) /\ (IsFile(p) \/ FreeInodes # {})
OpenInode(p) == IF IsFile(p) THEN fs[p].ino ELSE CHOOSE i \in FreeInodes : TRUE

WriteAt(content, pos, piece) ==
    [i \in 1 .. (IF pos > Len(content) THEN pos ELSE Len(content)) |->
        CASE i = pos -> piece
          [] i # pos /\ i <= Len(content) -> content[i]
          [] OTHER -> Hole]

-----------------------------------------------------------------------------
\* File::Open with OF_READONLY, inside Copy.  A failure is noticed after the mask
\* has been restored.
OpenSource(t) ==
    LET p == call[t].from IN
    /\ pc[t] = "open_src"
    /\ src_file' = [src_file EXCEPT ![t] =
                       [ino |-> IF IsFile(p) THEN fs[p].ino ELSE NoInode, pos |-> 1]]
    /\ ret' = [ret EXCEPT ![t] = Stat(p)]
    /\ Goto(t, "restore_src")
    /\ UNCHANGED <<kernelVars, call, old_mask, calls, dst_file, buf>>

\* Mistake: OF_TRUNCATE is forgotten.
OpenDestinationKeep(t) ==
    LET p == call[t].to
        ino == OpenInode(p)
    IN
    /\ pc[t] = "open_dst"
    /\ \/ /\ OpenOk(p)
          /\ fs' = With(p, Regular(ino))
          /\ data' = IF IsFile(p) THEN data ELSE [data EXCEPT ![ino] = <<>>]
          /\ dst_file' = [dst_file EXCEPT ![t] = [ino |-> ino, pos |-> 1]]
          /\ UNCHANGED ret
       \/ /\ ~OpenOk(p)
          /\ ret' = [ret EXCEPT ![t] = FALSE]
          /\ UNCHANGED <<fs, data, dst_file>>
    /\ Goto(t, "restore_dst")
    /\ UNCHANGED <<privileged, umask, call, old_mask, calls, src_file, buf>>

\* File::Open with OF_CREATE|OF_WRITEONLY|OF_TRUNCATE.
OpenDestination(t) ==
    LET p == call[t].to
        ino == OpenInode(p)
    IN
    /\ pc[t] = "open_dst"
    /\ \/ /\ OpenOk(p)
          /\ fs' = With(p, Regular(ino))
          /\ data' = [data EXCEPT ![ino] = <<>>]
          /\ dst_file' = [dst_file EXCEPT ![t] = [ino |-> ino, pos |-> 1]]
          /\ UNCHANGED ret
       \/ /\ ~OpenOk(p)
          /\ ret' = [ret EXCEPT ![t] = FALSE]
          /\ UNCHANGED <<fs, data, dst_file>>
    /\ Goto(t, "restore_dst")
    /\ UNCHANGED <<privileged, umask, call, old_mask, calls, src_file, buf>>

\* Both File objects are closed when Copy returns.
CopyReturns(t, value) ==
    /\ Return(t, value)
    /\ src_file' = [src_file EXCEPT ![t] = Closed]
    /\ dst_file' = [dst_file EXCEPT ![t] = Closed]
    /\ buf' = [buf EXCEPT ![t] = <<>>]

\* umask(old_mask) at the end of Open, and Copy's test of what Open returned.
CopyOpened(t, from, next) ==
    /\ pc[t] = from
    /\ umask' = old_mask[t]
    /\ \/ ret[t] /\ Goto(t, next) /\ UNCHANGED <<ret, fileVars>>
       \/ ~ret[t] /\ CopyReturns(t, FALSE)
    /\ UNCHANGED <<fs, data, privileged, call, old_mask, calls>>

\* Read a buffer; at the end of the file Copy has succeeded, whatever Sync returns.
CopyRead(t) ==
    LET src == src_file[t] IN
    /\ pc[t] = "read"
    /\ \/ /\ src.ino # NoInode /\ src.pos <= Len(data[src.ino])
          /\ buf' = [buf EXCEPT ![t] = <<data[src.ino][src.pos]>>]
          /\ src_file' = [src_file EXCEPT ![t].pos = @ + 1]
          /\ Goto(t, "write")
          /\ UNCHANGED <<ret, dst_file>>
       \/ /\ src.ino # NoInode /\ src.pos > Len(data[src.ino])
          /\ CopyReturns(t, TRUE)
    /\ UNCHANGED <<kernelVars, call, old_mask, calls>>

\* Read fails: a directory, or an error of the device.
CopyReadError(t) ==
    /\ pc[t] = "read"
    /\ CopyReturns(t, FALSE)
    /\ UNCHANGED <<kernelVars, call, old_mask, calls>>

\* Write the buffer, or a part of it.
CopyWrite(t) ==
    LET dst == dst_file[t] IN
    /\ pc[t] = "write"
    /\ \/ /\ data' = [data EXCEPT ![dst.ino] = WriteAt(@, dst.pos, buf[t][1])]
          /\ dst_file' = [dst_file EXCEPT ![t].pos = @ + 1]
          /\ buf' = [buf EXCEPT ![t] = <<>>]
          /\ Goto(t, "read")
          /\ UNCHANGED <<ret, src_file>>
       \/ /\ data' = [data EXCEPT ![dst.ino] = WriteAt(@, dst.pos, Part)]
          /\ CopyReturns(t, FALSE)
       \/ data' = data /\ CopyReturns(t, FALSE)
    /\ UNCHANGED <<fs, privileged, umask, call, old_mask, calls>>

Copy(t) ==
    \/ SetMask(t, "umask_src", "open_src") /\ UNCHANGED fileVars
    \/ OpenSource(t)
    \/ CopyOpened(t, "restore_src", "umask_dst")
    \/ SetMask(t, "umask_dst", "open_dst") /\ UNCHANGED fileVars
    \/ OpenDestination(t)
    \/ CopyOpened(t, "restore_dst", "read")
    \/ CopyRead(t)
    \/ CopyReadError(t)
    \/ CopyWrite(t)

\* File::Remove: a name that is not there counts as removed.
RemoveFile(t) ==
    LET p == call[t].from
        absent == p \notin DOMAIN fs /\ \A q \in Parents(p) : q \in DOMAIN fs => Passable(q)
    IN
    /\ pc[t] = "unlink"
    /\ fs' = Unlink(p)
    /\ Return(t, IsFile(p) \/ absent)
    /\ UNCHANGED <<data, privileged, umask, call, old_mask, calls, fileVars>>

BeginFile(t) ==
    /\ \/ \E c \in Copies : Begin(t, "Copy", c[1], c[2], "umask_src")
       \/ \E p \in FilePaths : Begin(t, "RemoveFile", p, <<>>, "unlink")
    /\ UNCHANGED fileVars

FileStep(t) == Copy(t) \/ RemoveFile(t)
=============================================================================
