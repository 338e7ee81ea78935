------------------------------ MODULE Directory ------------------------------
(***************************************************************************)
(* Directory::Create, Create_r, Remove and Rename (directory.cpp,          *)
(* directory.h).  Every test and every change is a system call of its own, *)
(* so the tree may change between them.                                    *)
(***************************************************************************)
EXTENDS FileSystem

CONSTANTS
    DirPaths,    \* the paths the calls are made with
    DirRenames   \* the pairs Rename is called with

ASSUME DirectoryAssumption == DirPaths \subseteq Paths /\ DirRenames \subseteq Paths \X Paths

VARIABLES
    path,        \* thread -> the caller's buffer, which Create_r cuts at one slash after
                 \* the other
    stack,       \* thread -> the nested calls of Remove: [path, todo]
    full_path    \* thread -> the entry Remove is at

directoryVars == <<path, stack, full_path>>

InitDirectory ==
    /\ path = [t \in Threads |-> <<>>]
    /\ stack = [t \in Threads |-> <<>>]
    /\ full_path = [t \in Threads |-> <<>>]

-----------------------------------------------------------------------------
\* Create: test, then mkdir with the mask cleared.

CreateExist(t) ==
    /\ pc[t] = "create_exist"
    /\ \/ IsDir(call[t].from) /\ Return(t, TRUE)
       \/ ~IsDir(call[t].from) /\ Goto(t, "create_umask") /\ UNCHANGED ret
    /\ UNCHANGED <<kernelVars, call, old_mask, calls, directoryVars>>

\* Mistake: the mask is restored only after a successful mkdir.
CreateMkdirKeepMask(t) ==
    LET p == call[t].from IN
    /\ pc[t] = "create_mkdir"
    /\ fs' = Mkdir(p)
    /\ ret' = [ret EXCEPT ![t] = MkdirOk(p)]
    /\ Goto(t, IF MkdirOk(p) THEN "create_restore" ELSE "idle")
    /\ UNCHANGED <<data, privileged, umask, call, old_mask, calls, directoryVars>>

CreateMkdir(t) ==
    /\ ret' = [ret EXCEPT ![t] = MkdirOk(call[t].from)]
    /\ pc[t] = "create_mkdir"
    /\ fs' = Mkdir(call[t].from)
    /\ Goto(t, "create_restore")
    /\ UNCHANGED <<data, privileged, umask, call, old_mask, calls, directoryVars>>

Create(t) ==
    \/ CreateExist(t)
    \/ SetMask(t, "create_umask", "create_mkdir") /\ UNCHANGED directoryVars
    \/ CreateMkdir(t)
    \/ RestoreMask(t, "create_restore", "idle") /\ UNCHANGED directoryVars

-----------------------------------------------------------------------------
\* Create_r: the same for every directory on the way, under one cleared mask.

\* *slash = '\0' behind the first n names.
CutAt(t, n) == path' = [path EXCEPT ![t] = SubSeq(call[t].from, 1, n)]

\* Restore the slash and go on to the next one, or to the end of the path.
NextLevel(t) ==
    \/ /\ path[t] # call[t].from
       /\ CutAt(t, Len(path[t]) + 1)
       /\ Goto(t, "create_r_exist")
       /\ UNCHANGED ret
    \/ /\ path[t] = call[t].from
       /\ Goto(t, "create_r_restore")
       /\ ret' = [ret EXCEPT ![t] = TRUE]
       /\ UNCHANGED path

CreateRBegin(t) ==
    /\ SetMask(t, "create_r_umask", "create_r_exist")
    /\ CutAt(t, 1)
    /\ UNCHANGED <<stack, full_path>>

CreateRExist(t) ==
    /\ pc[t] = "create_r_exist"
    /\ \/ IsDir(path[t]) /\ NextLevel(t)
       \/ ~IsDir(path[t]) /\ Goto(t, "create_r_mkdir") /\ UNCHANGED <<ret, path>>
    /\ UNCHANGED <<kernelVars, call, old_mask, calls, stack, full_path>>

\* Mistake: the loop ends at the last slash, the last name is never made.
CreateRMkdirShort(t) ==
    /\ pc[t] = "create_r_mkdir"
    /\ \/ /\ path[t] # call[t].from
          /\ MkdirOk(path[t]) /\ NextLevel(t) /\ fs' = Mkdir(path[t])
       \/ /\ path[t] = call[t].from \/ ~MkdirOk(path[t])
          /\ Goto(t, "create_r_restore")
          /\ ret' = [ret EXCEPT ![t] = path[t] = call[t].from]
          /\ UNCHANGED <<path, fs>>
    /\ UNCHANGED <<data, privileged, umask, call, old_mask, calls, stack, full_path>>

\* A failure leaves the caller's path cut.
CreateRMkdir(t) ==
    /\ pc[t] = "create_r_mkdir"
    /\ fs' = Mkdir(path[t])
    /\ \/ MkdirOk(path[t]) /\ NextLevel(t)
       \/ /\ ~MkdirOk(path[t])
          /\ Goto(t, "create_r_restore")
          /\ ret' = [ret EXCEPT ![t] = FALSE]
          /\ UNCHANGED path
    /\ UNCHANGED <<data, privileged, umask, call, old_mask, calls, stack, full_path>>

Create_r(t) ==
    \/ CreateRBegin(t)
    \/ CreateRExist(t)
    \/ CreateRMkdir(t)
    \/ RestoreMask(t, "create_r_restore", "idle") /\ UNCHANGED directoryVars

-----------------------------------------------------------------------------
\* Remove (RemoveTree here): a nested call for every directory below, its result ignored.

Top(t) == Last(stack[t])
EntryTaken(frames, name) == [frames EXCEPT ![Len(frames)].todo = @ \ {name}]

\* A nested call returns to the rmdir behind it, the outermost one to the caller.
RemoveReturns(t, calling, value) ==
    \/ calling = <<>> /\ Return(t, value)
    \/ calling # <<>> /\ Goto(t, "rmdir_entry") /\ UNCHANGED ret

OpenDir(t) ==
    /\ pc[t] = "opendir"
    /\ \/ /\ IsDir(full_path[t])
          /\ stack' = [stack EXCEPT ![t] =
                          Append(@, [path |-> full_path[t], todo |-> Listing(full_path[t])])]
          /\ Goto(t, "readdir")
          /\ UNCHANGED ret
       \/ /\ ~IsDir(full_path[t])
          /\ RemoveReturns(t, stack[t], FALSE)
          /\ UNCHANGED stack
    /\ UNCHANGED <<kernelVars, call, old_mask, calls, path, full_path>>

\* Mistake: a directory entry is only passed to rmdir, never emptied first.
ReadEntryFlat(t) ==
    /\ pc[t] = "readdir"
    /\ \E name \in Top(t).todo :
         LET entry == Append(Top(t).path, name) IN
         /\ Stat(entry)
         /\ full_path' = [full_path EXCEPT ![t] = entry]
         /\ stack' = [stack EXCEPT ![t] = EntryTaken(@, name)]
         /\ Goto(t, IF IsDir(entry) THEN "rmdir_entry" ELSE "unlink_entry")
    /\ UNCHANGED <<kernelVars, call, ret, old_mask, calls, path>>

\* readdir and the stat of what it returned.
ReadEntry(t) ==
    /\ pc[t] = "readdir"
    /\ \E name \in Top(t).todo :
         LET entry == Append(Top(t).path, name) IN
         \/ /\ Stat(entry)
            /\ full_path' = [full_path EXCEPT ![t] = entry]
            /\ stack' = [stack EXCEPT ![t] = EntryTaken(@, name)]
            /\ Goto(t, IF IsDir(entry) THEN "opendir" ELSE "unlink_entry")
            /\ UNCHANGED ret
         \/ /\ ~Stat(entry)
            /\ full_path' = [full_path EXCEPT ![t] = Top(t).path]
            /\ stack' = [stack EXCEPT ![t] = Front(@)]
            /\ RemoveReturns(t, Front(stack[t]), FALSE)
    /\ UNCHANGED <<kernelVars, call, old_mask, calls, path>>

\* rmdir(path), which may fail, and return true.
RemoveSelf(t) ==
    /\ pc[t] = "readdir" /\ Top(t).todo = {}
    /\ fs' = Rmdir(Top(t).path)
    /\ full_path' = [full_path EXCEPT ![t] = Top(t).path]
    /\ stack' = [stack EXCEPT ![t] = Front(@)]
    /\ RemoveReturns(t, Front(stack[t]), TRUE)
    /\ UNCHANGED <<data, privileged, umask, call, old_mask, calls, path>>

RemoveTree(t) ==
    \/ OpenDir(t)
    \/ ReadEntry(t)
    \/ ChangeTree(t, "unlink_entry", Unlink(full_path[t]), "readdir") /\ UNCHANGED directoryVars
    \/ ChangeTree(t, "rmdir_entry", Rmdir(full_path[t]), "readdir") /\ UNCHANGED directoryVars
    \/ RemoveSelf(t)

-----------------------------------------------------------------------------
\* The calls.

BeginDirectory(t) ==
    \/ \E p \in DirPaths :
        \/ Begin(t, "Create", p, <<>>, "create_exist") /\ UNCHANGED directoryVars
        \/ Begin(t, "Create_r", p, <<>>, "create_r_umask") /\ UNCHANGED directoryVars
        \/ /\ Begin(t, "RemoveDir", p, <<>>, "opendir")
           /\ full_path' = [full_path EXCEPT ![t] = p]
           /\ UNCHANGED <<path, stack>>
    \/ \E r \in DirRenames : Begin(t, "Rename", r[1], r[2], "rename") /\ UNCHANGED directoryVars

\* Directory::Rename and File::Rename.
RenameStep(t) ==
    /\ pc[t] = "rename"
    /\ fs' = Rename(call[t].from, call[t].to)
    /\ Return(t, RenameOk(call[t].from, call[t].to))
    /\ UNCHANGED <<data, privileged, umask, call, old_mask, calls, directoryVars>>

DirectoryStep(t) == Create(t) \/ Create_r(t) \/ RemoveTree(t) \/ RenameStep(t)
=============================================================================
