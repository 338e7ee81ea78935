----------------------------- MODULE FilesProofs -----------------------------
(***************************************************************************)
(* What calls on one tree and under one mask keep, whatever the threads,   *)
(* the tree and the calls, in four parts.                                  *)
(*   The mask.  A call touches it in two steps only: umask(0) and          *)
(* umask(old_mask).  What it puts back is what it found, so the argument   *)
(* is about who found what: as long as no two calls had the mask cleared   *)
(* at once, the one that has it cleared found the user's value.            *)
(*   Create and Create_r.  The levels passed are directories, and a call   *)
(* that failed is excused by the directory, an obstruction, or a thread    *)
(* that goes on with the same call (Reporting).                            *)
(*   Remove.  The nested calls are chained by names taken from their lists,*)
(* and each list still holds all that is left below (RemoveInv), which     *)
(* needs that the tree is one (TreeInv).                                   *)
(*   Copy.  The destination holds nothing but what the source has there,   *)
(* or holes, and the copy is as far as it has written; of several equal    *)
(* copies at least one is (CopyInv).                                       *)
(***************************************************************************)
EXTENDS Files, TLAPS

\* Where a thread can be in a call.
Locations ==
    {"idle", "create_exist", "create_umask", "create_mkdir", "create_restore",
     "create_r_umask", "create_r_exist", "create_r_mkdir", "create_r_restore",
     "opendir", "readdir", "unlink_entry", "rmdir_entry", "rename", "umask_src", "open_src",
     "restore_src", "umask_dst", "open_dst", "restore_dst", "read", "write", "unlink"}

MaskTypes ==
    /\ pc \in [Threads -> Locations]
    /\ umask \in {0, UserMask}
    /\ old_mask \in [Threads -> {0, UserMask}]

\* Who has the mask cleared is alone, and found the user's value.
OneHolder ==
    /\ \A t, u \in Threads : Cleared(t) /\ Cleared(u) => t = u
    /\ \A t \in Threads : Cleared(t) => umask = 0 /\ old_mask[t] = UserMask
    /\ (\A t \in Threads : ~Cleared(t)) => umask = UserMask

MaskInv == MaskTypes /\ (~crossed => OneHolder)

-----------------------------------------------------------------------------
\* What a step of t may do to the mask: nothing, clear it, or put it back.
Keeps(t) == umask' = umask /\ old_mask' = old_mask /\ (Cleared(t)' <=> Cleared(t))
Clears(t) ==
    /\ ~Cleared(t) /\ Cleared(t)'
    /\ umask' = 0 /\ old_mask' = [old_mask EXCEPT ![t] = umask]
PutsBack(t) ==
    /\ Cleared(t) /\ ~Cleared(t)'
    /\ umask' = old_mask[t] /\ old_mask' = old_mask
Touches(t) ==
    /\ Keeps(t) \/ Clears(t) \/ PutsBack(t)
    /\ pc' \in [Threads -> Locations]
    /\ \A u \in Threads \ {t} : pc'[u] = pc[u]

\* A call that begins does not touch the mask.
LEMMA StartTouches ==
    ASSUME NEW t \in Threads, pc \in [Threads -> Locations], Start(t)
    PROVE  Touches(t) /\ Keeps(t)
  BY DEF Start, BeginDirectory, BeginFile, Begin, Goto, Touches, Keeps, Cleared, Locations

\* The steps of Create and Create_r (directory.cpp:28-74): the mask is cleared before
\* the first test of Create_r and the mkdir of Create, and put back on every path.
LEMMA CreateTouches ==
    ASSUME NEW t \in Threads, pc \in [Threads -> Locations], Create(t) \/ Create_r(t)
    PROVE  Touches(t)
  <1> USE DEF Goto, Return, Touches, Cleared, Locations
  <1>1. CASE CreateExist(t)
    BY <1>1 DEF CreateExist, kernelVars, Keeps
  <1>2. CASE CreateMkdir(t)
    BY <1>2 DEF CreateMkdir, Keeps
  <1>3. CASE SetMask(t, "create_umask", "create_mkdir")
    BY <1>3 DEF SetMask, Clears
  <1>4. CASE RestoreMask(t, "create_restore", "idle")
    BY <1>4 DEF RestoreMask, PutsBack
  <1>5. CASE CreateRBegin(t)
    BY <1>5 DEF CreateRBegin, SetMask, Clears
  <1>6. CASE CreateRExist(t)
    BY <1>6 DEF CreateRExist, NextLevel, kernelVars, Keeps
  <1>7. CASE CreateRMkdir(t)
    BY <1>7 DEF CreateRMkdir, NextLevel, Keeps
  <1>8. CASE RestoreMask(t, "create_r_restore", "idle")
    BY <1>8 DEF RestoreMask, PutsBack
  <1> QED
    BY <1>1, <1>2, <1>3, <1>4, <1>5, <1>6, <1>7, <1>8 DEF Create, Create_r

\* Directory::Remove and both Renames never touch the mask.
LEMMA RemoveTouches ==
    ASSUME NEW t \in Threads, pc \in [Threads -> Locations], RemoveTree(t) \/ RenameStep(t)
    PROVE  Touches(t)
  <1> USE DEF Goto, Return, RemoveReturns, Touches, Cleared, Locations, Keeps, kernelVars
  <1>1. CASE OpenDir(t)
    BY <1>1 DEF OpenDir
  <1>2. CASE ReadEntry(t)
    BY <1>2 DEF ReadEntry
  <1>3. CASE ChangeTree(t, "unlink_entry", Unlink(full_path[t]), "readdir")
    BY <1>3 DEF ChangeTree
  <1>4. CASE ChangeTree(t, "rmdir_entry", Rmdir(full_path[t]), "readdir")
    BY <1>4 DEF ChangeTree
  <1>5. CASE RemoveSelf(t)
    BY <1>5 DEF RemoveSelf
  <1>6. CASE RenameStep(t)
    BY <1>6 DEF RenameStep
  <1> QED
    BY <1>1, <1>2, <1>3, <1>4, <1>5, <1>6 DEF RemoveTree

\* File::Open inside Copy (file.cpp:54-56) clears the mask around each of the two open
\* calls, also around one that fails; the rest of Copy and File::Remove leave it alone.
LEMMA FileTouches ==
    ASSUME NEW t \in Threads, pc \in [Threads -> Locations], FileStep(t)
    PROVE  Touches(t)
  <1> USE DEF Goto, Return, CopyReturns, Touches, Cleared, Locations, kernelVars
  <1>1. CASE SetMask(t, "umask_src", "open_src") \/ SetMask(t, "umask_dst", "open_dst")
    BY <1>1 DEF SetMask, Clears
  <1>2. CASE OpenSource(t)
    BY <1>2 DEF OpenSource, Keeps
  <1>3. CASE OpenDestination(t)
    BY <1>3 DEF OpenDestination, Keeps
  <1>4. CASE CopyOpened(t, "restore_src", "umask_dst")
    BY <1>4 DEF CopyOpened, PutsBack
  <1>5. CASE CopyOpened(t, "restore_dst", "read")
    BY <1>5 DEF CopyOpened, PutsBack
  <1>6. CASE CopyRead(t)
    BY <1>6 DEF CopyRead, Keeps
  <1>7. CASE CopyReadError(t)
    BY <1>7 DEF CopyReadError, Keeps
  <1>8. CASE CopyWrite(t)
    BY <1>8 DEF CopyWrite, Keeps
  <1>9. CASE RemoveFile(t)
    BY <1>9 DEF RemoveFile, Keeps
  <1> QED
    BY <1>1, <1>2, <1>3, <1>4, <1>5, <1>6, <1>7, <1>8, <1>9 DEF FileStep, Copy

-----------------------------------------------------------------------------
\* A thread that has the mask cleared beside t after t's step had it before.
LEMMA OthersCleared ==
    ASSUME NEW t \in Threads, NEW u \in Threads, u # t, MaskTypes, Touches(t)
    PROVE  /\ Cleared(u)' <=> Cleared(u)
           /\ old_mask'[u] = old_mask[u]
  <1>1. pc'[u] = pc[u]
    BY DEF Touches, MaskTypes
  <1> QED
    BY <1>1 DEF Touches, MaskTypes, Cleared, Keeps, Clears, PutsBack

\* A step keeps the holder of the mask alone, unless it makes two of them, which the
\* history records.
LEMMA MaskStep ==
    ASSUME NEW t \in Threads, MaskInv, Touches(t),
           \/ Keeps(t) /\ UNCHANGED crossed
           \/ crossed' = (crossed \/ \E u, v \in Threads : u # v /\ Cleared(u)' /\ Cleared(v)')
    PROVE  MaskInv'
  <1>1. MaskTypes'
    BY DEF MaskInv, MaskTypes, Touches, Keeps, Clears, PutsBack
  <1>2. ASSUME ~crossed' PROVE OneHolder'
    <2>1. OneHolder
      BY <1>2 DEF MaskInv
    <2>2. \A u, v \in Threads : Cleared(u)' /\ Cleared(v)' => u = v
      BY <1>2, <2>1, OthersCleared DEF MaskInv, OneHolder, Keeps
    <2>3. CASE Keeps(t)
      BY <2>1, <2>2, <2>3, OthersCleared DEF MaskInv, OneHolder, Keeps
    <2>4. CASE Clears(t)
      <3>1. \A u \in Threads : ~Cleared(u)
        BY <2>2, <2>4, OthersCleared DEF MaskInv, Clears
      <3>2. umask = UserMask
        BY <2>1, <3>1 DEF OneHolder
      <3> QED
        BY <2>2, <2>4, <3>1, <3>2, OthersCleared DEF MaskInv, MaskTypes, OneHolder, Clears
    <2>5. CASE PutsBack(t)
      BY <2>1, <2>2, <2>5, OthersCleared DEF MaskInv, OneHolder, PutsBack
    <2> QED
      BY <2>3, <2>4, <2>5 DEF Touches
  <1> QED
    BY <1>1, <1>2 DEF MaskInv

\* The inductive invariant holds throughout.
LEMMA MaskInvariant == Spec => []MaskInv
  <1>1. Init => MaskInv
    BY DEF Init, InitSystem, MaskInv, MaskTypes, OneHolder, Cleared, Locations
  <1>2. MaskInv /\ [Next]_vars => MaskInv'
    <2> SUFFICES ASSUME MaskInv, [Next]_vars PROVE MaskInv'
      OBVIOUS
    <2>1. ASSUME NEW t \in Threads, Start(t) PROVE MaskInv'
      BY <2>1, StartTouches, MaskStep DEF MaskInv, MaskTypes, Start
    <2>2. ASSUME NEW t \in Threads, Step(t) PROVE MaskInv'
      <3>1. Touches(t)
        BY <2>2, CreateTouches, RemoveTouches, FileTouches
           DEF MaskInv, MaskTypes, Step, DirectoryStep
      <3> QED
        BY <2>2, <3>1, MaskStep DEF Step, Recorded
    <2>3. CASE UNCHANGED vars
      BY <2>3 DEF vars, kernelVars, threadVars, MaskInv, MaskTypes, OneHolder, Cleared
    <2> QED
      BY <2>1, <2>2, <2>3 DEF Next
  <1> QED
    BY <1>1, <1>2, PTL DEF Spec

(***************************************************************************)
(* The mask is the user's whenever no call has it cleared (directory.cpp:  *)
(* 33-35,70-72, file.cpp:54-56), for any threads, paths, trees and number  *)
(* of calls, on every path through every call and with every failure of a  *)
(* system call, as long as no two calls cleared it at the same time.       *)
(***************************************************************************)
THEOREM UmaskKeptHolds == Spec => []UmaskKept
  <1>1. MaskInv => UmaskKept
    BY DEF MaskInv, OneHolder, UmaskKept
  <1> QED
    BY <1>1, MaskInvariant, PTL

-----------------------------------------------------------------------------
(***************************************************************************)
(* What Create and Create_r report.                                        *)
(***************************************************************************)
\* The first names of a path: the string that the caller's buffer holds when it is cut.
Cut(p, k) == SubSeq(p, 1, k)

\* A cut of a cut, and the directories above one.
LEMMA Cuts ==
    ASSUME NEW p \in Paths, NEW k \in 1 .. Len(p)
    PROVE  /\ Len(p) \in Nat \ {0} /\ Cut(p, Len(p)) = p
           /\ Cut(p, k) \in Seq(Names) /\ Len(Cut(p, k)) = k
           /\ \A i \in 1 .. k : Cut(Cut(p, k), i) = Cut(p, i)
           /\ Parents(Cut(p, k)) = {Cut(p, i) : i \in 1 .. k - 1}
           /\ Parents(p) = {Cut(p, i) : i \in 1 .. Len(p) - 1}
  <1>1. p \in Seq(Names) /\ p # <<>> /\ Len(p) \in Nat \ {0}
    BY DEF Paths
  <1>2. Cut(p, Len(p)) = p
    BY <1>1 DEF Cut
  <1>3. \A i \in 1 .. Len(p) :
          /\ Cut(p, i) \in Seq(Names) /\ Len(Cut(p, i)) = i
          /\ \A j \in 1 .. i : Cut(p, i)[j] = p[j]
    BY <1>1 DEF Cut
  <1>4. \A i \in 1 .. k : Cut(Cut(p, k), i) = Cut(p, i)
    <2> TAKE i \in 1 .. k
    <2>1. PICK q : q = Cut(p, k)
      OBVIOUS
    <2>2. q \in Seq(Names) /\ Len(q) = k /\ \A j \in 1 .. k : q[j] = p[j]
      BY <1>3, <2>1
    <2>3. Cut(q, i) \in Seq(Names) /\ Len(Cut(q, i)) = i /\ \A j \in 1 .. i : Cut(q, i)[j] = q[j]
      BY <2>2 DEF Cut
    <2>4. Cut(p, i) \in Seq(Names) /\ Len(Cut(p, i)) = i /\ \A j \in 1 .. i : Cut(p, i)[j] = p[j]
      BY <1>1, <1>3
    <2>5. Cut(q, i) = Cut(p, i)
      <3>1. PICK a, b : a = Cut(q, i) /\ b = Cut(p, i)
        OBVIOUS
      <3>2. a = b
        BY <2>2, <2>3, <2>4, <3>1
      <3> QED
        BY <3>1, <3>2
    <2> QED
      BY <2>1, <2>5
  <1>5. Parents(Cut(p, k)) = {Cut(p, i) : i \in 1 .. k - 1}
    <2>1. Len(Cut(p, k)) = k
      BY <1>3
    <2>2. Parents(Cut(p, k)) = {Cut(Cut(p, k), i) : i \in 1 .. k - 1}
      BY <2>1 DEF Parents, Cut
    <2>3. \A i \in 1 .. k - 1 : i \in 1 .. k
      OBVIOUS
    <2> QED
      BY <1>4, <2>2, <2>3
  <1>6. Parents(p) = {Cut(p, i) : i \in 1 .. Len(p) - 1}
    BY DEF Parents, Cut
  <1> QED
    BY <1>1, <1>2, <1>3, <1>4, <1>5, <1>6

\* All names before the k-th are directories.
LowerDirs(p, k) == \A i \in 1 .. k - 1 : Cut(p, i) \in DOMAIN fs /\ fs[Cut(p, i)].kind = "dir"

\* What a step leaves of the directories on a call's path: all of them, and for Create
\* those above too as they were.
Untouched(p) ==
    \A i \in 1 .. Len(p) :
        /\ Cut(p, i) \in DOMAIN fs <=> Cut(p, i) \in DOMAIN fs'
        /\ Cut(p, i) \in DOMAIN fs => fs'[Cut(p, i)] = fs[Cut(p, i)]
Kept(c) ==
    \A i \in 1 .. Len(c.from) :
        /\ Cut(c.from, i) \in DOMAIN fs =>
             Cut(c.from, i) \in DOMAIN fs' /\ fs'[Cut(c.from, i)] = fs[Cut(c.from, i)]
        /\ c.op = "Create" /\ i < Len(c.from) /\ Cut(c.from, i) \in DOMAIN fs' =>
             Cut(c.from, i) \in DOMAIN fs

\* stat and mkdir go by the names before the last.
LEMMA ReachLevels ==
    ASSUME NEW p \in Paths, NEW k \in 1 .. Len(p)
    PROVE  /\ Reach(Cut(p, k)) <=> \A i \in 1 .. k - 1 : Cut(p, i) \in DOMAIN fs /\ Passable(Cut(p, i))
           /\ Reach(p) <=> \A i \in 1 .. Len(p) - 1 : Cut(p, i) \in DOMAIN fs /\ Passable(Cut(p, i))
  BY Cuts DEF Reach

\* A directory that cannot be made has an obstruction on its path.
LEMMA Blocked ==
    ASSUME NEW c, c.from \in Paths, NEW k \in 1 .. Len(c.from), LowerDirs(c.from, k),
           ~IsDir(Cut(c.from, k)), ~MkdirOk(Cut(c.from, k))
    PROVE  Obstructed(c) /\ ~IsDir(c.from)
  <1>1. PICK p : p = c.from
    OBVIOUS
  <1>2. Parents(p) = {Cut(p, i) : i \in 1 .. Len(p) - 1} /\ Cut(p, Len(p)) = p /\ Len(p) \in Nat
    BY <1>1, Cuts
  <1>3. CASE Reach(Cut(p, k))
    <2>1. Cut(p, k) \in DOMAIN fs /\ fs[Cut(p, k)].kind # "dir"
      BY <1>1, <1>3 DEF MkdirOk, IsDir, Stat
    <2>2. CASE k = Len(p)
      BY <1>1, <1>2, <2>1, <2>2 DEF Obstructed, IsDir
    <2>3. CASE k # Len(p)
      <3>1. k \in 1 .. Len(p) - 1 /\ ~Passable(Cut(p, k))
        BY <1>1, <1>2, <2>1, <2>3 DEF Passable
      <3> QED
        BY <1>1, <1>2, <2>1, <3>1 DEF Obstructed, IsDir, Stat, Reach
    <2> QED
      BY <2>2, <2>3
  <1>4. CASE ~Reach(Cut(p, k))
    <2>1. PICK i \in 1 .. k - 1 : ~(Cut(p, i) \in DOMAIN fs /\ Passable(Cut(p, i)))
      BY <1>1, <1>4, ReachLevels
    <2>2. Cut(p, i) \in DOMAIN fs /\ ~Passable(Cut(p, i))
      BY <1>1, <2>1 DEF LowerDirs
    <2>3. i \in 1 .. Len(p) - 1
      BY <1>1, <1>2, <2>1
    <2> QED
      BY <1>1, <1>2, <2>2, <2>3 DEF Obstructed, IsDir, Stat, Reach
  <1> QED
    BY <1>3, <1>4

\* A directory that is made stands on the ones before it.
LEMMA MkdirMakes ==
    ASSUME NEW c, c.from \in Paths, NEW k \in 1 .. Len(c.from), c.op = "Create" => k = Len(c.from),
           MkdirOk(Cut(c.from, k)), fs' = Mkdir(Cut(c.from, k)), privileged' = privileged
    PROVE  /\ Kept(c) /\ LowerDirs(c.from, k)'
           /\ k < Len(c.from) => LowerDirs(c.from, k + 1)'
           /\ k = Len(c.from) => IsDir(c.from)'
  <1>1. PICK p : p = c.from
    OBVIOUS
  <1>2. /\ Parents(p) = {Cut(p, i) : i \in 1 .. Len(p) - 1} /\ Cut(p, Len(p)) = p /\ Len(p) \in Nat
        /\ \A i \in 1 .. Len(p) : Len(Cut(p, i)) = i
    BY <1>1, Cuts
  <1>3. PICK q : q = Cut(p, k)
    OBVIOUS
  <1>4. DOMAIN fs' = DOMAIN fs \cup {q} /\ q \notin DOMAIN fs /\ fs'[q] = Dir(FALSE)
    BY <1>1, <1>3 DEF Mkdir, MkdirOk, With
  <1>5. \A x \in DOMAIN fs : fs'[x] = fs[x]
    BY <1>1, <1>3 DEF Mkdir, MkdirOk, With
  <1>6. \A i \in 1 .. k - 1 : Cut(p, i) \in DOMAIN fs /\ Passable(Cut(p, i))
    BY <1>1, ReachLevels DEF MkdirOk
  <1>7. fs'[q].kind = "dir"
    BY <1>4 DEF Dir
  <1>8. Kept(c)
    <2>1. \A i \in 1 .. Len(p) : i < Len(p) /\ k = Len(p) => Cut(p, i) # q
      BY <1>1, <1>2, <1>3
    <2> QED
      BY <1>1, <1>4, <1>5, <2>1 DEF Kept
  <1>9. \A i \in 1 .. k - 1 : Cut(p, i) \in DOMAIN fs' /\ fs'[Cut(p, i)].kind = "dir" /\ Passable(Cut(p, i))'
    BY <1>4, <1>5, <1>6 DEF Passable
  <1>10. LowerDirs(c.from, k)' /\ (k < Len(p) => LowerDirs(c.from, k + 1)')
    <2>1. \A i \in 1 .. (k + 1) - 1 : i = k \/ i \in 1 .. k - 1
      BY <1>1, <1>2
    <2> QED
      BY <1>1, <1>3, <1>4, <1>7, <1>9, <2>1 DEF LowerDirs
  <1>11. ASSUME k = Len(p) PROVE IsDir(p)'
    BY <1>2, <1>3, <1>4, <1>7, <1>9, <1>11 DEF IsDir, Stat, Reach
  <1> QED
    BY <1>1, <1>8, <1>10, <1>11

\* What others make on the path takes nothing away.
LEMMA KeptStays ==
    ASSUME NEW c, c.from \in Paths, Kept(c), privileged' = privileged
    PROVE  /\ IsDir(c.from) => IsDir(c.from)'
           /\ Obstructed(c) => Obstructed(c)'
           /\ \A k \in 1 .. Len(c.from) : LowerDirs(c.from, k) => LowerDirs(c.from, k)'
  <1>1. PICK p : p = c.from
    OBVIOUS
  <1>2. Parents(p) = {Cut(p, i) : i \in 1 .. Len(p) - 1} /\ Cut(p, Len(p)) = p /\ Len(p) \in Nat \ {0}
    <2>1. 1 \in 1 .. Len(p)
      BY <1>1 DEF Paths
    <2> QED
      BY <1>1, <2>1, Cuts
  <1>3. \A i \in 1 .. Len(p) :
          /\ Cut(p, i) \in DOMAIN fs => Cut(p, i) \in DOMAIN fs' /\ fs'[Cut(p, i)] = fs[Cut(p, i)]
          /\ c.op = "Create" /\ i < Len(p) /\ Cut(p, i) \in DOMAIN fs' => Cut(p, i) \in DOMAIN fs
    BY <1>1 DEF Kept
  <1>4. Len(p) \in 1 .. Len(p) /\ \A i \in 1 .. Len(p) - 1 : i \in 1 .. Len(p) /\ i < Len(p)
    BY <1>2
  <1>5. \A i \in 1 .. Len(p) : Cut(p, i) \in DOMAIN fs => (Passable(Cut(p, i)) <=> Passable(Cut(p, i))')
    BY <1>3 DEF Passable
  <1>6. IsDir(p) => IsDir(p)'
    BY <1>2, <1>3, <1>4, <1>5 DEF IsDir, Stat, Reach
  <1>7. ASSUME Obstructed(c) PROVE Obstructed(c)'
    <2>1. CASE p \in DOMAIN fs /\ fs[p].kind # "dir"
      BY <1>1, <1>2, <1>3, <1>4, <2>1 DEF Obstructed
    <2>2. CASE \E q \in Parents(p) : q \in DOMAIN fs /\ ~Passable(q)
      <3>1. PICK i \in 1 .. Len(p) - 1 : Cut(p, i) \in DOMAIN fs /\ ~Passable(Cut(p, i))
        BY <1>2, <2>2
      <3>2. Cut(p, i) \in DOMAIN fs' /\ ~Passable(Cut(p, i))' /\ Cut(p, i) \in Parents(p)
        BY <1>2, <1>3, <1>4, <1>5, <3>1
      <3> QED
        BY <1>1, <3>2 DEF Obstructed
    <2>3. CASE c.op = "Create" /\ ~Reach(p)
      <3>1. PICK i \in 1 .. Len(p) - 1 : ~(Cut(p, i) \in DOMAIN fs /\ Passable(Cut(p, i)))
        BY <1>2, <2>3 DEF Reach
      <3>2. ~(Cut(p, i) \in DOMAIN fs' /\ Passable(Cut(p, i))')
        BY <1>3, <1>4, <1>5, <2>3, <3>1
      <3>3. ~Reach(p)'
        BY <1>2, <3>1, <3>2 DEF Reach
      <3> QED
        BY <1>1, <2>3, <3>3 DEF Obstructed
    <2> QED
      BY <1>1, <1>7, <2>1, <2>2, <2>3 DEF Obstructed
  <1>8. ASSUME NEW k \in 1 .. Len(p), LowerDirs(p, k) PROVE LowerDirs(p, k)'
    BY <1>2, <1>3, <1>8 DEF LowerDirs
  <1> QED
    BY <1>1, <1>6, <1>7, <1>8

\* Of a path that a step leaves alone everything stays as it is.
LEMMA UntouchedStays ==
    ASSUME NEW c, c.from \in Paths, Untouched(c.from), privileged' = privileged
    PROVE  /\ Kept(c)
           /\ \A k \in 1 .. Len(c.from) : /\ IsDir(Cut(c.from, k)) <=> IsDir(Cut(c.from, k))'
                                          /\ Cut(c.from, k) \in DOMAIN fs <=> Cut(c.from, k) \in DOMAIN fs'
           /\ IsDir(c.from) <=> IsDir(c.from)'
  <1>1. PICK p : p = c.from
    OBVIOUS
  <1>2. Cut(p, Len(p)) = p /\ Len(p) \in Nat \ {0}
    <2>1. 1 \in 1 .. Len(p)
      BY <1>1 DEF Paths
    <2> QED
      BY <1>1, <2>1, Cuts
  <1>3. \A i \in 1 .. Len(p) :
          /\ Cut(p, i) \in DOMAIN fs <=> Cut(p, i) \in DOMAIN fs'
          /\ Cut(p, i) \in DOMAIN fs => fs'[Cut(p, i)] = fs[Cut(p, i)]
    BY <1>1 DEF Untouched
  <1>4. Kept(c)
    BY <1>1, <1>3 DEF Kept
  <1>5. \A i \in 1 .. Len(p) : Cut(p, i) \in DOMAIN fs => (Passable(Cut(p, i)) <=> Passable(Cut(p, i))')
    BY <1>3 DEF Passable
  <1>6. ASSUME NEW k \in 1 .. Len(p) PROVE IsDir(Cut(p, k)) <=> IsDir(Cut(p, k))'
    <2>1. Parents(Cut(p, k)) = {Cut(p, i) : i \in 1 .. k - 1}
      BY <1>1, Cuts
    <2>2. \A i \in 1 .. k - 1 : i \in 1 .. Len(p)
      BY <1>2
    <2> QED
      BY <1>3, <1>5, <2>1, <2>2 DEF IsDir, Stat, Reach
  <1>7. Len(p) \in 1 .. Len(p)
    BY <1>2
  <1>8. IsDir(p) <=> IsDir(p)'
    BY <1>2, <1>6, <1>7
  <1> QED
    BY <1>1, <1>3, <1>4, <1>6, <1>8

\* Where the calls of Create and of Create_r are.
CreateSteps == {"create_exist", "create_umask", "create_mkdir", "create_restore"}
CreateRSteps == {"create_r_umask", "create_r_exist", "create_r_mkdir", "create_r_restore"}

\* What every thread has.
Shapes ==
    /\ DOMAIN pc = Threads /\ DOMAIN call = Threads /\ DOMAIN ret = Threads /\ DOMAIN path = Threads
    /\ seen \in [Threads -> 0 .. 2]

\* A step of u is of no other thread, and goes on with u's call.
Alone(u) ==
    /\ call' = call /\ privileged' = privileged
    /\ DOMAIN pc' = Threads /\ DOMAIN ret' = Threads /\ DOMAIN path' = Threads
    /\ \A w \in Threads \ {u} : pc'[w] = pc[w] /\ ret'[w] = ret[w] /\ path'[w] = path[w]

\* Create and Create_r.
LEMMA CreateAlone ==
    ASSUME Shapes, NEW u \in Threads, Create(u) \/ Create_r(u)
    PROVE  Alone(u)
  <1> USE DEF Goto, Return, Shapes, Alone, directoryVars
  <1>1. CASE CreateExist(u)
    BY <1>1 DEF CreateExist, kernelVars
  <1>2. CASE CreateMkdir(u)
    BY <1>2 DEF CreateMkdir
  <1>3. CASE SetMask(u, "create_umask", "create_mkdir") /\ UNCHANGED directoryVars
    BY <1>3 DEF SetMask
  <1>4. CASE (RestoreMask(u, "create_restore", "idle") \/ RestoreMask(u, "create_r_restore", "idle"))
             /\ UNCHANGED directoryVars
    BY <1>4 DEF RestoreMask
  <1>5. CASE CreateRBegin(u)
    BY <1>5 DEF CreateRBegin, SetMask, CutAt
  <1>6. CASE CreateRExist(u)
    BY <1>6 DEF CreateRExist, NextLevel, CutAt, kernelVars
  <1>7. CASE CreateRMkdir(u)
    BY <1>7 DEF CreateRMkdir, NextLevel, CutAt
  <1> QED
    BY <1>1, <1>2, <1>3, <1>4, <1>5, <1>6, <1>7 DEF Create, Create_r

\* Directory::Remove and Rename.
LEMMA RemoveAlone ==
    ASSUME Shapes, NEW u \in Threads, RemoveTree(u) \/ RenameStep(u)
    PROVE  Alone(u)
  <1> USE DEF Goto, Return, RemoveReturns, Shapes, Alone, directoryVars, kernelVars
  <1>1. CASE OpenDir(u)
    BY <1>1 DEF OpenDir
  <1>2. CASE ReadEntry(u)
    BY <1>2 DEF ReadEntry
  <1>3. CASE ChangeTree(u, "unlink_entry", Unlink(full_path[u]), "readdir") /\ UNCHANGED directoryVars
    BY <1>3 DEF ChangeTree
  <1>4. CASE ChangeTree(u, "rmdir_entry", Rmdir(full_path[u]), "readdir") /\ UNCHANGED directoryVars
    BY <1>4 DEF ChangeTree
  <1>5. CASE RemoveSelf(u)
    BY <1>5 DEF RemoveSelf
  <1>6. CASE RenameStep(u)
    BY <1>6 DEF RenameStep
  <1> QED
    BY <1>1, <1>2, <1>3, <1>4, <1>5, <1>6 DEF RemoveTree

\* The calls of File.
LEMMA FileAlone ==
    ASSUME Shapes, NEW u \in Threads, FileStep(u), UNCHANGED directoryVars
    PROVE  Alone(u)
  <1> USE DEF Goto, Return, CopyReturns, Shapes, Alone, directoryVars, kernelVars
  <1>1. CASE SetMask(u, "umask_src", "open_src") \/ SetMask(u, "umask_dst", "open_dst")
    BY <1>1 DEF SetMask
  <1>2. CASE OpenSource(u)
    BY <1>2 DEF OpenSource
  <1>3. CASE OpenDestination(u)
    BY <1>3 DEF OpenDestination
  <1>4. CASE CopyOpened(u, "restore_src", "umask_dst") \/ CopyOpened(u, "restore_dst", "read")
    BY <1>4 DEF CopyOpened
  <1>5. CASE CopyRead(u)
    BY <1>5 DEF CopyRead
  <1>6. CASE CopyReadError(u)
    BY <1>6 DEF CopyReadError
  <1>7. CASE CopyWrite(u)
    BY <1>7 DEF CopyWrite
  <1>8. CASE RemoveFile(u)
    BY <1>8 DEF RemoveFile
  <1> QED
    BY <1>1, <1>2, <1>3, <1>4, <1>5, <1>6, <1>7, <1>8 DEF FileStep, Copy

\* Every step.
LEMMA StepAlone ==
    ASSUME Shapes, NEW u \in Threads, Step(u)
    PROVE  Alone(u)
  BY CreateAlone, RemoveAlone, FileAlone DEF Step, DirectoryStep

\* A thread in Create or Create_r takes one of their steps.
LEMMA OwnStep ==
    ASSUME NEW u \in Threads, Step(u)
    PROVE  /\ pc[u] # "idle"
           /\ pc[u] \in CreateSteps => Create(u)
           /\ pc[u] \in CreateRSteps => Create_r(u)
  <1> USE DEF CreateSteps, CreateRSteps
  <1>1. ASSUME RemoveTree(u) \/ RenameStep(u) PROVE pc[u] \notin CreateSteps \cup CreateRSteps \cup {"idle"}
    BY <1>1 DEF RemoveTree, RenameStep, OpenDir, ReadEntry, ChangeTree, RemoveSelf
  <1>2. ASSUME FileStep(u) PROVE pc[u] \notin CreateSteps \cup CreateRSteps \cup {"idle"}
    BY <1>2 DEF FileStep, Copy, SetMask, OpenSource, OpenDestination, CopyOpened, CopyRead, CopyReadError,
            CopyWrite, RemoveFile
  <1>3. ASSUME Create(u) PROVE pc[u] \in CreateSteps
    BY <1>3 DEF Create, CreateExist, SetMask, CreateMkdir, RestoreMask
  <1>4. ASSUME Create_r(u) PROVE pc[u] \in CreateRSteps
    BY <1>4 DEF Create_r, CreateRBegin, SetMask, CreateRExist, CreateRMkdir, RestoreMask
  <1> QED
    BY <1>1, <1>2, <1>3, <1>4 DEF Step, DirectoryStep

Making(t) == call[t].op \in {"Create", "Create_r"}

\* The program counter, the path and the result of a Create or a Create_r.
Located(t) ==
    Making(t) =>
        /\ call[t].from \in Paths
        /\ call[t].op = "Create" => pc[t] \in CreateSteps \cup {"idle"}
        /\ call[t].op = "Create_r" => pc[t] \in CreateRSteps \cup {"idle"}
        /\ pc[t] \in {"create_r_exist", "create_r_mkdir"} =>
             /\ Len(path[t]) \in 1 .. Len(call[t].from)
             /\ path[t] = Cut(call[t].from, Len(path[t]))
        /\ pc[t] \in {"create_restore", "create_r_restore", "idle"} =>
             /\ ret[t] \in BOOLEAN
             /\ call[t].op = "Create_r" /\ ret[t] => path[t] = call[t].from

\* A thread that is making the path's directories and was not overtaken at its level.
Maker(u) ==
    \/ pc[u] = "create_r_exist" /\ LowerDirs(call[u].from, Len(path[u]))
    \/ pc[u] = "create_r_mkdir" /\ LowerDirs(call[u].from, Len(path[u])) /\ path[u] \notin DOMAIN fs

\* A call that failed is excused by the directory, by what stands in its way, or by another
\* thread that goes on with the same call.
Fine(c) ==
    \/ IsDir(c.from) \/ Obstructed(c)
    \/ \E u \in Threads : call[u] = c /\ Maker(u)

\* Where a step of Create or Create_r is.
LEMMA MakingStep ==
    ASSUME NEW u \in Threads, Making(u), Located(u), Step(u)
    PROVE  /\ call[u].op = "Create" => Create(u) /\ pc[u] \in CreateSteps
           /\ call[u].op = "Create_r" => Create_r(u) /\ pc[u] \in CreateRSteps
  BY OwnStep DEF Located, Making

\* A directory is made, or the tree stays as it is.
LEMMA StepMakes ==
    ASSUME Shapes, NEW u \in Threads, Making(u), Located(u), Step(u), NEW c, c = call[u]
    PROVE  fs' = fs \/ (Kept(c) /\ Fine(c)')
  <1>1. Alone(u) /\ call'[u] = c /\ privileged' = privileged
    BY StepAlone DEF Alone
  <1>2. c.from \in Paths /\ c.op \in {"Create", "Create_r"}
    BY DEF Located, Making
  <1>3. CASE c.op = "Create"
    <2>1. Create(u)
      BY <1>3, MakingStep
    <2>2. CASE CreateMkdir(u) /\ MkdirOk(c.from)
      <3>1. Len(c.from) \in 1 .. Len(c.from)
        BY <1>2 DEF Paths
      <3>2. Cut(c.from, Len(c.from)) = c.from
        BY <1>2, <3>1, Cuts
      <3>3. fs' = Mkdir(c.from)
        BY <2>2 DEF CreateMkdir
      <3>4. Kept(c) /\ IsDir(c.from)'
        BY <1>1, <1>2, <2>2, <3>1, <3>2, <3>3, MkdirMakes
      <3> QED
        BY <3>4 DEF Fine
    <2> QED
      BY <2>1, <2>2 DEF Create, CreateExist, kernelVars, SetMask, CreateMkdir, RestoreMask, Mkdir
  <1>4. CASE c.op = "Create_r"
    <2>1. Create_r(u)
      BY <1>4, MakingStep
    <2>2. CASE CreateRMkdir(u) /\ MkdirOk(path[u])
      <3>1. pc[u] = "create_r_mkdir"
        BY <2>2 DEF CreateRMkdir
      <3>2. PICK k \in 1 .. Len(c.from) : path[u] = Cut(c.from, k) /\ k = Len(path[u])
        BY <3>1 DEF Located, Making
      <3>3. fs' = Mkdir(Cut(c.from, k)) /\ MkdirOk(Cut(c.from, k)) /\ NextLevel(u)
        BY <2>2, <3>2 DEF CreateRMkdir
      <3>4. /\ Kept(c)
            /\ k < Len(c.from) => LowerDirs(c.from, k + 1)'
            /\ k = Len(c.from) => IsDir(c.from)'
        BY <1>1, <1>2, <1>4, <3>2, <3>3, MkdirMakes
      <3>5. CASE path[u] # c.from
        <4>1. Len(c.from) \in Nat /\ k # Len(c.from)
          BY <1>2, <3>2, <3>5, Cuts
        <4>2. k + 1 \in 1 .. Len(c.from) /\ k < Len(c.from)
          BY <4>1
        <4>3. path'[u] = Cut(c.from, k + 1) /\ pc'[u] = "create_r_exist"
          BY <3>2, <3>3, <3>5 DEF NextLevel, CutAt, Cut, Goto, Shapes
        <4>4. Len(path'[u]) = k + 1
          BY <1>2, <4>2, <4>3, Cuts
        <4>5. Maker(u)'
          BY <1>1, <3>4, <4>2, <4>3, <4>4 DEF Maker
        <4> QED
          BY <1>1, <3>4, <4>5 DEF Fine
      <3>6. CASE path[u] = c.from
        BY <3>2, <3>4, <3>6 DEF Fine
      <3> QED
        BY <3>5, <3>6
    <2>3. CASE CreateRMkdir(u) /\ ~MkdirOk(path[u])
      BY <2>3 DEF CreateRMkdir, Mkdir
    <2> QED
      BY <2>1, <2>2, <2>3 DEF Create_r, CreateRBegin, CreateRExist, kernelVars, SetMask, RestoreMask
  <1> QED
    BY <1>2, <1>3, <1>4

\* A maker goes on, is done, or runs into an obstruction.
LEMMA MakerGoesOn ==
    ASSUME Shapes, NEW u \in Threads, Making(u), Located(u), Step(u), Maker(u), fs' = fs, NEW c, c = call[u]
    PROVE  Fine(c)'
  <1>1. Alone(u) /\ call'[u] = c /\ privileged' = privileged
    BY StepAlone DEF Alone
  <1>2. pc[u] \in {"create_r_exist", "create_r_mkdir"}
    BY DEF Maker
  <1>3. c.from \in Paths /\ c.op = "Create_r" /\ Create_r(u)
    BY <1>2, MakingStep DEF Located, Making, CreateSteps
  <1>4. PICK k \in 1 .. Len(c.from) : path[u] = Cut(c.from, k) /\ k = Len(path[u])
    BY <1>2 DEF Located, Making
  <1>5. LowerDirs(c.from, k)
    BY <1>4 DEF Maker
  <1>6. LowerDirs(c.from, k)'
    BY <1>5 DEF LowerDirs
  <1>7. ASSUME Obstructed(c) PROVE Fine(c)'
    BY <1>1, <1>7 DEF Fine, Obstructed, Reach, Passable
  <1>8. ASSUME IsDir(c.from) PROVE Fine(c)'
    BY <1>1, <1>8 DEF Fine, IsDir, Stat, Reach, Passable
  <1>9. CASE CreateRExist(u) /\ IsDir(path[u])
    <2>1. NextLevel(u)
      BY <1>9 DEF CreateRExist
    <2>2. CASE path[u] = c.from
      BY <1>8, <1>9, <2>2
    <2>3. CASE path[u] # c.from
      <3>1. Len(c.from) \in Nat /\ k # Len(c.from)
        BY <1>3, <1>4, <2>3, Cuts
      <3>2. k + 1 \in 1 .. Len(c.from)
        BY <3>1
      <3>3. path'[u] = Cut(c.from, k + 1) /\ pc'[u] = "create_r_exist"
        BY <1>4, <2>1, <2>3 DEF NextLevel, CutAt, Cut, Goto, Shapes
      <3>4. Len(path'[u]) = k + 1
        BY <1>3, <3>2, <3>3, Cuts
      <3>5. Cut(c.from, k) \in DOMAIN fs /\ fs[Cut(c.from, k)].kind = "dir"
        BY <1>4, <1>9 DEF IsDir, Stat
      <3>6. \A i \in 1 .. (k + 1) - 1 : i \in 1 .. k - 1 \/ i = k
        BY <3>1
      <3>7. LowerDirs(c.from, k + 1)'
        BY <1>5, <3>5, <3>6 DEF LowerDirs
      <3>8. Maker(u)'
        BY <1>1, <3>3, <3>4, <3>7 DEF Maker
      <3> QED
        BY <1>1, <3>8 DEF Fine
    <2> QED
      BY <2>2, <2>3
  <1>10. CASE CreateRExist(u) /\ ~IsDir(path[u])
    <2>1. pc'[u] = "create_r_mkdir" /\ path'[u] = path[u]
      BY <1>10 DEF CreateRExist, Goto, Shapes
    <2>2. CASE path[u] \in DOMAIN fs
      <3>1. ~MkdirOk(path[u])
        BY <2>2 DEF MkdirOk
      <3>2. Obstructed(c)
        BY <1>3, <1>4, <1>5, <1>10, <3>1, Blocked
      <3> QED
        BY <1>7, <3>2
    <2>3. CASE path[u] \notin DOMAIN fs
      <3>1. Maker(u)'
        BY <1>1, <1>4, <1>6, <2>1, <2>3 DEF Maker
      <3> QED
        BY <1>1, <3>1 DEF Fine
    <2> QED
      BY <2>2, <2>3
  <1>11. CASE CreateRMkdir(u)
    <2>1. path[u] \notin DOMAIN fs /\ fs = Mkdir(path[u])
      <3>1. pc[u] = "create_r_mkdir" /\ fs' = Mkdir(path[u])
        BY <1>11 DEF CreateRMkdir
      <3>2. fs = Mkdir(path[u])
        BY <3>1
      <3> QED
        BY <3>1, <3>2 DEF Maker
    <2>2. ~MkdirOk(path[u])
      <3>1. path[u] \in DOMAIN With(path[u], Dir(FALSE))
        BY DEF With
      <3> QED
        BY <2>1, <3>1 DEF Mkdir
    <2>3. ~IsDir(path[u])
      BY <2>1 DEF IsDir, Stat
    <2>4. Obstructed(c)
      BY <1>3, <1>4, <1>5, <2>2, <2>3, Blocked
    <2> QED
      BY <1>7, <2>4
  <1> QED
    BY <1>2, <1>3, <1>9, <1>10, <1>11 DEF Create_r, CreateRBegin, SetMask, RestoreMask, CreateRExist

\* What excuses a failure lasts.
LEMMA FineStays ==
    ASSUME Shapes, \A w \in Threads : Located(w), NEW c, c.op \in {"Create", "Create_r"}, c.from \in Paths,
           Fine(c), NEW u \in Threads, Step(u), call[u] = c \/ Untouched(c.from)
    PROVE  Fine(c)'
  <1>1. Alone(u) /\ call' = call /\ privileged' = privileged
    BY StepAlone DEF Alone
  <1>2. CASE call[u] = c /\ fs' # fs
    BY <1>2, StepMakes DEF Making
  <1>3. CASE ~(call[u] = c /\ fs' # fs)
    <2>1. Untouched(c.from) /\ (call[u] = c => fs' = fs)
      BY <1>3 DEF Untouched
    <2>2. Kept(c)
      BY <1>1, <2>1, UntouchedStays
    <2>3. CASE IsDir(c.from) \/ Obstructed(c)
      BY <1>1, <2>2, <2>3, KeptStays DEF Fine
    <2>4. CASE \E w \in Threads : call[w] = c /\ Maker(w)
      <3>1. PICK w \in Threads : call[w] = c /\ Maker(w)
        BY <2>4
      <3>2. CASE w = u
        BY <2>1, <3>1, <3>2, MakerGoesOn DEF Making
      <3>3. CASE w # u
        <4>1. pc'[w] = pc[w] /\ path'[w] = path[w] /\ call'[w] = c
          BY <1>1, <3>1, <3>3 DEF Alone
        <4>2. pc[w] \in {"create_r_exist", "create_r_mkdir"}
          BY <3>1 DEF Maker
        <4>3. PICK k \in 1 .. Len(c.from) : path[w] = Cut(c.from, k) /\ k = Len(path[w])
          BY <3>1, <4>2 DEF Located, Making
        <4>4. LowerDirs(c.from, k)
          BY <3>1, <4>3 DEF Maker
        <4>5. LowerDirs(c.from, k)'
          BY <1>1, <2>2, <4>4, KeptStays
        <4>6. path[w] \in DOMAIN fs <=> path[w] \in DOMAIN fs'
          BY <2>1, <4>3 DEF Untouched
        <4>7. Maker(w)'
          BY <3>1, <4>1, <4>3, <4>5, <4>6 DEF Maker
        <4> QED
          BY <4>1, <4>7 DEF Fine
      <3> QED
        BY <3>2, <3>3
    <2> QED
      BY <2>3, <2>4 DEF Fine
  <1> QED
    BY <1>2, <1>3

\* What a Create or a Create_r c that is at a location, with its path cut to b and with a
\* result r, has found out, and reports, unless another call interfered (s).
Reported(c, at, b, r, s) ==
    c.op \in {"Create", "Create_r"} /\ s < 2 =>
        /\ at \in {"create_umask", "create_mkdir"} /\ s = 0 => ~IsDir(c.from)
        /\ at \in {"create_r_exist", "create_r_mkdir"} => LowerDirs(c.from, Len(b))
        /\ at = "create_r_mkdir" =>
             /\ b \notin DOMAIN fs \/ Fine(c)
             /\ s = 0 => ~IsDir(b)
        /\ at \in {"create_restore", "create_r_restore", "idle"} =>
             /\ r => IsDir(c.from)
             /\ ~r => Fine(c)
             /\ s = 0 /\ ~r => ~IsDir(c.from) /\ Obstructed(c)
Reporting(t) == Reported(call[t], pc[t], path[t], ret[t], seen[t])

ReportInv == Shapes /\ \A t \in Threads : Located(t) /\ Reporting(t)

\* What a step of another thread does to t's path, as t's history records it.
LEMMA Witnessed ==
    ASSUME Shapes, NEW t \in Threads, NEW u \in Threads, u # t, Step(u), NEW c, c = call[t], c.from \in Paths
    PROVE  /\ seen'[t] \in {seen[t], 1, 2}
           /\ seen'[t] < 2 => /\ seen[t] < 2
                              /\ (Untouched(c.from) /\ seen'[t] = seen[t]) \/ (call[u] = c /\ seen'[t] = 1)
  <1>1. call' = call
    BY StepAlone DEF Alone
  <1>2. seen[t] \in 0 .. 2
    BY DEF Shapes
  <1>3. seen'[t] = IF ~(\E p \in Changed : Concerns(c, p)) THEN seen[t]
                   ELSE IF c = call[u] /\ seen[t] < 2 THEN 1 ELSE 2
    BY DEF Step, Recorded
  <1>4. ASSUME ~(\E p \in Changed : Concerns(c, p)) PROVE Untouched(c.from)
    <2> SUFFICES ASSUME NEW i \in 1 .. Len(c.from),
                        \/ ~(Cut(c.from, i) \in DOMAIN fs <=> Cut(c.from, i) \in DOMAIN fs')
                        \/ Cut(c.from, i) \in DOMAIN fs /\ fs'[Cut(c.from, i)] # fs[Cut(c.from, i)]
                 PROVE  Cut(c.from, i) \in Changed /\ Concerns(c, Cut(c.from, i))
      BY <1>4 DEF Untouched
    <2>1. Cut(c.from, i) \in Changed
      BY DEF Changed
    <2>2. /\ Len(Cut(c.from, i)) = i /\ Cut(Cut(c.from, i), i) = Cut(c.from, i)
          /\ i <= Len(c.from)
      BY Cuts
    <2>3. IsPrefix(Cut(c.from, i), c.from)
      BY <2>2 DEF IsPrefix, Cut
    <2>4. c.from # <<>>
      BY DEF Paths
    <2> QED
      BY <2>1, <2>3, <2>4 DEF Concerns
  <1> QED
    BY <1>2, <1>3, <1>4

\* A step of another thread.
LEMMA OthersReport ==
    ASSUME ReportInv, NEW t \in Threads, NEW u \in Threads, u # t, Step(u)
    PROVE  Located(t)' /\ Reporting(t)'
  <1>1. Shapes /\ Located(t) /\ Reporting(t) /\ \A w \in Threads : Located(w)
    BY DEF ReportInv
  <1>2. /\ call' = call /\ privileged' = privileged
        /\ pc'[t] = pc[t] /\ ret'[t] = ret[t] /\ path'[t] = path[t]
    BY <1>1, StepAlone DEF Alone
  <1>3. Located(t)'
    BY <1>1, <1>2 DEF Located, Making
  <1>4. PICK c, at, b, r, s, v :
          /\ c = call[t] /\ at = pc[t] /\ b = path[t] /\ r = ret[t] /\ s = seen[t] /\ v = seen'[t]
    OBVIOUS
  <1>5. Reported(c, at, b, r, s)
    BY <1>1, <1>4 DEF Reporting
  <1>6. ASSUME c.op \in {"Create", "Create_r"}, v < 2 PROVE Reported(c, at, b, r, v)'
    <2>1. c.from \in Paths /\ (at \in {"create_r_exist", "create_r_mkdir"} =>
                                 Len(b) \in 1 .. Len(c.from) /\ b = Cut(c.from, Len(b)))
      BY <1>1, <1>4, <1>6 DEF Located, Making
    <2>2. s \in 0 .. 2 /\ s < 2 /\ ((Untouched(c.from) /\ v = s) \/ (call[u] = c /\ v = 1))
      BY <1>1, <1>4, <1>6, <2>1, Witnessed DEF Shapes
    <2>3. Fine(c) => Fine(c)'
      BY <1>1, <1>6, <2>1, <2>2, FineStays
    <2>4. CASE Untouched(c.from) /\ (v = s \/ v = 1)
      <3>1. /\ Kept(c)
            /\ \A k \in 1 .. Len(c.from) : /\ IsDir(Cut(c.from, k)) <=> IsDir(Cut(c.from, k))'
                                           /\ Cut(c.from, k) \in DOMAIN fs <=> Cut(c.from, k) \in DOMAIN fs'
            /\ IsDir(c.from) <=> IsDir(c.from)'
        BY <1>2, <2>1, <2>4, UntouchedStays
      <3>2. /\ Obstructed(c) => Obstructed(c)'
            /\ \A k \in 1 .. Len(c.from) : LowerDirs(c.from, k) => LowerDirs(c.from, k)'
        BY <1>2, <2>1, <3>1, KeptStays
      <3>3. v = 0 => s = 0
        BY <2>4
      <3>4. at \in {"create_r_exist", "create_r_mkdir"} =>
              /\ LowerDirs(c.from, Len(b)) => LowerDirs(c.from, Len(b))'
              /\ IsDir(b) <=> IsDir(b)'
              /\ b \in DOMAIN fs <=> b \in DOMAIN fs'
        <4> SUFFICES ASSUME at \in {"create_r_exist", "create_r_mkdir"}
                     PROVE  /\ LowerDirs(c.from, Len(b)) => LowerDirs(c.from, Len(b))'
                            /\ IsDir(b) <=> IsDir(b)'
                            /\ b \in DOMAIN fs <=> b \in DOMAIN fs'
          OBVIOUS
        <4>1. PICK k \in 1 .. Len(c.from) : k = Len(b) /\ b = Cut(c.from, k)
          BY <2>1
        <4> QED
          BY <3>1, <3>2, <4>1
      <3> QED
        BY <1>5, <1>6, <2>2, <2>3, <3>1, <3>2, <3>3, <3>4 DEF Reported
    <2>5. CASE Kept(c) /\ Fine(c)' /\ v = 1
      <3>1. /\ IsDir(c.from) => IsDir(c.from)'
            /\ \A k \in 1 .. Len(c.from) : LowerDirs(c.from, k) => LowerDirs(c.from, k)'
        BY <1>2, <2>1, <2>5, KeptStays
      <3>2. at \in {"create_r_exist", "create_r_mkdir"} /\ LowerDirs(c.from, Len(b)) => LowerDirs(c.from, Len(b))'
        BY <2>1, <3>1
      <3> QED
        BY <1>5, <1>6, <2>2, <2>5, <3>1, <3>2 DEF Reported
    <2>6. CASE call[u] = c /\ v = 1
      <3>1. fs' = fs \/ (Kept(c) /\ Fine(c)')
        BY <1>1, <1>6, <2>6, StepMakes DEF Making
      <3>2. fs' = fs => Untouched(c.from)
        BY DEF Untouched
      <3> QED
        BY <2>4, <2>5, <2>6, <3>1, <3>2
    <2> QED
      BY <2>2, <2>4, <2>6
  <1>7. Reported(c, at, b, r, v)'
    BY <1>6 DEF Reported
  <1>8. call'[t] = c /\ pc'[t] = at /\ path'[t] = b /\ ret'[t] = r /\ seen'[t] = v
    BY <1>2, <1>4
  <1> QED
    BY <1>3, <1>7, <1>8 DEF Reporting

\* A step of Create.
LEMMA CreateReport ==
    ASSUME ReportInv, NEW t \in Threads, call[t].op = "Create", Create(t), Alone(t), seen'[t] = seen[t]
    PROVE  Located(t)' /\ Reporting(t)'
  <1> USE DEF Goto, Return
  <1>1. Shapes /\ Located(t) /\ Reporting(t)
    BY DEF ReportInv
  <1>2. PICK c, s, at, b, r : c = call[t] /\ s = seen[t] /\ at = pc'[t] /\ b = path'[t] /\ r = ret'[t]
    OBVIOUS
  <1>3. call'[t] = c /\ seen'[t] = s /\ privileged' = privileged /\ c.op = "Create" /\ s \in 0 .. 2
    BY <1>1, <1>2 DEF Alone, Shapes
  <1>4. c.from \in Paths
    BY <1>1, <1>2, <1>3 DEF Located, Making
  <1>5. Reported(c, pc[t], path[t], ret[t], s)
    BY <1>1, <1>2 DEF Reporting
  <1>6. pc'[t] \in CreateSteps \cup {"idle"}
        /\ (pc'[t] \in {"create_restore", "create_r_restore", "idle"} => ret'[t] \in BOOLEAN)
    <2>1. MkdirOk(c.from) \in BOOLEAN
      BY DEF MkdirOk, Reach
    <2>2. pc[t] = "create_restore" => ret[t] \in BOOLEAN
      BY <1>1, <1>2, <1>3 DEF Located, Making
    <2>3. CASE CreateExist(t)
      BY <1>1, <2>3 DEF CreateExist, Shapes, CreateSteps
    <2>4. CASE SetMask(t, "create_umask", "create_mkdir")
      BY <1>1, <2>4 DEF SetMask, Shapes, CreateSteps
    <2>5. CASE CreateMkdir(t)
      BY <1>1, <1>2, <2>1, <2>5 DEF CreateMkdir, Shapes, CreateSteps
    <2>6. CASE RestoreMask(t, "create_restore", "idle")
      BY <1>1, <2>2, <2>6 DEF RestoreMask, Shapes, CreateSteps
    <2> QED
      BY <2>3, <2>4, <2>5, <2>6 DEF Create
  <1>7. Located(t)'
    BY <1>3, <1>4, <1>6 DEF Located, Making, CreateSteps
  <1>8. fs' = fs => (IsDir(c.from) <=> IsDir(c.from)') /\ (Obstructed(c) => Obstructed(c)')
    BY <1>3 DEF IsDir, Stat, Reach, Passable, Obstructed
  <1>9. IsDir(c.from)' \/ Obstructed(c)' => Fine(c)'
    BY DEF Fine
  <1>10. s < 2 => (Fine(c) => IsDir(c.from) \/ Obstructed(c))
    <2>1. ASSUME NEW u \in Threads, call[u] = c, Maker(u) PROVE FALSE
      <3>1. Located(u) /\ pc[u] \in {"create_r_exist", "create_r_mkdir"}
        BY <2>1 DEF ReportInv, Maker
      <3> QED
        BY <1>3, <2>1, <3>1 DEF Located, Making, CreateSteps
    <2> QED
      BY <2>1 DEF Fine
  <1>11. ASSUME s < 2 PROVE Reported(c, at, b, r, s)'
    <2>1. CASE CreateExist(t)
      <3>1. fs' = fs
        BY <2>1 DEF CreateExist, kernelVars
      <3>2. CASE IsDir(c.from)
        <4>1. at = "idle" /\ r = TRUE
          BY <1>1, <1>2, <2>1, <3>2 DEF CreateExist, Shapes
        <4> QED
          BY <1>8, <3>1, <3>2, <4>1 DEF Reported
      <3>3. CASE ~IsDir(c.from)
        <4>1. at = "create_umask"
          BY <1>1, <1>2, <2>1, <3>3 DEF CreateExist, Shapes
        <4> QED
          BY <1>8, <3>1, <3>3, <4>1 DEF Reported
      <3> QED
        BY <3>2, <3>3
    <2>2. CASE SetMask(t, "create_umask", "create_mkdir")
      <3>1. fs' = fs /\ pc[t] = "create_umask" /\ at = "create_mkdir"
        BY <1>1, <1>2, <2>2 DEF SetMask, Shapes
      <3> QED
        BY <1>3, <1>5, <1>8, <1>11, <3>1 DEF Reported
    <2>3. CASE CreateMkdir(t)
      <3>1. /\ pc[t] = "create_mkdir" /\ at = "create_restore"
            /\ r = MkdirOk(c.from) /\ fs' = Mkdir(c.from)
        BY <1>1, <1>2, <2>3 DEF CreateMkdir, Shapes
      <3>2. CASE MkdirOk(c.from)
        <4>1. Len(c.from) \in 1 .. Len(c.from)
          BY <1>4 DEF Paths
        <4>2. Cut(c.from, Len(c.from)) = c.from
          BY <1>4, <4>1, Cuts
        <4>3. IsDir(c.from)'
          BY <1>3, <1>4, <3>1, <3>2, <4>1, <4>2, MkdirMakes
        <4>4. r = TRUE
          BY <3>1, <3>2 DEF MkdirOk, Reach
        <4> QED
          BY <3>1, <4>3, <4>4 DEF Reported
      <3>3. CASE ~MkdirOk(c.from)
        <4>1. fs' = fs
          BY <3>1, <3>3 DEF Mkdir
        <4>2. IsDir(c.from) \/ Obstructed(c)
          BY <1>3, <3>3 DEF MkdirOk, IsDir, Stat, Obstructed
        <4>3. s = 0 => ~IsDir(c.from)
          BY <1>3, <1>5, <1>11, <3>1 DEF Reported
        <4>4. r = FALSE
          BY <3>1, <3>3 DEF MkdirOk, Reach
        <4> QED
          BY <1>8, <1>9, <3>1, <4>1, <4>2, <4>3, <4>4 DEF Reported
      <3> QED
        BY <3>2, <3>3
    <2>4. CASE RestoreMask(t, "create_restore", "idle")
      <3>1. fs' = fs /\ pc[t] = "create_restore" /\ at = "idle" /\ r = ret[t]
        BY <1>1, <1>2, <2>4 DEF RestoreMask, Shapes
      <3> QED
        BY <1>3, <1>5, <1>8, <1>9, <1>10, <1>11, <3>1 DEF Reported
    <2> QED
      BY <2>1, <2>2, <2>3, <2>4 DEF Create
  <1>12. Reported(c, at, b, r, s)'
    BY <1>11 DEF Reported
  <1> QED
    BY <1>2, <1>3, <1>7, <1>12 DEF Reporting

\* Create_r behind the k-th name: at the next one, or with the last one made.
GoneOn(c, k, at, b, r, s) ==
    /\ at \in {"create_r_exist", "create_r_restore"}
    /\ at = "create_r_exist" => Len(b) \in 1 .. Len(c.from) /\ b = Cut(c.from, Len(b))
    /\ at = "create_r_restore" => r = TRUE /\ b = c.from
    /\ (k < Len(c.from) => LowerDirs(c.from, k + 1)') /\ (k = Len(c.from) => IsDir(c.from)') =>
         Reported(c, at, b, r, s)'

\* Create_r goes on to the next directory, or has made the last one.
LEMMA NextLevelReport ==
    ASSUME Shapes, NEW t \in Threads, NEW c, c = call[t], c.from \in Paths,
           NEW k \in 1 .. Len(c.from), path[t] = Cut(c.from, k), NextLevel(t), NEW s,
           NEW at, NEW b, NEW r, at = pc'[t], b = path'[t], r = ret'[t]
    PROVE  GoneOn(c, k, at, b, r, s)
  <1> USE DEF GoneOn
  <1>1. CASE path[t] = c.from
    <2>1. at = "create_r_restore" /\ r = TRUE /\ b = c.from
      <3>1. /\ pc' = [pc EXCEPT ![t] = "create_r_restore"]
            /\ ret' = [ret EXCEPT ![t] = TRUE] /\ path' = path
        BY <1>1 DEF NextLevel, Goto
      <3> QED
        BY <1>1, <3>1 DEF Shapes
    <2>2. k = Len(c.from)
      <3>1. Len(Cut(c.from, k)) = k
        BY Cuts
      <3> QED
        BY <1>1, <3>1
    <2> QED
      BY <2>1, <2>2 DEF Reported
  <1>2. CASE path[t] # c.from
    <2>1. Len(c.from) \in Nat /\ k # Len(c.from) /\ Len(path[t]) = k
      BY <1>2, Cuts
    <2>2. k + 1 \in 1 .. Len(c.from) /\ k < Len(c.from)
      BY <2>1
    <2>3. at = "create_r_exist" /\ b = Cut(c.from, k + 1)
      BY <1>2, <2>1 DEF NextLevel, CutAt, Cut, Goto, Shapes
    <2>4. Len(b) = k + 1
      BY <2>2, <2>3, Cuts
    <2> QED
      BY <2>2, <2>3, <2>4 DEF Reported
  <1> QED
    BY <1>1, <1>2

\* A step of Create_r.
LEMMA CreateRReport ==
    ASSUME ReportInv, NEW t \in Threads, call[t].op = "Create_r", Step(t), Create_r(t), Alone(t), seen'[t] = seen[t]
    PROVE  Located(t)' /\ Reporting(t)'
  <1> USE DEF Goto
  <1>1. Shapes /\ Located(t) /\ Reporting(t)
    BY DEF ReportInv
  <1>2. PICK c, s, at, b, r : c = call[t] /\ s = seen[t] /\ at = pc'[t] /\ b = path'[t] /\ r = ret'[t]
    OBVIOUS
  <1>3. call'[t] = c /\ seen'[t] = s /\ privileged' = privileged /\ c.op = "Create_r" /\ s \in 0 .. 2
    BY <1>1, <1>2 DEF Alone, Shapes
  <1>4. c.from \in Paths
    BY <1>1, <1>2, <1>3 DEF Located, Making
  <1>5. Reported(c, pc[t], path[t], ret[t], s)
    BY <1>1, <1>2 DEF Reporting
  <1>6. fs' = fs => /\ IsDir(c.from) <=> IsDir(c.from)'
                    /\ Obstructed(c) => Obstructed(c)'
                    /\ \A k \in 1 .. Len(c.from) : LowerDirs(c.from, k) => LowerDirs(c.from, k)'
    BY <1>3 DEF IsDir, Stat, Reach, Passable, Obstructed, LowerDirs
  <1>7. IsDir(c.from)' \/ Obstructed(c)' => Fine(c)'
    BY DEF Fine
  <1>8. SUFFICES /\ at \in CreateRSteps \cup {"idle"}
                 /\ at \in {"create_r_exist", "create_r_mkdir"} =>
                      Len(b) \in 1 .. Len(c.from) /\ b = Cut(c.from, Len(b))
                 /\ at \in {"create_r_restore", "idle"} => r \in BOOLEAN /\ (r => b = c.from)
                 /\ s < 2 => Reported(c, at, b, r, s)'
    <2>1. at \in CreateRSteps \cup {"idle"} => at # "create_restore"
      BY DEF CreateRSteps
    <2>2. Located(t)'
      BY <1>2, <1>3, <1>4, <1>8, <2>1 DEF Located, Making
    <2>3. Reported(c, at, b, r, s)'
      BY <1>8 DEF Reported
    <2> QED
      BY <1>2, <1>3, <2>2, <2>3 DEF Reporting
  <1>12. ASSUME fs' = fs, Fine(c) PROVE Fine(c)'
    <2>1. Untouched(c.from) /\ \A w \in Threads : Located(w)
      BY <1>12 DEF Untouched, ReportInv
    <2> QED
      BY <1>1, <1>3, <1>4, <1>12, <2>1, FineStays
  <1>9. CASE CreateRBegin(t)
    <2>1. at = "create_r_exist" /\ b = Cut(c.from, 1)
      BY <1>1, <1>2, <1>9 DEF CreateRBegin, SetMask, CutAt, Cut, Shapes
    <2>2. 1 \in 1 .. Len(c.from)
      BY <1>4 DEF Paths
    <2>3. Len(b) = 1
      BY <1>4, <2>1, <2>2, Cuts
    <2>4. LowerDirs(c.from, 1)'
      BY DEF LowerDirs
    <2> QED
      BY <2>1, <2>2, <2>3, <2>4 DEF Reported, CreateRSteps
  <1>10. CASE CreateRExist(t) \/ CreateRMkdir(t)
    <2>1. pc[t] \in {"create_r_exist", "create_r_mkdir"}
      BY <1>10 DEF CreateRExist, CreateRMkdir
    <2>2. PICK k \in 1 .. Len(c.from) : k = Len(path[t]) /\ path[t] = Cut(c.from, k)
      BY <1>1, <1>2, <1>3, <2>1 DEF Located, Making
    <2>3. Len(c.from) \in Nat /\ Cut(c.from, Len(c.from)) = c.from
      BY <1>4, <2>2, Cuts
    <2>4. s < 2 => LowerDirs(c.from, k)
      BY <1>3, <1>5, <2>1, <2>2 DEF Reported
    <2>10. ASSUME NextLevel(t), s < 2 => (k < Len(c.from) => LowerDirs(c.from, k + 1)'),
                  k = Len(c.from) => IsDir(c.from)'
           PROVE  /\ at \in CreateRSteps \cup {"idle"}
                  /\ at \in {"create_r_exist", "create_r_mkdir"} =>
                       Len(b) \in 1 .. Len(c.from) /\ b = Cut(c.from, Len(b))
                  /\ at \in {"create_r_restore", "idle"} => r \in BOOLEAN /\ (r => b = c.from)
                  /\ s < 2 => Reported(c, at, b, r, s)'
      <3>1. c = call[t] /\ path[t] = Cut(c.from, k) /\ at = pc'[t] /\ b = path'[t] /\ r = ret'[t]
        BY <1>2, <2>2
      <3>2. GoneOn(c, k, at, b, r, s)
        BY <1>1, <1>4, <2>10, <3>1, NextLevelReport
      <3> QED
        BY <2>10, <3>2 DEF GoneOn, CreateRSteps
    <2>5. CASE CreateRExist(t) /\ IsDir(path[t])
      <3>1. fs' = fs /\ NextLevel(t)
        BY <2>5 DEF CreateRExist, kernelVars
      <3>2. k = Len(c.from) => IsDir(c.from)'
        BY <1>6, <2>2, <2>3, <2>5, <3>1
      <3>3. s < 2 /\ k < Len(c.from) => LowerDirs(c.from, k + 1)'
        <4>1. Cut(c.from, k) \in DOMAIN fs /\ fs[Cut(c.from, k)].kind = "dir"
          BY <2>2, <2>5 DEF IsDir, Stat
        <4>2. \A i \in 1 .. (k + 1) - 1 : i \in 1 .. k - 1 \/ i = k
          BY <2>2
        <4> QED
          BY <2>4, <3>1, <4>1, <4>2 DEF LowerDirs
      <3> QED
        BY <2>10, <3>1, <3>2, <3>3
    <2>6. CASE CreateRExist(t) /\ ~IsDir(path[t])
      <3>1. fs' = fs /\ at = "create_r_mkdir" /\ b = path[t]
        BY <1>1, <1>2, <2>6 DEF CreateRExist, kernelVars, Shapes
      <3>2. s < 2 => b \notin DOMAIN fs' \/ Fine(c)'
        <4> SUFFICES ASSUME s < 2, b \in DOMAIN fs PROVE Fine(c)'
          BY <3>1
        <4>1. ~MkdirOk(b)
          BY DEF MkdirOk
        <4>2. Obstructed(c)
          BY <1>4, <2>2, <2>4, <2>6, <3>1, <4>1, Blocked
        <4> QED
          BY <1>6, <1>7, <3>1, <4>2
      <3>3. ~IsDir(b)'
        BY <1>3, <2>6, <3>1 DEF IsDir, Stat, Reach, Passable
      <3>4. s < 2 => LowerDirs(c.from, Len(b))'
        BY <1>6, <2>2, <2>4, <3>1
      <3> QED
        BY <2>2, <3>1, <3>2, <3>3, <3>4 DEF Reported, CreateRSteps
    <2>7. CASE CreateRMkdir(t) /\ MkdirOk(path[t])
      <3>1. NextLevel(t) /\ fs' = Mkdir(Cut(c.from, k)) /\ MkdirOk(Cut(c.from, k))
        BY <2>2, <2>7 DEF CreateRMkdir
      <3>2. /\ k < Len(c.from) => LowerDirs(c.from, k + 1)'
            /\ k = Len(c.from) => IsDir(c.from)'
        BY <1>3, <1>4, <3>1, MkdirMakes
      <3> QED
        BY <2>10, <3>1, <3>2
    <2>8. CASE CreateRMkdir(t) /\ ~MkdirOk(path[t])
      <3>1. /\ fs' = fs /\ pc[t] = "create_r_mkdir"
            /\ at = "create_r_restore" /\ r = FALSE
        BY <1>1, <1>2, <2>8 DEF CreateRMkdir, Mkdir, Shapes
      <3>2. ASSUME s < 2, ~IsDir(path[t]) PROVE Obstructed(c)' /\ ~IsDir(c.from)'
        <4>1. Obstructed(c) /\ ~IsDir(c.from)
          BY <1>4, <2>2, <2>4, <2>8, <3>2, Blocked
        <4> QED
          BY <1>6, <3>1, <4>1
      <3>3. ASSUME s < 2 PROVE Fine(c)'
        <4>1. CASE path[t] \in DOMAIN fs
          <5>1. Fine(c)
            BY <1>3, <1>5, <3>1, <3>3, <4>1 DEF Reported
          <5> QED
            BY <1>12, <3>1, <5>1
        <4>2. CASE path[t] \notin DOMAIN fs
          BY <1>7, <3>2, <3>3, <4>2 DEF IsDir, Stat
        <4> QED
          BY <4>1, <4>2
      <3>4. s = 0 => ~IsDir(path[t])
        BY <1>3, <1>5, <3>1 DEF Reported
      <3> QED
        BY <3>1, <3>2, <3>3, <3>4 DEF Reported, CreateRSteps
    <2> QED
      BY <1>10, <2>5, <2>6, <2>7, <2>8
  <1>11. CASE RestoreMask(t, "create_r_restore", "idle") /\ UNCHANGED directoryVars
    <2>1. fs' = fs /\ pc[t] = "create_r_restore" /\ at = "idle" /\ r = ret[t] /\ b = path[t]
      BY <1>1, <1>2, <1>11 DEF RestoreMask, Shapes, directoryVars
    <2>2. r \in BOOLEAN /\ (r => b = c.from)
      BY <1>1, <1>2, <1>3, <2>1 DEF Located, Making
    <2>3. s < 2 => Reported(c, at, b, r, s)'
      BY <1>3, <1>5, <1>6, <1>12, <2>1 DEF Reported
    <2> QED
      BY <2>1, <2>2, <2>3 DEF CreateRSteps
  <1> QED
    BY <1>9, <1>10, <1>11 DEF Create_r

\* A thread that begins a call has found out nothing, and disturbs nobody.
LEMMA StartReports ==
    ASSUME ReportInv, NEW u \in Threads, Start(u)
    PROVE  ReportInv'
  <1>1. Shapes /\ \A t \in Threads : Located(t) /\ Reporting(t)
    BY DEF ReportInv
  <1>2. PICK op, from, to, first :
          /\ Begin(u, op, from, to, first)
          /\ op = "Create" => from \in DirPaths /\ first = "create_exist"
          /\ op = "Create_r" => from \in DirPaths /\ first = "create_r_umask"
    BY DEF Start, BeginDirectory, BeginFile
  <1>3. /\ path' = path /\ fs' = fs /\ privileged' = privileged /\ ret' = ret /\ pc[u] = "idle"
        /\ pc' = [pc EXCEPT ![u] = first]
        /\ call' = [call EXCEPT ![u] = [op |-> op, from |-> from, to |-> to]]
    BY <1>2 DEF Start, BeginDirectory, BeginFile, Begin, Goto, directoryVars
  <1>4. /\ seen' \in [Threads -> 0 .. 2]
        /\ \A t \in Threads : t # u => seen'[t] \in {seen[t], 2}
        /\ seen'[u] = 0
    <2>1. seen' = [t \in Threads |-> IF t = u THEN 0
                                     ELSE IF seen[t] = 1 /\ call[t] = call[u] THEN 2 ELSE seen[t]]
      BY <1>1 DEF Start
    <2>2. \A t \in Threads : seen[t] \in 0 .. 2
      BY <1>1 DEF Shapes
    <2> QED
      BY <2>1, <2>2
  <1>5. Shapes'
    BY <1>1, <1>3, <1>4 DEF Shapes
  <1>6. Located(u)' /\ Reporting(u)'
    <2>1. pc'[u] = first /\ call'[u] = [op |-> op, from |-> from, to |-> to]
      BY <1>1, <1>3 DEF Shapes
    <2>2. op \in {"Create", "Create_r"} => from \in Paths
      BY <1>2, DirectoryAssumption
    <2>3. Located(u)'
      BY <1>2, <2>1, <2>2 DEF Located, Making, CreateSteps, CreateRSteps
    <2>4. PICK c, at, b, r, s : c = call'[u] /\ at = pc'[u] /\ b = path'[u] /\ r = ret'[u] /\ s = seen'[u]
      OBVIOUS
    <2>5. c.op = op /\ at = first
      BY <2>1, <2>4
    <2>6. Reported(c, at, b, r, s)'
      BY <1>2, <2>5 DEF Reported
    <2> QED
      BY <2>3, <2>4, <2>6 DEF Reporting
  <1>7. ASSUME NEW t \in Threads, t # u PROVE Located(t)' /\ Reporting(t)'
    <2>1. pc'[t] = pc[t] /\ call'[t] = call[t] /\ path'[t] = path[t] /\ ret'[t] = ret[t]
      BY <1>1, <1>3, <1>7 DEF Shapes
    <2>2. Located(t)'
      BY <1>1, <1>7, <2>1 DEF Located, Making
    <2>3. PICK c, at, b, r, s, v :
            /\ c = call[t] /\ at = pc[t] /\ b = path[t] /\ r = ret[t] /\ s = seen[t] /\ v = seen'[t]
      OBVIOUS
    <2>4. Reported(c, at, b, r, s) /\ v \in {s, 2}
      BY <1>1, <1>4, <1>7, <2>3 DEF Reporting
    <2>5. ASSUME Fine(c) PROVE Fine(c)'
      <3>1. CASE IsDir(c.from) \/ Obstructed(c)
        BY <1>3, <3>1 DEF Fine, IsDir, Stat, Reach, Passable, Obstructed
      <3>2. CASE \E w \in Threads : call[w] = c /\ Maker(w)
        <4>1. PICK w \in Threads : call[w] = c /\ Maker(w)
          BY <3>2
        <4>2. w # u
          BY <1>3, <4>1 DEF Maker
        <4>3. pc'[w] = pc[w] /\ call'[w] = call[w] /\ path'[w] = path[w]
          BY <1>1, <1>3, <4>2 DEF Shapes
        <4>4. Maker(w)'
          BY <1>3, <4>1, <4>3 DEF Maker, LowerDirs
        <4> QED
          BY <4>1, <4>3, <4>4 DEF Fine
      <3> QED
        BY <2>5, <3>1, <3>2 DEF Fine
    <2>6. Reported(c, at, b, r, v)'
      <3>1. \A q : IsDir(q) <=> IsDir(q)'
        BY <1>3 DEF IsDir, Stat, Reach, Passable
      <3>2. Obstructed(c) => Obstructed(c)'
        BY <1>3 DEF Reach, Passable, Obstructed
      <3>3. LowerDirs(c.from, Len(b)) => LowerDirs(c.from, Len(b))'
        BY <1>3 DEF LowerDirs
      <3> QED
        BY <1>3, <2>4, <2>5, <3>1, <3>2, <3>3 DEF Reported
    <2> QED
      BY <2>1, <2>2, <2>3, <2>6 DEF Reporting
  <1> QED
    BY <1>5, <1>6, <1>7 DEF ReportInv

\* A step inside a call.
LEMMA StepReports ==
    ASSUME ReportInv, NEW u \in Threads, Step(u)
    PROVE  ReportInv'
  <1>1. Shapes /\ Located(u)
    BY DEF ReportInv
  <1>2. Alone(u)
    BY <1>1, StepAlone
  <1>3. /\ seen' = [t \in Threads |-> seen'[t]]
        /\ \A t \in Threads : seen'[t] \in {seen[t], 1, 2}
        /\ seen'[u] = seen[u]
    BY DEF Step, Recorded
  <1>4. Shapes'
    BY <1>1, <1>2, <1>3 DEF Shapes, Alone
  <1>5. Located(u)' /\ Reporting(u)'
    <2>1. CASE call[u].op = "Create"
      BY <1>1, <1>2, <1>3, <2>1, MakingStep, CreateReport DEF Making
    <2>2. CASE call[u].op = "Create_r"
      BY <1>1, <1>2, <1>3, <2>2, MakingStep, CreateRReport DEF Making
    <2>3. CASE ~Making(u)
      <3>1. ~Making(u)' /\ call'[u].op = call[u].op
        BY <1>2, <2>3 DEF Alone, Making
      <3> QED
        BY <2>3, <3>1 DEF Located, Reporting, Reported, Making
    <2> QED
      BY <2>1, <2>2, <2>3 DEF Making
  <1>6. ASSUME NEW t \in Threads, t # u PROVE Located(t)' /\ Reporting(t)'
    BY <1>6, OthersReport
  <1> QED
    BY <1>4, <1>5, <1>6 DEF ReportInv

\* The invariant of Create and Create_r.
LEMMA ReportInvariant == Spec => []ReportInv
  <1>1. Init => ReportInv
    <2> SUFFICES ASSUME Init PROVE ReportInv
      OBVIOUS
    <2>1. /\ call = [t \in Threads |-> [op |-> "none", from |-> <<>>, to |-> <<>>]]
          /\ pc = [t \in Threads |-> "idle"] /\ ret = [t \in Threads |-> FALSE]
          /\ path = [t \in Threads |-> <<>>] /\ seen = [t \in Threads |-> 0]
      BY DEF Init, InitSystem, InitDirectory
    <2>2. \A t \in Threads : call[t].op = "none"
      BY <2>1
    <2> QED
      BY <2>1, <2>2 DEF ReportInv, Shapes, Located, Making, Reporting, Reported
  <1>2. ReportInv /\ [Next]_vars => ReportInv'
    <2> SUFFICES ASSUME ReportInv, [Next]_vars PROVE ReportInv'
      OBVIOUS
    <2>1. ASSUME NEW t \in Threads, Start(t) \/ Step(t) PROVE ReportInv'
      BY <2>1, StartReports, StepReports
    <2>2. CASE UNCHANGED vars
      <3>1. UNCHANGED <<fs, privileged, call, pc, ret, path, seen>>
        BY <2>2 DEF vars, kernelVars, threadVars, directoryVars
      <3> QED
        BY <3>1 DEF ReportInv, Shapes, Located, Making, Reporting, Reported, Fine, Maker, LowerDirs, IsDir, Stat,
               Reach, Passable, Obstructed
    <2> QED
      BY <2>1, <2>2 DEF Next
  <1> QED
    BY <1>1, <1>2, PTL DEF Spec

(***************************************************************************)
(* Create and Create_r report what happened (directory.cpp:28-74), for any *)
(* threads, trees and calls: alone, a call returns true exactly when the   *)
(* directory is there and false only behind an obstruction; threads that   *)
(* make the same directory at once make it between them.                   *)
(***************************************************************************)
THEOREM CreateReportsHolds == Spec => []CreateReports
  <1>1. ReportInv => CreateReports
    <2> SUFFICES ASSUME ReportInv, NEW t \in Threads, Returned(t), call[t].op \in {"Create", "Create_r"}
                 PROVE  /\ call[t].op = "Create_r" /\ ret[t] => path[t] = call[t].from
                        /\ seen[t] = 0 => /\ ret[t] <=> IsDir(call[t].from)
                                          /\ ~ret[t] => Obstructed(call[t])
                        /\ seen[t] = 1 => /\ ret[t] => IsDir(call[t].from)
                                          /\ Settled(t) => IsDir(call[t].from) \/ Obstructed(call[t])
      BY DEF CreateReports
    <2>1. Located(t) /\ Reporting(t) /\ pc[t] = "idle"
      BY DEF ReportInv, Returned
    <2>2. ret[t] \in BOOLEAN /\ (call[t].op = "Create_r" /\ ret[t] => path[t] = call[t].from)
      BY <2>1 DEF Located, Making
    <2>3. seen[t] < 2 =>
            /\ ret[t] => IsDir(call[t].from)
            /\ ~ret[t] => Fine(call[t])
            /\ seen[t] = 0 /\ ~ret[t] => ~IsDir(call[t].from) /\ Obstructed(call[t])
      BY <2>1 DEF Reporting, Reported
    <2>4. Settled(t) /\ Fine(call[t]) => IsDir(call[t].from) \/ Obstructed(call[t])
      BY DEF Settled, Fine, Maker
    <2> QED
      BY <2>2, <2>3, <2>4
  <1> QED
    BY <1>1, ReportInvariant, PTL

-----------------------------------------------------------------------------
(***************************************************************************)
(* The tree.  Everything in it stands in directories, whatever is made,    *)
(* removed or moved, and what must not be searched stays empty.            *)
(***************************************************************************)
\* The names of p are the first ones of q.
Begins(p, q) == \A i \in 1 .. Len(p) : p[i] = q[i]

\* One path above another, name by name.
LEMMA PathOrder ==
    ASSUME NEW p \in Paths, NEW q \in Paths
    PROVE  /\ Len(p) \in Nat \ {0} /\ Len(q) \in Nat \ {0}
           /\ IsPrefix(p, q) <=> Len(p) <= Len(q) /\ Begins(p, q)
           /\ IsStrictPrefix(p, q) <=> Len(p) < Len(q) /\ Begins(p, q)
           /\ IsStrictPrefix(p, q) <=> p \in Parents(q)
  <1>1. /\ p \in Seq(Names) /\ q \in Seq(Names) /\ Len(p) \in Nat \ {0} /\ Len(q) \in Nat \ {0}
    BY DEF Paths
  <1>2. SubSeq(p, 1, Len(p)) = p
    BY <1>1
  <1>3. ASSUME Len(p) <= Len(q)
        PROVE  SubSeq(p, 1, Len(p)) = SubSeq(q, 1, Len(p)) <=> Begins(p, q)
    <2>1. PICK r : r = SubSeq(q, 1, Len(p))
      OBVIOUS
    <2>2. r \in Seq(Names) /\ Len(r) = Len(p) /\ \A i \in 1 .. Len(p) : r[i] = q[i]
      BY <1>1, <1>3, <2>1
    <2>3. p = r <=> \A i \in 1 .. Len(p) : p[i] = r[i]
      BY <1>1, <2>2
    <2> QED
      BY <1>2, <2>1, <2>2, <2>3 DEF Begins
  <1>4. IsPrefix(p, q) <=> Len(p) <= Len(q) /\ Begins(p, q)
    BY <1>3 DEF IsPrefix
  <1>5. Len(p) = Len(q) /\ Begins(p, q) => p = q
    BY <1>1 DEF Begins
  <1>6. IsStrictPrefix(p, q) <=> Len(p) < Len(q) /\ Begins(p, q)
    BY <1>1, <1>4, <1>5 DEF IsStrictPrefix
  <1>7. ASSUME IsStrictPrefix(p, q) PROVE p \in Parents(q)
    <2>1. IsPrefix(p, q) /\ Len(p) < Len(q)
      BY <1>6, <1>7 DEF IsStrictPrefix
    <2>2. p = SubSeq(q, 1, Len(p)) /\ Len(p) \in 1 .. Len(q) - 1
      BY <1>1, <1>2, <2>1 DEF IsPrefix
    <2> QED
      BY <2>2 DEF Parents
  <1>8. ASSUME p \in Parents(q) PROVE IsStrictPrefix(p, q)
    <2>1. PICK i \in 1 .. Len(q) - 1 : p = SubSeq(q, 1, i)
      BY <1>8 DEF Parents
    <2>2. Len(p) = i /\ \A j \in 1 .. i : p[j] = q[j]
      BY <1>1, <2>1
    <2> QED
      BY <1>1, <1>6, <2>1, <2>2 DEF Begins
  <1>9. IsStrictPrefix(p, q) <=> p \in Parents(q)
    BY <1>7, <1>8
  <1> QED
    BY <1>1, <1>4, <1>6, <1>9

\* The directories above an entry of a directory.
LEMMA Entries ==
    ASSUME NEW p \in Paths, NEW n \in Names
    PROVE  /\ Append(p, n) \in Paths /\ Len(Append(p, n)) = Len(p) + 1
           /\ Parents(Append(p, n)) = Parents(p) \cup {p}
           /\ \A m : Append(p, n) = Append(p, m) => n = m
  <1>1. p \in Seq(Names) /\ p # <<>> /\ Len(p) \in Nat \ {0}
    BY DEF Paths
  <1>2. PICK e : e = Append(p, n)
    OBVIOUS
  <1>3. e \in Seq(Names) /\ Len(e) = Len(p) + 1 /\ e[Len(p) + 1] = n /\ \A i \in 1 .. Len(p) : e[i] = p[i]
    BY <1>1, <1>2
  <1>4. e \in Paths
    BY <1>1, <1>3 DEF Paths
  <1>5. \A i \in 1 .. Len(p) : SubSeq(e, 1, i) = SubSeq(p, 1, i)
    <2> TAKE i \in 1 .. Len(p)
    <2>1. PICK a, b : a = SubSeq(e, 1, i) /\ b = SubSeq(p, 1, i)
      OBVIOUS
    <2>2. a \in Seq(Names) /\ Len(a) = i /\ \A j \in 1 .. i : a[j] = e[j]
      BY <1>1, <1>3, <2>1
    <2>3. b \in Seq(Names) /\ Len(b) = i /\ \A j \in 1 .. i : b[j] = p[j]
      BY <1>1, <2>1
    <2>4. \A j \in 1 .. i : a[j] = b[j]
      <3>1. \A j \in 1 .. i : e[j] = p[j]
        BY <1>1, <1>3
      <3> QED
        BY <2>2, <2>3, <3>1
    <2>5. a = b
      BY <2>2, <2>3, <2>4
    <2> QED
      BY <2>1, <2>5
  <1>6. SubSeq(p, 1, Len(p)) = p
    BY <1>1
  <1>7. \A i : i \in 1 .. Len(e) - 1 <=> i \in 1 .. Len(p) - 1 \/ i = Len(p)
    BY <1>1, <1>3
  <1>8. \A x : x \in Parents(e) <=> x \in Parents(p) \/ x = p
    BY <1>1, <1>5, <1>6, <1>7 DEF Parents
  <1>9. \A m : e = Append(p, m) => n = m
    <2> SUFFICES ASSUME NEW m, e = Append(p, m) PROVE n = m
      OBVIOUS
    <2>1. Append(p, m)[Len(p) + 1] = m
      BY <1>1
    <2> QED
      BY <1>3, <2>1
  <1> QED
    BY <1>2, <1>3, <1>4, <1>8, <1>9

\* What stands in a tree stands in directories of the tree.
LEMMA Standing ==
    ASSUME NEW f, Tree(f), NEW q \in DOMAIN f, NEW p \in Paths, IsStrictPrefix(p, q)
    PROVE  p \in DOMAIN f /\ f[p].kind = "dir" /\ q \in Paths
  <1>1. q \in Paths
    BY DEF Tree
  <1>2. p \in Parents(q)
    BY <1>1, PathOrder
  <1> QED
    BY <1>1, <1>2 DEF Tree

\* A directory that lists nothing is empty.
LEMMA ListsAll ==
    ASSUME Tree(fs), NEW p \in Paths, Listing(p) = {}
    PROVE  Empty(p)
  <1> SUFFICES ASSUME NEW q \in DOMAIN fs, IsStrictPrefix(p, q) PROVE FALSE
    BY DEF Empty
  <1>1. q \in Paths
    BY DEF Tree
  <1>2. /\ Len(p) \in Nat \ {0} /\ Len(q) \in Nat \ {0} /\ Len(p) < Len(q) /\ Begins(p, q)
    BY <1>1, PathOrder
  <1>3. q \in Seq(Names) /\ p \in Seq(Names) /\ q[Len(p) + 1] \in Names
    BY <1>1, <1>2 DEF Paths
  <1>4. PICK e : e = Append(p, q[Len(p) + 1])
    OBVIOUS
  <1>5. e \in Paths
    BY <1>3, <1>4, Entries
  <1>6. Len(e) = Len(p) + 1 /\ \A i \in 1 .. Len(p) + 1 : e[i] = q[i]
    BY <1>2, <1>3, <1>4 DEF Begins
  <1>7. e \notin DOMAIN fs
    BY <1>3, <1>4 DEF Listing
  <1>8. CASE Len(q) = Len(p) + 1
    <2>1. e = q
      BY <1>3, <1>5, <1>6, <1>8 DEF Paths
    <2> QED
      BY <1>7, <2>1
  <1>9. CASE Len(q) # Len(p) + 1
    <2>1. IsStrictPrefix(e, q)
      BY <1>1, <1>2, <1>5, <1>6, <1>9, PathOrder DEF Begins
    <2> QED
      BY <1>5, <1>7, <2>1, Standing
  <1> QED
    BY <1>8, <1>9

TreeInv == Tree(fs) /\ (~privileged => LockedEmpty(fs))

\* Something is made, or takes the place of a file.
LEMMA MadeTree ==
    ASSUME TreeInv, NEW p \in Paths, Reach(p), p \in DOMAIN fs => fs[p].kind # "dir", NEW node,
           \/ node = Dir(FALSE) /\ p \notin DOMAIN fs
           \/ \E ino \in Inodes : node = Regular(ino),
           fs' = With(p, node), privileged' = privileged
    PROVE  TreeInv'
  <1>1. Tree(fs)
    BY DEF TreeInv
  <1>2. PICK f : f = fs'
    OBVIOUS
  <1>3. DOMAIN f = DOMAIN fs \cup {p} /\ f[p] = node /\ \A q \in DOMAIN fs \ {p} : f[q] = fs[q]
    BY <1>2 DEF With
  <1>7. f = [q \in DOMAIN f |-> f[q]]
    BY <1>2 DEF With
  <1>4. Tree(f)
    <2>1. DOMAIN f \subseteq Paths
      BY <1>1, <1>3 DEF Tree
    <2>2. ASSUME NEW q \in DOMAIN f
          PROVE  f[q] \in Nodes
      BY <1>1, <1>3 DEF Tree, Nodes
    <2>3. ASSUME NEW q \in DOMAIN f, NEW r \in Parents(q) PROVE r \in DOMAIN f /\ f[r].kind = "dir"
      <3>1. r \in DOMAIN fs /\ fs[r].kind = "dir" /\ r # p
        <4>1. CASE q = p
          <5>1. r \in DOMAIN fs /\ fs[r].kind = "dir"
            BY <2>3, <4>1 DEF Reach, Passable
          <5>2. r \in Paths
            BY <1>1, <5>1 DEF Tree
          <5>3. r # p
            BY <2>3, <4>1, <5>2, PathOrder
          <5> QED
            BY <5>1, <5>3
        <4>2. CASE q # p
          BY <1>1, <1>3, <2>3, <4>2 DEF Tree
        <4> QED
          BY <4>1, <4>2
      <3> QED
        BY <1>3, <3>1
    <2> QED
      BY <1>7, <2>1, <2>2, <2>3 DEF Tree
  <1>5. ASSUME ~privileged, NEW a \in DOMAIN f, NEW b \in DOMAIN f, f[a] = Dir(FALSE), IsStrictPrefix(a, b)
        PROVE  FALSE
    <2>1. a \in Paths /\ b \in Paths
      BY <1>4 DEF Tree
    <2>2. CASE a = p
      <3>1. p \notin DOMAIN fs
        BY <1>3, <1>5, <2>2 DEF Dir, Regular
      <3>2. b # p
        BY <1>5, <2>2 DEF IsStrictPrefix
      <3>3. b \in DOMAIN fs
        BY <1>3, <3>2
      <3> QED
        BY <1>1, <1>5, <2>2, <3>1, <3>3, Standing
    <2>3. CASE a # p /\ b = p
      <3>1. a \in Parents(p)
        BY <1>5, <2>1, <2>3, PathOrder
      <3>2. a \in DOMAIN fs /\ fs[a].search
        BY <1>5, <3>1 DEF Reach, Passable
      <3> QED
        BY <1>3, <1>5, <2>3, <3>2 DEF Dir
    <2>4. CASE a # p /\ b # p
      BY <1>3, <1>5, <2>4 DEF TreeInv, LockedEmpty
    <2> QED
      BY <2>2, <2>3, <2>4
  <1>6. ~privileged => LockedEmpty(f)
    BY <1>5 DEF LockedEmpty
  <1> QED
    BY <1>2, <1>4, <1>6 DEF TreeInv

\* A file or an empty directory is removed.
LEMMA RemovedTree ==
    ASSUME TreeInv, NEW p \in DOMAIN fs, fs[p].kind = "file" \/ Empty(p),
           fs' = Without(p), privileged' = privileged
    PROVE  TreeInv'
  <1>1. Tree(fs)
    BY DEF TreeInv
  <1>2. PICK f : f = fs'
    OBVIOUS
  <1>3. DOMAIN f = DOMAIN fs \ {p} /\ \A q \in DOMAIN f : f[q] = fs[q]
    BY <1>2 DEF Without
  <1>7. f = [q \in DOMAIN f |-> f[q]]
    BY <1>2 DEF Without
  <1>4. ASSUME NEW q \in DOMAIN f, NEW r \in Parents(q) PROVE r \in DOMAIN f /\ f[r].kind = "dir"
    <2>1. r \in DOMAIN fs /\ fs[r].kind = "dir" /\ r \in Paths /\ q \in Paths
      BY <1>1, <1>3, <1>4, <1>7 DEF Tree
    <2>2. r # p
      <3> SUFFICES ASSUME r = p PROVE FALSE
        OBVIOUS
      <3>1. IsStrictPrefix(p, q)
        BY <1>4, <2>1, PathOrder
      <3> QED
        BY <1>3, <2>1, <3>1 DEF Empty
    <2> QED
      BY <1>3, <2>1, <2>2
  <1>5. Tree(f)
    BY <1>1, <1>3, <1>4, <1>7 DEF Tree
  <1>6. ~privileged => LockedEmpty(f)
    BY <1>3 DEF TreeInv, LockedEmpty
  <1> QED
    BY <1>2, <1>5, <1>6 DEF TreeInv

\* Name by name, what Renamed(from, to, q) is.
Carries(from, to, q, r) ==
    /\ Len(r) = Len(to) + Len(q) - Len(from)
    /\ \A i \in 1 .. Len(to) : r[i] = to[i]
    /\ \A i \in 1 .. Len(q) - Len(from) : r[Len(to) + i] = q[Len(from) + i]

\* A path taken from one directory to another keeps the names below it, and comes back.
LEMMA RenamedPath ==
    ASSUME NEW from \in Paths, NEW to \in Paths, NEW q \in Paths, IsPrefix(from, q),
           NEW r, r = Renamed(from, to, q)
    PROVE  /\ r \in Paths /\ IsPrefix(to, r) /\ Carries(from, to, q, r)
           /\ Renamed(to, from, r) = q
  <1>1. /\ from \in Seq(Names) /\ to \in Seq(Names) /\ q \in Seq(Names)
        /\ Len(from) \in Nat \ {0} /\ Len(to) \in Nat \ {0} /\ Len(q) \in Nat \ {0}
    BY DEF Paths
  <1>2. Len(from) <= Len(q) /\ \A i \in 1 .. Len(from) : from[i] = q[i]
    BY PathOrder DEF Begins
  <1>3. PICK s : s = SubSeq(q, Len(from) + 1, Len(q))
    OBVIOUS
  <1>4. s \in Seq(Names) /\ Len(s) = Len(q) - Len(from) /\ \A i \in 1 .. Len(s) : s[i] = q[Len(from) + i]
    BY <1>1, <1>2, <1>3
  <1>5. r = to \o s
    BY <1>3 DEF Renamed
  <1>6. /\ r \in Seq(Names) /\ Len(r) = Len(to) + Len(s)
        /\ \A i \in 1 .. Len(to) : r[i] = to[i]
        /\ \A i \in 1 .. Len(s) : r[Len(to) + i] = s[i]
    <2>1. s \in Seq(Names) /\ to \in Seq(Names)
      BY <1>1, <1>4
    <2> QED
      BY <1>5, <2>1
  <1>7. r \in Paths /\ Len(r) = Len(to) + Len(q) - Len(from)
    <2>1. Len(s) \in Nat /\ Len(r) = Len(to) + Len(q) - Len(from) /\ Len(r) # 0
      BY <1>1, <1>2, <1>4, <1>6
    <2>2. r # <<>>
      BY <2>1
    <2> QED
      BY <1>6, <2>1, <2>2 DEF Paths
  <1>8. \A i \in 1 .. Len(q) - Len(from) : r[Len(to) + i] = q[Len(from) + i]
    BY <1>4, <1>6
  <1>9. IsPrefix(to, r)
    BY <1>1, <1>4, <1>6, <1>7, PathOrder DEF Begins
  <1>10. Renamed(to, from, r) = q
    <2>1. PICK v : v = SubSeq(r, Len(to) + 1, Len(r))
      OBVIOUS
    <2>9. Len(s) \in Nat /\ Len(r) = Len(to) + Len(s)
      BY <1>4, <1>6
    <2>2. v \in Seq(Names) /\ Len(v) = Len(s) /\ \A i \in 1 .. Len(s) : v[i] = r[Len(to) + i]
      BY <1>1, <1>6, <2>1, <2>9
    <2>3. \A i \in 1 .. Len(s) : v[i] = s[i]
      BY <1>6, <2>2
    <2>4. v = s
      <3>1. v \in Seq(Names) /\ s \in Seq(Names) /\ Len(v) = Len(s)
        BY <1>4, <2>2
      <3> QED
        BY <2>3, <3>1
    <2>5. PICK w : w = from \o s
      OBVIOUS
    <2>6. w \in Seq(Names) /\ Len(w) = Len(q)
      BY <1>1, <1>2, <1>4, <2>5
    <2>7. ASSUME NEW i \in 1 .. Len(q) PROVE w[i] = q[i]
      <3>1. CASE i <= Len(from)
        BY <1>1, <1>2, <1>4, <2>5, <3>1
      <3>2. CASE i > Len(from)
        <4>1. w[i] = s[i - Len(from)] /\ i - Len(from) \in 1 .. Len(s)
          BY <1>1, <1>2, <1>4, <2>5, <3>2
        <4>2. s[i - Len(from)] = q[(i - Len(from)) + Len(from)] /\ (i - Len(from)) + Len(from) = i
          BY <1>1, <1>4, <4>1
        <4> QED
          BY <4>1, <4>2
      <3> QED
        BY <1>1, <3>1, <3>2
    <2>8. w = q
      BY <1>1, <2>6, <2>7
    <2> QED
      BY <2>1, <2>4, <2>5, <2>8 DEF Renamed
  <1> QED
    BY <1>6, <1>7, <1>8, <1>9, <1>10 DEF Carries

\* What is made below to, and what was below from, in the same place.
LEMMA RenamedParents ==
    ASSUME NEW from \in Paths, NEW to \in Paths, NEW q \in Paths, IsPrefix(from, q),
           NEW x \in Parents(Renamed(from, to, q))
    PROVE  \/ x \in Parents(to)
           \/ \E y \in Parents(q) : y \in Paths /\ IsPrefix(from, y) /\ x = Renamed(from, to, y)
  <1>1. PICK r : r = Renamed(from, to, q)
    OBVIOUS
  <1>2. /\ r \in Paths /\ Len(r) = Len(to) + Len(q) - Len(from)
        /\ \A i \in 1 .. Len(to) : r[i] = to[i]
        /\ \A i \in 1 .. Len(q) - Len(from) : r[Len(to) + i] = q[Len(from) + i]
    <2>1. r \in Paths /\ Carries(from, to, q, r)
      BY <1>1, RenamedPath
    <2> QED
      BY <2>1 DEF Carries
  <1>3. /\ from \in Seq(Names) /\ to \in Seq(Names) /\ q \in Seq(Names) /\ r \in Seq(Names)
        /\ Len(from) \in Nat \ {0} /\ Len(to) \in Nat \ {0} /\ Len(q) \in Nat \ {0} /\ Len(r) \in Nat \ {0}
    BY <1>2 DEF Paths
  <1>4. Len(from) <= Len(q) /\ \A i \in 1 .. Len(from) : from[i] = q[i]
    BY PathOrder DEF Begins
  <1>5. PICK k \in 1 .. Len(r) - 1 : x = SubSeq(r, 1, k)
    BY <1>1 DEF Parents
  <1>6. x \in Paths /\ Len(x) = k /\ \A i \in 1 .. k : x[i] = r[i]
    <2>1. x \in Seq(Names) /\ Len(x) = k /\ \A i \in 1 .. k : x[i] = r[i]
      BY <1>3, <1>5
    <2>2. x # <<>>
      BY <2>1
    <2> QED
      BY <2>1, <2>2 DEF Paths
  <1>7. CASE k < Len(to)
    <2>1. \A i \in 1 .. k : x[i] = to[i]
      BY <1>2, <1>3, <1>6, <1>7
    <2>2. IsStrictPrefix(x, to)
      BY <1>6, <1>7, <2>1, PathOrder DEF Begins
    <2> QED
      BY <1>6, <2>2, PathOrder
  <1>8. CASE k >= Len(to)
    <2>1. PICK m : m = k - Len(to) + Len(from)
      OBVIOUS
    <2>2. m \in 1 .. Len(q) - 1 /\ Len(from) <= m /\ k = Len(to) + (m - Len(from))
      BY <1>2, <1>3, <1>4, <1>5, <1>8, <2>1
    <2>3. PICK y : y = SubSeq(q, 1, m)
      OBVIOUS
    <2>4. y \in Seq(Names) /\ Len(y) = m /\ \A i \in 1 .. m : y[i] = q[i]
      BY <1>3, <2>2, <2>3
    <2>5. y # <<>>
      BY <2>2, <2>4
    <2>6. y \in Paths /\ y \in Parents(q)
      BY <2>2, <2>3, <2>4, <2>5 DEF Paths, Parents
    <2>7. IsPrefix(from, y)
      BY <1>3, <1>4, <2>2, <2>4, <2>6, PathOrder DEF Begins
    <2>8. PICK z : z = Renamed(from, to, y)
      OBVIOUS
    <2>9. /\ z \in Paths /\ Len(z) = Len(to) + m - Len(from)
          /\ \A i \in 1 .. Len(to) : z[i] = to[i]
          /\ \A i \in 1 .. m - Len(from) : z[Len(to) + i] = y[Len(from) + i]
      <3>1. z \in Paths /\ Carries(from, to, y, z)
        BY <2>6, <2>7, <2>8, RenamedPath
      <3> QED
        BY <2>4, <3>1 DEF Carries
    <2>10. Len(z) = k
      BY <1>3, <2>2, <2>9
    <2>11. ASSUME NEW i \in 1 .. k PROVE x[i] = z[i]
      <3>1. CASE i <= Len(to)
        BY <1>2, <1>3, <1>6, <1>8, <2>9, <3>1
      <3>2. CASE i > Len(to)
        <4>1. PICK j : j = i - Len(to)
          OBVIOUS
        <4>2. /\ j \in 1 .. m - Len(from) /\ j \in 1 .. Len(q) - Len(from) /\ i = Len(to) + j
              /\ Len(from) + j \in 1 .. m
          BY <1>3, <2>2, <2>11, <3>2, <4>1
        <4>3. z[i] = y[Len(from) + j] /\ r[i] = q[Len(from) + j]
          BY <1>2, <2>9, <4>2
        <4>4. y[Len(from) + j] = q[Len(from) + j]
          BY <2>4, <4>2
        <4> QED
          BY <1>6, <4>3, <4>4
      <3> QED
        BY <1>3, <3>1, <3>2
    <2>12. x = z
      BY <1>6, <2>9, <2>10, <2>11 DEF Paths
    <2> QED
      BY <2>6, <2>7, <2>8, <2>12
  <1> QED
    BY <1>3, <1>7, <1>8

\* A path above one that is above a third.
LEMMA PrefixChain ==
    ASSUME NEW p \in Paths, NEW q \in Paths, NEW r \in Paths, IsPrefix(p, q), IsPrefix(q, r)
    PROVE  IsPrefix(p, r) /\ (q # r => IsStrictPrefix(p, r))
  <1>1. /\ Len(p) \in Nat \ {0} /\ Len(q) \in Nat \ {0} /\ Len(r) \in Nat \ {0}
        /\ Len(p) <= Len(q) /\ Begins(p, q) /\ Len(q) <= Len(r) /\ Begins(q, r)
    BY PathOrder
  <1>2. Begins(p, r) /\ Len(p) <= Len(r)
    BY <1>1 DEF Begins
  <1>3. q # r => Len(q) < Len(r)
    BY <1>1, PathOrder DEF IsStrictPrefix
  <1> QED
    BY <1>1, <1>2, <1>3, PathOrder

\* What rename leaves alone, and what it moves.
Staying(from, to) == {q \in DOMAIN fs : ~IsPrefix(from, q) /\ q # to}
Moving(from) == {q \in DOMAIN fs : IsPrefix(from, q)}
MovedAs(from, to, f) ==
    /\ DOMAIN f = Staying(from, to) \cup {Renamed(from, to, q) : q \in Moving(from)}
    /\ \A q \in Staying(from, to) : f[q] = fs[q] /\ ~IsStrictPrefix(to, q)
    /\ \A q \in Moving(from) : f[Renamed(from, to, q)] = fs[q]

\* What rename makes of the tree: what is not moved stays, and nothing of it is where the
\* rest goes.
LEMMA MovedTo ==
    ASSUME Tree(fs), NEW from \in Paths, NEW to \in Paths, RenameOk(from, to), NEW f, f = Moved(from, to)
    PROVE  MovedAs(from, to, f)
  <1>7. PICK kept, below : kept = Staying(from, to) /\ below = Moving(from)
    OBVIOUS
  <1>1. ASSUME NEW q \in DOMAIN fs, IsStrictPrefix(to, q) PROVE IsPrefix(from, q)
    <2>1. CASE to \notin DOMAIN fs
      BY <1>1, <2>1, Standing
    <2>2. CASE from = to
      BY <1>1, <2>2 DEF IsStrictPrefix
    <2>3. CASE Empty(to)
      BY <1>1, <2>3 DEF Empty
    <2> QED
      BY <2>1, <2>2, <2>3 DEF RenameOk
  <1>8. kept = {q \in DOMAIN fs : ~IsPrefix(from, q) /\ q # to} /\ below = {q \in DOMAIN fs : IsPrefix(from, q)}
    BY <1>7 DEF Staying, Moving
  <1>2. PICK image : image = {Renamed(from, to, q) : q \in below}
    OBVIOUS
  <1>3. f = [q \in image \cup kept |-> IF q \in kept THEN fs[q] ELSE fs[Renamed(to, from, q)]]
    BY <1>2, <1>8 DEF Moved
  <1>4. ASSUME NEW q \in below PROVE Renamed(from, to, q) \notin kept /\ Renamed(to, from, Renamed(from, to, q)) = q
    <2>1. q \in Paths /\ q \in DOMAIN fs /\ IsPrefix(from, q)
      BY <1>4, <1>8 DEF Tree
    <2>2. PICK r : r = Renamed(from, to, q)
      OBVIOUS
    <2>3. r \in Paths /\ IsPrefix(to, r) /\ Renamed(to, from, r) = q
      BY <2>1, <2>2, RenamedPath
    <2>4. r \notin kept
      <3> SUFFICES ASSUME r \in kept PROVE FALSE
        OBVIOUS
      <3>1. r \in DOMAIN fs /\ ~IsPrefix(from, r) /\ r # to
        BY <1>8
      <3>2. IsStrictPrefix(to, r)
        BY <2>3, <3>1 DEF IsStrictPrefix
      <3> QED
        BY <1>1, <3>1, <3>2
    <2> QED
      BY <2>2, <2>3, <2>4
  <1>5. ASSUME NEW q \in kept PROVE f[q] = fs[q] /\ ~IsStrictPrefix(to, q)
    BY <1>1, <1>3, <1>5, <1>8
  <1>6. ASSUME NEW q \in below PROVE f[Renamed(from, to, q)] = fs[q]
    <2>1. Renamed(from, to, q) \in image
      BY <1>2
    <2> QED
      BY <1>3, <1>4, <2>1
  <1> QED
    BY <1>2, <1>3, <1>5, <1>6, <1>7 DEF MovedAs

\* Something is moved.
LEMMA MovedTree ==
    ASSUME TreeInv, NEW from \in Paths, NEW to \in Paths, RenameOk(from, to), fs' = Moved(from, to),
           privileged' = privileged
    PROVE  TreeInv'
  <1>1. Tree(fs)
    BY DEF TreeInv
  <1>2. PICK f : f = fs'
    OBVIOUS
  <1>3. PICK kept : kept = {q \in DOMAIN fs : ~IsPrefix(from, q) /\ q # to}
    OBVIOUS
  <1>4. PICK below : below = {q \in DOMAIN fs : IsPrefix(from, q)}
    OBVIOUS
  <1>5. /\ DOMAIN f = kept \cup {Renamed(from, to, q) : q \in below}
        /\ \A q \in kept : f[q] = fs[q] /\ ~IsStrictPrefix(to, q)
        /\ \A q \in below : f[Renamed(from, to, q)] = fs[q]
    <2>1. MovedAs(from, to, f)
      BY <1>1, <1>2, MovedTo
    <2>2. kept = Staying(from, to) /\ below = Moving(from)
      BY <1>3, <1>4 DEF Staying, Moving
    <2> QED
      BY <2>1, <2>2 DEF MovedAs
  <1>6. ASSUME NEW x \in DOMAIN f
        PROVE  /\ x \in Paths
               /\ f[x] \in Nodes
    <2>1. CASE x \in kept
      BY <1>1, <1>3, <1>5, <2>1 DEF Tree
    <2>2. CASE \E q \in below : x = Renamed(from, to, q)
      <3>1. PICK q \in below : x = Renamed(from, to, q)
        BY <2>2
      <3>2. q \in Paths /\ q \in DOMAIN fs /\ IsPrefix(from, q)
        BY <1>1, <1>4 DEF Tree
      <3>3. x \in Paths
        BY <3>1, <3>2, RenamedPath
      <3> QED
        BY <1>1, <1>5, <3>1, <3>2, <3>3 DEF Tree
    <2> QED
      BY <1>5, <2>1, <2>2
  <1>7. ASSUME NEW x \in DOMAIN fs, NEW r \in Parents(x)
        PROVE  /\ r \in DOMAIN fs /\ r \in Paths /\ x \in Paths /\ fs[r].kind = "dir" /\ IsStrictPrefix(r, x)
               /\ privileged \/ fs[r] # Dir(FALSE)
    <2>1. r \in DOMAIN fs /\ r \in Paths /\ x \in Paths /\ fs[r].kind = "dir"
      BY <1>1, <1>7 DEF Tree
    <2>2. IsStrictPrefix(r, x)
      BY <1>7, <2>1, PathOrder
    <2> QED
      BY <2>1, <2>2 DEF TreeInv, LockedEmpty
  <1>8. ASSUME NEW x \in DOMAIN f, NEW r \in Parents(x)
        PROVE  r \in DOMAIN f /\ f[r].kind = "dir" /\ (privileged \/ f[r] # Dir(FALSE))
    <2>1. CASE x \in kept
      <3>1. x \in DOMAIN fs /\ ~IsPrefix(from, x) /\ ~IsStrictPrefix(to, x)
        BY <1>3, <1>5, <2>1
      <3>2. /\ r \in DOMAIN fs /\ r \in Paths /\ x \in Paths /\ fs[r].kind = "dir" /\ IsStrictPrefix(r, x)
            /\ privileged \/ fs[r] # Dir(FALSE)
        BY <1>7, <1>8, <3>1
      <3>3. ~IsPrefix(from, r)
        BY <3>1, <3>2, PrefixChain DEF IsStrictPrefix
      <3>4. r \in kept
        BY <1>3, <3>1, <3>2, <3>3
      <3> QED
        BY <1>5, <3>2, <3>4
    <2>2. CASE \E q \in below : x = Renamed(from, to, q)
      <3>1. PICK q \in below : x = Renamed(from, to, q)
        BY <2>2
      <3>2. q \in Paths /\ q \in DOMAIN fs /\ IsPrefix(from, q)
        BY <1>1, <1>4 DEF Tree
      <3>3. CASE r \in Parents(to)
        <4>1. /\ r \in DOMAIN fs /\ fs[r].kind = "dir" /\ (privileged \/ fs[r].search)
              /\ r \in Paths /\ ~IsStrictPrefix(from, to)
          BY <1>1, <3>3 DEF RenameOk, Reach, Passable, Tree
        <4>2. IsStrictPrefix(r, to)
          BY <3>3, <4>1, PathOrder
        <4>3. r \in kept
          BY <1>3, <4>1, <4>2, PrefixChain DEF IsStrictPrefix
        <4> QED
          BY <1>5, <4>1, <4>3 DEF Dir
      <3>4. CASE \E y \in Parents(q) : y \in Paths /\ IsPrefix(from, y) /\ r = Renamed(from, to, y)
        <4>1. PICK y \in Parents(q) : y \in Paths /\ IsPrefix(from, y) /\ r = Renamed(from, to, y)
          BY <3>4
        <4>2. y \in DOMAIN fs /\ fs[y].kind = "dir" /\ (privileged \/ fs[y] # Dir(FALSE))
          BY <1>7, <3>2, <4>1
        <4>3. y \in below
          BY <1>4, <4>1, <4>2
        <4> QED
          BY <1>5, <4>1, <4>2, <4>3
      <3>5. r \in Parents(Renamed(from, to, q))
        BY <1>8, <3>1
      <3>6. \/ r \in Parents(to)
            \/ \E y \in Parents(q) : y \in Paths /\ IsPrefix(from, y) /\ r = Renamed(from, to, y)
        BY <3>2, <3>5, RenamedParents
      <3> QED
        BY <3>3, <3>4, <3>6
    <2> QED
      BY <1>5, <2>1, <2>2
  <1>12. f = [q \in DOMAIN f |-> f[q]]
    BY <1>2 DEF Moved
  <1>9. Tree(f)
    BY <1>6, <1>8, <1>12 DEF Tree
  <1>10. ASSUME ~privileged, NEW a \in DOMAIN f, NEW b \in DOMAIN f, f[a] = Dir(FALSE), IsStrictPrefix(a, b)
         PROVE  FALSE
    <2>1. a \in Parents(b)
      BY <1>6, <1>10, PathOrder
    <2> QED
      BY <1>8, <1>10, <2>1
  <1>11. ~privileged => LockedEmpty(f)
    BY <1>10 DEF LockedEmpty
  <1> QED
    BY <1>2, <1>9, <1>11 DEF TreeInv

\* Where the calls of Remove and of Copy are.
RemoveSteps == {"opendir", "readdir", "unlink_entry", "rmdir_entry"}
CopySteps ==
    {"umask_src", "open_src", "restore_src", "umask_dst", "open_dst", "restore_dst", "read", "write"}

\* The call that a thread is in, and the paths it is made with.
Called(t) ==
    /\ call[t].op # "none" => call[t].from \in Paths
    /\ call[t].op \in {"Copy", "Rename"} => call[t].to \in Paths
    /\ pc[t] # "idle" => call[t].op # "none"
    /\ pc[t] \in CreateSteps => call[t].op = "Create"
    /\ pc[t] \in CreateRSteps => call[t].op = "Create_r"
    /\ pc[t] \in RemoveSteps => call[t].op = "RemoveDir"
    /\ pc[t] \in CopySteps => call[t].op = "Copy"
    /\ pc[t] = "rename" => call[t].op = "Rename"
    /\ pc[t] = "unlink" => call[t].op = "RemoveFile"
CallInv == MaskTypes /\ ReportInv /\ \A t \in Threads : Called(t)

\* A step stays in its call, or ends it.
LEMMA StepCalled ==
    ASSUME Shapes, NEW u \in Threads, Called(u), Step(u)
    PROVE  Called(u)'
  <1> USE DEF CreateSteps, CreateRSteps, RemoveSteps, CopySteps, Goto, Return, RemoveReturns, CopyReturns
  <1>1. call' = call /\ DOMAIN pc = Threads
    BY StepAlone DEF Alone, Shapes
  <1>2. CASE Create(u)
    <2>1. pc[u] \in CreateSteps /\ pc'[u] \in CreateSteps \cup {"idle"}
      BY <1>1, <1>2 DEF Create, CreateExist, SetMask, CreateMkdir, RestoreMask
    <2> QED
      BY <1>1, <2>1 DEF Called
  <1>3. CASE Create_r(u)
    <2>1. pc[u] \in CreateRSteps /\ pc'[u] \in CreateRSteps \cup {"idle"}
      BY <1>1, <1>3 DEF Create_r, CreateRBegin, SetMask, CreateRExist, CreateRMkdir, RestoreMask, NextLevel
    <2> QED
      BY <1>1, <2>1 DEF Called
  <1>4. CASE RemoveTree(u)
    <2>1. pc[u] \in RemoveSteps /\ pc'[u] \in RemoveSteps \cup {"idle"}
      BY <1>1, <1>4 DEF RemoveTree, OpenDir, ReadEntry, ChangeTree, RemoveSelf
    <2> QED
      BY <1>1, <2>1 DEF Called
  <1>5. CASE RenameStep(u) \/ RemoveFile(u)
    <2>1. pc'[u] = "idle"
      BY <1>1, <1>5 DEF RenameStep, RemoveFile
    <2> QED
      BY <1>1, <2>1 DEF Called
  <1>6. CASE Copy(u)
    <2>1. pc[u] \in CopySteps /\ pc'[u] \in CopySteps \cup {"idle"}
      BY <1>1, <1>6 DEF Copy, SetMask, OpenSource, OpenDestination, CopyOpened, CopyRead, CopyReadError, CopyWrite
    <2> QED
      BY <1>1, <2>1 DEF Called
  <1> QED
    BY <1>2, <1>3, <1>4, <1>5, <1>6 DEF Step, DirectoryStep, FileStep

\* What a call begins with.
LEMMA StartCalled ==
    ASSUME Shapes, DOMAIN full_path = Threads, NEW u \in Threads, Start(u)
    PROVE  /\ pc[u] = "idle" /\ Called(u)'
           /\ fs' = fs /\ data' = data /\ privileged' = privileged /\ ret' = ret /\ stack' = stack
           /\ UNCHANGED fileVars
           /\ \A w \in Threads \ {u} : pc'[w] = pc[w] /\ call'[w] = call[w] /\ full_path'[w] = full_path[w]
           /\ pc'[u] = "opendir" => full_path'[u] \in Paths
           /\ call'[u].op = "RemoveDir" => pc'[u] = "opendir" /\ full_path'[u] = call'[u].from
           /\ call'[u].op = "Copy" => pc'[u] = "umask_src"
           /\ pc'[u] \in {"create_exist", "create_r_umask", "opendir", "rename", "umask_src", "unlink"}
  <1>1. DOMAIN pc = Threads /\ DOMAIN call = Threads
    BY DEF Shapes
  <1>2. PICK op, from, to, first :
          /\ Begin(u, op, from, to, first)
          /\ <<op, first>> \in {<<"Create", "create_exist">>, <<"Create_r", "create_r_umask">>,
                                <<"RemoveDir", "opendir">>, <<"Rename", "rename">>, <<"Copy", "umask_src">>,
                                <<"RemoveFile", "unlink">>}
          /\ from \in Paths /\ (op \in {"Copy", "Rename"} => to \in Paths)
          /\ op = "RemoveDir" => full_path' = [full_path EXCEPT ![u] = from]
          /\ op # "RemoveDir" => full_path' = full_path
          /\ stack' = stack /\ UNCHANGED fileVars
    <2>1. CASE BeginDirectory(u) /\ UNCHANGED fileVars
      <3>1. DirPaths \subseteq Paths /\ \A r \in DirRenames : r[1] \in Paths /\ r[2] \in Paths
        BY DirectoryAssumption
      <3> QED
        BY <2>1, <3>1 DEF BeginDirectory, directoryVars
    <2>2. CASE BeginFile(u) /\ UNCHANGED directoryVars
      <3>1. FilePaths \subseteq Paths /\ \A c \in Copies : c[1] \in Paths /\ c[2] \in Paths
        BY FileAssumption
      <3> QED
        BY <2>2, <3>1 DEF BeginFile, directoryVars
    <2> QED
      BY <2>1, <2>2 DEF Start
  <1>3. /\ pc[u] = "idle" /\ pc' = [pc EXCEPT ![u] = first]
        /\ call' = [call EXCEPT ![u] = [op |-> op, from |-> from, to |-> to]]
        /\ fs' = fs /\ data' = data /\ privileged' = privileged /\ ret' = ret
    BY <1>2 DEF Begin, Goto
  <1>4. pc'[u] = first /\ call'[u].op = op /\ call'[u].from = from /\ call'[u].to = to
    BY <1>1, <1>3
  <1>5. Called(u)'
    BY <1>2, <1>4 DEF Called, CreateSteps, CreateRSteps, RemoveSteps, CopySteps
  <1>6. \A w \in Threads \ {u} : pc'[w] = pc[w] /\ call'[w] = call[w] /\ full_path'[w] = full_path[w]
    BY <1>1, <1>2, <1>3
  <1>7. /\ op = "RemoveDir" => first = "opendir" /\ full_path'[u] = from
        /\ first = "opendir" => op = "RemoveDir"
        /\ op = "Copy" => first = "umask_src"
        /\ first \in {"create_exist", "create_r_umask", "opendir", "rename", "umask_src", "unlink"}
    BY <1>2
  <1> QED
    BY <1>2, <1>3, <1>4, <1>5, <1>6, <1>7

-----------------------------------------------------------------------------
(***************************************************************************)
(* The nested calls of Remove.                                             *)
(***************************************************************************)
Frames == [path : Paths, todo : SUBSET Names]

\* Remove has a frame from the time it reads a directory on, and leaves none behind.
Framed(t) ==
    /\ stack[t] \in Seq(Frames)
    /\ pc[t] \in {"readdir", "unlink_entry", "rmdir_entry"} => stack[t] # <<>>
    /\ pc[t] \notin RemoveSteps => stack[t] = <<>>
    /\ pc[t] \in {"opendir", "unlink_entry", "rmdir_entry"} => full_path[t] \in Paths
FrameInv ==
    /\ DOMAIN stack = Threads /\ DOMAIN full_path = Threads
    /\ \A t \in Threads : Framed(t)

\* The innermost frame.
LEMMA TopFrame ==
    ASSUME NEW s \in Seq(Frames), s # <<>>
    PROVE  /\ Len(s) \in Nat \ {0} /\ Last(s) = s[Len(s)] /\ Last(s) \in Frames
           /\ Last(s).path \in Paths /\ Last(s).todo \subseteq Names
           /\ Front(s) \in Seq(Frames) /\ Len(Front(s)) = Len(s) - 1
           /\ \A j \in 1 .. Len(s) - 1 : Front(s)[j] = s[j]
  <1>1. Len(s) \in Nat \ {0} /\ s[Len(s)] \in Frames
    OBVIOUS
  <1>2. Front(s) \in Seq(Frames) /\ Len(Front(s)) = Len(s) - 1 /\ \A j \in 1 .. Len(s) - 1 : Front(s)[j] = s[j]
    <2>1. PICK k : k = Len(s) - 1
      OBVIOUS
    <2>2. k \in Nat /\ k <= Len(s)
      BY <1>1, <2>1
    <2>3. PICK f : f = SubSeq(s, 1, k)
      OBVIOUS
    <2>4. f \in Seq(Frames) /\ Len(f) = k
      BY <2>2, <2>3
    <2>5. \A j \in 1 .. k : f[j] = s[j]
      BY <2>2, <2>3
    <2> QED
      BY <2>1, <2>3, <2>4, <2>5 DEF Front
  <1> QED
    BY <1>1, <1>2 DEF Last, Frames

\* It without a name.
LEMMA TakenFrame ==
    ASSUME NEW s \in Seq(Frames), s # <<>>, NEW n, NEW r, r = EntryTaken(s, n)
    PROVE  /\ r \in Seq(Frames) /\ Len(r) = Len(s) /\ r # <<>>
           /\ \A j \in 1 .. Len(s) - 1 : r[j] = s[j]
           /\ \A j \in 1 .. Len(s) : r[j].path = s[j].path
           /\ r[Len(s)].todo = s[Len(s)].todo \ {n}
  <1>1. Len(s) \in Nat \ {0} /\ s[Len(s)] \in Frames /\ Len(s) \in 1 .. Len(s)
    OBVIOUS
  <1>2. PICK g : g = [s[Len(s)] EXCEPT !.todo = @ \ {n}]
    OBVIOUS
  <1>3. g \in Frames /\ g.path = s[Len(s)].path /\ g.todo = s[Len(s)].todo \ {n}
    BY <1>1, <1>2 DEF Frames
  <1>4. r = [s EXCEPT ![Len(s)] = g]
    BY <1>2 DEF EntryTaken
  <1>5. r \in Seq(Frames) /\ Len(r) = Len(s)
    BY <1>1, <1>3, <1>4
  <1>6. r[Len(s)] = g /\ \A j \in 1 .. Len(s) - 1 : r[j] = s[j]
    BY <1>1, <1>4
  <1>7. \A j \in 1 .. Len(s) : j \in 1 .. Len(s) - 1 \/ j = Len(s)
    BY <1>1
  <1> QED
    BY <1>1, <1>3, <1>5, <1>6, <1>7

\* The step of Remove a thread takes: it opens the directory h, or fails to; it takes a name from
\* the list, whose entry is there or not; it has unlinked or removed an entry; it removes the
\* directory itself.
Opens(u, s, h) ==
    /\ pc[u] = "opendir" /\ IsDir(h) /\ pc'[u] = "readdir" /\ fs' = fs
    /\ stack'[u] = Append(s, [path |-> h, todo |-> Listing(h)])
OpensNot(u, s, h) ==
    /\ pc[u] = "opendir" /\ ~IsDir(h) /\ fs' = fs /\ stack'[u] = s /\ full_path'[u] = h
    /\ s = <<>> => pc'[u] = "idle" /\ ret'[u] = FALSE
    /\ s # <<>> => pc'[u] = "rmdir_entry"
Reads(u, s, n) ==
    /\ pc[u] = "readdir" /\ n \in Last(s).todo /\ Stat(Append(Last(s).path, n)) /\ fs' = fs
    /\ full_path'[u] = Append(Last(s).path, n) /\ stack'[u] = EntryTaken(s, n)
    /\ pc'[u] = IF IsDir(Append(Last(s).path, n)) THEN "opendir" ELSE "unlink_entry"
Leaves(u, s, value) ==
    /\ full_path'[u] = Last(s).path /\ stack'[u] = Front(s)
    /\ Front(s) = <<>> => pc'[u] = "idle" /\ ret'[u] = value
    /\ Front(s) # <<>> => pc'[u] = "rmdir_entry"
ReadsNot(u, s, n) ==
    /\ pc[u] = "readdir" /\ n \in Last(s).todo /\ ~Stat(Append(Last(s).path, n)) /\ fs' = fs
    /\ Leaves(u, s, FALSE)
Takes(u, s, h) ==
    /\ \/ pc[u] = "unlink_entry" /\ fs' = Unlink(h)
       \/ pc[u] = "rmdir_entry" /\ fs' = Rmdir(h)
    /\ pc'[u] = "readdir" /\ stack'[u] = s
Ends(u, s) ==
    /\ pc[u] = "readdir" /\ Last(s).todo = {} /\ fs' = Rmdir(Last(s).path)
    /\ Leaves(u, s, TRUE)

\* What a step of a thread does to the nested calls.
LEMMA StepFrames ==
    ASSUME Shapes, FrameInv, NEW u \in Threads, Step(u), NEW s, NEW h, s = stack[u], h = full_path[u]
    PROVE  /\ DOMAIN stack' = Threads /\ DOMAIN full_path' = Threads
           /\ \A w \in Threads \ {u} : stack'[w] = stack[w] /\ full_path'[w] = full_path[w]
           /\ pc[u] \notin RemoveSteps => stack' = stack /\ pc'[u] \notin RemoveSteps
           /\ pc[u] \in RemoveSteps =>
                \/ Opens(u, s, h) \/ OpensNot(u, s, h) \/ Takes(u, s, h) \/ Ends(u, s)
                \/ \E n : Reads(u, s, n) \/ ReadsNot(u, s, n)
  <1> USE DEF Goto, Return, RemoveReturns, CopyReturns, Shapes, FrameInv
  <1>1. CASE RemoveTree(u)
    <2>1. pc[u] \in RemoveSteps
      BY <1>1 DEF RemoveTree, OpenDir, ReadEntry, ChangeTree, RemoveSelf, RemoveSteps
    <2>2. CASE OpenDir(u)
      BY <2>1, <2>2 DEF OpenDir, kernelVars, Opens, OpensNot
    <2>3. CASE ReadEntry(u)
      <3>1. PICK n \in Top(u).todo :
              \/ /\ Stat(Append(Top(u).path, n))
                 /\ full_path' = [full_path EXCEPT ![u] = Append(Top(u).path, n)]
                 /\ stack' = [stack EXCEPT ![u] = EntryTaken(@, n)]
                 /\ pc' = [pc EXCEPT ![u] = IF IsDir(Append(Top(u).path, n)) THEN "opendir" ELSE "unlink_entry"]
              \/ /\ ~Stat(Append(Top(u).path, n))
                 /\ full_path' = [full_path EXCEPT ![u] = Top(u).path]
                 /\ stack' = [stack EXCEPT ![u] = Front(@)]
                 /\ RemoveReturns(u, Front(stack[u]), FALSE)
        BY <2>3 DEF ReadEntry
      <3>2. pc[u] = "readdir" /\ fs' = fs /\ Top(u) = Last(s)
        BY <2>3 DEF ReadEntry, kernelVars, Top
      <3>3. Reads(u, s, n) \/ ReadsNot(u, s, n)
        BY <3>1, <3>2 DEF Reads, ReadsNot, Leaves
      <3> QED
        BY <2>1, <3>1, <3>3
    <2>4. CASE ChangeTree(u, "unlink_entry", Unlink(full_path[u]), "readdir") /\ UNCHANGED directoryVars
      BY <2>1, <2>4 DEF ChangeTree, Takes, directoryVars
    <2>5. CASE ChangeTree(u, "rmdir_entry", Rmdir(full_path[u]), "readdir") /\ UNCHANGED directoryVars
      BY <2>1, <2>5 DEF ChangeTree, Takes, directoryVars
    <2>6. CASE RemoveSelf(u)
      BY <2>1, <2>6 DEF RemoveSelf, Ends, Leaves, Top
    <2> QED
      BY <1>1, <2>2, <2>3, <2>4, <2>5, <2>6 DEF RemoveTree
  <1>2. CASE ~RemoveTree(u)
    <2> SUFFICES stack' = stack /\ full_path' = full_path /\ pc[u] \notin RemoveSteps /\ pc'[u] \notin RemoveSteps
      OBVIOUS
    <2> USE DEF RemoveSteps, directoryVars
    <2>1. CASE Create(u)
      BY <2>1 DEF Create, CreateExist, SetMask, CreateMkdir, RestoreMask
    <2>2. CASE Create_r(u)
      BY <2>2 DEF Create_r, CreateRBegin, SetMask, CreateRExist, CreateRMkdir, RestoreMask, NextLevel
    <2>3. CASE RenameStep(u)
      BY <2>3 DEF RenameStep
    <2>4. CASE FileStep(u) /\ UNCHANGED directoryVars
      BY <2>4 DEF FileStep, Copy, SetMask, OpenSource, OpenDestination, CopyOpened, CopyRead, CopyReadError,
                  CopyWrite, RemoveFile
    <2> QED
      BY <1>2, <2>1, <2>2, <2>3, <2>4 DEF Step, DirectoryStep
  <1> QED
    BY <1>1, <1>2

\* Frames hold paths and names.
LEMMA StepFramed ==
    ASSUME Shapes, FrameInv, NEW u \in Threads, Step(u)
    PROVE  Framed(u)'
  <1>1. PICK s, h : s = stack[u] /\ h = full_path[u]
    OBVIOUS
  <1>2. /\ s \in Seq(Frames)
        /\ pc[u] \in {"readdir", "unlink_entry", "rmdir_entry"} => s # <<>>
        /\ pc[u] \notin RemoveSteps => s = <<>>
        /\ pc[u] \in {"opendir", "unlink_entry", "rmdir_entry"} => h \in Paths
    BY <1>1 DEF FrameInv, Framed
  <1> USE DEF RemoveSteps, Framed
  <1>3. CASE pc[u] \notin RemoveSteps
    BY <1>1, <1>2, <1>3, StepFrames
  <1>4. CASE Opens(u, s, h)
    <2>1. [path |-> h, todo |-> Listing(h)] \in Frames
      BY <1>2, <1>4 DEF Opens, Frames, Listing
    <2> QED
      BY <1>2, <1>4, <2>1 DEF Opens
  <1>5. CASE OpensNot(u, s, h)
    BY <1>2, <1>5 DEF OpensNot
  <1>6. CASE Takes(u, s, h)
    BY <1>2, <1>6 DEF Takes
  <1>7. ASSUME s # <<>>, Leaves(u, s, TRUE) \/ Leaves(u, s, FALSE) PROVE Framed(u)'
    <2>1. Last(s).path \in Paths /\ Front(s) \in Seq(Frames)
      BY <1>2, <1>7, TopFrame
    <2> QED
      BY <1>7, <2>1 DEF Leaves
  <1>8. CASE Ends(u, s)
    BY <1>2, <1>7, <1>8 DEF Ends
  <1>9. CASE \E n : Reads(u, s, n)
    <2>1. PICK n : Reads(u, s, n)
      BY <1>9
    <2>2. s # <<>> /\ n \in Last(s).todo
      BY <1>2, <2>1 DEF Reads
    <2>3. Last(s).path \in Paths /\ n \in Names
      BY <1>2, <2>2, TopFrame
    <2>4. Append(Last(s).path, n) \in Paths
      BY <2>3, Entries
    <2>5. PICK r : r = EntryTaken(s, n)
      OBVIOUS
    <2>6. r \in Seq(Frames) /\ r # <<>>
      BY <1>2, <2>2, <2>5, TakenFrame
    <2> QED
      BY <2>1, <2>4, <2>5, <2>6 DEF Reads
  <1>10. CASE \E n : ReadsNot(u, s, n)
    BY <1>2, <1>7, <1>10 DEF ReadsNot
  <1> QED
    BY <1>1, <1>3, <1>4, <1>5, <1>6, <1>8, <1>9, <1>10, StepFrames

\* Each system call leaves a tree behind.
LEMMA MkdirTree ==
    ASSUME TreeInv, NEW p \in Paths, fs' = Mkdir(p), privileged' = privileged
    PROVE  TreeInv'
  <1>1. CASE MkdirOk(p)
    BY <1>1, MadeTree DEF Mkdir, MkdirOk
  <1>2. CASE ~MkdirOk(p)
    BY <1>2 DEF Mkdir, TreeInv
  <1> QED
    BY <1>1, <1>2

\* rmdir and unlink.
LEMMA UnlinkTree ==
    ASSUME TreeInv, NEW p, fs' \in {Unlink(p), Rmdir(p), fs}, privileged' = privileged
    PROVE  TreeInv'
  <1>1. CASE fs' = fs
    BY <1>1 DEF TreeInv
  <1>2. CASE fs' = Unlink(p) /\ fs' # fs
    BY <1>2, RemovedTree DEF Unlink, IsFile, Stat
  <1>3. CASE fs' = Rmdir(p) /\ fs' # fs
    BY <1>3, RemovedTree DEF Rmdir, IsDir, Stat
  <1> QED
    BY <1>1, <1>2, <1>3

\* The inode of a file.
LEMMA InodeOf ==
    ASSUME Tree(fs), NEW p \in DOMAIN fs
    PROVE  /\ fs[p].kind = "file" => fs[p].ino \in Inodes /\ fs[p] = Regular(fs[p].ino)
           /\ fs[p].kind \in {"dir", "file"}
  BY DEF Tree, Nodes, Dir, Regular

\* open with O_CREAT.
LEMMA OpenTree ==
    ASSUME TreeInv, NEW p \in Paths, OpenOk(p), NEW ino, ino = OpenInode(p)
    PROVE  /\ ino \in Inodes
           /\ IsFile(p) => With(p, Regular(ino)) = fs
           /\ ~IsFile(p) => p \notin DOMAIN fs /\ ino \in FreeInodes
           /\ fs' = With(p, Regular(ino)) /\ privileged' = privileged => TreeInv'
  <1>1. Tree(fs) /\ Reach(p) /\ ~IsDir(p)
    BY DEF TreeInv, OpenOk
  <1>2. p \in DOMAIN fs => fs[p].kind = "file" /\ IsFile(p)
    BY <1>1, InodeOf DEF IsDir, IsFile, Stat
  <1>3. CASE IsFile(p)
    <2>1. p \in DOMAIN fs /\ fs[p].kind = "file" /\ ino = fs[p].ino
      BY <1>3 DEF IsFile, Stat, OpenInode
    <2>2. ino \in Inodes /\ fs[p] = Regular(ino)
      BY <1>1, <2>1, InodeOf
    <2>3. fs = [q \in DOMAIN fs |-> fs[q]]
      BY <1>1 DEF Tree
    <2>4. With(p, Regular(ino)) = fs
      BY <2>1, <2>2, <2>3 DEF With
    <2> QED
      BY <1>3, <2>2, <2>4 DEF TreeInv
  <1>4. CASE ~IsFile(p)
    <2>1. ino \in FreeInodes
      BY <1>4 DEF OpenOk, OpenInode
    <2>2. ino \in Inodes
      BY <2>1 DEF FreeInodes
    <2>3. p \notin DOMAIN fs
      BY <1>2, <1>4
    <2>4. ASSUME fs' = With(p, Regular(ino)) /\ privileged' = privileged PROVE TreeInv'
      BY <1>1, <2>2, <2>3, <2>4, MadeTree
    <2> QED
      BY <1>4, <2>1, <2>2, <2>3, <2>4
  <1> QED
    BY <1>3, <1>4

\* A step of a thread leaves a tree behind.
LEMMA StepTree ==
    ASSUME CallInv, TreeInv, NEW u \in Threads, Step(u)
    PROVE  TreeInv'
  <1>1. /\ Called(u) /\ Located(u) /\ Shapes /\ privileged' = privileged
    BY StepAlone DEF CallInv, ReportInv, Alone
  <1>2. ASSUME fs' = fs PROVE TreeInv'
    BY <1>1, <1>2 DEF TreeInv
  <1>3. CASE Create(u)
    <2>1. CASE CreateMkdir(u)
      <3>1. fs' = Mkdir(call[u].from) /\ call[u].from \in Paths
        BY <1>1, <2>1 DEF CreateMkdir, Called, CreateSteps
      <3> QED
        BY <1>1, <3>1, MkdirTree
    <2> QED
      BY <1>2, <1>3, <2>1 DEF Create, CreateExist, kernelVars, SetMask, RestoreMask
  <1>4. CASE Create_r(u)
    <2>1. CASE CreateRMkdir(u)
      <3>1. fs' = Mkdir(path[u]) /\ pc[u] = "create_r_mkdir"
        BY <2>1 DEF CreateRMkdir
      <3>2. Making(u) /\ call[u].from \in Paths
        BY <1>1, <3>1 DEF Called, CreateRSteps, Making
      <3>3. PICK k \in 1 .. Len(call[u].from) : path[u] = Cut(call[u].from, k)
        BY <1>1, <3>1, <3>2 DEF Located
      <3>4. path[u] \in Seq(Names) /\ Len(path[u]) = k
        BY <3>2, <3>3, Cuts
      <3>5. path[u] \in Paths
        BY <3>3, <3>4 DEF Paths
      <3> QED
        BY <1>1, <3>1, <3>5, MkdirTree
    <2> QED
      BY <1>2, <1>4, <2>1 DEF Create_r, CreateRBegin, CreateRExist, kernelVars, SetMask, RestoreMask
  <1>5. CASE RemoveTree(u)
    <2>1. \E p : fs' \in {Unlink(p), Rmdir(p), fs}
      BY <1>5 DEF RemoveTree, OpenDir, ReadEntry, kernelVars, ChangeTree, RemoveSelf
    <2> QED
      BY <1>1, <2>1, UnlinkTree
  <1>6. CASE RenameStep(u)
    <2>1. /\ fs' = Rename(call[u].from, call[u].to)
          /\ call[u].from \in Paths /\ call[u].to \in Paths
      BY <1>1, <1>6 DEF RenameStep, Called
    <2> QED
      BY <1>1, <1>2, <2>1, MovedTree DEF Rename
  <1>7. CASE Copy(u)
    <2>1. CASE OpenDestination(u)
      <3>1. call[u].to \in Paths
        BY <1>1, <2>1 DEF OpenDestination, Called, CopySteps
      <3>2. CASE OpenOk(call[u].to)
        <4>1. fs' = With(call[u].to, Regular(OpenInode(call[u].to)))
          BY <2>1, <3>2 DEF OpenDestination
        <4> QED
          BY <1>1, <3>1, <3>2, <4>1, OpenTree
      <3>3. CASE ~OpenOk(call[u].to)
        BY <1>2, <2>1, <3>3 DEF OpenDestination
      <3> QED
        BY <3>2, <3>3
    <2> QED
      BY <1>2, <1>7, <2>1 DEF Copy, SetMask, OpenSource, kernelVars, CopyOpened, CopyRead, CopyReadError, CopyWrite
  <1>8. CASE RemoveFile(u)
    BY <1>1, <1>8, UnlinkTree DEF RemoveFile
  <1> QED
    BY <1>3, <1>4, <1>5, <1>6, <1>7, <1>8 DEF Step, DirectoryStep, FileStep

\* The calls, their frames and the tree.
GroundInv == CallInv /\ FrameInv /\ TreeInv

\* A step keeps them.
LEMMA GroundStep ==
    ASSUME GroundInv, NEW u \in Threads, Start(u) \/ Step(u), MaskTypes', ReportInv'
    PROVE  GroundInv'
  <1>1. /\ Shapes /\ FrameInv /\ TreeInv /\ DOMAIN full_path = Threads
        /\ \A w \in Threads : Called(w) /\ Framed(w)
    BY DEF GroundInv, CallInv, ReportInv, FrameInv
  <1>2. CASE Start(u)
    <2>1. /\ Called(u)' /\ pc[u] = "idle" /\ fs' = fs /\ privileged' = privileged /\ stack' = stack
          /\ \A w \in Threads \ {u} : pc'[w] = pc[w] /\ call'[w] = call[w] /\ full_path'[w] = full_path[w]
          /\ pc'[u] = "opendir" => full_path'[u] \in Paths
          /\ pc'[u] \in {"create_exist", "create_r_umask", "opendir", "rename", "umask_src", "unlink"}
      BY <1>1, <1>2, StartCalled
    <2>2. stack[u] = <<>>
      BY <1>1, <2>1 DEF Framed, RemoveSteps
    <2>3. Framed(u)'
      BY <1>1, <2>1, <2>2 DEF Framed, RemoveSteps
    <2>4. ASSUME NEW w \in Threads \ {u} PROVE Called(w)' /\ Framed(w)'
      BY <1>1, <2>1, <2>4 DEF Called, Framed
    <2>5. DOMAIN full_path' = Threads
      BY <1>1, <1>2 DEF Start, BeginDirectory, directoryVars
    <2>6. TreeInv'
      BY <1>1, <2>1 DEF TreeInv
    <2> QED
      BY <1>1, <2>1, <2>3, <2>4, <2>5, <2>6 DEF GroundInv, CallInv, FrameInv
  <1>3. CASE Step(u)
    <2>1. Called(u)' /\ Framed(u)' /\ Alone(u)
      BY <1>1, <1>3, StepCalled, StepFramed, StepAlone
    <2>2. /\ DOMAIN stack' = Threads /\ DOMAIN full_path' = Threads
          /\ \A w \in Threads \ {u} : stack'[w] = stack[w] /\ full_path'[w] = full_path[w]
      BY <1>1, <1>3, StepFrames
    <2>3. ASSUME NEW w \in Threads \ {u} PROVE Called(w)' /\ Framed(w)'
      BY <1>1, <2>1, <2>2, <2>3 DEF Called, Framed, Alone
    <2>4. TreeInv'
      BY <1>1, <1>3, StepTree DEF GroundInv
    <2> QED
      BY <2>1, <2>2, <2>3, <2>4 DEF GroundInv, CallInv, FrameInv
  <1> QED
    BY <1>2, <1>3

\* They hold throughout.
LEMMA GroundInvariant == Spec => []GroundInv
  <1>1. Init /\ MaskTypes /\ ReportInv => GroundInv
    <2> SUFFICES ASSUME Init, MaskTypes, ReportInv PROVE GroundInv
      OBVIOUS
    <2>1. /\ \E tree \in InitTrees : fs = tree.fs
          /\ call = [t \in Threads |-> [op |-> "none", from |-> <<>>, to |-> <<>>]]
          /\ pc = [t \in Threads |-> "idle"]
          /\ stack = [t \in Threads |-> <<>>] /\ full_path = [t \in Threads |-> <<>>]
      BY DEF Init, InitSystem, InitDirectory
    <2>2. TreeInv
      BY <2>1, FileSystemAssumption DEF TreeInv
    <2>3. \A t \in Threads : pc[t] = "idle" /\ call[t].op = "none" /\ stack[t] = <<>>
      BY <2>1
    <2>4. <<>> \in Seq(Frames)
      OBVIOUS
    <2>5. \A t \in Threads : Called(t) /\ Framed(t)
      BY <2>3, <2>4 DEF Called, Framed, CreateSteps, CreateRSteps, RemoveSteps, CopySteps
    <2> QED
      BY <2>1, <2>2, <2>5 DEF GroundInv, CallInv, FrameInv
  <1>2. GroundInv /\ MaskInv' /\ ReportInv' /\ [Next]_vars => GroundInv'
    <2> SUFFICES ASSUME GroundInv, MaskInv', ReportInv', [Next]_vars PROVE GroundInv'
      OBVIOUS
    <2>1. MaskTypes'
      BY DEF MaskInv
    <2>2. ASSUME NEW u \in Threads, Start(u) \/ Step(u) PROVE GroundInv'
      BY <2>1, <2>2, GroundStep
    <2>3. CASE UNCHANGED vars
      <3>1. UNCHANGED <<fs, privileged, call, pc, stack, full_path>>
        BY <2>3 DEF vars, kernelVars, threadVars, directoryVars
      <3> QED
        BY <2>1, <3>1 DEF GroundInv, CallInv, Called, FrameInv, Framed, TreeInv
    <2> QED
      BY <2>2, <2>3 DEF Next
  <1>3. MaskInv => MaskTypes
    BY DEF MaskInv
  <1> QED
    BY <1>1, <1>2, <1>3, MaskInvariant, ReportInvariant, PTL DEF Spec

-----------------------------------------------------------------------------
(***************************************************************************)
(* Remove empties and removes a whole tree.                                *)
(***************************************************************************)
\* The j-th directory on the way from the call's path to the entry h that Remove is at.
Way(s, h, j) == IF j <= Len(s) THEN s[j].path ELSE h

\* The frames lead from the call's path down, each to the next by a name taken from its list.
Chained(root, at, s, h) ==
    /\ s = <<>> => at = "opendir"
    /\ Way(s, h, 1) = root
    /\ \A j \in 1 .. Len(s) : IsPrefix(root, s[j].path) /\ Len(s[j].path) = Len(root) + j - 1
    /\ \A j \in 1 .. Len(s) :
         j < Len(s) \/ at # "readdir" => \E n \in Names \ s[j].todo : Way(s, h, j + 1) = Append(s[j].path, n)

\* Every frame's directory is there, and what is in it is still on its list, or is the entry that
\* Remove is at or below.
Emptying(at, s, h) ==
    /\ \A j \in 1 .. Len(s) :
         /\ IsDir(s[j].path)
         /\ s[j].todo \subseteq Listing(s[j].path)
         /\ \A n \in Listing(s[j].path) \ s[j].todo :
              (j < Len(s) \/ at # "readdir") /\ Way(s, h, j + 1) = Append(s[j].path, n)
    /\ at = "opendir" /\ s # <<>> => IsDir(h)
    /\ at = "unlink_entry" => IsFile(h)
    /\ at = "rmdir_entry" => h \notin DOMAIN fs

\* What a Remove that returned r has done.
Removed(root, r) == ~IsDir(root) /\ (r => root \notin DOMAIN fs /\ Empty(root))

\* The Remove of a thread, as long as nobody else changed anything there.
Removal(root, at, s, h, r) ==
    IF at = "idle" THEN Removed(root, r) ELSE Chained(root, at, s, h) /\ Emptying(at, s, h)
Removing(t) ==
    call[t].op = "RemoveDir" /\ seen[t] = 0 =>
        Removal(call[t].from, pc[t], stack[t], full_path[t], ret[t])
RemoveInv == \A t \in Threads : Removing(t)

\* The directories above a path are paths too.
LEMMA ParentPaths ==
    ASSUME NEW p \in Paths, NEW q \in Parents(p)
    PROVE  q \in Paths /\ IsPrefix(q, p) /\ Len(q) < Len(p)
  <1>1. p \in Seq(Names) /\ Len(p) \in Nat \ {0}
    BY DEF Paths
  <1>2. PICK i \in 1 .. Len(p) - 1 : q = SubSeq(p, 1, i)
    BY DEF Parents
  <1>3. q \in Seq(Names) /\ Len(q) = i
    BY <1>1, <1>2
  <1>4. q # <<>>
    BY <1>3
  <1>5. q \in Paths
    BY <1>3, <1>4 DEF Paths
  <1>6. IsStrictPrefix(q, p)
    BY <1>5, PathOrder
  <1> QED
    BY <1>1, <1>3, <1>5, <1>6 DEF IsStrictPrefix

\* Of two paths above a third one is above the other.
LEMMA Comparable ==
    ASSUME NEW p \in Paths, NEW q \in Paths, NEW r \in Paths, IsPrefix(p, r), IsPrefix(q, r)
    PROVE  IsPrefix(p, q) \/ IsPrefix(q, p)
  <1>1. /\ Len(p) \in Nat /\ Len(q) \in Nat /\ Len(p) <= Len(r) /\ Len(q) <= Len(r)
        /\ Begins(p, r) /\ Begins(q, r)
    BY PathOrder
  <1>2. CASE Len(p) <= Len(q)
    <2>1. Begins(p, q)
      BY <1>1, <1>2 DEF Begins
    <2> QED
      BY <1>2, <2>1, PathOrder
  <1>3. CASE Len(q) <= Len(p)
    <2>1. Begins(q, p)
      BY <1>1, <1>3 DEF Begins
    <2> QED
      BY <1>3, <2>1, PathOrder
  <1> QED
    BY <1>1, <1>2, <1>3

\* A step that leaves everything above and below a path alone.
Spared(root) ==
    \A q : IsPrefix(q, root) \/ IsPrefix(root, q) =>
             /\ q \in DOMAIN fs <=> q \in DOMAIN fs'
             /\ q \in DOMAIN fs => fs'[q] = fs[q]

\* Then nothing there is seen to change.
LEMMA SparedStays ==
    ASSUME NEW root \in Paths, Spared(root), privileged' = privileged, NEW p \in Paths, IsPrefix(root, p)
    PROVE  /\ IsDir(p) <=> IsDir(p)'
           /\ IsFile(p) <=> IsFile(p)'
           /\ p \in DOMAIN fs <=> p \in DOMAIN fs'
           /\ Listing(p)' = Listing(p)
  <1>1. ASSUME NEW q, IsPrefix(q, root) \/ IsPrefix(root, q)
        PROVE  /\ q \in DOMAIN fs <=> q \in DOMAIN fs'
               /\ q \in DOMAIN fs => fs'[q] = fs[q]
               /\ q \in DOMAIN fs => (Passable(q) <=> Passable(q)')
    BY <1>1 DEF Spared, Passable
  <1>2. ASSUME NEW q \in Parents(p) PROVE IsPrefix(q, root) \/ IsPrefix(root, q)
    <2>1. q \in Paths /\ IsPrefix(q, p)
      BY ParentPaths
    <2> QED
      BY <2>1, Comparable
  <1>3. Reach(p) <=> Reach(p)'
    BY <1>1, <1>2 DEF Reach
  <1>4. ASSUME NEW n \in Names PROVE Append(p, n) \in DOMAIN fs <=> Append(p, n) \in DOMAIN fs'
    <2>1. PICK e : e = Append(p, n)
      OBVIOUS
    <2>2. e \in Paths /\ p \in Parents(e)
      BY <2>1, Entries
    <2>3. IsPrefix(p, e)
      BY <2>2, ParentPaths
    <2>4. IsPrefix(root, e)
      BY <2>2, <2>3, PrefixChain
    <2> QED
      BY <1>1, <2>1, <2>4
  <1>5. Listing(p)' = Listing(p)
    BY <1>4 DEF Listing
  <1> QED
    BY <1>1, <1>3, <1>5 DEF IsDir, IsFile, Stat

\* Nobody else came near a call that saw nothing.
LEMMA SparedByOthers ==
    ASSUME NEW t \in Threads, NEW u \in Threads, u # t, Step(u), call' = call, NEW c, c = call[t], c.from \in Paths,
           seen \in [Threads -> 0 .. 2], seen'[t] = 0
    PROVE  seen[t] = 0 /\ Spared(c.from)
  <1>1. seen'[t] = IF ~(\E p \in Changed : Concerns(c, p)) THEN seen[t]
                   ELSE IF c = call[u] /\ seen[t] < 2 THEN 1 ELSE 2
    BY DEF Step, Recorded
  <1>2. ~(\E p \in Changed : Concerns(c, p)) /\ seen[t] = 0
    BY <1>1
  <1>3. c.from # <<>>
    BY DEF Paths
  <1>4. ASSUME NEW q, IsPrefix(q, c.from) \/ IsPrefix(c.from, q) PROVE q \notin Changed
    BY <1>2, <1>3, <1>4 DEF Concerns
  <1> QED
    BY <1>2, <1>4 DEF Spared, Changed

\* Removing the entry h shows in the directory it stands in, and nowhere above or beside it.
LEMMA WithoutStays ==
    ASSUME NEW h, NEW p \in Paths, fs' = Without(h), privileged' = privileged,
           h \in Paths, Len(p) < Len(h)
    PROVE  /\ IsDir(p) => IsDir(p)'
           /\ Listing(p)' = {n \in Listing(p) : Append(p, n) # h}
  <1>1. DOMAIN fs' = DOMAIN fs \ {h} /\ \A q \in DOMAIN fs' : fs'[q] = fs[q]
    BY DEF Without
  <1>2. \A q \in Parents(p) : q # h
    <2> TAKE q \in Parents(p)
    <2>1. q \in Paths /\ Len(q) < Len(p)
      BY ParentPaths
    <2> QED
      BY <2>1 DEF Paths
  <1>3. p # h
    BY DEF Paths
  <1>4. ASSUME NEW q, q # h PROVE /\ q \in DOMAIN fs <=> q \in DOMAIN fs'
                                  /\ q \in DOMAIN fs => fs'[q] = fs[q]
    BY <1>1, <1>4
  <1>5. Reach(p) => Reach(p)'
    BY <1>2, <1>4 DEF Reach, Passable
  <1>6. IsDir(p) => IsDir(p)'
    BY <1>3, <1>4, <1>5 DEF IsDir, Stat
  <1>7. Listing(p)' = {n \in Listing(p) : Append(p, n) # h}
    BY <1>1 DEF Listing
  <1> QED
    BY <1>6, <1>7

\* What is listed in a directory that is there is there too: the tree keeps what must not be
\* searched empty.
LEMMA ListedThere ==
    ASSUME TreeInv, NEW p \in Paths, IsDir(p), NEW n \in Listing(p), NEW e, e = Append(p, n)
    PROVE  Stat(e) /\ (~IsDir(e) => IsFile(e)) /\ e \in Paths
  <1>1. Tree(fs) /\ Reach(p) /\ p \in DOMAIN fs /\ fs[p].kind = "dir"
    BY DEF TreeInv, IsDir, Stat
  <1>2. n \in Names /\ e \in DOMAIN fs
    BY DEF Listing
  <1>3. e \in Paths /\ Parents(e) = Parents(p) \cup {p}
    BY <1>2, Entries
  <1>4. IsStrictPrefix(p, e)
    BY <1>3, PathOrder
  <1>5. ~privileged => fs[p] # Dir(FALSE)
    BY <1>1, <1>2, <1>4 DEF TreeInv, LockedEmpty
  <1>6. fs[p] = Dir(TRUE) \/ fs[p] = Dir(FALSE)
    <2>1. fs[p] \in Nodes
      BY <1>1 DEF Tree
    <2>2. \A ino \in Inodes : fs[p] # Regular(ino)
      BY <1>1 DEF Regular
    <2> QED
      BY <2>1, <2>2 DEF Nodes
  <1>7. Passable(p)
    BY <1>1, <1>5, <1>6 DEF Passable, Dir
  <1>8. Stat(e)
    BY <1>1, <1>2, <1>3, <1>7 DEF Reach, Stat
  <1>9. ~IsDir(e) => IsFile(e)
    BY <1>1, <1>2, <1>8, InodeOf DEF IsDir, IsFile
  <1> QED
    BY <1>3, <1>8, <1>9

\* The entry that Remove is at is one level below its last frame.
LEMMA ChainedEntry ==
    ASSUME NEW root \in Paths, NEW s \in Seq(Frames), NEW h, NEW at, Chained(root, at, s, h), at # "readdir",
           s # <<>>
    PROVE  /\ h \in Paths /\ IsPrefix(root, h) /\ Len(h) = Len(root) + Len(s)
           /\ \E n \in Names \ s[Len(s)].todo : h = Append(s[Len(s)].path, n)
           /\ Len(s) \in Nat \ {0}
  <1>1. Len(s) \in Nat \ {0} /\ s[Len(s)] \in Frames
    OBVIOUS
  <1>2. PICK p, k : p = s[Len(s)].path /\ k = Len(s)
    OBVIOUS
  <1>3. p \in Paths /\ IsPrefix(root, p) /\ Len(p) = Len(root) + k - 1
    BY <1>1, <1>2 DEF Chained, Frames
  <1>4. Way(s, h, k + 1) = h
    BY <1>1, <1>2 DEF Way
  <1>5. PICK n \in Names \ s[Len(s)].todo : h = Append(p, n)
    <2>1. k \in 1 .. Len(s)
      BY <1>1, <1>2
    <2>2. \E n \in Names \ s[k].todo : Way(s, h, k + 1) = Append(s[k].path, n)
      BY <2>1 DEF Chained
    <2> QED
      BY <1>2, <1>4, <2>2
  <1>6. h \in Paths /\ Len(h) = Len(p) + 1 /\ p \in Parents(h)
    BY <1>3, <1>5, Entries
  <1>7. IsPrefix(p, h)
    BY <1>6, ParentPaths
  <1>8. IsPrefix(root, h)
    BY <1>3, <1>6, <1>7, PrefixChain
  <1>9. Len(root) \in Nat
    BY DEF Paths
  <1> QED
    BY <1>1, <1>2, <1>3, <1>5, <1>6, <1>8, <1>9

\* opendir of the entry: one frame more.
LEMMA RemovalOpens ==
    ASSUME NEW root \in Paths, NEW s \in Seq(Frames), NEW h \in Paths, NEW r, NEW g, Chained(root, "opendir", s, h),
           Emptying("opendir", s, h), IsDir(h), r = Append(s, [path |-> h, todo |-> Listing(h)])
    PROVE  Chained(root, "readdir", r, g) /\ Emptying("readdir", r, g)
  <1>1. PICK k, f : k = Len(s) /\ f = [path |-> h, todo |-> Listing(h)]
    OBVIOUS
  <1>2. f \in Frames /\ f.path = h /\ f.todo = Listing(h) /\ k \in Nat
    BY <1>1 DEF Frames, Listing
  <1>3. r \in Seq(Frames) /\ Len(r) = k + 1 /\ r[k + 1] = f /\ \A j \in 1 .. k : r[j] = s[j]
    BY <1>1, <1>2
  <1>4. \A j \in 1 .. k + 1 : Way(r, g, j) = Way(s, h, j)
    BY <1>1, <1>2, <1>3 DEF Way
  <1>5. IsPrefix(root, h) /\ Len(h) = Len(root) + k
    <2>1. CASE s = <<>>
      <3>1. h = root /\ k = 0
        BY <1>1, <2>1 DEF Chained, Way
      <3> QED
        BY <3>1, PathOrder DEF Begins
    <2>2. CASE s # <<>>
      BY <1>1, <2>2, ChainedEntry
    <2> QED
      BY <2>1, <2>2
  <1>6. \A j \in 1 .. k + 1 : j \in 1 .. k \/ j = k + 1
    BY <1>2
  <1>7. r # <<>>
    BY <1>2, <1>3
  <1>8. Way(r, g, 1) = root
    BY <1>2, <1>4 DEF Chained
  <1>9. Len(root) \in Nat
    BY DEF Paths
  <1>10. \A j \in 1 .. k + 1 : IsPrefix(root, r[j].path) /\ Len(r[j].path) = Len(root) + j - 1
    <2> TAKE j \in 1 .. k + 1
    <2>1. CASE j \in 1 .. k
      BY <1>1, <1>3, <2>1 DEF Chained
    <2>2. CASE j = k + 1
      <3>1. r[j].path = h
        BY <1>2, <1>3, <2>2
      <3>2. Len(h) = Len(root) + j - 1
        BY <1>2, <1>5, <1>9, <2>2
      <3> QED
        BY <1>5, <3>1, <3>2
    <2> QED
      BY <1>6, <2>1, <2>2
  <1>11. \A j \in 1 .. k : \E n \in Names \ r[j].todo : Way(r, g, j + 1) = Append(r[j].path, n)
    <2> TAKE j \in 1 .. k
    <2>1. \E n \in Names \ s[j].todo : Way(s, h, j + 1) = Append(s[j].path, n)
      BY <1>1 DEF Chained
    <2>2. Way(r, g, j + 1) = Way(s, h, j + 1) /\ r[j] = s[j]
      BY <1>2, <1>3, <1>4
    <2> QED
      BY <2>1, <2>2
  <1>12. Chained(root, "readdir", r, g)
    <2>1. \A j \in 1 .. Len(r) : j < Len(r) => j \in 1 .. k
      BY <1>2, <1>3
    <2> QED
      BY <1>3, <1>7, <1>8, <1>10, <1>11, <2>1 DEF Chained
  <1>13. ASSUME NEW j \in 1 .. k + 1
         PROVE  /\ IsDir(r[j].path) /\ r[j].todo \subseteq Listing(r[j].path)
                /\ \A n \in Listing(r[j].path) \ r[j].todo : j < k + 1 /\ Way(r, g, j + 1) = Append(r[j].path, n)
    <2>1. CASE j \in 1 .. k
      <3>1. /\ IsDir(s[j].path) /\ s[j].todo \subseteq Listing(s[j].path)
            /\ \A n \in Listing(s[j].path) \ s[j].todo : Way(s, h, j + 1) = Append(s[j].path, n)
        BY <1>1, <2>1 DEF Emptying
      <3>2. Way(r, g, j + 1) = Way(s, h, j + 1) /\ r[j] = s[j] /\ j < k + 1
        BY <1>2, <1>3, <1>4, <2>1
      <3> QED
        BY <3>1, <3>2
    <2>2. CASE j = k + 1
      BY <1>2, <1>3, <2>2
    <2> QED
      BY <1>6, <2>1, <2>2
  <1>14. Emptying("readdir", r, g)
    <2>1. \A j \in 1 .. Len(r) :
            /\ IsDir(r[j].path) /\ r[j].todo \subseteq Listing(r[j].path)
            /\ \A n \in Listing(r[j].path) \ r[j].todo : j < Len(r) /\ Way(r, g, j + 1) = Append(r[j].path, n)
      BY <1>3, <1>13
    <2> QED
      BY <2>1 DEF Emptying
  <1> QED
    BY <1>12, <1>14

\* readdir takes a name whose entry is there.
LEMMA RemovalReads ==
    ASSUME NEW root \in Paths, NEW s \in Seq(Frames), s # <<>>, NEW n, NEW h, NEW e, e = Append(Last(s).path, n),
           Chained(root, "readdir", s, h), Emptying("readdir", s, h), n \in Last(s).todo,
           NEW at \in {"opendir", "unlink_entry"}, at = "opendir" => IsDir(e), at = "unlink_entry" => IsFile(e),
           NEW r, r = EntryTaken(s, n)
    PROVE  Chained(root, at, r, e) /\ Emptying(at, r, e)
  <1>1. PICK k : k = Len(s)
    OBVIOUS
  <1>2. k \in Nat \ {0} /\ Last(s) = s[k] /\ n \in Names
    BY <1>1, TopFrame
  <1>13. k \in 1 .. k /\ 1 \in 1 .. k
    BY <1>2
  <1>3. /\ r \in Seq(Frames) /\ Len(r) = k /\ r # <<>>
        /\ \A j \in 1 .. k - 1 : r[j] = s[j]
        /\ \A j \in 1 .. k : r[j].path = s[j].path
        /\ r[k].todo = s[k].todo \ {n}
    <2>1. /\ r \in Seq(Frames) /\ Len(r) = Len(s) /\ r # <<>>
          /\ \A j \in 1 .. Len(s) - 1 : r[j] = s[j]
          /\ \A j \in 1 .. Len(s) : r[j].path = s[j].path
          /\ r[Len(s)].todo = s[Len(s)].todo \ {n}
      BY TakenFrame
    <2> QED
      BY <1>1, <2>1
  <1>4. Way(r, e, k + 1) = e /\ \A j \in 1 .. k : Way(r, e, j) = s[j].path /\ Way(s, h, j) = s[j].path
    BY <1>1, <1>2, <1>3 DEF Way
  <1>5. /\ Way(s, h, 1) = root
        /\ \A j \in 1 .. k : IsPrefix(root, s[j].path) /\ Len(s[j].path) = Len(root) + j - 1
        /\ \A j \in 1 .. k : j < k => \E m \in Names \ s[j].todo : Way(s, h, j + 1) = Append(s[j].path, m)
    BY <1>1 DEF Chained
  <1>6. /\ \A j \in 1 .. k : IsDir(s[j].path) /\ s[j].todo \subseteq Listing(s[j].path)
        /\ \A j \in 1 .. k : \A m \in Listing(s[j].path) \ s[j].todo : j < k /\ Way(s, h, j + 1) = Append(s[j].path, m)
    BY <1>1 DEF Emptying
  <1>7. \A j \in 1 .. k : (j \in 1 .. k - 1 /\ j + 1 \in 1 .. k) \/ j = k
    BY <1>2
  <1>8. \A j \in 1 .. k : \E m \in Names \ r[j].todo : Way(r, e, j + 1) = Append(r[j].path, m)
    <2> TAKE j \in 1 .. k
    <2>1. CASE j \in 1 .. k - 1 /\ j + 1 \in 1 .. k
      <3>1. PICK m \in Names \ s[j].todo : Way(s, h, j + 1) = Append(s[j].path, m)
        BY <1>2, <1>5, <2>1
      <3>2. Way(r, e, j + 1) = Way(s, h, j + 1)
        BY <1>4, <2>1
      <3> QED
        BY <1>3, <2>1, <3>1, <3>2
    <2>2. CASE j = k
      <3>1. n \in Names \ r[k].todo /\ e = Append(r[k].path, n)
        BY <1>2, <1>3, <1>13
      <3> QED
        BY <1>4, <2>2, <3>1
    <2> QED
      BY <1>7, <2>1, <2>2
  <1>9. Chained(root, at, r, e)
    <2>1. Way(r, e, 1) = root
      BY <1>4, <1>5, <1>13
    <2>2. \A j \in 1 .. Len(r) : IsPrefix(root, r[j].path) /\ Len(r[j].path) = Len(root) + j - 1
      BY <1>3, <1>5
    <2> QED
      BY <1>3, <1>8, <2>1, <2>2 DEF Chained
  <1>10. \A j \in 1 .. k : IsDir(r[j].path) /\ r[j].todo \subseteq Listing(r[j].path)
    <2> TAKE j \in 1 .. k
    <2>1. r[j].todo \subseteq s[j].todo
      BY <1>3, <1>7
    <2> QED
      BY <1>3, <1>6, <2>1
  <1>11. ASSUME NEW j \in 1 .. k, NEW m \in Listing(r[j].path) \ r[j].todo
         PROVE  Way(r, e, j + 1) = Append(r[j].path, m)
    <2>1. CASE j \in 1 .. k - 1 /\ j + 1 \in 1 .. k
      <3>1. m \in Listing(s[j].path) \ s[j].todo
        BY <1>3, <1>11, <2>1
      <3>2. Way(s, h, j + 1) = Append(s[j].path, m)
        BY <1>6, <3>1
      <3>3. Way(r, e, j + 1) = Way(s, h, j + 1)
        BY <1>4, <2>1
      <3> QED
        BY <1>3, <3>2, <3>3
    <2>2. CASE j = k
      <3>2. r[k].path = s[k].path
        BY <1>3, <1>13
      <3>1. m = n
        <4>1. m \in Listing(s[k].path) /\ m \notin s[k].todo \ {n}
          BY <1>3, <1>11, <2>2, <3>2
        <4>2. m \in s[k].todo
          <5> SUFFICES ASSUME m \notin s[k].todo PROVE FALSE
            OBVIOUS
          <5>1. k < k
            BY <1>6, <1>13, <4>1
          <5> QED
            BY <1>2, <5>1
        <4> QED
          BY <4>1, <4>2
      <3> QED
        BY <1>2, <1>4, <2>2, <3>1, <3>2
    <2> QED
      BY <1>7, <2>1, <2>2
  <1>12. Emptying(at, r, e)
    <2>1. \A j \in 1 .. Len(r) :
            /\ IsDir(r[j].path) /\ r[j].todo \subseteq Listing(r[j].path)
            /\ \A m \in Listing(r[j].path) \ r[j].todo : Way(r, e, j + 1) = Append(r[j].path, m)
      BY <1>3, <1>10, <1>11
    <2> QED
      BY <2>1 DEF Emptying
  <1> QED
    BY <1>9, <1>12

\* unlink or rmdir of the entry, which leaves nothing of that name.
LEMMA RemovalTakes ==
    ASSUME NEW root \in Paths, NEW s \in Seq(Frames), s # <<>>, NEW h, NEW g, NEW at \in {"unlink_entry", "rmdir_entry"},
           Chained(root, at, s, h), Emptying(at, s, h), privileged' = privileged,
           at = "unlink_entry" => fs' = Unlink(h), at = "rmdir_entry" => fs' = Rmdir(h)
    PROVE  Chained(root, "readdir", s, g) /\ Emptying("readdir", s, g)'
  <1>1. PICK k : k = Len(s)
    OBVIOUS
  <1>2. /\ h \in Paths /\ Len(h) = Len(root) + k /\ k \in Nat \ {0}
        /\ \E n \in Names \ s[k].todo : h = Append(s[k].path, n)
    BY <1>1, ChainedEntry
  <1>3. /\ Way(s, h, 1) = root
        /\ \A j \in 1 .. k : IsPrefix(root, s[j].path) /\ Len(s[j].path) = Len(root) + j - 1
        /\ \A j \in 1 .. k : \E m \in Names \ s[j].todo : Way(s, h, j + 1) = Append(s[j].path, m)
    BY <1>1 DEF Chained
  <1>4. /\ \A j \in 1 .. k : IsDir(s[j].path) /\ s[j].todo \subseteq Listing(s[j].path)
        /\ \A j \in 1 .. k : \A m \in Listing(s[j].path) \ s[j].todo : Way(s, h, j + 1) = Append(s[j].path, m)
    BY <1>1 DEF Emptying
  <1>5. \A j \in 1 .. k : Way(s, g, j) = s[j].path /\ Way(s, h, j) = s[j].path
    BY <1>1 DEF Way
  <1>6. Way(s, h, k + 1) = h
    BY <1>1, <1>2 DEF Way
  <1>7. \A j \in 1 .. k : (j < k /\ j + 1 \in 1 .. k) \/ j = k
    BY <1>2
  <1>8. Chained(root, "readdir", s, g)
    <2>1. Way(s, g, 1) = root
      <3>1. 1 \in 1 .. k
        BY <1>2
      <3> QED
        BY <1>3, <1>5, <3>1
    <2>2. \A j \in 1 .. k : j < k => \E m \in Names \ s[j].todo : Way(s, g, j + 1) = Append(s[j].path, m)
      <3> SUFFICES ASSUME NEW j \in 1 .. k, j < k
                   PROVE  \E m \in Names \ s[j].todo : Way(s, g, j + 1) = Append(s[j].path, m)
        OBVIOUS
      <3>1. Way(s, g, j + 1) = Way(s, h, j + 1)
        BY <1>2, <1>5
      <3> QED
        BY <1>3, <3>1
    <2> QED
      BY <1>1, <1>3, <2>1, <2>2 DEF Chained
  <1>9. fs' = Without(h) \/ (fs' = fs /\ h \notin DOMAIN fs)
    BY DEF Emptying, Unlink, Rmdir, IsDir, Stat
  <1>10. ASSUME NEW j \in 1 .. k
         PROVE  IsDir(s[j].path)' /\ Listing(s[j].path)' = {n \in Listing(s[j].path) : Append(s[j].path, n) # h}
    <2>1. PICK p : p = s[j].path
      OBVIOUS
    <2>2. p \in Paths /\ IsDir(p) /\ Len(p) < Len(h)
      <3>1. s[j] \in Frames /\ Len(root) \in Nat
        BY <1>1 DEF Paths
      <3> QED
        BY <1>2, <1>3, <1>4, <2>1, <3>1 DEF Frames
    <2>3. CASE fs' = Without(h)
      <3>1. IsDir(p)' /\ Listing(p)' = {n \in Listing(p) : Append(p, n) # h}
        BY <1>2, <2>2, <2>3, WithoutStays
      <3> QED
        BY <2>1, <3>1
    <2>4. CASE fs' = fs /\ h \notin DOMAIN fs
      <3>1. IsDir(p)' /\ Listing(p)' = Listing(p)
        BY <2>2, <2>4 DEF IsDir, Stat, Reach, Passable, Listing
      <3>2. \A n \in Listing(p) : Append(p, n) # h
        BY <2>4 DEF Listing
      <3> QED
        BY <2>1, <3>1, <3>2
    <2> QED
      BY <1>9, <2>3, <2>4
  <1>11. ASSUME NEW j \in 1 .. k, NEW n \in s[j].todo PROVE n \in Listing(s[j].path)'
    <2>1. Append(s[j].path, n) # h
      <3>1. s[j].path \in Paths /\ n \in Names /\ Len(root) \in Nat
        <4>1. s[j] \in Frames
          BY <1>1
        <4>2. s[j].path \in Paths /\ s[j].todo \in SUBSET Names
          BY <4>1 DEF Frames
        <4> QED
          BY <1>11, <4>2 DEF Paths
      <3>2. CASE j < k
        <4>1. Len(Append(s[j].path, n)) = Len(s[j].path) + 1
          BY <3>1, Entries
        <4>2. Len(s[j].path) = Len(root) + j - 1
          BY <1>3
        <4>3. Len(Append(s[j].path, n)) # Len(h)
          BY <1>2, <3>1, <3>2, <4>1, <4>2
        <4> QED
          BY <4>3
      <3>3. CASE j = k
        <4>1. PICK m \in Names \ s[k].todo : h = Append(s[k].path, m)
          BY <1>2
        <4>2. Append(s[k].path, n) = Append(s[k].path, m) => n = m
          BY <3>1, <3>3, Entries
        <4> QED
          BY <1>11, <3>3, <4>1, <4>2
      <3> QED
        BY <1>7, <3>2, <3>3
    <2> QED
      BY <1>4, <1>10, <2>1
  <1>12. ASSUME NEW j \in 1 .. k, NEW n \in Listing(s[j].path)' \ s[j].todo
         PROVE  j < k /\ Way(s, g, j + 1) = Append(s[j].path, n)
    <2>1. n \in Listing(s[j].path) \ s[j].todo /\ Append(s[j].path, n) # h
      BY <1>10, <1>12
    <2>2. Way(s, h, j + 1) = Append(s[j].path, n)
      BY <1>4, <2>1
    <2>3. j < k /\ j + 1 \in 1 .. k
      BY <1>6, <1>7, <2>1, <2>2
    <2> QED
      BY <1>5, <2>2, <2>3
  <1>13. Emptying("readdir", s, g)'
    <2>1. \A j \in 1 .. Len(s) :
            /\ IsDir(s[j].path)' /\ s[j].todo \subseteq Listing(s[j].path)'
            /\ \A n \in Listing(s[j].path)' \ s[j].todo : j < Len(s) /\ Way(s, g, j + 1) = Append(s[j].path, n)
      BY <1>1, <1>10, <1>11, <1>12
    <2> QED
      BY <2>1 DEF Emptying, Way
  <1> QED
    BY <1>8, <1>13

\* rmdir of the directory that Remove has emptied, and the return to the frame before it.
LEMMA RemovalEnds ==
    ASSUME TreeInv, NEW root \in Paths, NEW s \in Seq(Frames), s # <<>>, NEW h, Chained(root, "readdir", s, h),
           Emptying("readdir", s, h), Last(s).todo = {}, NEW e, e = Last(s).path, fs' = Rmdir(e),
           privileged' = privileged
    PROVE  /\ Front(s) = <<>> => Removed(root, TRUE)'
           /\ Front(s) # <<>> => Chained(root, "rmdir_entry", Front(s), e) /\ Emptying("rmdir_entry", Front(s), e)'
  <1>1. PICK k, r : k = Len(s) /\ r = Front(s)
    OBVIOUS
  <1>2. /\ k \in Nat \ {0} /\ e = s[k].path /\ s[k].todo = {} /\ e \in Paths
        /\ r \in Seq(Frames) /\ Len(r) = k - 1 /\ \A j \in 1 .. k - 1 : r[j] = s[j]
    <2>1. /\ Len(s) \in Nat \ {0} /\ Last(s) = s[Len(s)] /\ Last(s).path \in Paths
          /\ Front(s) \in Seq(Frames) /\ Len(Front(s)) = Len(s) - 1
          /\ \A j \in 1 .. Len(s) - 1 : Front(s)[j] = s[j]
      BY TopFrame
    <2> QED
      BY <1>1, <2>1
  <1>3. /\ Way(s, h, 1) = root
        /\ \A j \in 1 .. k : IsPrefix(root, s[j].path) /\ Len(s[j].path) = Len(root) + j - 1
        /\ \A j \in 1 .. k : j < k => \E m \in Names \ s[j].todo : Way(s, h, j + 1) = Append(s[j].path, m)
    BY <1>1 DEF Chained
  <1>4. /\ \A j \in 1 .. k : IsDir(s[j].path) /\ s[j].todo \subseteq Listing(s[j].path)
        /\ \A j \in 1 .. k : \A m \in Listing(s[j].path) \ s[j].todo : j < k /\ Way(s, h, j + 1) = Append(s[j].path, m)
    BY <1>1 DEF Emptying
  <1>5. k \in 1 .. k /\ 1 \in 1 .. k
    BY <1>2
  <1>6. Listing(e) = {}
    <2> SUFFICES ASSUME NEW m \in Listing(e) PROVE FALSE
      OBVIOUS
    <2>1. k < k
      BY <1>2, <1>4, <1>5
    <2> QED
      BY <1>2, <2>1
  <1>7. IsDir(e) /\ Empty(e)
    BY <1>2, <1>4, <1>5, <1>6, ListsAll DEF TreeInv
  <1>8. fs' = Without(e) /\ e \notin DOMAIN fs' /\ DOMAIN fs' \subseteq DOMAIN fs
    BY <1>7 DEF Rmdir, Without
  <1>9. \A j \in 1 .. k : Way(s, h, j) = s[j].path /\ Way(r, e, j) = s[j].path
    <2> TAKE j \in 1 .. k
    <2>1. Way(s, h, j) = s[j].path
      BY <1>1 DEF Way
    <2>2. CASE j < k
      BY <1>2, <2>1, <2>2 DEF Way
    <2>3. CASE j = k
      BY <1>2, <2>1, <2>3 DEF Way
    <2> QED
      BY <1>2, <2>1, <2>2, <2>3
  <1>10. CASE r = <<>>
    <2>1. k = 1
      BY <1>2, <1>10
    <2>2. e = root
      BY <1>2, <1>3, <1>5, <1>9, <2>1
    <2>3. Removed(root, TRUE)'
      BY <1>7, <1>8, <2>2 DEF Removed, Empty, IsDir, Stat
    <2> QED
      BY <1>1, <1>10, <2>3
  <1>11. CASE r # <<>>
    <2>1. Len(e) = Len(root) + k - 1 /\ Len(root) \in Nat
      <3>1. Len(s[k].path) = Len(root) + k - 1
        BY <1>3, <1>5
      <3> QED
        BY <1>2, <3>1 DEF Paths
    <2>2. \A j \in 1 .. k - 1 : j \in 1 .. k /\ j < k /\ j + 1 \in 1 .. k
      BY <1>2
    <2>3. \A j \in 1 .. k - 1 : \E m \in Names \ s[j].todo : Way(r, e, j + 1) = Append(s[j].path, m)
      <3> TAKE j \in 1 .. k - 1
      <3>1. \E m \in Names \ s[j].todo : Way(s, h, j + 1) = Append(s[j].path, m)
        BY <1>3, <2>2
      <3>2. Way(r, e, j + 1) = Way(s, h, j + 1)
        BY <1>9, <2>2
      <3> QED
        BY <3>1, <3>2
    <2>4. Chained(root, "rmdir_entry", r, e)
      <3>1. Way(r, e, 1) = root
        BY <1>3, <1>5, <1>9
      <3>2. \A j \in 1 .. Len(r) : r[j] = s[j] /\ j \in 1 .. k - 1 /\ j \in 1 .. k
        BY <1>2, <2>2
      <3> QED
        BY <1>3, <1>11, <2>3, <3>1, <3>2 DEF Chained
    <2>5. ASSUME NEW j \in 1 .. k - 1
          PROVE  IsDir(s[j].path)' /\ Listing(s[j].path)' = {n \in Listing(s[j].path) : Append(s[j].path, n) # e}
      <3>1. PICK p : p = s[j].path
        OBVIOUS
      <3>2. p \in Paths
        <4>1. s[j] \in Frames
          BY <1>1, <2>2
        <4> QED
          BY <3>1, <4>1 DEF Frames
      <3>3. Len(p) < Len(e) /\ IsDir(p)
        <4>1. Len(p) = Len(root) + j - 1
          BY <1>3, <2>2, <3>1
        <4> QED
          BY <1>2, <1>4, <2>1, <2>2, <3>1, <4>1
      <3>4. IsDir(p)' /\ Listing(p)' = {n \in Listing(p) : Append(p, n) # e}
        BY <1>2, <1>8, <3>2, <3>3, WithoutStays
      <3> QED
        BY <3>1, <3>4
    <2>6. ASSUME NEW j \in 1 .. k - 1, NEW n \in s[j].todo PROVE n \in Listing(s[j].path)'
      <3>1. s[j].path \in Paths /\ s[j].todo \in SUBSET Names /\ s[j].path \in Seq(Names)
        <4>1. s[j] \in Frames
          BY <1>1, <2>2
        <4> QED
          BY <4>1 DEF Frames, Paths
      <3>2. n \in Listing(s[j].path) /\ n \in Names
        BY <1>4, <2>2, <2>6, <3>1
      <3>3. Append(s[j].path, n) # e
        <4>1. CASE j + 1 = k
          <5>1. PICK m \in Names \ s[j].todo : Way(s, h, j + 1) = Append(s[j].path, m)
            BY <1>3, <2>2
          <5>2. e = Append(s[j].path, m)
            BY <1>2, <1>9, <2>2, <4>1, <5>1
          <5>3. Append(s[j].path, n) = Append(s[j].path, m) => n = m
            BY <3>1, <3>2, Entries
          <5> QED
            BY <2>6, <5>1, <5>2, <5>3
        <4>2. CASE j + 1 # k
          <5>1. Len(Append(s[j].path, n)) = Len(s[j].path) + 1
            BY <3>1, <3>2, Entries
          <5>2. Len(s[j].path) = Len(root) + j - 1
            BY <1>3, <2>2
          <5>3. Len(Append(s[j].path, n)) # Len(e)
            BY <1>2, <2>1, <4>2, <5>1, <5>2
          <5> QED
            BY <5>3
        <4> QED
          BY <4>1, <4>2
      <3> QED
        BY <2>5, <3>2, <3>3
    <2>7. ASSUME NEW j \in 1 .. k - 1, NEW n \in Listing(s[j].path)' \ s[j].todo
          PROVE  Way(r, e, j + 1) = Append(s[j].path, n)
      <3>1. n \in Listing(s[j].path) \ s[j].todo
        BY <2>5, <2>7
      <3>2. Way(s, h, j + 1) = Append(s[j].path, n)
        BY <1>4, <2>2, <3>1
      <3> QED
        BY <1>9, <2>2, <3>2
    <2>8. Emptying("rmdir_entry", r, e)'
      <3>1. \A j \in 1 .. Len(r) :
              /\ IsDir(s[j].path)' /\ s[j].todo \subseteq Listing(s[j].path)'
              /\ \A n \in Listing(s[j].path)' \ s[j].todo : Way(r, e, j + 1) = Append(s[j].path, n)
        BY <1>2, <2>5, <2>6, <2>7
      <3>2. \A j \in 1 .. Len(r) : r[j] = s[j]
        BY <1>2
      <3> QED
        BY <1>8, <3>1, <3>2 DEF Emptying, Way
    <2> QED
      BY <1>1, <1>11, <2>4, <2>8
  <1> QED
    BY <1>1, <1>10, <1>11

\* A step of the Remove itself.
LEMMA OwnRemoval ==
    ASSUME GroundInv, NEW t \in Threads, Step(t), pc[t] \in RemoveSteps, NEW root \in Paths,
           Removal(root, pc[t], stack[t], full_path[t], ret[t])
    PROVE  Removal(root, pc[t], stack[t], full_path[t], ret[t])'
  <1>1. PICK s, h, at : s = stack[t] /\ h = full_path[t] /\ at = pc[t]
    OBVIOUS
  <1>2. PICK s1, h1, at1, r1 : s1 = stack'[t] /\ h1 = full_path'[t] /\ at1 = pc'[t] /\ r1 = ret'[t]
    OBVIOUS
  <1>3. /\ Shapes /\ FrameInv /\ TreeInv /\ s \in Seq(Frames) /\ privileged' = privileged
        /\ at \in {"readdir", "unlink_entry", "rmdir_entry"} => s # <<>>
        /\ at \in {"opendir", "unlink_entry", "rmdir_entry"} => h \in Paths
    BY <1>1, StepAlone DEF GroundInv, CallInv, ReportInv, FrameInv, Framed, Alone
  <1>4. Chained(root, at, s, h) /\ Emptying(at, s, h)
    BY <1>1 DEF Removal, RemoveSteps
  <1> SUFFICES Removal(root, at1, s1, h1, r1)'
    <2>1. Removal(root, at1, s1, h1, r1)' <=> Removal(root, pc[t], stack[t], full_path[t], ret[t])'
      BY <1>2
    <2> QED
      BY <2>1
  <1>5. ASSUME at1 # "idle", Chained(root, at1, s1, h1), Emptying(at1, s1, h1)' PROVE Removal(root, at1, s1, h1, r1)'
    <2>1. Chained(root, at1, s1, h1)'
      BY <1>5 DEF Chained, Way
    <2> QED
      BY <1>5, <2>1 DEF Removal
  <1>6. ASSUME at1 = "idle", Removed(root, r1)' PROVE Removal(root, at1, s1, h1, r1)'
    BY <1>6 DEF Removal
  <1>7. ASSUME fs' = fs, Emptying(at1, s1, h1) PROVE Emptying(at1, s1, h1)'
    BY <1>3, <1>7 DEF Emptying, IsDir, IsFile, Stat, Reach, Passable, Listing, Way
  <1>8. CASE Opens(t, s, h)
    <2>1. /\ at = "opendir" /\ h \in Paths /\ IsDir(h) /\ at1 = "readdir" /\ fs' = fs
          /\ s1 = Append(s, [path |-> h, todo |-> Listing(h)])
      BY <1>1, <1>2, <1>3, <1>8 DEF Opens
    <2>2. Chained(root, "readdir", s1, h1) /\ Emptying("readdir", s1, h1)
      BY <1>3, <1>4, <2>1, RemovalOpens
    <2> QED
      BY <1>5, <1>7, <2>1, <2>2
  <1>9. CASE OpensNot(t, s, h)
    <2>1. /\ at = "opendir" /\ ~IsDir(h) /\ fs' = fs
          /\ s = <<>> => at1 = "idle" /\ r1 = FALSE
      BY <1>1, <1>2, <1>9 DEF OpensNot
    <2>2. s = <<>>
      BY <1>4, <2>1 DEF Emptying
    <2>3. h = root
      BY <1>4, <2>2 DEF Chained, Way
    <2>4. Removed(root, FALSE)'
      BY <1>3, <2>1, <2>3 DEF Removed, IsDir, Stat, Reach, Passable
    <2> QED
      BY <1>6, <2>1, <2>2, <2>4
  <1>10. CASE Takes(t, s, h)
    <2>1. /\ at \in {"unlink_entry", "rmdir_entry"} /\ at1 = "readdir" /\ s1 = s
          /\ at = "unlink_entry" => fs' = Unlink(h)
          /\ at = "rmdir_entry" => fs' = Rmdir(h)
      BY <1>1, <1>2, <1>10 DEF Takes
    <2>2. Chained(root, "readdir", s, h1) /\ Emptying("readdir", s, h1)'
      BY <1>3, <1>4, <2>1, RemovalTakes
    <2> QED
      BY <1>5, <2>1, <2>2
  <1>11. CASE Ends(t, s)
    <2>1. /\ at = "readdir" /\ s # <<>> /\ Last(s).todo = {} /\ fs' = Rmdir(Last(s).path)
          /\ h1 = Last(s).path /\ s1 = Front(s)
          /\ Front(s) = <<>> => at1 = "idle" /\ r1 = TRUE
          /\ Front(s) # <<>> => at1 = "rmdir_entry"
      BY <1>1, <1>2, <1>3, <1>11 DEF Ends, Leaves
    <2>2. /\ Front(s) = <<>> => Removed(root, TRUE)'
          /\ Front(s) # <<>> => Chained(root, "rmdir_entry", Front(s), h1) /\ Emptying("rmdir_entry", Front(s), h1)'
      BY <1>3, <1>4, <2>1, RemovalEnds
    <2> QED
      BY <1>5, <1>6, <2>1, <2>2
  <1>12. ASSUME NEW n, at = "readdir", n \in Last(s).todo, NEW e, e = Append(Last(s).path, n)
         PROVE  Stat(e) /\ (~IsDir(e) => IsFile(e))
    <2>1. Len(s) \in Nat \ {0} /\ Last(s) = s[Len(s)] /\ Last(s).path \in Paths
      BY <1>3, <1>12, TopFrame
    <2>2. Len(s) \in 1 .. Len(s)
      BY <2>1
    <2>3. IsDir(Last(s).path) /\ n \in Listing(Last(s).path)
      BY <1>4, <1>12, <2>1, <2>2 DEF Emptying
    <2> QED
      BY <1>3, <1>12, <2>1, <2>3, ListedThere
  <1>13. CASE \E n : Reads(t, s, n)
    <2>1. PICK n : Reads(t, s, n)
      BY <1>13
    <2>2. /\ at = "readdir" /\ s # <<>> /\ n \in Last(s).todo /\ fs' = fs
          /\ h1 = Append(Last(s).path, n) /\ s1 = EntryTaken(s, n)
          /\ at1 = IF IsDir(h1) THEN "opendir" ELSE "unlink_entry"
      BY <1>1, <1>2, <1>3, <2>1 DEF Reads
    <2>3. IsDir(h1) \/ IsFile(h1)
      BY <1>12, <2>2
    <2>4. at1 \in {"opendir", "unlink_entry"} /\ (at1 = "opendir" => IsDir(h1)) /\ (at1 = "unlink_entry" => IsFile(h1))
      BY <2>2, <2>3
    <2>5. Chained(root, at1, s1, h1) /\ Emptying(at1, s1, h1)
      BY <1>3, <1>4, <2>2, <2>4, RemovalReads
    <2> QED
      BY <1>5, <1>7, <2>2, <2>4, <2>5
  <1>14. CASE \E n : ReadsNot(t, s, n)
    BY <1>1, <1>12, <1>14 DEF ReadsNot
  <1>15. \/ Opens(t, s, h) \/ OpensNot(t, s, h) \/ Takes(t, s, h) \/ Ends(t, s)
         \/ \E n : Reads(t, s, n) \/ ReadsNot(t, s, n)
    BY <1>1, <1>3, StepFrames
  <1> QED
    BY <1>8, <1>9, <1>10, <1>11, <1>13, <1>14, <1>15

\* A step elsewhere.
LEMMA OthersRemoval ==
    ASSUME NEW root \in Paths, Spared(root), privileged' = privileged, NEW at, NEW s \in Seq(Frames), NEW h, NEW r,
           Removal(root, at, s, h, r)
    PROVE  Removal(root, at, s, h, r)'
  <1>1. IsPrefix(root, root)
    BY PathOrder DEF Begins
  <1>2. CASE at = "idle"
    <2>1. /\ IsDir(root) <=> IsDir(root)'
          /\ root \in DOMAIN fs <=> root \in DOMAIN fs'
      BY <1>1, SparedStays
    <2>2. Empty(root) => Empty(root)'
      BY DEF Empty, Spared, IsStrictPrefix
    <2> QED
      BY <1>2, <2>1, <2>2 DEF Removal, Removed
  <1>3. CASE at # "idle"
    <2>1. Chained(root, at, s, h) /\ Emptying(at, s, h)
      BY <1>3 DEF Removal
    <2>2. Chained(root, at, s, h)'
      BY <2>1 DEF Chained, Way
    <2>3. ASSUME NEW j \in 1 .. Len(s)
          PROVE  /\ IsDir(s[j].path) <=> IsDir(s[j].path)'
                 /\ Listing(s[j].path)' = Listing(s[j].path)
      <3>1. PICK p : p = s[j].path
        OBVIOUS
      <3>2. p \in Paths
        <4>1. s[j] \in Frames
          OBVIOUS
        <4> QED
          BY <3>1, <4>1 DEF Frames
      <3>3. IsPrefix(root, p)
        BY <2>1, <3>1 DEF Chained
      <3>4. /\ IsDir(p) <=> IsDir(p)'
            /\ Listing(p)' = Listing(p)
        BY <3>2, <3>3, SparedStays
      <3> QED
        BY <3>1, <3>4
    <2>4. ASSUME at # "readdir", s # <<>>
          PROVE  /\ IsDir(h) <=> IsDir(h)'
                 /\ IsFile(h) <=> IsFile(h)'
                 /\ h \in DOMAIN fs <=> h \in DOMAIN fs'
      <3>1. h \in Paths /\ IsPrefix(root, h)
        BY <2>1, <2>4, ChainedEntry
      <3> QED
        BY <3>1, SparedStays
    <2>5. s = <<>> => at = "opendir"
      BY <2>1 DEF Chained
    <2>6. Emptying(at, s, h)'
      <3>1. \A j \in 1 .. Len(s) :
              /\ IsDir(s[j].path)'
              /\ s[j].todo \subseteq Listing(s[j].path)'
              /\ \A n \in Listing(s[j].path)' \ s[j].todo :
                   (j < Len(s) \/ at # "readdir") /\ Way(s, h, j + 1) = Append(s[j].path, n)
        BY <2>1, <2>3 DEF Emptying
      <3>2. /\ at = "opendir" /\ s # <<>> => IsDir(h)'
            /\ at = "unlink_entry" => IsFile(h)'
            /\ at = "rmdir_entry" => h \notin DOMAIN fs'
        BY <2>1, <2>4, <2>5 DEF Emptying
      <3> QED
        BY <3>1, <3>2 DEF Emptying, Way
    <2> QED
      BY <1>3, <2>2, <2>6 DEF Removal
  <1> QED
    BY <1>2, <1>3

\* A step keeps what is known of every Remove.
LEMMA RemovalStep ==
    ASSUME GroundInv, GroundInv', RemoveInv, NEW u \in Threads, Step(u), NEW t \in Threads
    PROVE  Removing(t)'
  <1>1. /\ Shapes /\ FrameInv /\ call' = call /\ privileged' = privileged
        /\ Called(t) /\ Framed(t) /\ pc[t] \in Locations /\ seen \in [Threads -> 0 .. 2]
        /\ seen' \in [Threads -> 0 .. 2]
    BY StepAlone DEF GroundInv, CallInv, MaskTypes, Shapes, ReportInv, FrameInv, Alone
  <1> SUFFICES ASSUME call[t].op = "RemoveDir", seen'[t] = 0
               PROVE  Removal(call[t].from, pc[t], stack[t], full_path[t], ret[t])'
    BY <1>1 DEF Removing
  <1>2. PICK root : root = call[t].from
    OBVIOUS
  <1>3. root \in Paths /\ Removing(t)
    BY <1>1, <1>2 DEF Called, RemoveInv
  <1> SUFFICES Removal(root, pc[t], stack[t], full_path[t], ret[t])'
    BY <1>1, <1>2
  <1>4. CASE u = t
    <2>1. seen[t] = 0
      BY <1>4 DEF Step, Recorded
    <2>2. pc[t] \in RemoveSteps
      <3>1. pc[t] # "idle"
        BY <1>1, <1>4, OwnStep
      <3> QED
        BY <1>1, <3>1 DEF Called, Locations, CreateSteps, CreateRSteps, RemoveSteps, CopySteps
    <2>3. Removal(root, pc[t], stack[t], full_path[t], ret[t])
      BY <1>2, <1>3, <2>1 DEF Removing
    <2> QED
      BY <1>3, <1>4, <2>2, <2>3, OwnRemoval
  <1>5. CASE u # t
    <2>1. seen[t] = 0 /\ Spared(root)
      BY <1>1, <1>2, <1>3, <1>5, SparedByOthers
    <2>2. Removal(root, pc[t], stack[t], full_path[t], ret[t])
      BY <1>2, <1>3, <2>1 DEF Removing
    <2>3. pc'[t] = pc[t] /\ stack'[t] = stack[t] /\ full_path'[t] = full_path[t] /\ ret'[t] = ret[t]
      BY <1>1, <1>5, StepAlone, StepFrames DEF Alone
    <2>4. PICK at, s, h, r : at = pc[t] /\ s = stack[t] /\ h = full_path[t] /\ r = ret[t]
      OBVIOUS
    <2>5. Removal(root, at, s, h, r)'
      <3>1. s \in Seq(Frames) /\ Removal(root, at, s, h, r)
        BY <1>1, <2>2, <2>4 DEF Framed
      <3> QED
        BY <1>1, <1>3, <2>1, <3>1, OthersRemoval
    <2> QED
      BY <2>3, <2>4, <2>5
  <1> QED
    BY <1>4, <1>5

\* A thread that begins a Remove has opened nothing.
LEMMA StartRemoval ==
    ASSUME GroundInv, RemoveInv, NEW u \in Threads, Start(u), NEW t \in Threads
    PROVE  Removing(t)'
  <1>1. /\ Shapes /\ FrameInv /\ DOMAIN full_path = Threads /\ Framed(t) /\ Called(t)
    BY DEF GroundInv, CallInv, ReportInv, FrameInv
  <1>2. /\ pc[u] = "idle" /\ Called(u)'
        /\ fs' = fs /\ privileged' = privileged /\ ret' = ret /\ stack' = stack
        /\ \A w \in Threads \ {u} : pc'[w] = pc[w] /\ call'[w] = call[w] /\ full_path'[w] = full_path[w]
        /\ call'[u].op = "RemoveDir" => pc'[u] = "opendir" /\ full_path'[u] = call'[u].from
    BY <1>1, StartCalled
  <1>3. seen' = [w \in Threads |->
                    CASE w = u -> 0
                      [] w # u /\ seen[w] = 1 /\ call[w] = call[u] -> 2
                      [] OTHER -> seen[w]]
    BY DEF Start
  <1> SUFFICES ASSUME call'[t].op = "RemoveDir", seen'[t] = 0
               PROVE  Removal(call[t].from, pc[t], stack[t], full_path[t], ret[t])'
    BY DEF Removing
  <1>4. CASE u = t
    <2>1. stack[t] = <<>>
      BY <1>1, <1>2, <1>4 DEF Framed, RemoveSteps
    <2>2. pc'[t] = "opendir" /\ full_path'[t] = call'[t].from /\ stack'[t] = <<>>
      BY <1>2, <1>4, <2>1
    <2>3. PICK root, r : root = call'[t].from /\ r = ret'[t]
      OBVIOUS
    <2>4. Len(<<>>) = 0
      OBVIOUS
    <2>5. Chained(root, "opendir", <<>>, root) /\ Emptying("opendir", <<>>, root)'
      BY <2>4 DEF Chained, Emptying, Way
    <2>6. Removal(root, "opendir", <<>>, root, r)'
      <3>1. Chained(root, "opendir", <<>>, root)'
        BY <2>5 DEF Chained, Way
      <3> QED
        BY <2>5, <3>1 DEF Removal
    <2> QED
      BY <2>2, <2>3, <2>6
  <1>5. CASE u # t
    <2>1. /\ pc'[t] = pc[t] /\ call'[t] = call[t] /\ full_path'[t] = full_path[t] /\ stack'[t] = stack[t]
          /\ ret'[t] = ret[t]
      BY <1>2, <1>5
    <2>2. seen[t] = 0
      <3>1. seen'[t] = IF seen[t] = 1 /\ call[t] = call[u] THEN 2 ELSE seen[t]
        BY <1>3, <1>5
      <3> QED
        BY <3>1
    <2>3. Removal(call[t].from, pc[t], stack[t], full_path[t], ret[t])
      BY <2>1, <2>2 DEF RemoveInv, Removing
    <2>4. PICK root, at, s, h, r :
             root = call[t].from /\ at = pc[t] /\ s = stack[t] /\ h = full_path[t] /\ r = ret[t]
      OBVIOUS
    <2>5. Removal(root, at, s, h, r)
      BY <2>3, <2>4
    <2>6. Removal(root, at, s, h, r)'
      BY <1>2, <2>5 DEF Removal, Removed, Chained, Emptying, Empty, IsDir, IsFile, Stat, Reach, Passable, Listing, Way
    <2> QED
      BY <2>1, <2>4, <2>6
  <1> QED
    BY <1>4, <1>5

\* The invariant of Remove.
LEMMA RemoveInvariant == Spec => []RemoveInv
  <1>1. Init => RemoveInv
    <2> SUFFICES ASSUME Init, NEW t \in Threads PROVE call[t].op # "RemoveDir"
      BY DEF RemoveInv, Removing
    <2> QED
      BY DEF Init, InitSystem
  <1>2. RemoveInv /\ GroundInv /\ GroundInv' /\ [Next]_vars => RemoveInv'
    <2> SUFFICES ASSUME RemoveInv, GroundInv, GroundInv', [Next]_vars, NEW t \in Threads PROVE Removing(t)'
      BY DEF RemoveInv
    <2>1. ASSUME NEW u \in Threads, Step(u) PROVE Removing(t)'
      BY <2>1, RemovalStep
    <2>2. ASSUME NEW u \in Threads, Start(u) PROVE Removing(t)'
      BY <2>2, StartRemoval
    <2>3. CASE UNCHANGED vars
      <3>1. UNCHANGED <<fs, privileged, call, pc, ret, stack, full_path, seen>>
        BY <2>3 DEF vars, kernelVars, threadVars, directoryVars
      <3>2. PICK root, at, p, h, r :
               root = call[t].from /\ at = pc[t] /\ p = stack[t] /\ h = full_path[t] /\ r = ret[t]
        OBVIOUS
      <3>3. Removal(root, at, p, h, r) => Removal(root, at, p, h, r)'
        BY <3>1 DEF Removal, Removed, Chained, Emptying, Empty, IsDir, IsFile, Stat, Reach, Passable, Listing, Way
      <3>4. Removing(t)
        BY DEF RemoveInv
      <3> QED
        BY <3>1, <3>2, <3>3, <3>4 DEF Removing
    <2> QED
      BY <2>1, <2>2, <2>3 DEF Next
  <1> QED
    BY <1>1, <1>2, GroundInvariant, PTL DEF Spec

(***************************************************************************)
(* Remove (directory.cpp:76-115) empties and removes a whole tree, however *)
(* deep and wide, in whatever order readdir lists it, when nobody else     *)
(* changes it: afterwards no directory of that name is left and, when it   *)
(* returns true, nothing at all of that name or below it.                  *)
(***************************************************************************)
THEOREM RemoveCompleteHolds == Spec => []RemoveComplete
  <1>1. RemoveInv => RemoveComplete
    <2> SUFFICES ASSUME RemoveInv, NEW t \in Threads, Returned(t), call[t].op = "RemoveDir", seen[t] = 0
                 PROVE  /\ ~IsDir(call[t].from)
                        /\ ret[t] => call[t].from \notin DOMAIN fs /\ Empty(call[t].from)
      BY DEF RemoveComplete
    <2> QED
      BY DEF RemoveInv, Removing, Removal, Removed, Returned
  <1> QED
    BY <1>1, RemoveInvariant, PTL

-----------------------------------------------------------------------------
(***************************************************************************)
(* Copy makes the destination equal to the source.                         *)
(***************************************************************************)
\* What is in a file, and what a File object is.
Cells == Pieces \cup {Part, Hole}
Handles == [ino : Inodes \cup {NoInode}, pos : Nat]

\* Whether a Copy that is at a location with the result r has its source open, and whether it has
\* its destination or had it when it returned.
HasSource(at, r) ==
    at \in {"umask_dst", "open_dst", "read", "write"} \/ (at \in {"restore_src", "restore_dst"} /\ r)
Opened(at, r) == at \in {"read", "write"} \/ (at \in {"restore_dst", "idle"} /\ r)

\* What a Copy holds.
Held(t) ==
    /\ src_file[t] \in Handles /\ dst_file[t] \in Handles
    /\ pc[t] \in {"restore_src", "umask_dst", "open_dst", "restore_dst", "read", "write"} => src_file[t].pos >= 1
    /\ pc[t] = "write" => buf[t][1] \in Cells
    /\ pc[t] \in {"umask_dst", "open_dst", "read", "write"} => ret[t]
ContentInv ==
    /\ data \in [Inodes -> Seq(Cells)]
    /\ DOMAIN src_file = Threads /\ DOMAIN dst_file = Threads /\ DOMAIN buf = Threads
    /\ \A t \in Threads : Held(t)

\* The step of Copy that a thread takes, with sf, df and b its source, its destination and its
\* buffer: it goes on with what it has, it opens the source, it opens the destination or fails to,
\* it reads a buffer or the end of the source, it writes the buffer, it returns with false.
Holds(u) == src_file'[u] = src_file[u] /\ dst_file'[u] = dst_file[u] /\ buf'[u] = buf[u]
Still == fs' = fs /\ data' = data
GoesOn(u) ==
    /\ Still /\ Holds(u) /\ ret'[u] = ret[u]
    /\ \/ pc[u] = "umask_src" /\ pc'[u] = "open_src"
       \/ pc[u] = "restore_src" /\ pc'[u] = "umask_dst" /\ ret[u]
       \/ pc[u] = "umask_dst" /\ pc'[u] = "open_dst"
       \/ pc[u] = "restore_dst" /\ pc'[u] = "read" /\ ret[u]
OpensFrom(u, p) ==
    /\ pc[u] = "open_src" /\ pc'[u] = "restore_src" /\ Still
    /\ src_file'[u] = [ino |-> IF IsFile(p) THEN fs[p].ino ELSE NoInode, pos |-> 1]
    /\ dst_file'[u] = dst_file[u] /\ ret'[u] = Stat(p)
OpensTo(u, p) ==
    /\ pc[u] = "open_dst" /\ pc'[u] = "restore_dst" /\ OpenOk(p)
    /\ fs' = With(p, Regular(OpenInode(p))) /\ data' = [data EXCEPT ![OpenInode(p)] = <<>>]
    /\ dst_file'[u] = [ino |-> OpenInode(p), pos |-> 1] /\ src_file'[u] = src_file[u] /\ ret'[u] = ret[u]
OpensToNot(u) ==
    /\ pc[u] = "open_dst" /\ pc'[u] = "restore_dst" /\ Still /\ Holds(u) /\ ret'[u] = FALSE
Fills(u, sf) ==
    /\ pc[u] = "read" /\ pc'[u] = "write" /\ Still /\ ret'[u] = ret[u]
    /\ sf.ino # NoInode /\ sf.pos <= Len(data[sf.ino])
    /\ buf'[u] = <<data[sf.ino][sf.pos]>>
    /\ src_file'[u] = [ino |-> sf.ino, pos |-> sf.pos + 1] /\ dst_file'[u] = dst_file[u]
Finishes(u, sf) ==
    /\ pc[u] = "read" /\ pc'[u] = "idle" /\ Still /\ ret'[u] = TRUE
    /\ sf.ino # NoInode /\ sf.pos > Len(data[sf.ino])
    /\ src_file'[u] = Closed /\ dst_file'[u] = Closed
Writes(u, df, piece) ==
    /\ pc[u] = "write" /\ pc'[u] = "read" /\ fs' = fs /\ ret'[u] = ret[u]
    /\ data' = [data EXCEPT ![df.ino] = WriteAt(@, df.pos, piece)]
    /\ dst_file'[u] = [ino |-> df.ino, pos |-> df.pos + 1] /\ src_file'[u] = src_file[u]
GivesUp(u, df) ==
    /\ pc'[u] = "idle" /\ ret'[u] = FALSE /\ fs' = fs
    /\ data' = data \/ data' = [data EXCEPT ![df.ino] = WriteAt(@, df.pos, Part)]
    /\ src_file'[u] = Closed /\ dst_file'[u] = Closed
CopyTakes(u, c, sf, df, b) ==
    \/ GoesOn(u) \/ OpensFrom(u, c.from) \/ OpensTo(u, c.to) \/ OpensToNot(u)
    \/ Fills(u, sf) \/ Finishes(u, sf) \/ Writes(u, df, b[1]) \/ GivesUp(u, df)

\* What a step of a thread does to the files it holds.
LEMMA StepCopies ==
    ASSUME Shapes, ContentInv, NEW u \in Threads, Step(u)
    PROVE  /\ DOMAIN src_file' = Threads /\ DOMAIN dst_file' = Threads /\ DOMAIN buf' = Threads
           /\ \A w \in Threads \ {u} :
                src_file'[w] = src_file[w] /\ dst_file'[w] = dst_file[w] /\ buf'[w] = buf[w]
           /\ pc[u] \notin CopySteps => data' = data /\ Holds(u) /\ pc'[u] \notin CopySteps
           /\ pc[u] \in CopySteps => CopyTakes(u, call[u], src_file[u], dst_file[u], buf[u])
  <1> USE DEF Goto, Return, CopyReturns, Shapes
  <1>1. /\ DOMAIN src_file = Threads /\ DOMAIN dst_file = Threads /\ DOMAIN buf = Threads
        /\ src_file[u] \in Handles /\ dst_file[u] \in Handles
    BY DEF ContentInv, Held
  <1>2. CASE Copy(u)
    <2>1. pc[u] \in CopySteps
      BY <1>2 DEF Copy, SetMask, OpenSource, OpenDestination, CopyOpened, CopyRead, CopyReadError, CopyWrite, CopySteps
    <2> SUFFICES /\ DOMAIN src_file' = Threads /\ DOMAIN dst_file' = Threads /\ DOMAIN buf' = Threads
                 /\ \A w \in Threads \ {u} :
                      src_file'[w] = src_file[w] /\ dst_file'[w] = dst_file[w] /\ buf'[w] = buf[w]
                 /\ CopyTakes(u, call[u], src_file[u], dst_file[u], buf[u])
      BY <2>1
    <2> USE DEF CopyTakes
    <2>2. CASE SetMask(u, "umask_src", "open_src") /\ UNCHANGED fileVars
      BY <1>1, <2>2 DEF SetMask, fileVars, GoesOn, Holds, Still
    <2>3. CASE OpenSource(u)
      BY <1>1, <2>3 DEF OpenSource, kernelVars, OpensFrom, Still
    <2>4. CASE CopyOpened(u, "restore_src", "umask_dst")
      BY <1>1, <2>4 DEF CopyOpened, fileVars, GoesOn, Holds, Still, GivesUp
    <2>5. CASE SetMask(u, "umask_dst", "open_dst") /\ UNCHANGED fileVars
      BY <1>1, <2>5 DEF SetMask, fileVars, GoesOn, Holds, Still
    <2>6. CASE OpenDestination(u)
      BY <1>1, <2>6 DEF OpenDestination, OpensTo, OpensToNot, Holds, Still
    <2>7. CASE CopyOpened(u, "restore_dst", "read")
      BY <1>1, <2>7 DEF CopyOpened, fileVars, GoesOn, Holds, Still, GivesUp
    <2>8. CASE CopyRead(u)
      BY <1>1, <2>8 DEF CopyRead, kernelVars, Fills, Finishes, Still, Handles
    <2>9. CASE CopyReadError(u)
      BY <1>1, <2>9 DEF CopyReadError, kernelVars, GivesUp
    <2>10. CASE CopyWrite(u)
      BY <1>1, <2>10 DEF CopyWrite, Writes, GivesUp, Handles
    <2> QED
      BY <1>2, <2>2, <2>3, <2>4, <2>5, <2>6, <2>7, <2>8, <2>9, <2>10 DEF Copy
  <1>3. CASE ~Copy(u)
    <2> SUFFICES /\ data' = data /\ src_file' = src_file /\ dst_file' = dst_file /\ buf' = buf
                 /\ pc[u] \notin CopySteps /\ pc'[u] \notin CopySteps
      BY <1>1 DEF Holds
    <2> USE DEF CopySteps, fileVars
    <2>1. CASE Create(u) /\ UNCHANGED fileVars
      BY <2>1 DEF Create, CreateExist, kernelVars, SetMask, CreateMkdir, RestoreMask
    <2>2. CASE Create_r(u) /\ UNCHANGED fileVars
      BY <2>2 DEF Create_r, CreateRBegin, SetMask, CreateRExist, kernelVars, CreateRMkdir, RestoreMask, NextLevel
    <2>3. CASE RenameStep(u) /\ UNCHANGED fileVars
      BY <2>3 DEF RenameStep
    <2>4. CASE RemoveTree(u) /\ UNCHANGED fileVars
      BY <2>4 DEF RemoveTree, OpenDir, ReadEntry, kernelVars, ChangeTree, RemoveSelf, RemoveReturns
    <2>5. CASE RemoveFile(u)
      BY <2>5 DEF RemoveFile
    <2> QED
      BY <1>3, <2>1, <2>2, <2>3, <2>4, <2>5 DEF Step, DirectoryStep, FileStep
  <1> QED
    BY <1>2, <1>3

\* What a content becomes when a buffer is written at a position.
HasWritten(a, pos, piece, d) ==
    /\ Len(d) = IF pos > Len(a) THEN pos ELSE Len(a)
    /\ \A i \in 1 .. Len(d) : d[i] = IF i = pos THEN piece ELSE IF i <= Len(a) THEN a[i] ELSE Hole

\* A write puts its buffer there, keeps the rest and fills the gap before it with holes.
LEMMA Written ==
    ASSUME NEW a \in Seq(Cells), NEW pos \in Nat, NEW piece \in Cells, NEW d, d = WriteAt(a, pos, piece)
    PROVE  d \in Seq(Cells) /\ HasWritten(a, pos, piece, d)
  <1>1. PICK n : n = IF pos > Len(a) THEN pos ELSE Len(a)
    OBVIOUS
  <1>2. n \in Nat /\ Len(a) \in Nat
    BY <1>1
  <1>3. d = [i \in 1 .. n |-> CASE i = pos -> piece [] i # pos /\ i <= Len(a) -> a[i] [] OTHER -> Hole]
    BY <1>1 DEF WriteAt
  <1>4. d = [i \in 1 .. n |-> IF i = pos THEN piece ELSE IF i <= Len(a) THEN a[i] ELSE Hole]
    BY <1>3
  <1>5. \A i \in 1 .. n : d[i] = IF i = pos THEN piece ELSE IF i <= Len(a) THEN a[i] ELSE Hole
    BY <1>4
  <1>6. \A i \in 1 .. n : d[i] \in Cells
    <2> TAKE i \in 1 .. n
    <2>1. i <= Len(a) => a[i] \in Cells
      BY <1>2
    <2>2. Hole \in Cells
      BY DEF Cells
    <2> QED
      BY <1>5, <2>1, <2>2
  <1>7. d \in [1 .. n -> Cells]
    BY <1>4, <1>6
  <1>8. d \in Seq(Cells) /\ Len(d) = n
    BY <1>2, <1>7
  <1> QED
    BY <1>1, <1>5, <1>8 DEF HasWritten

\* What the contents become.
LEMMA StepContents ==
    ASSUME ContentInv, TreeInv, NEW u \in Threads, Called(u), CopyTakes(u, call[u], src_file[u], dst_file[u], buf[u])
    PROVE  data' \in [Inodes -> Seq(Cells)]
  <1>1. PICK df, b : df = dst_file[u] /\ b = buf[u]
    OBVIOUS
  <1>2. data \in [Inodes -> Seq(Cells)] /\ df.pos \in Nat /\ (pc[u] = "write" => b[1] \in Cells)
    BY <1>1 DEF ContentInv, Handles, Held
  <1>3. ASSUME NEW piece \in Cells, NEW ino, data' = [data EXCEPT ![ino] = WriteAt(@, df.pos, piece)]
        PROVE  data' \in [Inodes -> Seq(Cells)]
    <2>1. ASSUME ino \in Inodes PROVE WriteAt(data[ino], df.pos, piece) \in Seq(Cells)
      <3>4. PICK a, pos : a = data[ino] /\ pos = df.pos
        OBVIOUS
      <3>1. a \in Seq(Cells) /\ pos \in Nat
        BY <1>2, <2>1, <3>4
      <3>2. PICK d : d = WriteAt(a, pos, piece)
        OBVIOUS
      <3>3. d \in Seq(Cells)
        BY <3>1, <3>2, Written
      <3> QED
        BY <3>2, <3>3, <3>4
    <2> QED
      BY <1>2, <1>3, <2>1
  <1>4. CASE Writes(u, df, b[1])
    BY <1>2, <1>3, <1>4 DEF Writes
  <1>5. CASE GivesUp(u, df)
    <2>1. Part \in Cells
      BY DEF Cells
    <2> QED
      BY <1>2, <1>3, <1>5, <2>1 DEF GivesUp
  <1>6. CASE OpensTo(u, call[u].to)
    <2>1. <<>> \in Seq(Cells)
      OBVIOUS
    <2>2. \A i \in Inodes : data'[i] \in Seq(Cells)
      BY <1>2, <1>6, <2>1 DEF OpensTo
    <2> QED
      BY <1>2, <1>6, <2>2 DEF OpensTo
  <1>7. ASSUME data' = data PROVE data' \in [Inodes -> Seq(Cells)]
    BY <1>2, <1>7
  <1> QED
    BY <1>1, <1>4, <1>5, <1>6, <1>7 DEF CopyTakes, GoesOn, OpensFrom, OpensToNot, Fills, Finishes, Still

\* A step of Copy, and what the thread holds then.
LEMMA StepHeld ==
    ASSUME ContentInv, TreeInv, NEW u \in Threads, Called(u), pc[u] \in CopySteps,
           CopyTakes(u, call[u], src_file[u], dst_file[u], buf[u])
    PROVE  Held(u)'
  <1>1. PICK sf, df, b, c : sf = src_file[u] /\ df = dst_file[u] /\ b = buf[u] /\ c = call[u]
    OBVIOUS
  <1>2. /\ sf \in Handles /\ df \in Handles /\ Held(u) /\ data \in [Inodes -> Seq(Cells)]
        /\ sf.ino \in Inodes \cup {NoInode} /\ df.ino \in Inodes \cup {NoInode} /\ sf.pos \in Nat /\ df.pos \in Nat
        /\ Closed \in Handles
    <2>1. sf \in Handles /\ df \in Handles /\ Held(u) /\ data \in [Inodes -> Seq(Cells)]
      BY <1>1 DEF ContentInv, Held
    <2> QED
      BY <2>1 DEF Handles, Closed
  <1>3. c.to \in Paths
    BY <1>1 DEF Called, CopySteps
  <1>4. /\ pc[u] \in {"restore_src", "umask_dst", "open_dst", "restore_dst", "read", "write"} => sf.pos >= 1
        /\ pc[u] = "write" => b[1] \in Cells
        /\ pc[u] \in {"umask_dst", "open_dst", "read", "write"} => ret[u]
    BY <1>1, <1>2 DEF Held
  <1>5. CASE GoesOn(u)
    BY <1>1, <1>2, <1>4, <1>5 DEF GoesOn, Holds, Held
  <1>6. CASE OpensFrom(u, c.from)
    <2>1. IsFile(c.from) => fs[c.from].ino \in Inodes
      BY InodeOf DEF IsFile, Stat, TreeInv
    <2>2. src_file'[u] \in Handles /\ src_file'[u].pos >= 1
      BY <1>6, <2>1 DEF OpensFrom, Handles
    <2> QED
      BY <1>1, <1>2, <1>6, <2>2 DEF OpensFrom, Held
  <1>7. CASE OpensTo(u, c.to)
    <2>1. OpenInode(c.to) \in Inodes
      BY <1>3, <1>7, OpenTree DEF OpensTo
    <2>2. dst_file'[u] \in Handles
      BY <1>7, <2>1 DEF OpensTo, Handles
    <2> QED
      BY <1>1, <1>2, <1>4, <1>7, <2>2 DEF OpensTo, Held
  <1>8. CASE OpensToNot(u)
    BY <1>1, <1>2, <1>4, <1>8 DEF OpensToNot, Holds, Held
  <1>9. CASE Fills(u, sf)
    <2>1. sf.ino \in Inodes /\ sf.pos \in 1 .. Len(data[sf.ino])
      BY <1>2, <1>4, <1>9 DEF Fills
    <2>2. data[sf.ino] \in Seq(Cells)
      BY <1>2, <2>1
    <2>3. data[sf.ino][sf.pos] \in Cells
      BY <2>1, <2>2
    <2>4. buf'[u][1] \in Cells /\ src_file'[u] \in Handles /\ src_file'[u].pos >= 1
      BY <1>2, <1>9, <2>3 DEF Fills, Handles
    <2> QED
      BY <1>1, <1>2, <1>4, <1>9, <2>4 DEF Fills, Held
  <1>10. CASE Finishes(u, sf)
    BY <1>2, <1>10 DEF Finishes, Held
  <1>11. CASE Writes(u, df, b[1])
    <2>1. dst_file'[u] \in Handles
      BY <1>2, <1>11 DEF Writes, Handles
    <2> QED
      BY <1>1, <1>2, <1>4, <1>11, <2>1 DEF Writes, Held
  <1>12. CASE GivesUp(u, df)
    BY <1>2, <1>12 DEF GivesUp, Held
  <1> QED
    BY <1>1, <1>5, <1>6, <1>7, <1>8, <1>9, <1>10, <1>11, <1>12 DEF CopyTakes

\* The files and what the threads hold of them.
LEMMA ContentInvariant == Spec => []ContentInv
  <1>1. Init => ContentInv
    <2> SUFFICES ASSUME Init PROVE ContentInv
      OBVIOUS
    <2>1. PICK tree \in InitTrees : data = tree.data
      BY DEF Init, InitSystem
    <2>2. data \in [Inodes -> Seq(Pieces)]
      BY <2>1, FileSystemAssumption
    <2>3. Pieces \subseteq Cells
      BY DEF Cells
    <2>4. data \in [Inodes -> Seq(Cells)]
      <3>1. \A i \in Inodes : data[i] \in Seq(Cells)
        BY <2>2, <2>3
      <3> QED
        BY <2>2, <3>1
    <2>5. Closed \in Handles
      BY DEF Closed, Handles
    <2>6. /\ DOMAIN src_file = Threads /\ DOMAIN dst_file = Threads /\ DOMAIN buf = Threads
          /\ \A t \in Threads : pc[t] = "idle" /\ src_file[t] = Closed /\ dst_file[t] = Closed
      BY DEF Init, InitSystem, InitFile
    <2> QED
      BY <2>4, <2>5, <2>6 DEF ContentInv, Held
  <1>2. ContentInv /\ GroundInv /\ [Next]_vars => ContentInv'
    <2> SUFFICES ASSUME ContentInv, GroundInv, [Next]_vars PROVE ContentInv'
      OBVIOUS
    <2>1. /\ Shapes /\ TreeInv /\ DOMAIN full_path = Threads /\ \A w \in Threads : Called(w)
          /\ data \in [Inodes -> Seq(Cells)]
          /\ DOMAIN src_file = Threads /\ DOMAIN dst_file = Threads /\ DOMAIN buf = Threads
          /\ \A t \in Threads : Held(t)
      BY DEF GroundInv, CallInv, ReportInv, FrameInv, ContentInv
    <2>2. ASSUME NEW u \in Threads, Step(u) PROVE ContentInv'
      <3>1. /\ DOMAIN src_file' = Threads /\ DOMAIN dst_file' = Threads /\ DOMAIN buf' = Threads
            /\ \A w \in Threads \ {u} :
                 src_file'[w] = src_file[w] /\ dst_file'[w] = dst_file[w] /\ buf'[w] = buf[w]
            /\ pc[u] \notin CopySteps => data' = data /\ Holds(u) /\ pc'[u] \notin CopySteps
            /\ pc[u] \in CopySteps => CopyTakes(u, call[u], src_file[u], dst_file[u], buf[u])
        BY <2>1, <2>2, StepCopies
      <3>2. Alone(u)
        BY <2>1, <2>2, StepAlone
      <3>3. data' \in [Inodes -> Seq(Cells)]
        BY <2>1, <3>1, StepContents
      <3>4. Held(u)'
        <4>1. CASE pc[u] \in CopySteps
          BY <2>1, <3>1, <4>1, StepHeld
        <4>2. CASE pc[u] \notin CopySteps
          BY <2>1, <3>1, <4>2 DEF Holds, Held, CopySteps
        <4> QED
          BY <4>1, <4>2
      <3>5. ASSUME NEW w \in Threads \ {u} PROVE Held(w)'
        BY <2>1, <3>1, <3>2, <3>5 DEF Held, Alone
      <3> QED
        BY <3>1, <3>3, <3>4, <3>5 DEF ContentInv
    <2>3. ASSUME NEW u \in Threads, Start(u) PROVE ContentInv'
      <3>1. /\ data' = data /\ ret' = ret /\ UNCHANGED fileVars
            /\ \A w \in Threads \ {u} : pc'[w] = pc[w]
            /\ pc'[u] \in {"create_exist", "create_r_umask", "opendir", "rename", "umask_src", "unlink"}
        BY <2>1, <2>3, StartCalled
      <3>2. Held(u)'
        BY <2>1, <3>1 DEF Held, fileVars
      <3>3. ASSUME NEW w \in Threads \ {u} PROVE Held(w)'
        BY <2>1, <3>1, <3>3 DEF Held, fileVars
      <3> QED
        BY <2>1, <3>1, <3>2, <3>3 DEF ContentInv, fileVars
    <2>4. CASE UNCHANGED vars
      <3>1. UNCHANGED <<data, pc, ret, src_file, dst_file, buf>>
        BY <2>4 DEF vars, kernelVars, threadVars, fileVars
      <3> QED
        BY <2>1, <3>1 DEF ContentInv, Held
    <2> QED
      BY <2>2, <2>3, <2>4 DEF Next
  <1> QED
    BY <1>1, <1>2, GroundInvariant, PTL DEF Spec

\* What a Copy knows of the tree: the source it has open is the one that is there, and so is the
\* destination, and it reads and writes them in step.
Handled(c, at, r, sf, df) ==
    /\ HasSource(at, r) => Stat(c.from) /\ (sf.ino # NoInode => IsFile(c.from) /\ sf.ino = fs[c.from].ino)
    /\ HasSource(at, r) /\ at \notin {"read", "write"} => sf.pos = 1
    /\ Opened(at, r) => IsFile(c.to) /\ (at # "idle" => df.ino = fs[c.to].ino)
    /\ at = "restore_dst" /\ r => df.pos = 1
    /\ at = "read" => sf.pos = df.pos
    /\ at = "write" => sf.pos = df.pos + 1 /\ sf.ino # NoInode
    /\ at = "idle" /\ r => IsFile(c.from)

\* The source is a file, and not the same one as the destination under another name.
Apart(c) == IsFile(c.from) /\ fs[c.from].ino # fs[c.to].ino

\* Nothing is in the destination that is not in the source at the same place, but for holes.
Fits(a, src) == \A i \in 1 .. Len(a) : i <= Len(src) /\ a[i] \in {src[i], Hole}
Filling(c, at, sf, df, b) ==
    /\ at = "read" => sf.pos <= Len(ContentAt(c.from)) + 1
    /\ at = "write" => df.pos <= Len(ContentAt(c.from)) /\ b[1] = ContentAt(c.from)[df.pos]
    /\ Fits(ContentAt(c.to), ContentAt(c.from))

\* All that a Copy has written so far is there.
Agree(m, a, src) == \A i \in 1 .. m : i <= Len(a) /\ a[i] = src[i]
Done(at, df, n) == IF at = "idle" THEN n ELSE df.pos - 1
Ahead(c, at, r, df) ==
    Opened(at, r) /\ Agree(Done(at, df, Len(ContentAt(c.from))), ContentAt(c.to), ContentAt(c.from))

\* Only the same copy interfered, and none of its threads failed.
Together(c) == \A u \in Threads : call[u] = c => seen[u] < 2 /\ ~(pc[u] = "idle" /\ ~ret[u])
Quiet(t) == seen[t] = 0 \/ (seen[t] = 1 /\ Together(call[t]))

\* A Copy alone is as far as it has written.  Of several that make the same copy one is: whoever
\* truncated the destination last, or has written behind that truncation where it stood.
Copied(t, c) ==
    IF seen[t] = 0 THEN Ahead(c, pc[t], ret[t], dst_file[t])
    ELSE \E x \in Threads : call[x] = c /\ Ahead(c, pc[x], ret[x], dst_file[x])
Filled(t, c) ==
    Opened(pc[t], ret[t]) /\ Apart(c) =>
        Filling(c, pc[t], src_file[t], dst_file[t], buf[t]) /\ Copied(t, c)
Copying(t, c) ==
    c.op = "Copy" /\ c.from # c.to /\ Quiet(t) =>
        Handled(c, pc[t], ret[t], src_file[t], dst_file[t]) /\ Filled(t, c)
CopyInv == \A t \in Threads : Copying(t, call[t])

\* Writing the source's buffer in its place.
LEMMA WriteFits ==
    ASSUME NEW a \in Seq(Cells), NEW src \in Seq(Cells), NEW pos \in Nat, pos <= Len(src), Fits(a, src),
           NEW piece \in Cells, piece = src[pos], NEW d, d = WriteAt(a, pos, piece)
    PROVE  /\ Fits(d, src)
           /\ \A m \in Int : Agree(m, a, src) => Agree(m, d, src)
           /\ Agree(pos - 1, a, src) => Agree(pos, d, src)
  <1>1. /\ d \in Seq(Cells) /\ Len(d) = IF pos > Len(a) THEN pos ELSE Len(a)
        /\ \A i \in 1 .. Len(d) : d[i] = IF i = pos THEN piece ELSE IF i <= Len(a) THEN a[i] ELSE Hole
    <2>1. d \in Seq(Cells) /\ HasWritten(a, pos, piece, d)
      BY Written
    <2> QED
      BY <2>1 DEF HasWritten
  <1>2. Len(a) \in Nat /\ Len(src) \in Nat /\ Len(d) \in Nat /\ Len(a) <= Len(d) /\ pos <= Len(d)
    BY <1>1
  <1>3. Fits(d, src)
    <2> SUFFICES ASSUME NEW i \in 1 .. Len(d) PROVE i <= Len(src) /\ d[i] \in {src[i], Hole}
      BY DEF Fits
    <2>1. CASE i = pos
      BY <1>1, <2>1
    <2>2. CASE i # pos /\ i <= Len(a)
      <3>1. i \in 1 .. Len(a)
        BY <1>2, <2>2
      <3> QED
        BY <1>1, <2>2, <3>1 DEF Fits
    <2>3. CASE i # pos /\ ~(i <= Len(a))
      <3>1. i <= pos
        BY <1>1, <1>2, <2>3
      <3> QED
        BY <1>1, <1>2, <2>3, <3>1
    <2> QED
      BY <2>1, <2>2, <2>3
  <1>4. ASSUME NEW i \in Nat \ {0}, i <= Len(a), a[i] = src[i] PROVE i <= Len(d) /\ d[i] = src[i]
    <2>1. i \in 1 .. Len(d)
      BY <1>2, <1>4
    <2> QED
      BY <1>1, <1>4, <2>1
  <1>5. ASSUME NEW m \in Int, Agree(m, a, src) PROVE Agree(m, d, src)
    <2> SUFFICES ASSUME NEW i \in 1 .. m PROVE i <= Len(d) /\ d[i] = src[i]
      BY DEF Agree
    <2>1. i \in Nat \ {0} /\ i <= Len(a) /\ a[i] = src[i]
      BY <1>5 DEF Agree
    <2> QED
      BY <1>4, <2>1
  <1>6. ASSUME Agree(pos - 1, a, src) PROVE Agree(pos, d, src)
    <2> SUFFICES ASSUME NEW i \in 1 .. pos PROVE i <= Len(d) /\ d[i] = src[i]
      BY DEF Agree
    <2>1. CASE i = pos
      <3>1. i \in 1 .. Len(d)
        BY <1>2
      <3> QED
        BY <1>1, <1>2, <2>1, <3>1
    <2>2. CASE i # pos
      <3>1. i \in 1 .. pos - 1
        BY <2>2
      <3>2. i \in Nat \ {0} /\ i <= Len(a) /\ a[i] = src[i]
        BY <1>6, <3>1 DEF Agree
      <3> QED
        BY <1>4, <3>2
    <2> QED
      BY <2>1, <2>2
  <1> QED
    BY <1>3, <1>5, <1>6

\* A step that leaves the source and the destination of a copy where they are.
Steady(c) ==
    /\ Stat(c.from) => Stat(c.from)' /\ fs'[c.from] = fs[c.from]
    /\ IsFile(c.to) => IsFile(c.to)' /\ fs'[c.to] = fs[c.to]

\* Then what a Copy knows of the tree stays so.
LEMMA HandledStays ==
    ASSUME NEW c, Steady(c), NEW at, NEW r, NEW sf, NEW df, Handled(c, at, r, sf, df)
    PROVE  /\ Handled(c, at, r, sf, df)'
           /\ Opened(at, r) => (Apart(c) <=> Apart(c)') /\ IsFile(c.to) /\ IsFile(c.to)'
  <1>1. HasSource(at, r)' <=> HasSource(at, r)
    BY DEF HasSource
  <1>2. Opened(at, r)' <=> Opened(at, r)
    BY DEF Opened
  <1>3. Stat(c.from) => (IsFile(c.from) <=> IsFile(c.from)')
    BY DEF Steady, IsFile
  <1>4. IsFile(c.from) => Stat(c.from)
    BY DEF IsFile
  <1>5. Opened(at, r) => Stat(c.from) /\ IsFile(c.to)
    BY <1>4 DEF Handled, Opened, HasSource
  <1>6. Handled(c, at, r, sf, df)'
    BY <1>1, <1>2, <1>3, <1>4 DEF Handled, Steady
  <1>7. Opened(at, r) => (Apart(c) <=> Apart(c)') /\ IsFile(c.to)'
    BY <1>3, <1>5 DEF Apart, Steady
  <1> QED
    BY <1>5, <1>6, <1>7

\* What a step does to the two contents, if it does not empty the destination: what is written is
\* the source's, and takes nothing away.
Onward(c) ==
    /\ ContentAt(c.from)' = ContentAt(c.from)
    /\ Fits(ContentAt(c.to), ContentAt(c.from)) => Fits(ContentAt(c.to)', ContentAt(c.from))
    /\ \A m \in Int : Agree(m, ContentAt(c.to), ContentAt(c.from)) => Agree(m, ContentAt(c.to)', ContentAt(c.from))

\* What a step of u's Copy c does to them: it goes on, or empties the destination and is the
\* one that is ahead then.
Moves(u, c) ==
    Apart(c)' /\ IsFile(c.to)' =>
        /\ ContentAt(c.from)' = ContentAt(c.from)
        /\ \/ /\ Apart(c) /\ IsFile(c.to) /\ Onward(c)
              /\ Opened(pc'[u], ret'[u]) => Opened(pc[u], ret[u])
              /\ Ahead(c, pc[u], ret[u], dst_file[u]) => Ahead(c, pc[u], ret[u], dst_file[u])'
           \/ ContentAt(c.to)' = <<>> /\ Ahead(c, pc[u], ret[u], dst_file[u])'

\* What is known before a step of u's Copy c, and what is known after it.
Ready(u, c) ==
    /\ ContentInv /\ TreeInv /\ c.from \in Paths /\ c.to \in Paths /\ c.from # c.to
    /\ Handled(c, pc[u], ret[u], src_file[u], dst_file[u])
    /\ Opened(pc[u], ret[u]) /\ Apart(c) => Filling(c, pc[u], src_file[u], dst_file[u], buf[u])
Proceeds(u, c) ==
    /\ Steady(c) /\ Moves(u, c)
    /\ Handled(c, pc[u], ret[u], src_file[u], dst_file[u])'
    /\ (Opened(pc[u], ret[u]) /\ Apart(c) => Filling(c, pc[u], src_file[u], dst_file[u], buf[u]))'

\* A step that leaves the tree and the contents alone.
LEMMA StillProceeds ==
    ASSUME NEW u, NEW c, Still, privileged' = privileged,
           NEW at, NEW r, NEW sf, NEW df, NEW b,
           at = pc'[u], r = ret'[u], sf = src_file'[u], df = dst_file'[u], at = "write" => b = buf'[u],
           Handled(c, at, r, sf, df),
           Opened(at, r) => Opened(pc[u], ret[u]),
           Apart(c) /\ Opened(at, r) => Filling(c, at, sf, df, b),
           Apart(c) /\ Ahead(c, pc[u], ret[u], dst_file[u]) => Ahead(c, at, r, df)
    PROVE  Proceeds(u, c)
  <1>1. /\ fs' = fs /\ data' = data
        /\ Stat(c.from) <=> Stat(c.from)'
        /\ IsFile(c.from) <=> IsFile(c.from)'
        /\ IsFile(c.to) <=> IsFile(c.to)'
    BY DEF Still, IsFile, Stat, Reach, Passable
  <1>2. ContentAt(c.from)' = ContentAt(c.from) /\ ContentAt(c.to)' = ContentAt(c.to)
    BY <1>1 DEF ContentAt
  <1>3. Apart(c) <=> Apart(c)'
    BY <1>1 DEF Apart
  <1>4. Steady(c)
    BY <1>1 DEF Steady
  <1>5. Onward(c)
    BY <1>2 DEF Onward
  <1>6. Handled(c, at, r, sf, df)'
    BY <1>1 DEF Handled, HasSource, Opened
  <1>7. Apart(c)' /\ Opened(at, r) => Filling(c, at, sf, df, b)'
    BY <1>2, <1>3 DEF Filling
  <1>8. Apart(c)' /\ Ahead(c, pc[u], ret[u], dst_file[u]) => Ahead(c, at, r, df)'
    BY <1>2, <1>3 DEF Ahead
  <1>9. Moves(u, c)
    BY <1>1, <1>2, <1>3, <1>5, <1>8 DEF Moves
  <1>10. (Opened(pc[u], ret[u]) /\ Apart(c) => Filling(c, pc[u], src_file[u], dst_file[u], buf[u]))'
    <2>1. CASE at = "write"
      BY <1>7, <2>1
    <2>2. CASE at # "write"
      BY <1>7, <2>2 DEF Filling
    <2> QED
      BY <2>1, <2>2
  <1> QED
    BY <1>4, <1>6, <1>9, <1>10 DEF Proceeds

\* The mask, the source, a read, a destination that does not open.
LEMMA CopyStill ==
    ASSUME NEW u \in Threads, NEW c, Ready(u, c), privileged' = privileged, NEW sf, sf = src_file[u],
           GoesOn(u) \/ OpensFrom(u, c.from) \/ OpensToNot(u) \/ Fills(u, sf) \/ Finishes(u, sf)
    PROVE  Proceeds(u, c)
  <1>1. PICK at, r, df, b : at = pc[u] /\ r = ret[u] /\ df = dst_file[u] /\ b = buf[u]
    OBVIOUS
  <1>2. PICK at1, r1, sf1, df1, b1 :
          at1 = pc'[u] /\ r1 = ret'[u] /\ sf1 = src_file'[u] /\ df1 = dst_file'[u] /\ b1 = buf'[u]
    OBVIOUS
  <1>3. /\ Handled(c, at, r, sf, df) /\ (Opened(at, r) /\ Apart(c) => Filling(c, at, sf, df, b))
        /\ sf \in Handles /\ df \in Handles /\ data \in [Inodes -> Seq(Cells)] /\ Tree(fs)
    BY <1>1 DEF Ready, ContentInv, Held, TreeInv
  <1>4. sf.pos \in Nat /\ df.pos \in Nat
    BY <1>3 DEF Handles
  <1> SUFFICES /\ Still /\ Handled(c, at1, r1, sf1, df1)
               /\ Opened(at1, r1) => Opened(at, r)
               /\ Apart(c) /\ Opened(at1, r1) => Filling(c, at1, sf1, df1, b1)
               /\ Apart(c) /\ Ahead(c, at, r, df) => Ahead(c, at1, r1, df1)
    BY <1>1, <1>2, StillProceeds
  <1>5. CASE GoesOn(u)
    <2>1. /\ Still /\ r1 = r /\ sf1 = sf /\ df1 = df
          /\ \/ at = "umask_src" /\ at1 = "open_src"
             \/ at = "restore_src" /\ at1 = "umask_dst" /\ r
             \/ at = "umask_dst" /\ at1 = "open_dst"
             \/ at = "restore_dst" /\ at1 = "read" /\ r
      BY <1>1, <1>2, <1>5 DEF GoesOn, Holds
    <2>2. Handled(c, at1, r1, sf1, df1)
      BY <1>3, <2>1 DEF Handled, HasSource, Opened
    <2>3. Opened(at1, r1) => at = "restore_dst" /\ r /\ at1 = "read"
      BY <2>1 DEF Opened
    <2>4. Opened(at1, r1) => Opened(at, r)
      BY <2>3 DEF Opened
    <2>5. Opened(at, r) => at = "restore_dst" /\ at1 = "read"
      BY <2>1 DEF Opened
    <2>6. Apart(c) /\ Opened(at1, r1) => Filling(c, at1, sf1, df1, b1)
      <3> SUFFICES ASSUME Apart(c), Opened(at1, r1) PROVE Filling(c, at1, sf1, df1, b1)
        OBVIOUS
      <3>1. Fits(ContentAt(c.to), ContentAt(c.from)) /\ sf.pos = 1
        BY <1>3, <2>3, <2>4 DEF Filling, Handled, HasSource
      <3>2. Len(ContentAt(c.from)) \in Nat
        <4>1. fs[c.from].ino \in Inodes
          BY <1>3, InodeOf DEF Apart, IsFile, Stat
        <4> QED
          BY <1>3, <4>1 DEF ContentAt
      <3> QED
        BY <2>1, <2>3, <3>1, <3>2 DEF Filling
    <2>7. Ahead(c, at, r, df) => Ahead(c, at1, r1, df1)
      BY <2>1, <2>5 DEF Ahead, Opened, Done
    <2> QED
      BY <2>1, <2>2, <2>4, <2>6, <2>7
  <1>6. CASE OpensFrom(u, c.from)
    <2>1. /\ Still /\ at = "open_src" /\ at1 = "restore_src" /\ r1 = Stat(c.from)
          /\ sf1 = [ino |-> IF IsFile(c.from) THEN fs[c.from].ino ELSE NoInode, pos |-> 1]
      BY <1>1, <1>2, <1>6 DEF OpensFrom
    <2>2. ~Opened(at, r) /\ ~Opened(at1, r1)
      BY <2>1 DEF Opened
    <2>3. Handled(c, at1, r1, sf1, df1)
      BY <2>1, <2>2 DEF Handled, HasSource
    <2> QED
      BY <2>1, <2>2, <2>3 DEF Ahead
  <1>7. CASE OpensToNot(u)
    <2>1. Still /\ at = "open_dst" /\ at1 = "restore_dst" /\ r1 = FALSE
      BY <1>1, <1>2, <1>7 DEF OpensToNot
    <2>2. ~Opened(at, r) /\ ~Opened(at1, r1) /\ ~HasSource(at1, r1)
      BY <2>1 DEF Opened, HasSource
    <2>3. Handled(c, at1, r1, sf1, df1)
      BY <2>1, <2>2 DEF Handled
    <2> QED
      BY <2>1, <2>2, <2>3 DEF Ahead
  <1>8. ASSUME at = "read", sf.ino # NoInode
        PROVE  /\ IsFile(c.from) /\ data[sf.ino] = ContentAt(c.from) /\ IsFile(c.to) /\ Opened(at, r)
               /\ df.ino = fs[c.to].ino /\ sf.pos = df.pos /\ Stat(c.from) /\ sf.ino = fs[c.from].ino
               /\ Len(ContentAt(c.from)) \in Nat
    <2>1. HasSource(at, r) /\ Opened(at, r)
      BY <1>8 DEF HasSource, Opened
    <2>2. /\ IsFile(c.from) /\ sf.ino = fs[c.from].ino /\ IsFile(c.to) /\ df.ino = fs[c.to].ino
          /\ sf.pos = df.pos /\ Stat(c.from)
      BY <1>3, <1>8, <2>1 DEF Handled
    <2>3. sf.ino \in Inodes
      BY <1>3, <2>2, InodeOf DEF IsFile, Stat
    <2> QED
      BY <1>3, <2>1, <2>2, <2>3 DEF ContentAt
  <1>9. CASE Fills(u, sf)
    <2>1. /\ Still /\ at = "read" /\ at1 = "write" /\ r1 = r /\ sf.ino # NoInode /\ sf.pos <= Len(data[sf.ino])
          /\ b1 = <<data[sf.ino][sf.pos]>> /\ sf1 = [ino |-> sf.ino, pos |-> sf.pos + 1] /\ df1 = df
      BY <1>1, <1>2, <1>9 DEF Fills
    <2>2. Handled(c, at1, r1, sf1, df1)
      BY <1>8, <2>1 DEF Handled, HasSource, Opened
    <2>3. Apart(c) => Filling(c, at1, sf1, df1, b1)
      <3> SUFFICES ASSUME Apart(c) PROVE Filling(c, at1, sf1, df1, b1)
        OBVIOUS
      <3>1. Fits(ContentAt(c.to), ContentAt(c.from))
        BY <1>3, <1>8, <2>1 DEF Filling
      <3> QED
        BY <1>8, <2>1, <3>1 DEF Filling
    <2>4. Ahead(c, at, r, df) => Ahead(c, at1, r1, df1)
      BY <2>1 DEF Ahead, Opened, Done
    <2> QED
      BY <1>8, <2>1, <2>2, <2>3, <2>4
  <1>10. CASE Finishes(u, sf)
    <2>1. /\ Still /\ at = "read" /\ at1 = "idle" /\ r1 = TRUE /\ sf.ino # NoInode /\ sf.pos > Len(data[sf.ino])
      BY <1>1, <1>2, <1>10 DEF Finishes
    <2>2. Handled(c, at1, r1, sf1, df1)
      BY <1>8, <2>1 DEF Handled, HasSource, Opened
    <2>3. Apart(c) => Filling(c, at1, sf1, df1, b1)
      BY <1>3, <1>8, <2>1 DEF Filling
    <2>4. Ahead(c, at, r, df) => Ahead(c, at1, r1, df1)
      <3> SUFFICES ASSUME Ahead(c, at, r, df) PROVE Ahead(c, at1, r1, df1)
        OBVIOUS
      <3>1. PICK n : n = Len(ContentAt(c.from))
        OBVIOUS
      <3>2. Agree(df.pos - 1, ContentAt(c.to), ContentAt(c.from))
        BY <2>1 DEF Ahead, Done
      <3>3. n \in Nat /\ n <= df.pos - 1
        BY <1>4, <1>8, <2>1, <3>1
      <3>4. \A i \in 1 .. n : i \in 1 .. df.pos - 1
        BY <1>4, <3>3
      <3>5. Agree(n, ContentAt(c.to), ContentAt(c.from))
        BY <3>2, <3>4 DEF Agree
      <3> QED
        BY <2>1, <3>1, <3>5 DEF Ahead, Opened, Done
    <2> QED
      BY <1>8, <2>1, <2>2, <2>3, <2>4
  <1> QED
    BY <1>5, <1>6, <1>7, <1>9, <1>10

\* The destination is opened and emptied, and made if it was not there.
LEMMA CopyOpensTo ==
    ASSUME NEW u \in Threads, NEW c, Ready(u, c), Held(u), privileged' = privileged, OpensTo(u, c.to)
    PROVE  Proceeds(u, c)
  <1>1. PICK r, sf, df, ino : r = ret[u] /\ sf = src_file[u] /\ df = dst_file[u] /\ ino = OpenInode(c.to)
    OBVIOUS
  <1>2. PICK df1 : df1 = dst_file'[u]
    OBVIOUS
  <1>3. PICK p, q : p = c.from /\ q = c.to
    OBVIOUS
  <1>4. /\ pc[u] = "open_dst" /\ pc'[u] = "restore_dst" /\ OpenOk(q) /\ ret'[u] = r /\ src_file'[u] = sf
        /\ fs' = With(q, Regular(ino)) /\ data' = [data EXCEPT ![ino] = <<>>]
        /\ df1 = [ino |-> ino, pos |-> 1]
    BY <1>1, <1>2, <1>3 DEF OpensTo
  <1>5. /\ p \in Paths /\ q \in Paths /\ p # q /\ TreeInv /\ Tree(fs)
        /\ data \in [Inodes -> Seq(Cells)] /\ Handled(c, "open_dst", r, sf, df) /\ r
    BY <1>1, <1>3, <1>4 DEF Ready, ContentInv, Held, TreeInv
  <1>6. /\ ino \in Inodes /\ (IsFile(q) => With(q, Regular(ino)) = fs)
        /\ ~IsFile(q) => q \notin DOMAIN fs
    BY <1>1, <1>3, <1>4, <1>5, OpenTree
  <1>7. IsFile(q) => fs' = fs
    BY <1>4, <1>6
  <1>8. /\ DOMAIN fs' = DOMAIN fs \cup {q} /\ fs'[q] = Regular(ino)
        /\ \A x \in DOMAIN fs : x # q => fs'[x] = fs[x]
    BY <1>4 DEF With
  <1>9. \A x \in DOMAIN fs : fs'[x] = fs[x]
    BY <1>6, <1>7, <1>8
  <1>10. \A x : Reach(x) => Reach(x)'
    BY <1>8, <1>9 DEF Reach, Passable, Ready
  <1>11. Stat(p) => Stat(p)' /\ fs'[p] = fs[p]
    BY <1>8, <1>9, <1>10 DEF Stat
  <1>12. IsFile(q)' /\ fs'[q].ino = ino
    BY <1>4, <1>8, <1>10 DEF OpenOk, IsFile, Stat, Regular
  <1>13. IsFile(q) => fs'[q] = fs[q]
    BY <1>7
  <1>14. Steady(c)
    BY <1>3, <1>11, <1>12, <1>13 DEF Steady
  <1>15. Stat(p) /\ (sf.ino # NoInode => IsFile(p) /\ sf.ino = fs[p].ino) /\ sf.pos = 1
    BY <1>3, <1>5 DEF Handled, HasSource
  <1>16. Handled(c, "restore_dst", r, sf, df1)'
    <2>1. sf.ino # NoInode => IsFile(p)' /\ sf.ino = fs'[p].ino
      BY <1>11, <1>15 DEF IsFile
    <2> QED
      BY <1>3, <1>4, <1>11, <1>12, <1>15, <2>1 DEF Handled, HasSource, Opened
  <1>17. ContentAt(q)' = <<>>
    BY <1>4, <1>5, <1>6, <1>12 DEF ContentAt
  <1>18. Apart(c)' => ContentAt(p)' = ContentAt(p)
    <2> SUFFICES ASSUME fs'[p].ino # fs'[q].ino PROVE ContentAt(p)' = ContentAt(p)
      BY <1>3 DEF Apart
    <2>1. fs'[p].ino = fs[p].ino /\ fs[p].ino # ino
      BY <1>11, <1>12, <1>15
    <2>2. data'[fs[p].ino] = data[fs[p].ino]
      BY <1>4, <1>5, <2>1
    <2> QED
      BY <2>1, <2>2 DEF ContentAt
  <1>19. ASSUME NEW b1 PROVE Filling(c, "restore_dst", sf, df1, b1)'
    <2>1. Len(ContentAt(q)') = 0
      BY <1>17
    <2>2. Fits(ContentAt(q), ContentAt(p))'
      BY <2>1 DEF Fits
    <2> QED
      BY <1>3, <2>2 DEF Filling
  <1>20. Ahead(c, "restore_dst", r, df1)'
    <2>1. Done("restore_dst", df1, Len(ContentAt(p)')) = 0
      BY <1>4 DEF Done
    <2>2. Agree(0, ContentAt(q)', ContentAt(p)')
      BY DEF Agree
    <2> QED
      BY <1>3, <1>5, <2>1, <2>2 DEF Ahead, Opened, Done
  <1>21. Moves(u, c)
    BY <1>1, <1>2, <1>3, <1>4, <1>17, <1>18, <1>20 DEF Moves
  <1>22. Filling(c, pc[u], src_file[u], dst_file[u], buf[u])'
    BY <1>1, <1>2, <1>4, <1>19
  <1> QED
    BY <1>1, <1>2, <1>4, <1>14, <1>16, <1>21, <1>22 DEF Proceeds

\* A buffer is written.
LEMMA CopyWrites ==
    ASSUME NEW u \in Threads, NEW c, Ready(u, c), Held(u), privileged' = privileged,
           NEW df, df = dst_file[u], NEW piece, piece = buf[u][1], Writes(u, df, piece)
    PROVE  Proceeds(u, c)
  <1>1. PICK r, sf, b : r = ret[u] /\ sf = src_file[u] /\ b = buf[u]
    OBVIOUS
  <1>2. PICK df1, b1 : df1 = dst_file'[u] /\ b1 = buf'[u]
    OBVIOUS
  <1>3. PICK p, q : p = c.from /\ q = c.to
    OBVIOUS
  <1>4. /\ pc[u] = "write" /\ pc'[u] = "read" /\ fs' = fs /\ ret'[u] = r /\ src_file'[u] = sf
        /\ data' = [data EXCEPT ![df.ino] = WriteAt(@, df.pos, piece)]
        /\ df1 = [ino |-> df.ino, pos |-> df.pos + 1]
    BY <1>1, <1>2 DEF Writes
  <1>5. /\ data \in [Inodes -> Seq(Cells)] /\ Tree(fs) /\ Handled(c, "write", r, sf, df) /\ df \in Handles
        /\ piece \in Cells /\ Opened("write", r) /\ (Apart(c) => Filling(c, "write", sf, df, b))
    BY <1>1, <1>4 DEF Ready, ContentInv, Held, TreeInv, Opened
  <1>6. /\ Stat(p) /\ IsFile(p) /\ sf.ino = fs[p].ino /\ sf.ino # NoInode /\ IsFile(q) /\ df.ino = fs[q].ino
        /\ sf.pos = df.pos + 1 /\ df.pos \in Nat
    BY <1>3, <1>5 DEF Handled, HasSource, Opened, Handles
  <1>7. fs[p].ino \in Inodes /\ fs[q].ino \in Inodes
    BY <1>5, <1>6, InodeOf DEF IsFile, Stat
  <1>8. /\ Stat(p)' /\ IsFile(p)' /\ IsFile(q)'
        /\ Apart(c) <=> Apart(c)'
    BY <1>3, <1>4, <1>6 DEF Apart, IsFile, Stat, Reach, Passable
  <1>9. Steady(c)
    BY <1>3, <1>4, <1>8 DEF Steady
  <1>10. Handled(c, "read", r, sf, df1)'
    BY <1>3, <1>4, <1>6, <1>8 DEF Handled, HasSource, Opened
  <1>11. ASSUME Apart(c)
         PROVE  /\ Onward(c)
                /\ Filling(c, "read", sf, df1, b1)'
                /\ Ahead(c, "write", r, df) => Ahead(c, "read", r, df1)'
    <2>1. PICK a, src, d : a = ContentAt(q) /\ src = ContentAt(p) /\ d = ContentAt(q)'
      OBVIOUS
    <2>2. a \in Seq(Cells) /\ src \in Seq(Cells) /\ Len(src) \in Nat
      BY <1>5, <1>7, <2>1 DEF ContentAt
    <2>3. ContentAt(p)' = src
      <3>1. fs[p].ino # fs[q].ino
        BY <1>3, <1>11 DEF Apart
      <3> QED
        BY <1>4, <1>6, <1>7, <2>1, <3>1 DEF ContentAt
    <2>4. d = WriteAt(a, df.pos, piece)
      BY <1>4, <1>5, <1>6, <1>7, <2>1 DEF ContentAt
    <2>5. df.pos <= Len(src) /\ piece = src[df.pos] /\ Fits(a, src)
      BY <1>1, <1>3, <1>5, <1>11, <2>1 DEF Filling
    <2>6. PICK pos : pos = df.pos
      OBVIOUS
    <2>7. /\ Fits(d, src)
          /\ \A m \in Int : Agree(m, a, src) => Agree(m, d, src)
          /\ Agree(pos - 1, a, src) => Agree(pos, d, src)
      <3>1. pos \in Nat /\ pos <= Len(src) /\ piece = src[pos] /\ d = WriteAt(a, pos, piece)
        BY <1>6, <2>4, <2>5, <2>6
      <3> QED
        BY <1>5, <2>2, <2>5, <3>1, WriteFits
    <2>8. Onward(c)
      BY <1>3, <2>1, <2>3, <2>7 DEF Onward
    <2>9. Filling(c, "read", sf, df1, b1)'
      <3>1. sf.pos <= Len(ContentAt(c.from)') + 1
        BY <1>3, <1>6, <2>2, <2>3, <2>5
      <3> QED
        BY <1>3, <2>1, <2>3, <2>7, <3>1 DEF Filling
    <2>10. ASSUME Ahead(c, "write", r, df) PROVE Ahead(c, "read", r, df1)'
      <3>1. Agree(pos - 1, a, src)
        BY <1>3, <2>1, <2>6, <2>10 DEF Ahead, Done
      <3>2. Done("read", df1, Len(src)) = pos
        BY <1>4, <1>6, <2>6 DEF Done
      <3>3. Agree(pos, d, src)
        BY <2>7, <3>1
      <3> QED
        BY <1>3, <2>1, <2>3, <3>2, <3>3 DEF Ahead, Opened, Done
    <2> QED
      BY <2>8, <2>9, <2>10
  <1>12. Moves(u, c)
    <2> SUFFICES ASSUME Apart(c)'
                 PROVE  /\ ContentAt(c.from)' = ContentAt(c.from)
                        /\ Apart(c) /\ IsFile(c.to) /\ Onward(c)
                        /\ Opened(pc'[u], ret'[u]) => Opened(pc[u], ret[u])
                        /\ Ahead(c, pc[u], ret[u], dst_file[u]) => Ahead(c, pc[u], ret[u], dst_file[u])'
      BY DEF Moves
    <2>1. Apart(c) /\ Onward(c)
      BY <1>8, <1>11
    <2>2. Opened(pc[u], ret[u])
      BY <1>1, <1>4, <1>5
    <2>3. Ahead(c, pc[u], ret[u], dst_file[u]) => Ahead(c, pc[u], ret[u], dst_file[u])'
      BY <1>1, <1>2, <1>4, <1>11, <2>1
    <2> QED
      BY <1>3, <1>6, <2>1, <2>2, <2>3 DEF Onward
  <1>13. Apart(c)' => Filling(c, pc[u], src_file[u], dst_file[u], buf[u])'
    BY <1>1, <1>2, <1>4, <1>8, <1>11
  <1> QED
    BY <1>1, <1>2, <1>4, <1>9, <1>10, <1>12, <1>13 DEF Proceeds

\* A step of Copy that does not give up.
LEMMA CopyProceeds ==
    ASSUME NEW u \in Threads, NEW c, Ready(u, c), c = call[u], privileged' = privileged,
           CopyTakes(u, call[u], src_file[u], dst_file[u], buf[u]), pc'[u] = "idle" => ret'[u]
    PROVE  Proceeds(u, c)
  <1>1. Held(u)
    BY DEF Ready, ContentInv
  <1>2. ~GivesUp(u, dst_file[u])
    BY DEF GivesUp
  <1> QED
    BY <1>1, <1>2, CopyStill, CopyOpensTo, CopyWrites DEF CopyTakes

\* The destination is opened with OF_TRUNCATE.
Emptied(c) == ContentAt(c.from)' = ContentAt(c.from) /\ ContentAt(c.to)' = <<>>

\* What a thread holds of a copy stays good when the destination goes on or is emptied.
LEMMA FillingStays ==
    ASSUME NEW c, Onward(c) \/ Emptied(c), NEW at, NEW sf, NEW df, NEW b, Filling(c, at, sf, df, b)
    PROVE  Filling(c, at, sf, df, b)'
  <1>1. CASE Onward(c)
    BY <1>1 DEF Filling, Onward
  <1>2. CASE Emptied(c)
    <2>1. Len(ContentAt(c.to)') = 0
      BY <1>2 DEF Emptied
    <2>2. Fits(ContentAt(c.to)', ContentAt(c.from)')
      BY <2>1 DEF Fits
    <2> QED
      BY <1>2, <2>2 DEF Filling, Emptied
  <1> QED
    BY <1>1, <1>2

\* What it has written stays when the destination goes on.
LEMMA AheadStays ==
    ASSUME NEW c, Onward(c), NEW at, NEW r, NEW df \in Handles, Len(ContentAt(c.from)) \in Nat, Ahead(c, at, r, df)
    PROVE  Ahead(c, at, r, df)'
  <1>1. PICK m : m = Done(at, df, Len(ContentAt(c.from)))
    OBVIOUS
  <1>2. m \in Int
    BY <1>1 DEF Done, Handles
  <1>3. Agree(m, ContentAt(c.to), ContentAt(c.from)) /\ Opened(at, r)
    BY <1>1 DEF Ahead
  <1>4. Agree(m, ContentAt(c.to)', ContentAt(c.from)')
    BY <1>2, <1>3 DEF Onward
  <1>5. m = Done(at, df, Len(ContentAt(c.from)'))
    BY <1>1 DEF Onward
  <1> QED
    BY <1>3, <1>4, <1>5 DEF Ahead, Done, Opened

\* Of a source that is a file.
LEMMA SourceLength ==
    ASSUME ContentInv, Tree(fs), NEW c, Apart(c)
    PROVE  ContentAt(c.from) \in Seq(Cells) /\ Len(ContentAt(c.from)) \in Nat
  <1>1. fs[c.from].ino \in Inodes
    BY InodeOf DEF Apart, IsFile, Stat
  <1>2. ContentAt(c.from) \in Seq(Cells)
    BY <1>1 DEF ContentInv, ContentAt
  <1> QED
    BY <1>2

\* A step of u's Copy, and who is ahead after it.
LEMMA SomeAhead ==
    ASSUME Shapes, ContentInv, TreeInv, NEW u \in Threads, Step(u), NEW c, c = call[u], NEW t \in Threads, c = call[t],
           Moves(u, c), Apart(c)', IsFile(c.to)', Opened(pc[t], ret[t]) /\ Apart(c) => Copied(t, c),
           t # u => Opened(pc[t], ret[t]), Opened(pc[t], ret[t])', u = t \/ seen'[t] = 1
    PROVE  Copied(t, c)' /\ (Onward(c) \/ Emptied(c))
  <1>1. /\ Alone(u) /\ ContentAt(c.from)' = ContentAt(c.from)
        /\ u = t => seen'[t] = seen[t]
        /\ \A w \in Threads \ {u} : dst_file'[w] = dst_file[w]
    BY StepAlone, StepCopies DEF Moves, Step, Recorded, Shapes
  <1>2. CASE ContentAt(c.to)' = <<>> /\ Ahead(c, pc[u], ret[u], dst_file[u])'
    <2>1. call'[u] = c
      BY <1>1 DEF Alone
    <2>2. Copied(t, c)'
      <3>1. CASE seen'[t] = 0
        BY <1>2, <3>1 DEF Copied
      <3>2. CASE seen'[t] # 0
        BY <1>2, <2>1, <3>2 DEF Copied
      <3> QED
        BY <3>1, <3>2
    <2> QED
      BY <1>1, <1>2, <2>2 DEF Emptied
  <1>3. CASE /\ Apart(c) /\ IsFile(c.to) /\ Onward(c)
             /\ Opened(pc'[u], ret'[u]) => Opened(pc[u], ret[u])
             /\ Ahead(c, pc[u], ret[u], dst_file[u]) => Ahead(c, pc[u], ret[u], dst_file[u])'
    <2>1. ASSUME NEW x \in Threads, Ahead(c, pc[x], ret[x], dst_file[x])
          PROVE  Ahead(c, pc[x], ret[x], dst_file[x])'
      <3>1. CASE x = u
        BY <1>3, <2>1, <3>1
      <3>2. CASE x # u
        <4>1. PICK at, r, df : at = pc[x] /\ r = ret[x] /\ df = dst_file[x]
          OBVIOUS
        <4>2. df \in Handles
          BY <4>1 DEF ContentInv, Held
        <4>3. Len(ContentAt(c.from)) \in Nat
          BY <1>3, SourceLength DEF TreeInv
        <4>4. Ahead(c, at, r, df)'
          BY <1>3, <2>1, <4>1, <4>2, <4>3, AheadStays
        <4> QED
          BY <1>1, <3>2, <4>1, <4>4 DEF Alone
      <3> QED
        BY <3>1, <3>2
    <2>2. Copied(t, c)
      BY <1>1, <1>3
    <2>3. Copied(t, c)'
      <3>1. CASE seen[t] = 0
        <4>1. Ahead(c, pc[t], ret[t], dst_file[t])
          BY <2>2, <3>1 DEF Copied
        <4>2. Ahead(c, pc[t], ret[t], dst_file[t])' /\ call'[t] = c
          BY <1>1, <2>1, <4>1 DEF Alone
        <4> QED
          BY <4>2 DEF Copied
      <3>2. CASE seen[t] # 0
        <4>1. PICK x \in Threads : call[x] = c /\ Ahead(c, pc[x], ret[x], dst_file[x])
          BY <2>2, <3>2 DEF Copied
        <4>2. Ahead(c, pc[x], ret[x], dst_file[x])' /\ call'[x] = c /\ seen'[t] # 0
          BY <1>1, <2>1, <3>2, <4>1 DEF Alone
        <4> QED
          BY <4>2 DEF Copied
      <3> QED
        BY <3>1, <3>2
    <2> QED
      BY <1>3, <2>3
  <1> QED
    BY <1>2, <1>3 DEF Moves

\* What a step does to the history of another thread.
LEMMA SeenStep ==
    ASSUME Shapes, NEW u \in Threads, Step(u), NEW t \in Threads
    PROVE  /\ seen'[t] < 2 => seen[t] < 2
           /\ t = u => seen'[t] = seen[t]
           /\ t # u => \/ seen'[t] = seen[t] /\ ~(\E p \in Changed : Concerns(call[t], p))
                       \/ seen'[t] = 1 /\ call[t] = call[u]
                       \/ seen'[t] = 2
           /\ seen[t] \in 0 .. 2
  <1>1. seen'[t] = IF t = u \/ ~(\E p \in Changed : Concerns(call[t], p)) THEN seen[t]
                   ELSE IF call[t] = call[u] /\ seen[t] < 2 THEN 1 ELSE 2
    BY DEF Step, Recorded
  <1>2. seen[t] \in 0 .. 2
    BY DEF Shapes
  <1> QED
    BY <1>1, <1>2

\* A copy that is quiet after a step was quiet before, for the thread that took the step too.
LEMMA QuietBefore ==
    ASSUME Shapes, NEW u \in Threads, Step(u), pc[u] # "idle", NEW t \in Threads, NEW c, c = call[t], Quiet(t)',
           c = call[u] => u = t \/ seen'[t] = 1
    PROVE  /\ Quiet(t)
           /\ c = call[u] => Quiet(u)
           /\ c = call[u] /\ seen'[t] = 1 => ~(pc'[u] = "idle" /\ ~ret'[u])
  <1>1. Alone(u) /\ call' = call
    BY StepAlone DEF Alone
  <1>2. seen'[t] = 0 \/ (seen'[t] = 1 /\ Together(c)')
    BY <1>1 DEF Quiet, Together
  <1>3. CASE seen'[t] = 0
    <2>1. seen[t] = 0
      BY <1>3, SeenStep
    <2> QED
      BY <1>3, <2>1 DEF Quiet
  <1>4. CASE seen'[t] = 1 /\ Together(c)'
    <2>1. ASSUME NEW w \in Threads, call[w] = c PROVE seen[w] < 2 /\ ~(pc[w] = "idle" /\ ~ret[w])
      <3>1. seen'[w] < 2 /\ ~(pc'[w] = "idle" /\ ~ret'[w])
        BY <1>1, <1>4, <2>1 DEF Together
      <3>2. seen[w] < 2
        BY <3>1, SeenStep
      <3>3. CASE w = u
        BY <3>2, <3>3
      <3>4. CASE w # u
        BY <1>1, <3>1, <3>2, <3>4 DEF Alone
      <3> QED
        BY <3>3, <3>4
    <2>2. Together(c)
      BY <2>1 DEF Together
    <2>3. seen[t] \in {0, 1}
      BY <2>1, SeenStep
    <2>4. Quiet(t)
      BY <2>2, <2>3 DEF Quiet
    <2>5. ASSUME c = call[u] PROVE Quiet(u) /\ ~(pc'[u] = "idle" /\ ~ret'[u])
      <3>1. seen[u] \in {0, 1}
        BY <2>1, <2>5, SeenStep
      <3>2. ~(pc'[u] = "idle" /\ ~ret'[u])
        BY <1>1, <1>4, <2>5 DEF Together
      <3> QED
        BY <2>2, <2>5, <3>1, <3>2 DEF Quiet
    <2> QED
      BY <2>4, <2>5
  <1> QED
    BY <1>2, <1>3, <1>4

\* A step inside the copy.
LEMMA InsideCopy ==
    ASSUME GroundInv, ContentInv, CopyInv, NEW u \in Threads, Step(u), NEW t \in Threads, NEW c, c = call[t], c = call[u],
           c.op = "Copy", c.from # c.to, Quiet(t)', u = t \/ seen'[t] = 1
    PROVE  Handled(c, pc[t], ret[t], src_file[t], dst_file[t])' /\ Filled(t, c)'
  <1>1. /\ Shapes /\ TreeInv /\ Called(u) /\ pc[u] # "idle" /\ pc[u] \in Locations
        /\ c.from \in Paths /\ c.to \in Paths
    BY OwnStep DEF GroundInv, CallInv, ReportInv, MaskTypes, Called
  <1>2. pc[u] \in CopySteps
    BY <1>1 DEF Called, Locations, CreateSteps, CreateRSteps, RemoveSteps, CopySteps
  <1>3. Quiet(t) /\ Quiet(u) /\ (seen'[t] = 1 => ~(pc'[u] = "idle" /\ ~ret'[u]))
    BY <1>1, QuietBefore
  <1>4. CASE pc'[u] = "idle" /\ ~ret'[u]
    <2>1. u = t
      BY <1>3, <1>4
    <2> QED
      BY <1>4, <2>1 DEF Handled, Filled, HasSource, Opened
  <1>5. CASE ~(pc'[u] = "idle" /\ ~ret'[u])
    <2>1. Copying(u, c) /\ Copying(t, c)
      BY DEF CopyInv
    <2>2. /\ Handled(c, pc[u], ret[u], src_file[u], dst_file[u]) /\ Filled(u, c)
          /\ Handled(c, pc[t], ret[t], src_file[t], dst_file[t]) /\ Filled(t, c)
      BY <1>3, <2>1 DEF Copying
    <2>3. Ready(u, c)
      BY <1>1, <2>2 DEF Ready, Filled
    <2>4. CopyTakes(u, c, src_file[u], dst_file[u], buf[u])
      BY <1>1, <1>2, StepCopies
    <2>5. Alone(u) /\ privileged' = privileged
      BY <1>1, StepAlone DEF Alone
    <2>6. Proceeds(u, c)
      BY <1>5, <2>3, <2>4, <2>5, CopyProceeds
    <2>7. CASE u = t
      <3>1. Handled(c, pc[t], ret[t], src_file[t], dst_file[t])'
        BY <2>6, <2>7 DEF Proceeds
      <3>2. ASSUME Opened(pc[t], ret[t])', Apart(c)'
            PROVE  Filling(c, pc[t], src_file[t], dst_file[t], buf[t])' /\ Copied(t, c)'
        <4>1. IsFile(c.to)'
          BY <3>1, <3>2 DEF Handled
        <4>2. Opened(pc[t], ret[t]) /\ Apart(c) => Copied(t, c)
          BY <2>2 DEF Filled
        <4>3. Copied(t, c)'
          BY <1>1, <2>6, <2>7, <3>2, <4>1, <4>2, SomeAhead DEF Proceeds
        <4> QED
          BY <2>6, <2>7, <3>2, <4>3 DEF Proceeds
      <3> QED
        BY <3>1, <3>2 DEF Filled
    <2>8. CASE u # t
      <3>1. PICK at, r, sf, df, b : at = pc[t] /\ r = ret[t] /\ sf = src_file[t] /\ df = dst_file[t] /\ b = buf[t]
        OBVIOUS
      <3>2. pc'[t] = at /\ ret'[t] = r /\ src_file'[t] = sf /\ dst_file'[t] = df /\ buf'[t] = b
        BY <1>1, <2>5, <2>8, <3>1, StepCopies DEF Alone
      <3>3. Steady(c) /\ Moves(u, c)
        BY <2>6 DEF Proceeds
      <3>4. /\ Handled(c, at, r, sf, df)'
            /\ Opened(at, r) => (Apart(c) <=> Apart(c)') /\ IsFile(c.to)'
        BY <2>2, <3>1, <3>3, HandledStays
      <3>5. ASSUME Opened(at, r), Apart(c)' PROVE Filling(c, at, sf, df, b)' /\ Copied(t, c)'
        <4>1. Apart(c) /\ IsFile(c.to)' /\ Filling(c, at, sf, df, b) /\ Copied(t, c)
          BY <2>2, <3>1, <3>4, <3>5 DEF Filled
        <4>2. Opened(pc[t], ret[t]) /\ Opened(pc[t], ret[t])'
          BY <3>1, <3>2, <3>5 DEF Opened
        <4>3. Copied(t, c)' /\ (Onward(c) \/ Emptied(c))
          BY <1>1, <2>8, <3>3, <3>5, <4>1, <4>2, SomeAhead
        <4>4. Filling(c, at, sf, df, b)'
          BY <4>1, <4>3, FillingStays
        <4> QED
          BY <4>3, <4>4
      <3>6. Opened(at, r)' <=> Opened(at, r)
        BY DEF Opened
      <3> QED
        BY <3>2, <3>4, <3>5, <3>6 DEF Filled
    <2> QED
      BY <2>7, <2>8
  <1> QED
    BY <1>4, <1>5

\* A step that does not concern a copy leaves its paths and its contents alone.
LEMMA ApartFromCopy ==
    ASSUME NEW c, c.from \in Paths, c.to \in Paths, Tree(fs), privileged' = privileged,
           ~(\E p \in Changed : Concerns(c, p))
    PROVE  Steady(c) /\ (Apart(c) /\ IsFile(c.to) => Onward(c))
  <1>1. ASSUME NEW p \in {c.from, c.to}
        PROVE  /\ Stat(p) => Stat(p)' /\ fs'[p] = fs[p]
               /\ IsFile(p) => IsFile(p)' /\ ContentAt(p)' = ContentAt(p)
    <2>1. p \in Paths /\ p # <<>> /\ IsPrefix(p, p)
      BY PathOrder DEF Begins, Paths
    <2>2. ASSUME NEW q, IsPrefix(q, p) \/ IsPrefix(p, q) PROVE q \notin Changed
      BY <2>1, <2>2 DEF Concerns
    <2>3. Spared(p)
      BY <2>2 DEF Spared, Changed
    <2>4. /\ IsDir(p) <=> IsDir(p)'
          /\ IsFile(p) <=> IsFile(p)'
      BY <2>1, <2>3, SparedStays
    <2>5. p \in DOMAIN fs => fs'[p] = fs[p]
      BY <2>1, <2>3 DEF Spared
    <2>6. Stat(p) => IsDir(p) \/ IsFile(p)
      BY InodeOf DEF Stat, IsDir, IsFile
    <2>7. Stat(p) => Stat(p)' /\ fs'[p] = fs[p]
      BY <2>4, <2>5, <2>6 DEF Stat, IsDir, IsFile
    <2>8. IsFile(p) => ContentAt(p)' = ContentAt(p)
      <3> SUFFICES ASSUME IsFile(p) PROVE ContentAt(p)' = ContentAt(p)
        OBVIOUS
      <3>1. p \in DOMAIN fs /\ fs[p].kind = "file"
        BY DEF IsFile, Stat
      <3>2. data'[fs[p].ino] = data[fs[p].ino]
        BY <2>1, <2>2, <3>1 DEF Changed
      <3> QED
        BY <2>5, <3>1, <3>2 DEF ContentAt
    <2> QED
      BY <2>4, <2>7, <2>8
  <1>2. IsFile(c.to) => Stat(c.to)
    BY DEF IsFile
  <1>3. Steady(c)
    BY <1>1, <1>2 DEF Steady
  <1>4. ASSUME Apart(c), IsFile(c.to) PROVE Onward(c)
    <2>1. ContentAt(c.from)' = ContentAt(c.from) /\ ContentAt(c.to)' = ContentAt(c.to)
      BY <1>1, <1>4 DEF Apart
    <2> QED
      BY <2>1 DEF Onward
  <1> QED
    BY <1>3, <1>4

\* What is known of a thread in a copy lasts, if it and the others that are in it stand still.
LEMMA CopyLasts ==
    ASSUME ContentInv, Tree(fs), NEW t \in Threads, NEW c, Steady(c), Apart(c) /\ IsFile(c.to) => Onward(c),
           pc'[t] = pc[t], ret'[t] = ret[t], src_file'[t] = src_file[t], dst_file'[t] = dst_file[t], buf'[t] = buf[t],
           seen'[t] = seen[t],
           NEW others \in SUBSET Threads,
           \A x \in others : pc'[x] = pc[x] /\ ret'[x] = ret[x] /\ dst_file'[x] = dst_file[x] /\ call'[x] = call[x],
           seen[t] # 0 => \A x \in Threads : call[x] = c => x \in others,
           Handled(c, pc[t], ret[t], src_file[t], dst_file[t]), Filled(t, c)
    PROVE  Handled(c, pc[t], ret[t], src_file[t], dst_file[t])' /\ Filled(t, c)'
  <1>1. PICK at, r, sf, df, b : at = pc[t] /\ r = ret[t] /\ sf = src_file[t] /\ df = dst_file[t] /\ b = buf[t]
    OBVIOUS
  <1>2. /\ Handled(c, at, r, sf, df)'
        /\ Opened(at, r) => (Apart(c) <=> Apart(c)') /\ IsFile(c.to)
    BY <1>1, HandledStays
  <1>3. ASSUME Opened(at, r), Apart(c)' PROVE Filling(c, at, sf, df, b)' /\ Copied(t, c)'
    <2>1. Onward(c) /\ Apart(c)
      BY <1>2, <1>3
    <2>2. Filling(c, at, sf, df, b) /\ Copied(t, c)
      BY <1>1, <1>3, <2>1 DEF Filled
    <2>3. Filling(c, at, sf, df, b)'
      BY <2>1, <2>2, FillingStays
    <2>4. ASSUME NEW x \in Threads, Ahead(c, pc[x], ret[x], dst_file[x]),
                 pc'[x] = pc[x] /\ ret'[x] = ret[x] /\ dst_file'[x] = dst_file[x]
          PROVE  Ahead(c, pc[x], ret[x], dst_file[x])'
      <3>1. PICK ax, rx, dx : ax = pc[x] /\ rx = ret[x] /\ dx = dst_file[x]
        OBVIOUS
      <3>2. dx \in Handles /\ Len(ContentAt(c.from)) \in Nat
        BY <2>1, <3>1, SourceLength DEF ContentInv, Held
      <3>3. Ahead(c, ax, rx, dx)'
        BY <2>1, <2>4, <3>1, <3>2, AheadStays
      <3> QED
        BY <2>4, <3>1, <3>3
    <2>5. Copied(t, c)'
      <3>1. CASE seen[t] = 0
        <4>1. Ahead(c, pc[t], ret[t], dst_file[t])'
          BY <2>2, <2>4, <3>1 DEF Copied
        <4> QED
          BY <3>1, <4>1 DEF Copied
      <3>2. CASE seen[t] # 0
        <4>1. PICK x \in Threads : call[x] = c /\ Ahead(c, pc[x], ret[x], dst_file[x])
          BY <2>2, <3>2 DEF Copied
        <4>2. x \in others
          BY <3>2, <4>1
        <4>3. Ahead(c, pc[x], ret[x], dst_file[x])' /\ call'[x] = c
          BY <2>4, <4>1, <4>2
        <4> QED
          BY <3>2, <4>3 DEF Copied
      <3> QED
        BY <3>1, <3>2
    <2> QED
      BY <2>3, <2>5
  <1>4. Opened(at, r)' <=> Opened(at, r)
    BY DEF Opened
  <1> QED
    BY <1>1, <1>2, <1>3, <1>4 DEF Filled

\* A step outside the copy, or one that a copy alone did not see.
LEMMA OutsideCopy ==
    ASSUME GroundInv, ContentInv, CopyInv, NEW u \in Threads, Step(u), NEW t \in Threads, u # t, NEW c, c = call[t],
           c.op = "Copy", c.from # c.to, Quiet(t)', ~(c = call[u] /\ seen'[t] = 1)
    PROVE  Handled(c, pc[t], ret[t], src_file[t], dst_file[t])' /\ Filled(t, c)'
  <1>1. /\ Shapes /\ TreeInv /\ Tree(fs) /\ Called(t) /\ pc[u] # "idle" /\ Alone(u) /\ privileged' = privileged
        /\ c.from \in Paths /\ c.to \in Paths
    BY OwnStep, StepAlone DEF GroundInv, CallInv, ReportInv, Called, TreeInv, Alone
  <1>2. seen'[t] < 2
    BY DEF Quiet
  <1>3. seen'[t] = seen[t] /\ ~(\E p \in Changed : Concerns(c, p))
    BY <1>1, <1>2, SeenStep
  <1>4. Steady(c) /\ (Apart(c) /\ IsFile(c.to) => Onward(c))
    BY <1>1, <1>3, ApartFromCopy
  <1>5. seen'[t] = 0 \/ (seen'[t] = 1 /\ c # call[u])
    <2>1. seen'[t] = 0 \/ seen'[t] = 1
      BY DEF Quiet
    <2> QED
      BY <2>1
  <1>6. Quiet(t)
    <2>1. CASE seen'[t] = 0
      BY <1>3, <2>1 DEF Quiet
    <2>2. CASE c # call[u]
      BY <1>1, <2>2, QuietBefore
    <2> QED
      BY <1>5, <2>1, <2>2
  <1>7. Handled(c, pc[t], ret[t], src_file[t], dst_file[t]) /\ Filled(t, c)
    BY <1>6 DEF CopyInv, Copying
  <1>8. PICK others \in SUBSET Threads : others = Threads \ {u}
    OBVIOUS
  <1>9. \A x \in others : pc'[x] = pc[x] /\ ret'[x] = ret[x] /\ src_file'[x] = src_file[x] /\ dst_file'[x] = dst_file[x]
                          /\ buf'[x] = buf[x] /\ call'[x] = call[x]
    BY <1>1, <1>8, StepCopies DEF Alone
  <1>10. seen[t] # 0 => \A x \in Threads : call[x] = c => x \in others
    BY <1>3, <1>5, <1>8
  <1> QED
    BY <1>1, <1>3, <1>4, <1>7, <1>8, <1>9, <1>10, CopyLasts

\* A thread that begins a Copy has nothing open, and one that leaves a copy for another call was
\* not needed there.
LEMMA StartCopy ==
    ASSUME GroundInv, ContentInv, CopyInv, NEW u \in Threads, Start(u), NEW t \in Threads, NEW c, c = call'[t],
           c.op = "Copy", c.from # c.to, Quiet(t)'
    PROVE  Handled(c, pc[t], ret[t], src_file[t], dst_file[t])' /\ Filled(t, c)'
  <1>1. /\ Shapes /\ FrameInv /\ DOMAIN full_path = Threads /\ Tree(fs)
    BY DEF GroundInv, CallInv, ReportInv, FrameInv, TreeInv
  <1>2. /\ fs' = fs /\ data' = data /\ privileged' = privileged /\ ret' = ret /\ UNCHANGED fileVars
        /\ \A w \in Threads \ {u} : pc'[w] = pc[w] /\ call'[w] = call[w]
        /\ call'[u].op = "Copy" => pc'[u] = "umask_src"
    BY <1>1, StartCalled
  <1>3. \A w \in Threads \ {u} : seen'[w] = IF seen[w] = 1 /\ call[w] = call[u] THEN 2 ELSE seen[w]
    BY DEF Start
  <1>4. CASE u = t
    BY <1>2, <1>4 DEF Handled, Filled, HasSource, Opened
  <1>5. CASE u # t
    <2>1. c = call[t] /\ seen'[t] = seen[t] /\ (seen[t] = 1 => c # call[u])
      BY <1>2, <1>3, <1>5 DEF Quiet
    <2>2. Quiet(t)
      <3>1. CASE seen[t] = 0
        BY <3>1 DEF Quiet
      <3>2. CASE seen[t] # 0
        <4>1. seen[t] = 1 /\ Together(c)'
          BY <2>1, <3>2 DEF Quiet, Together
        <4>2. ASSUME NEW w \in Threads, call[w] = c PROVE seen[w] < 2 /\ ~(pc[w] = "idle" /\ ~ret[w])
          <5>1. w # u
            BY <2>1, <4>1, <4>2
          <5>2. call'[w] = c /\ pc'[w] = pc[w] /\ ret'[w] = ret[w]
            BY <1>2, <4>2, <5>1
          <5>3. seen'[w] < 2 /\ ~(pc'[w] = "idle" /\ ~ret'[w])
            BY <4>1, <5>2 DEF Together
          <5>4. seen[w] < 2
            BY <1>3, <5>1, <5>3
          <5> QED
            BY <5>2, <5>3, <5>4
        <4> QED
          BY <2>1, <4>1, <4>2 DEF Quiet, Together
      <3> QED
        BY <3>1, <3>2
    <2>3. Handled(c, pc[t], ret[t], src_file[t], dst_file[t]) /\ Filled(t, c)
      BY <2>1, <2>2 DEF CopyInv, Copying
    <2>4. Steady(c) /\ Onward(c)
      BY <1>2 DEF Steady, Onward, ContentAt, IsFile, Stat, Reach, Passable
    <2>5. PICK others \in SUBSET Threads : others = Threads \ {u}
      OBVIOUS
    <2>6. \A x \in others : pc'[x] = pc[x] /\ ret'[x] = ret[x] /\ src_file'[x] = src_file[x] /\ dst_file'[x] = dst_file[x]
                            /\ buf'[x] = buf[x] /\ call'[x] = call[x]
      BY <1>2, <2>5 DEF fileVars
    <2>7. seen[t] # 0 => \A x \in Threads : call[x] = c => x \in others
      <3>1. seen[t] \in {0, 1}
        BY <2>2 DEF Quiet
      <3> QED
        BY <2>1, <2>5, <3>1
    <2>8. t \in others
      BY <1>5, <2>5
    <2> QED
      BY <1>1, <2>1, <2>3, <2>4, <2>6, <2>7, <2>8, CopyLasts
  <1> QED
    BY <1>4, <1>5

\* The invariant of Copy.
LEMMA CopyInvariant == Spec => []CopyInv
  <1>1. Init => CopyInv
    <2> SUFFICES ASSUME Init, NEW t \in Threads PROVE call[t].op # "Copy"
      BY DEF CopyInv, Copying
    <2> QED
      BY DEF Init, InitSystem
  <1>2. CopyInv /\ GroundInv /\ ContentInv /\ [Next]_vars => CopyInv'
    <2> SUFFICES ASSUME CopyInv, GroundInv, ContentInv, [Next]_vars, NEW t \in Threads PROVE Copying(t, call[t])'
      BY DEF CopyInv
    <2>1. PICK c : c = call'[t]
      OBVIOUS
    <2>2. ASSUME Next, c.op = "Copy", c.from # c.to, Quiet(t)'
          PROVE  Handled(c, pc[t], ret[t], src_file[t], dst_file[t])' /\ Filled(t, c)'
      <3>1. PICK u \in Threads : Start(u) \/ Step(u)
        BY <2>2 DEF Next
      <3>2. CASE Start(u)
        BY <2>1, <2>2, <3>2, StartCopy
      <3>3. CASE Step(u)
        <4>1. c = call[t]
          <5>1. Shapes
            BY DEF GroundInv, CallInv, ReportInv
          <5> QED
            BY <2>1, <3>3, <5>1, StepAlone DEF Alone
        <4>2. CASE c = call[u] /\ (u = t \/ seen'[t] = 1)
          BY <2>2, <3>3, <4>1, <4>2, InsideCopy
        <4>3. CASE ~(c = call[u] /\ (u = t \/ seen'[t] = 1))
          <5>1. u # t /\ ~(c = call[u] /\ seen'[t] = 1)
            BY <4>1, <4>3
          <5> QED
            BY <2>2, <3>3, <4>1, <5>1, OutsideCopy
        <4> QED
          BY <4>2, <4>3
      <3> QED
        BY <3>1, <3>2, <3>3
    <2>3. CASE UNCHANGED vars
      <3>1. UNCHANGED <<fs, data, privileged, call, pc, ret, src_file, dst_file, buf, seen>>
        BY <2>3 DEF vars, kernelVars, threadVars, fileVars
      <3>2. Copying(t, c) => Copying(t, c)'
        <4>1. Quiet(t)' => Quiet(t)
          BY <3>1 DEF Quiet, Together
        <4>2. Handled(c, pc[t], ret[t], src_file[t], dst_file[t]) => Handled(c, pc[t], ret[t], src_file[t], dst_file[t])'
          BY <3>1 DEF Handled, HasSource, Opened, IsFile, Stat, Reach, Passable
        <4>3. ContentAt(c.from)' = ContentAt(c.from) /\ ContentAt(c.to)' = ContentAt(c.to) /\ (Apart(c)' <=> Apart(c))
          BY <3>1 DEF ContentAt, Apart, IsFile, Stat, Reach, Passable
        <4>4. Copied(t, c) => Copied(t, c)'
          BY <3>1, <4>3 DEF Copied, Ahead, Opened, Done
        <4>5. Filled(t, c) => Filled(t, c)'
          BY <3>1, <4>3, <4>4 DEF Filled, Filling, Opened
        <4> QED
          BY <4>1, <4>2, <4>5 DEF Copying
      <3> QED
        BY <2>1, <3>1, <3>2 DEF CopyInv
    <2>4. CASE Next
      <3>1. Copying(t, c)'
        BY <2>2, <2>4 DEF Copying
      <3> QED
        BY <2>1, <3>1
    <2> QED
      BY <2>3, <2>4
  <1> QED
    BY <1>1, <1>2, GroundInvariant, ContentInvariant, PTL DEF Spec

(***************************************************************************)
(* A Copy (file.cpp:146-187) that returned true has made the destination   *)
(* equal to the source, for any contents, threads and trees: alone, and    *)
(* also when other threads made the same copy at the same time and their   *)
(* truncations and writes went in between, once all are back with true.    *)
(***************************************************************************)
THEOREM CopyFaithfulHolds == Spec => []CopyFaithful
  <1>1. CopyInv /\ ContentInv /\ GroundInv => CopyFaithful
    <2> SUFFICES ASSUME CopyInv, ContentInv, GroundInv, NEW t \in Threads, NEW c, c = call[t], c.op = "Copy",
                        c.from # c.to, seen[t] < 2, Settled(t),
                        \A u \in Threads : call[u] = c => ret[u] /\ seen[u] < 2
                 PROVE  IsFile(c.from) /\ IsFile(c.to) /\ ContentAt(c.to) = ContentAt(c.from)
      BY DEF CopyFaithful
    <2>1. Shapes /\ Tree(fs)
      BY DEF GroundInv, CallInv, ReportInv, TreeInv
    <2>2. Quiet(t)
      <3>1. Together(c)
        BY DEF Together
      <3>2. seen[t] \in {0, 1}
        BY <2>1 DEF Shapes
      <3> QED
        BY <3>1, <3>2 DEF Quiet
    <2>3. pc[t] = "idle" /\ ret[t]
      BY DEF Settled
    <2>4. Handled(c, pc[t], ret[t], src_file[t], dst_file[t]) /\ Filled(t, c)
      BY <2>2 DEF CopyInv, Copying
    <2>5. Opened(pc[t], ret[t]) /\ IsFile(c.from) /\ IsFile(c.to)
      BY <2>3, <2>4 DEF Handled, Opened
    <2>6. CASE fs[c.from].ino = fs[c.to].ino
      BY <2>5, <2>6 DEF ContentAt
    <2>7. CASE fs[c.from].ino # fs[c.to].ino
      <3>1. PICK a, src : a = ContentAt(c.to) /\ src = ContentAt(c.from)
        OBVIOUS
      <3>2. Apart(c)
        BY <2>5, <2>7 DEF Apart
      <3>3. Fits(a, src) /\ Copied(t, c)
        BY <2>4, <2>5, <3>1, <3>2 DEF Filled, Filling
      <3>4. PICK x \in Threads : call[x] = c /\ Ahead(c, pc[x], ret[x], dst_file[x])
        BY <3>3 DEF Copied
      <3>5. pc[x] = "idle"
        BY <3>4 DEF Settled
      <3>6. Agree(Len(src), a, src)
        BY <3>1, <3>4, <3>5 DEF Ahead, Done
      <3>7. src \in Seq(Cells) /\ a \in Seq(Cells)
        <4>1. fs[c.to].ino \in Inodes
          BY <2>1, <2>5, InodeOf DEF IsFile, Stat
        <4>2. a \in Seq(Cells)
          BY <3>1, <4>1 DEF ContentAt, ContentInv
        <4> QED
          BY <2>1, <3>1, <3>2, <4>2, SourceLength
      <3>8. Len(a) \in Nat /\ Len(src) \in Nat
        BY <3>7
      <3>9. Len(a) <= Len(src)
        <4>1. CASE Len(a) = 0
          BY <3>8, <4>1
        <4>2. CASE Len(a) # 0
          <5>1. Len(a) \in 1 .. Len(a)
            BY <3>8, <4>2
          <5> QED
            BY <3>3, <5>1 DEF Fits
        <4> QED
          BY <4>1, <4>2
      <3>10. Len(src) <= Len(a)
        <4>1. CASE Len(src) = 0
          BY <3>8, <4>1
        <4>2. CASE Len(src) # 0
          <5>1. Len(src) \in 1 .. Len(src)
            BY <3>8, <4>2
          <5> QED
            BY <3>6, <5>1 DEF Agree
        <4> QED
          BY <4>1, <4>2
      <3>11. Len(a) = Len(src) /\ \A i \in 1 .. Len(src) : a[i] = src[i]
        BY <3>6, <3>8, <3>9, <3>10 DEF Agree
      <3>12. a = src
        BY <3>7, <3>11
      <3> QED
        BY <2>5, <3>1, <3>12
    <2> QED
      BY <2>6, <2>7
  <1> QED
    BY <1>1, CopyInvariant, ContentInvariant, GroundInvariant, PTL
=============================================================================
