-------------------------------- MODULE MCAio --------------------------------
(***************************************************************************)
(* Small instances of Aio for TLC.                                         *)
(***************************************************************************)
EXTENDS Aio, TLC

CONSTANTS r1, r2, c1, c2, k1, k2

Io(f) == [pio |-> FALSE, fd |-> f]
Pio(f) == [pio |-> TRUE, fd |-> f]

TwoRequests == {r1, r2}

\* One thread per processor, or one thread.
OneOrPerCpu == {-1, 1}

\* r1 is served by both groups and its callback submits r2, which shares its
\* fd; that fd moves to another queue when the number of threads changes.
SharedFd == r1 :> <<Io(1), Pio(1)>> @@ r2 :> <<Io(1)>>

\* Two queues at work.
TwoFds == r1 :> <<Io(0), Pio(0)>> @@ r2 :> <<Io(1)>>
Chain == r1 :> r2 @@ r2 :> None
=============================================================================
