------------------------------ MODULE NamedMutex ------------------------------
(***************************************************************************)
(* cpen333::process::mutex on Windows, for which the project is built: a   *)
(* named kernel mutex, recursive, owned by a thread.  A mutex whose owner  *)
(* ends is abandoned.  The wait of the next locker then acquires it with   *)
(* WAIT_ABANDONED, which lock() takes for a spurious wake-up: it waits     *)
(* once more, and so holds the mutex twice.                                *)
(***************************************************************************)
EXTENDS Naturals

CONSTANT Nobody

\* left: its last owner ended without releasing it
FreeMutex == [owner |-> Nobody, depth |-> 0, left |-> FALSE]

MutexOf(threads) ==
    [owner : threads \cup {Nobody}, depth : 0 .. 2, left : BOOLEAN]

MayLock(m, t) == m.owner \in {Nobody, t}

Locked(m, t) ==
    [owner |-> t, depth |-> m.depth + (IF m.left THEN 2 ELSE 1), left |-> FALSE]

Unlocked(m) == IF m.depth = 1 THEN FreeMutex ELSE [m EXCEPT !.depth = @ - 1]

\* Mistake: the mutex stays with the thread that has ended.
AbandonedKept(m, t) == m

\* The thread ends, and holds nothing any more.
Abandoned(m, t) == IF m.owner = t THEN [FreeMutex EXCEPT !.left = TRUE] ELSE m
=============================================================================
