---------------------------- MODULE SharedMutexFair ----------------------------
(***************************************************************************)
(* cpen333::process::shared_mutex (impl::shared_mutex_fair): readers share *)
(* the mutex, a writer has it alone, and access is granted in batches: one *)
(* writer, then the readers who came while it was there or waited, then    *)
(* the next writer.  The threads' version is the same code.                *)
(*                                                                         *)
(* Every call holds mutex_ from begin to end, except while it sleeps on    *)
(* econd_, so it is one step here, and so is every test of a condition by  *)
(* a caller that has been notified.  econd_ is only ever notified with     *)
(* notify_all(), under mutex_ (module Event says what that promises).  A   *)
(* call with a timeout may give up at any time while it sleeps.            *)
(***************************************************************************)
EXTENDS Integers, FiniteSets

CONSTANTS
    Users,          \* threads or processes that share the mutex
    MaxTries        \* bound: successful calls of try_lock_shared

ASSUME SharedAssumption == IsFiniteSet(Users) /\ MaxTries \in Nat

VARIABLES
    shared, this_batch, exclusive, etotal,   \* shared_data
    upc, batch,      \* users: program point, local batch
    told,            \* users asleep on econd_ who have been notified
    tries,           \* calls of try_lock_shared that returned true
    overtaken        \* how many writers went since the reader queued, up to two

stateVars == <<shared, this_batch, exclusive, etotal>>
sharedVars == <<stateVars, upc, batch, told, tries, overtaken>>

Batches == 0 .. 1
UsersAt(points) == {u \in Users : upc[u] \in points}
Sleeping == UsersAt({"queued", "waiting"})

SharedTypeOK ==
    /\ shared \in [Batches -> Int] /\ this_batch \in Batches
    /\ exclusive \in 0 .. 1 /\ etotal \in 0 .. Cardinality(Users)
    /\ upc \in [Users -> {"out", "queued", "reading", "peeking", "waiting", "writing"}]
    /\ batch \in [Users -> Batches] /\ told \subseteq Sleeping
    /\ tries \in 0 .. MaxTries
    /\ overtaken \in [Users -> 0 .. 2]

SharedInit ==
    /\ shared = [b \in Batches |-> 0] /\ this_batch = 0
    /\ exclusive = 0 /\ etotal = 0
    /\ upc = [u \in Users |-> "out"] /\ batch = [u \in Users |-> 0]
    /\ told = {} /\ tries = 0
    /\ overtaken = [u \in Users |-> 0]

UserGo(u, from, to) == upc[u] = from /\ upc' = [upc EXCEPT ![u] = to]

\* Mistake: only the readers are looked at.
NobodyReads == shared[this_batch] = 0

\* The unsigned sum of the readers of the batch and the writer is zero.
NobodyIn == shared[this_batch] + exclusive = 0

-----------------------------------------------------------------------------
(* Readers.                                                                *)

\* Mistake: a reader passes as long as no writer is in.
LockSharedBarging(u) ==
    /\ exclusive = 0
    /\ UserGo(u, "out", "reading")
    /\ shared' = [shared EXCEPT ![this_batch] = @ + 1]
    /\ UNCHANGED <<this_batch, exclusive, etotal, batch, told, tries, overtaken>>

\* lock_shared() and try_lock_shared_until(): no writer is in or waits.
LockShared(u) ==
    /\ etotal = 0
    /\ UserGo(u, "out", "reading")
    /\ shared' = [shared EXCEPT ![this_batch] = @ + 1]
    /\ UNCHANGED <<this_batch, exclusive, etotal, batch, told, tries, overtaken>>

\* Otherwise the reader belongs to the next batch.
QueueShared(u) ==
    /\ etotal # 0
    /\ UserGo(u, "out", "queued")
    /\ batch' = [batch EXCEPT ![u] = 1 - this_batch]
    /\ shared' = [shared EXCEPT ![1 - this_batch] = @ + 1]
    /\ UNCHANGED <<this_batch, exclusive, etotal, told, tries, overtaken>>

\* The reader goes on, and its local is gone.
Unqueue(u, point) ==
    /\ upc' = [upc EXCEPT ![u] = point]
    /\ batch' = [batch EXCEPT ![u] = 0]
    /\ overtaken' = [overtaken EXCEPT ![u] = 0]

\* A notified reader goes with its batch, or sleeps again.
TestQueued(u) ==
    /\ u \in told
    /\ upc[u] = "queued"
    /\ told' = told \ {u}
    /\ IF this_batch = batch[u] THEN Unqueue(u, "reading")
       ELSE UNCHANGED <<upc, batch, overtaken>>
    /\ UNCHANGED <<stateVars, tries>>

\* The time is up: the condition is tested once more, too.
GiveUpShared(u) ==
    /\ upc[u] = "queued"
    /\ told' = told \ {u}
    /\ IF this_batch = batch[u]
       THEN Unqueue(u, "reading") /\ UNCHANGED shared
       ELSE Unqueue(u, "out") /\ shared' = [shared EXCEPT ![batch[u]] = @ - 1]
    /\ UNCHANGED <<this_batch, exclusive, etotal, tries>>

\* try_lock_shared() returns true and does not count the reader.
TryLockShared(u) ==
    /\ exclusive = 0
    /\ tries < MaxTries
    /\ UserGo(u, "out", "peeking")
    /\ tries' = tries + 1
    /\ UNCHANGED <<stateVars, batch, told, overtaken>>

\* The last reader of the batch notifies everyone.
UnlockShared(u) ==
    /\ upc[u] \in {"reading", "peeking"}
    /\ upc' = [upc EXCEPT ![u] = "out"]
    /\ shared' = [shared EXCEPT ![this_batch] = @ - 1]
    /\ told' = IF shared'[this_batch] = 0 THEN Sleeping ELSE told
    /\ UNCHANGED <<this_batch, exclusive, etotal, batch, tries, overtaken>>

-----------------------------------------------------------------------------
(* Writers.                                                                *)

\* A writer goes before the readers who are queued and not yet let in.
Overtake == overtaken' = [r \in Users |->
    IF upc[r] = "queued" /\ batch[r] # this_batch /\ overtaken[r] < 2
    THEN overtaken[r] + 1 ELSE overtaken[r]]

\* lock(), try_lock() and try_lock_until() when nobody is in
Lock(u) ==
    /\ NobodyIn
    /\ UserGo(u, "out", "writing")
    /\ etotal' = etotal + 1
    /\ exclusive' = 1
    /\ Overtake
    /\ UNCHANGED <<shared, this_batch, batch, told, tries>>

\* lock() and try_lock_until() otherwise
WaitExclusive(u) ==
    /\ ~ NobodyIn
    /\ UserGo(u, "out", "waiting")
    /\ etotal' = etotal + 1
    /\ UNCHANGED <<shared, this_batch, exclusive, batch, told, tries, overtaken>>

\* A notified writer goes, or sleeps again.
TestWaiting(u) ==
    /\ u \in told
    /\ upc[u] = "waiting"
    /\ told' = told \ {u}
    /\ IF NobodyIn
       THEN upc' = [upc EXCEPT ![u] = "writing"] /\ exclusive' = 1 /\ Overtake
       ELSE UNCHANGED <<upc, exclusive, overtaken>>
    /\ UNCHANGED <<shared, this_batch, etotal, batch, tries>>

\* The time is up.  Readers that queued because of this writer are not told.
GiveUpExclusive(u) ==
    /\ upc[u] = "waiting"
    /\ told' = told \ {u}
    /\ IF NobodyIn
       THEN /\ upc' = [upc EXCEPT ![u] = "writing"] /\ exclusive' = 1 /\ Overtake
            /\ UNCHANGED etotal
       ELSE /\ upc' = [upc EXCEPT ![u] = "out"] /\ etotal' = etotal - 1
            /\ UNCHANGED <<exclusive, overtaken>>
    /\ UNCHANGED <<shared, this_batch, batch, tries>>

\* Mistake: the same batch goes on.
UnlockSameBatch(u) ==
    /\ UserGo(u, "writing", "out")
    /\ exclusive' = 0
    /\ etotal' = etotal - 1
    /\ told' = Sleeping
    /\ UNCHANGED <<shared, this_batch, batch, tries, overtaken>>

\* The next batch is let in and everyone notified.
Unlock(u) ==
    /\ UserGo(u, "writing", "out")
    /\ exclusive' = 0
    /\ etotal' = etotal - 1
    /\ this_batch' = 1 - this_batch
    /\ told' = Sleeping
    /\ UNCHANGED <<shared, batch, tries, overtaken>>

-----------------------------------------------------------------------------
UserWork(u) == TestQueued(u) \/ TestWaiting(u) \/ UnlockShared(u) \/ Unlock(u)
UserCall(u) ==
    \/ LockShared(u) \/ QueueShared(u) \/ TryLockShared(u)
    \/ Lock(u) \/ WaitExclusive(u) \/ GiveUpShared(u) \/ GiveUpExclusive(u)

SharedNext == \E u \in Users : UserWork(u) \/ UserCall(u)

\* Whoever has the mutex gives it back, and whoever was notified runs.
SharedFair == \A u \in Users : WF_sharedVars(UserWork(u))

SharedSpec == SharedInit /\ [][SharedNext]_sharedVars /\ SharedFair

-----------------------------------------------------------------------------
(* Properties.  try_lock_shared() lets a reader in whom nobody counts, and *)
(* who is counted out all the same: all of this holds until then.          *)

\* A writer is alone, and the counts say who is in or may go in: no queued
\* reader is told to go while a writer works, or is left behind by its batch.
FairExclusion ==
    \/ tries > 0
    \/ /\ Cardinality(UsersAt({"writing"})) = exclusive
       /\ UsersAt({"writing"}) # {} => UsersAt({"reading"}) = {}
       /\ shared[this_batch]
            = Cardinality(UsersAt({"reading"}) \cup
                          {u \in UsersAt({"queued"}) : batch[u] = this_batch})
       /\ this_batch \in {batch[u] : u \in UsersAt({"queued"})} => exclusive = 0

\* "1 writer, batch of readers": a reader who has to wait is passed by one
\* writer at the most.
PassedByOneWriter == tries > 0 \/ \A u \in Users : upc[u] = "queued" => overtaken[u] =< 1

\* The readers who queued for a writer that has given up: nobody is left to
\* let their batch in.
Stranded == etotal = 0 /\ UsersAt({"queued"}) # {}

\* A reader that queues gets in, unless the writers it queued for give up; and
\* when writers wait, one of them gets in, however readers come and go.
SharedServes ==
    /\ \A u \in Users : upc[u] = "queued" ~> upc[u] # "queued" \/ Stranded \/ tries > 0
    /\ UsersAt({"waiting"}) # {} ~> exclusive = 1 \/ UsersAt({"waiting"}) = {} \/ tries > 0
=============================================================================
