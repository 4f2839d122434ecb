------------------------------ MODULE Rendezvous ------------------------------
(***************************************************************************)
(* The two rendezvous of the library: a group of Size members calls wait() *)
(* and nobody is to pass until all have.  The threads' version counts down *)
(* those who come and counts up those who leave, under a mutex and with a  *)
(* condition variable; the processes' version hands out one semaphore      *)
(* token for each of the others when the last one comes.                   *)
(***************************************************************************)
EXTENDS Integers, FiniteSetsExt, Functions

CONSTANTS
    Members,         \* the group
    MaxRounds        \* bound: calls of wait() by each member

ASSUME RendezvousAssumption == IsFiniteSet(Members) /\ Members # {} /\ MaxRounds \in Nat

VARIABLES
    version,            \* which of the two
    countdown, countup, \* the threads' counts; countdown is the processes' count
    permits,            \* the processes' semaphore_
    mpc,                \* members: program point
    arrived, passed,    \* calls of wait(), and those that returned
    reentered           \* a member came back before all had left

meetVars == <<version, countdown, countup, permits, mpc, arrived, passed, reentered>>

GroupSize == Cardinality(Members)

MeetTypeOK ==
    /\ version \in {"thread", "process"}
    /\ countdown \in 0 .. GroupSize /\ countup \in 0 .. GroupSize /\ permits \in Nat
    /\ mpc \in [Members -> {"away", "asleep", "notified"}]
    /\ arrived \in [Members -> 0 .. MaxRounds] /\ passed \in [Members -> 0 .. MaxRounds]
    /\ reentered \in BOOLEAN

MeetInit ==
    /\ version \in {"thread", "process"}
    /\ countdown = GroupSize /\ countup = 0 /\ permits = 0
    /\ mpc = [m \in Members |-> "away"]
    /\ arrived = [m \in Members |-> 0] /\ passed = [m \in Members |-> 0]
    /\ reentered = FALSE

Begin(m) ==
    /\ mpc[m] = "away"
    /\ arrived[m] < MaxRounds
    /\ arrived' = [arrived EXCEPT ![m] = @ + 1]
    /\ reentered' = (reentered \/ \E other \in Members : passed[other] < passed[m])
Pass(m) == passed' = [passed EXCEPT ![m] = @ + 1]

-----------------------------------------------------------------------------
(* Threads: the mutex is held except while a thread sleeps.                *)

\* The last one to leave sets the counts for the next round.
CountUp == countup' = IF countup + 1 = GroupSize THEN 0 ELSE countup + 1
Reset(count) == IF countup + 1 = GroupSize THEN GroupSize ELSE count

ThreadComes(m) ==
    /\ version = "thread"
    /\ Begin(m)
    /\ countdown > 1
    /\ countdown' = countdown - 1
    /\ mpc' = [mpc EXCEPT ![m] = "asleep"]
    /\ UNCHANGED <<version, countup, permits, passed>>

\* The last one to come notifies the others and leaves.
LastThreadComes(m) ==
    /\ version = "thread"
    /\ Begin(m)
    /\ countdown =< 1
    /\ countdown' = Reset(0)
    /\ CountUp
    /\ mpc' = [n \in Members |-> IF mpc[n] = "asleep" THEN "notified" ELSE mpc[n]]
    /\ Pass(m)
    /\ UNCHANGED <<version, permits>>

ThreadTests(m) ==
    /\ mpc[m] = "notified"
    /\ IF countdown = 0
       THEN /\ mpc' = [mpc EXCEPT ![m] = "away"]
            /\ countdown' = Reset(0) /\ CountUp
            /\ Pass(m)
       ELSE mpc' = [mpc EXCEPT ![m] = "asleep"] /\ UNCHANGED <<countdown, countup, passed>>
    /\ UNCHANGED <<version, permits, arrived, reentered>>

-----------------------------------------------------------------------------
(* Processes.                                                              *)

ProcessComes(m) ==
    /\ version = "process"
    /\ Begin(m)
    /\ countdown > 1
    /\ countdown' = countdown - 1
    /\ mpc' = [mpc EXCEPT ![m] = "asleep"]
    /\ UNCHANGED <<version, countup, permits, passed>>

\* Mistake: a token for the last one, too.
LastProcessComesTokenEach(m) ==
    /\ version = "process"
    /\ Begin(m)
    /\ countdown = 1
    /\ countdown' = GroupSize
    /\ permits' = permits + GroupSize
    /\ Pass(m)
    /\ UNCHANGED <<version, countup, mpc>>

\* The count is set for the next round before the tokens are out.
LastProcessComes(m) ==
    /\ version = "process"
    /\ Begin(m)
    /\ countdown = 1
    /\ countdown' = GroupSize
    /\ permits' = permits + GroupSize - 1
    /\ Pass(m)
    /\ UNCHANGED <<version, countup, mpc>>

ProcessTakes(m) ==
    /\ version = "process"
    /\ mpc[m] = "asleep"
    /\ permits > 0
    /\ permits' = permits - 1
    /\ mpc' = [mpc EXCEPT ![m] = "away"]
    /\ Pass(m)
    /\ UNCHANGED <<version, countdown, countup, arrived, reentered>>

-----------------------------------------------------------------------------
MeetNext ==
    \E m \in Members :
        \/ ThreadComes(m) \/ LastThreadComes(m) \/ ThreadTests(m)
        \/ ProcessComes(m) \/ LastProcessComes(m) \/ ProcessTakes(m)

MeetSpec == MeetInit /\ [][MeetNext]_meetVars

-----------------------------------------------------------------------------
(* Properties.                                                             *)

\* rendezvous.h "until all (# size) processes are waiting": no more calls
\* return than there are in the groups that are complete, whoever comes back
\* early.  And nobody passes for the k-th time before everyone has come k
\* times, as long as no member comes back while another has not yet left:
\* that one may take the other's token, or pass on the old count.
PassedInGroups ==
    /\ SumFunction(passed) =< GroupSize * (SumFunction(arrived) \div GroupSize)
    /\ reentered \/ \A m, n \in Members : passed[m] =< arrived[n]
=============================================================================
