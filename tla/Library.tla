-------------------------------- MODULE Library --------------------------------
(***************************************************************************)
(* The primitives of the course library, side by side: a behaviour is that *)
(* of one of them, its subject.  They share nothing.                       *)
(***************************************************************************)
EXTENDS ThreadFifo, Event, SharedMutexFair, Rendezvous

VARIABLE subject

libraryVars == <<subject, vars, eventVars, sharedVars, meetVars>>

LibraryTypeOK ==
    /\ subject \in {"fifo", "event", "shared_mutex", "rendezvous"}
    /\ TypeOK /\ EventTypeOK /\ SharedTypeOK /\ MeetTypeOK

LibraryInit ==
    /\ subject \in {"fifo", "event", "shared_mutex", "rendezvous"}
    /\ Init /\ EventInit /\ SharedInit /\ MeetInit
    \* What is not the subject needs one initial state only.
    /\ subject # "fifo" => data = [s \in Slots |-> CHOOSE v \in Values : TRUE]
    /\ subject # "rendezvous" => version = "thread"

FifoSide == Next /\ UNCHANGED <<subject, eventVars, sharedVars, meetVars>>
EventSide == EventNext /\ UNCHANGED <<subject, vars, sharedVars, meetVars>>
SharedSide == SharedNext /\ UNCHANGED <<subject, vars, eventVars, meetVars>>
MeetSide == MeetNext /\ UNCHANGED <<subject, vars, eventVars, sharedVars>>

LibraryNext ==
    \/ subject = "fifo" /\ FifoSide
    \/ subject = "event" /\ EventSide
    \/ subject = "shared_mutex" /\ SharedSide
    \/ subject = "rendezvous" /\ MeetSide

\* Only the subject runs: the others' threads are outside all calls, and have
\* nothing to go on with.
LibrarySpec ==
    /\ LibraryInit /\ [][LibraryNext]_libraryVars
    /\ FifoFair /\ EventFair /\ SharedFair
=============================================================================
