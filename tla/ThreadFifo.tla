------------------------------ MODULE ThreadFifo ------------------------------
(***************************************************************************)
(* cpen333::thread::fifo, the class of tasks_Q: a ring buffer with two     *)
(* indices, a mutex for each end, and two counting semaphores.  In the     *)
(* warehouse the producers are the two dock handlers and the menu, the     *)
(* consumers are the robots.                                               *)
(*                                                                         *)
(* The semaphores' own wait() and notify() hold an inner mutex from begin  *)
(* to end, so each is one step here.  try_push, try_pop and their timed    *)
(* forms differ from push and pop only in giving up, with nothing changed, *)
(* when the semaphore is zero: their successful calls are those below, and *)
(* their failing calls are stuttering steps.  peek() and size(), which the *)
(* warehouse does not call, are left out.                                  *)
(***************************************************************************)
EXTENDS Naturals, FiniteSets, Sequences

CONSTANTS
    Producers, Consumers,
    Values,        \* ValueType
    Size,          \* the constructor's argument
    Nobody         \* "not locked"

ASSUME FifoAssumption ==
    /\ IsFiniteSet(Producers) /\ IsFiniteSet(Consumers)
    /\ Nobody \notin Producers \cup Consumers
    /\ Size \in Nat \ {0}

VARIABLES
    data,          \* data_
    pidx, cidx,    \* info_.pidx, info_.cidx
    psem, csem,    \* counts of psem_ and csem_
    pmutex, cmutex,
    ppc, val, ploc,   \* producers: program point, argument, local loc
    cpc, got, cloc    \* consumers: program point, result, local loc

prodVars == <<ppc, val, ploc>>
consVars == <<cpc, got, cloc>>
vars == <<data, pidx, cidx, psem, csem, pmutex, cmutex, prodVars, consVars>>

Slots == 0 .. Size - 1

TypeOK ==
    /\ data \in [Slots -> Values]
    /\ pidx \in Slots /\ cidx \in Slots
    /\ psem \in 0 .. Size /\ csem \in 0 .. Size
    /\ pmutex \in Producers \cup {Nobody}
    /\ cmutex \in Consumers \cup {Nobody}
    /\ ppc \in [Producers -> {"idle", "room", "write", "written"}]
    /\ val \in [Producers -> Values] /\ ploc \in [Producers -> Slots]
    /\ cpc \in [Consumers -> {"idle", "item", "read", "taken"}]
    /\ got \in [Consumers -> Values] /\ cloc \in [Consumers -> Slots]

\* new ValueType[size] leaves the slots, as the callers' results, arbitrary.
Init ==
    /\ \E v \in Values :
        /\ data = [s \in Slots |-> v]
        /\ val = [p \in Producers |-> v]
        /\ got = [c \in Consumers |-> v]
    /\ pidx = 0 /\ cidx = 0
    /\ psem = Size /\ csem = 0
    /\ pmutex = Nobody /\ cmutex = Nobody
    /\ ppc = [p \in Producers |-> "idle"]
    /\ ploc = [p \in Producers |-> 0]
    /\ cpc = [c \in Consumers |-> "idle"]
    /\ cloc = [c \in Consumers |-> 0]

\* Mistake: the index is not wrapped.
AfterUnwrapped(idx) == idx + 1

\* ++idx, back to 0 when it reaches size
After(idx) == IF idx + 1 = Size THEN 0 ELSE idx + 1

-----------------------------------------------------------------------------
(* push(v): psem_.wait(), push_item(v), csem_.notify().                    *)

ProducerGo(p, from, to) == ppc[p] = from /\ ppc' = [ppc EXCEPT ![p] = to]

PushWait(p, v) ==
    /\ ProducerGo(p, "idle", "room")
    /\ psem > 0
    /\ psem' = psem - 1
    /\ val' = [val EXCEPT ![p] = v]
    /\ UNCHANGED <<data, pidx, cidx, csem, pmutex, cmutex, ploc, consVars>>

\* Mistake: the mutex covers the index only.
PushClaimShared(p) ==
    /\ ProducerGo(p, "room", "write")
    /\ pmutex = Nobody
    /\ ploc' = [ploc EXCEPT ![p] = pidx]
    /\ pidx' = After(pidx)
    /\ UNCHANGED <<data, cidx, psem, csem, pmutex, cmutex, val, consVars>>

PushClaim(p) ==
    /\ ProducerGo(p, "room", "write")
    /\ pmutex = Nobody
    /\ pmutex' = p
    /\ ploc' = [ploc EXCEPT ![p] = pidx]
    /\ pidx' = After(pidx)
    /\ UNCHANGED <<data, cidx, psem, csem, cmutex, val, consVars>>

\* Mistake: the copy goes to the index as it is now.
PushWriteAtIndex(p) ==
    /\ ProducerGo(p, "write", "written")
    /\ data' = [data EXCEPT ![pidx] = val[p]]
    /\ pmutex' = Nobody
    /\ UNCHANGED <<pidx, cidx, psem, csem, cmutex, val, ploc, consVars>>

\* The copy is made before the guard goes out of scope.
PushWrite(p) ==
    /\ ProducerGo(p, "write", "written")
    /\ data' = [data EXCEPT ![ploc[p]] = val[p]]
    /\ pmutex' = Nobody
    /\ UNCHANGED <<pidx, cidx, psem, csem, cmutex, val, ploc, consVars>>

\* Mistake: no consumer is told.
PushNotifyNobody(p) ==
    /\ ProducerGo(p, "written", "idle")
    /\ UNCHANGED <<data, pidx, cidx, psem, csem, pmutex, cmutex, val, ploc, consVars>>

PushNotify(p) ==
    /\ ProducerGo(p, "written", "idle")
    /\ csem' = csem + 1
    /\ UNCHANGED <<data, pidx, cidx, psem, pmutex, cmutex, val, ploc, consVars>>

-----------------------------------------------------------------------------
(* pop(): csem_.wait(), pop_item(), psem_.notify().                        *)

ConsumerGo(c, from, to) == cpc[c] = from /\ cpc' = [cpc EXCEPT ![c] = to]

PopWait(c) ==
    /\ ConsumerGo(c, "idle", "item")
    /\ csem > 0
    /\ csem' = csem - 1
    /\ UNCHANGED <<data, pidx, cidx, psem, pmutex, cmutex, got, cloc, prodVars>>

PopClaim(c) ==
    /\ ConsumerGo(c, "item", "read")
    /\ cmutex = Nobody
    /\ cmutex' = c
    /\ cloc' = [cloc EXCEPT ![c] = cidx]
    /\ cidx' = After(cidx)
    /\ UNCHANGED <<data, pidx, psem, csem, pmutex, got, prodVars>>

PopRead(c) ==
    /\ ConsumerGo(c, "read", "taken")
    /\ got' = [got EXCEPT ![c] = data[cloc[c]]]
    /\ cmutex' = Nobody
    /\ UNCHANGED <<data, pidx, cidx, psem, csem, pmutex, cloc, prodVars>>

PopNotify(c) ==
    /\ ConsumerGo(c, "taken", "idle")
    /\ psem' = psem + 1
    /\ UNCHANGED <<data, pidx, cidx, csem, pmutex, cmutex, got, cloc, prodVars>>

-----------------------------------------------------------------------------
ProducerWork(p) == PushClaim(p) \/ PushWrite(p) \/ PushNotify(p)
ProducerStep(p) == (\E v \in Values : PushWait(p, v)) \/ ProducerWork(p)
ConsumerStep(c) == PopWait(c) \/ PopClaim(c) \/ PopRead(c) \/ PopNotify(c)

Next == (\E p \in Producers : ProducerStep(p)) \/ (\E c \in Consumers : ConsumerStep(c))

Spec == Init /\ [][Next]_vars

\* A producer that has begun a push goes on with it, and the consumers keep
\* popping, as robots do.  Nothing makes a producer begin.
FifoFair ==
    /\ \A p \in Producers : WF_vars(ProducerWork(p))
    /\ \A c \in Consumers : WF_vars(ConsumerStep(c))

-----------------------------------------------------------------------------
(* Properties.                                                             *)

At(pc, points) == Cardinality({x \in DOMAIN pc : pc[x] \in points})

\* Every slot is paid for by exactly one token: in a semaphore, or with the
\* thread that took it and has not yet passed it on to the other side.
TokensConserved ==
    psem + csem + At(ppc, {"room", "write", "written"}) + At(cpc, {"item", "read", "taken"}) = Size

\* No token is lost or made, and no slot is written by one thread while
\* another reads or writes it: each end has a mutex, and nothing but the
\* semaphores keeps the ends apart.
SlotsExclusive ==
    /\ TokensConserved
    /\ \A p \in Producers, c \in Consumers :
          ppc[p] = "write" /\ cpc[c] = "read" => ploc[p] # cloc[c]
    /\ \A p, q \in Producers :
          p # q /\ ppc[p] = "write" /\ ppc[q] = "write" => ploc[p] # ploc[q]

\* The ring holds what was claimed for writing and not for reading.  A slot
\* that is being written counts from the moment it has been written, one
\* that is being read until it has been.
Held == Size - psem - At(ppc, {"room", "write"}) - At(cpc, {"taken"})
FirstHeld == IF \E c \in Consumers : cpc[c] = "read"
             THEN (cidx + Size - 1) % Size
             ELSE cidx

Fifo == INSTANCE BoundedQueue WITH
    queue <- [k \in 1 .. Held |-> data[(FirstHeld + k - 1) % Size]]

\* The ring buffer implements the bounded queue: values come out once each,
\* in the order in which they were written, whoever pushes and pops.
ImplementsQueue == Fifo!Spec

\* As long as someone pops, a full queue does not stay full, and so a dock
\* handler waiting for room gets it.
FullIsRelieved == (Held = Size) ~> (Held < Size)
=============================================================================
