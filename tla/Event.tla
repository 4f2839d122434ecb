-------------------------------- MODULE Event --------------------------------
(***************************************************************************)
(* cpen333::thread::event: threads wait, notify_one() lets one of them     *)
(* through and notify_all() all that wait at that moment.  The class keeps *)
(* three counters and a semaphore block_queue_ on which waiters sleep; a   *)
(* second semaphore, block_lock_, is a gate that is closed while a batch   *)
(* of waiters is being let through, so that none who came later takes one  *)
(* of their signals.  The same code, with a lock of the caller's in place  *)
(* of external_, is process::impl::condition_base, which the processes'    *)
(* condition, event and condition_variable are made of.                    *)
(*                                                                         *)
(* The correction made after numeric_limits<long>::max() / 2 waiters have  *)
(* gone is not modelled: MaxGone keeps far below.                          *)
(***************************************************************************)
EXTENDS Integers, FiniteSetsExt

CONSTANTS
    Waiters, Notifiers,
    Free,           \* "not locked"
    MaxGone         \* bound: no wait times out once so many have gone

ASSUME EventAssumption ==
    /\ IsFiniteSet(Waiters) /\ IsFiniteSet(Notifiers)
    /\ Free \notin Notifiers
    /\ MaxGone \in Nat

VARIABLES
    gate, tokens,            \* counts of block_lock_ and block_queue_
    outer, inner,            \* holders of external_ and unblock_lock_
    blocked, unblock, gone,  \* waiters_
    wpc, late, stray,        \* waiters: program point, timed_out, waiters_gone
    npc, all, signals,       \* notifiers: program point, broadcast, signals
    due,                     \* waiters who were waiting at a notify_all that found someone
    roused,                  \* waiters who were waiting at a notification
    usurped                  \* a waiter that timed out has used up another's signal

counterVars == <<gate, tokens, inner, blocked, unblock, gone>>
waiterVars == <<wpc, late, stray>>
notifierVars == <<npc, all, signals>>
eventVars == <<counterVars, outer, waiterVars, notifierVars, due, roused, usurped>>

EventTypeOK ==
    /\ gate \in 0 .. 1 /\ tokens \in Nat
    /\ outer \in BOOLEAN /\ inner \in Notifiers \cup {Free}
    /\ blocked \in Nat /\ unblock \in Nat /\ gone \in Nat
    /\ wpc \in [Waiters -> {"idle", "gate", "asleep", "awake", "drain", "return"}]
    /\ late \in [Waiters -> BOOLEAN]
    /\ stray \in [Waiters -> Nat]
    /\ npc \in [Notifiers -> {"idle", "close", "post"}]
    /\ all \in [Notifiers -> BOOLEAN] /\ signals \in [Notifiers -> Nat]
    /\ due \subseteq Waiters /\ roused \subseteq Waiters /\ usurped \in BOOLEAN

EventInit ==
    /\ gate = 1 /\ tokens = 0 /\ outer = FALSE /\ inner = Free
    /\ blocked = 0 /\ unblock = 0 /\ gone = 0
    /\ wpc = [t \in Waiters |-> "idle"]
    /\ late = [t \in Waiters |-> FALSE] /\ stray = [t \in Waiters |-> 0]
    /\ npc = [n \in Notifiers |-> "idle"] /\ all = [n \in Notifiers |-> FALSE]
    /\ signals = [n \in Notifiers |-> 0]
    /\ due = {} /\ roused = {} /\ usurped = FALSE

\* Those who have counted themselves and not yet been counted out
Asleep == {t \in Waiters : wpc[t] \in {"asleep", "awake"}}

-----------------------------------------------------------------------------
(* wait(), wait_for(), wait_until(): any wait may be one with a timeout,   *)
(* and nothing says that the time comes.  The result is clear when the     *)
(* waiter has been counted out, and late is of no more use.                *)

WaiterGo(t, from, to) == wpc[t] = from /\ wpc' = [wpc EXCEPT ![t] = to]

BeginWait(t) ==
    /\ WaiterGo(t, "idle", "gate")
    /\ ~ outer
    /\ outer' = TRUE
    /\ UNCHANGED <<counterVars, late, stray, notifierVars, due, roused, usurped>>

\* Mistake: whoever comes is counted in while others are let through.
BlockUngated(t) ==
    /\ WaiterGo(t, "gate", "asleep")
    /\ blocked' = blocked + 1
    /\ outer' = FALSE
    /\ UNCHANGED <<gate, tokens, inner, unblock, gone, late, stray, notifierVars,
                   due, roused, usurped>>

\* Through the gate, counted, and external_ is released.
Block(t) ==
    /\ WaiterGo(t, "gate", "asleep")
    /\ gate = 1
    /\ blocked' = blocked + 1
    /\ outer' = FALSE
    /\ UNCHANGED <<gate, tokens, inner, unblock, gone, late, stray, notifierVars,
                   due, roused, usurped>>

TakeSignal(t) ==
    /\ WaiterGo(t, "asleep", "awake")
    /\ tokens > 0
    /\ tokens' = tokens - 1
    /\ UNCHANGED <<gate, inner, blocked, unblock, gone, outer, late, stray,
                   notifierVars, due, roused, usurped>>

TimeOut(t) ==
    /\ WaiterGo(t, "asleep", "awake")
    /\ gone < MaxGone
    /\ late' = [late EXCEPT ![t] = TRUE]
    /\ UNCHANGED <<counterVars, outer, stray, notifierVars, due, roused, usurped>>

\* What the waiter does to the counters under unblock_lock_.  The last of a
\* batch opens the gate, there and then if others are left to be notified, or
\* else when it has drained the signals of those who timed out.
CountOut(t) ==
    /\ blocked' = IF unblock # 0 /\ late[t] /\ blocked # 0 THEN blocked - 1 ELSE blocked
    /\ unblock' = IF unblock # 0 THEN unblock - 1 ELSE 0
    /\ usurped' = (usurped \/ (unblock # 0 /\ late[t] /\ blocked # 0))
    /\ LET left == IF unblock = 0 \/ (late[t] /\ blocked = 0) THEN gone + 1 ELSE gone
           last == unblock = 1 /\ blocked' = 0
       IN  /\ gone' = IF last THEN 0 ELSE left
           /\ stray' = [stray EXCEPT ![t] = IF last THEN left ELSE 0]
           /\ wpc' = [wpc EXCEPT ![t] = IF last THEN "drain" ELSE "return"]
    /\ gate' = IF unblock = 1 /\ blocked' # 0 THEN 1 ELSE gate

Leave(t) ==
    /\ wpc[t] = "awake"
    /\ inner = Free
    /\ CountOut(t)
    /\ late' = [late EXCEPT ![t] = FALSE]
    /\ due' = due \ {t} /\ roused' = roused \ {t}
    /\ UNCHANGED <<tokens, inner, outer, notifierVars>>

Drain(t) ==
    /\ wpc[t] = "drain"
    /\ stray[t] > 0 /\ tokens > 0
    /\ stray' = [stray EXCEPT ![t] = @ - 1]
    /\ tokens' = tokens - 1
    /\ UNCHANGED <<gate, inner, blocked, unblock, gone, outer, wpc, late,
                   notifierVars, due, roused, usurped>>

OpenGate(t) ==
    /\ WaiterGo(t, "drain", "return")
    /\ stray[t] = 0
    /\ gate' = gate + 1
    /\ UNCHANGED <<tokens, inner, blocked, unblock, gone, outer, late, stray,
                   notifierVars, due, roused, usurped>>

\* external_ is taken once more, and released.
Return(t) ==
    /\ WaiterGo(t, "return", "idle")
    /\ ~ outer
    /\ UNCHANGED <<counterVars, outer, late, stray, notifierVars, due, roused, usurped>>

WaiterWork(t) ==
    Block(t) \/ TakeSignal(t) \/ Leave(t) \/ Drain(t) \/ OpenGate(t) \/ Return(t)

-----------------------------------------------------------------------------
(* notify_one() and notify_all().                                          *)

NotifierGo(n, from, to) == npc[n] = from /\ npc' = [npc EXCEPT ![n] = to]

\* Mistake: a broadcast posts one signal.
ReleaseOneSignal(n, broadcast, waiting) ==
    LET count == IF broadcast THEN waiting ELSE 1 IN
    /\ signals' = [signals EXCEPT ![n] = 1]
    /\ unblock' = unblock + count
    /\ blocked' = waiting - count
    /\ due' = IF broadcast THEN due \cup Asleep ELSE due
    /\ roused' = roused \cup Asleep

\* count waiters move from blocked to unblock, and get a signal each.
Release(n, broadcast, waiting) ==
    LET count == IF broadcast THEN waiting ELSE 1 IN
    /\ signals' = [signals EXCEPT ![n] = count]
    /\ unblock' = unblock + count
    /\ blocked' = waiting - count
    /\ due' = IF broadcast THEN due \cup Asleep ELSE due
    /\ roused' = roused \cup Asleep

\* Nobody is blocked, as far as the counters say.
NotifyNobody(n, broadcast) ==
    /\ npc[n] = "idle"
    /\ inner = Free
    /\ IF unblock # 0 THEN blocked = 0 ELSE blocked =< gone
    /\ due' = IF broadcast THEN due \cup Asleep ELSE due
    /\ roused' = roused \cup Asleep
    /\ UNCHANGED <<counterVars, outer, waiterVars, notifierVars, usurped>>

\* A batch is being let through, and others came before the gate was closed.
NotifyMore(n, broadcast) ==
    /\ NotifierGo(n, "idle", "post")
    /\ inner = Free
    /\ unblock # 0 /\ blocked # 0
    /\ all' = [all EXCEPT ![n] = broadcast]
    /\ Release(n, broadcast, blocked)
    /\ UNCHANGED <<gate, tokens, inner, gone, outer, waiterVars, usurped>>

\* A new batch: unblock_lock_ is kept while the gate is waited for.
NotifyFirst(n, broadcast) ==
    /\ NotifierGo(n, "idle", "close")
    /\ inner = Free
    /\ unblock = 0 /\ blocked > gone
    /\ inner' = n
    /\ all' = [all EXCEPT ![n] = broadcast]
    /\ UNCHANGED <<gate, tokens, blocked, unblock, gone, outer, waiterVars, signals,
                   due, roused, usurped>>

\* Mistake: those who have gone still count as blocked.
CloseGateUncorrected(n) ==
    /\ NotifierGo(n, "close", "post")
    /\ gate = 1
    /\ gate' = 0
    /\ Release(n, all[n], blocked)
    /\ inner' = Free
    /\ UNCHANGED <<tokens, gone, outer, waiterVars, all, usurped>>

CloseGate(n) ==
    /\ NotifierGo(n, "close", "post")
    /\ gate = 1
    /\ gate' = 0
    /\ Release(n, all[n], blocked - gone)
    /\ gone' = 0
    /\ inner' = Free
    /\ UNCHANGED <<tokens, outer, waiterVars, all, usurped>>

Post(n) ==
    /\ npc[n] = "post"
    /\ tokens' = tokens + 1
    /\ signals' = [signals EXCEPT ![n] = @ - 1]
    /\ npc' = [npc EXCEPT ![n] = IF signals[n] = 1 THEN "idle" ELSE "post"]
    /\ UNCHANGED <<gate, inner, blocked, unblock, gone, outer, waiterVars, all,
                   due, roused, usurped>>

NotifierWork(n) == CloseGate(n) \/ Post(n)

-----------------------------------------------------------------------------
EventNext ==
    \/ \E t \in Waiters :
          BeginWait(t) \/ TimeOut(t) \/ WaiterWork(t)
    \/ \E n \in Notifiers :
          NotifierWork(n) \/ \E broadcast \in BOOLEAN :
                                NotifyNobody(n, broadcast) \/ NotifyMore(n, broadcast)
                                \/ NotifyFirst(n, broadcast)

\* A thread inside a call goes on with it.  A mutex that is released again and
\* again is acquired in the end.
EventFair ==
    /\ \A t \in Waiters : WF_eventVars(WaiterWork(t)) /\ SF_eventVars(Leave(t))
    /\ \A n \in Notifiers : WF_eventVars(NotifierWork(n))

EventSpec == EventInit /\ [][EventNext]_eventVars /\ EventFair

-----------------------------------------------------------------------------
(* Properties.  A waiter whose wait times out while another's signal is on *)
(* its way, and who finds still others blocked, is taken out of blocked    *)
(* and uses up the signal in unblock; whoever takes that signal off the    *)
(* queue is then counted as gone, and a waiter too many is believed to be. *)
(* The properties hold until then.                                         *)

SignalsUnderWay ==
    tokens + MapThenSumSet(LAMBDA n : signals[n], Notifiers)
      + Cardinality({t \in Waiters : wpc[t] = "awake" /\ ~ late[t]})

\* The counters tell how many wait.  While a batch is let through, every
\* waiter is in blocked or in unblock, and gone counts the signals nobody will
\* come for; otherwise gone counts those who are no longer blocked, and the
\* signals left are the ones that the last of the batch drains.
CountersAccount ==
    \/ usurped
    \/ IF unblock # 0
       THEN /\ Cardinality(Asleep) = blocked + unblock
            /\ SignalsUnderWay = unblock + gone
       ELSE /\ Cardinality(Asleep) = blocked - gone
            /\ SignalsUnderWay = MapThenSumSet(LAMBDA t : stray[t], Waiters)

\* event.h:61 "This event will not exhibit spurious wake-ups": whoever leaves
\* without having timed out was waiting when some notification was made.  A
\* signal is not kept for those who come later.
NoSpuriousWake ==
    usurped \/ \A t \in Waiters : wpc[t] = "awake" /\ ~ late[t] => t \in roused

\* event.h:141 notify_all(): "All threads waiting for the event will be awoken
\* and will continue", however many come and wait meanwhile.
NotifyAllWakes == \A t \in Waiters : t \in due ~> t \notin due \/ usurped
=============================================================================
