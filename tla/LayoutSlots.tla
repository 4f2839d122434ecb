----------------------------- MODULE LayoutSlots -----------------------------
(***************************************************************************)
(* How layouts and warehouses find each other: both look through the slots *)
(* of shared memory in turn and take the first that suits (main of         *)
(* WarehouseLayout and of WarehouseMain).  A slot is looked at and taken   *)
(* without its mutex, which only what a layout loads is under.  What is    *)
(* loaded is FloorPlan's; here it is loaded, or the file cannot be opened. *)
(***************************************************************************)
EXTENDS Integers, FiniteSets

CONSTANTS
    Slots,             \* MAX_NUM_WAREHOUSES
    LayoutProcs, WarehouseProcs,
    Unlocked           \* of a mutex

SlotIds == 0 .. Slots - 1

ASSUME SlotAssumption ==
    /\ Slots \in Nat \ {0}
    /\ LayoutProcs \cap WarehouseProcs = {} /\ Unlocked \notin LayoutProcs

VARIABLES
    magic, magicW,     \* they have the number of the slot
    quit,
    slotMutex,         \* mutex_, per slot
    lpc, lat,          \* where each layout is, and memoryIndex or i
    wpc, wat,          \* the same of each warehouse
    contested,         \* slots that two were about to take at a time
    failed             \* slots that a layout could not load

slotVars == <<magic, magicW, quit, slotMutex, lpc, lat, wpc, wat, contested, failed>>

LayoutPC == {"look", "take", "lock", "load", "show", "failed", "end", "gone", "none left"}
WarehousePC == {"look", "look again", "take", "open", "gone", "none left"}

SlotTypeOK ==
    /\ magic \in [SlotIds -> BOOLEAN] /\ magicW \in [SlotIds -> BOOLEAN]
    /\ quit \in [SlotIds -> BOOLEAN]
    /\ slotMutex \in [SlotIds -> LayoutProcs \cup {Unlocked}]
    /\ lpc \in [LayoutProcs -> LayoutPC]
    /\ wpc \in [WarehouseProcs -> WarehousePC]
    /\ lat \in [LayoutProcs -> SlotIds] /\ wat \in [WarehouseProcs -> SlotIds]
    /\ contested \subseteq SlotIds /\ failed \subseteq SlotIds

\* Shared memory that nobody has opened before is zero.
SlotInit ==
    /\ magic = [i \in SlotIds |-> FALSE] /\ magicW = magic /\ quit = magic
    /\ slotMutex = [i \in SlotIds |-> Unlocked]
    /\ lpc = [l \in LayoutProcs |-> "look"] /\ lat = [l \in LayoutProcs |-> 0]
    /\ wpc = [w \in WarehouseProcs |-> "look"] /\ wat = [w \in WarehouseProcs |-> 0]
    /\ contested = {} /\ failed = {}

LayoutTo(l, from, to) == lpc[l] = from /\ lpc' = [lpc EXCEPT ![l] = to]
WarehouseTo(w, from, to) == wpc[w] = from /\ wpc' = [wpc EXCEPT ![w] = to]

-----------------------------------------------------------------------------
(* A layout.                                                               *)

\* magic = shared->magic, and on to the next slot if it is taken
LayoutPasses(l) ==
    /\ magic[lat[l]]
    /\ LayoutTo(l, "look", IF lat[l] = Slots - 1 THEN "none left" ELSE "look")
    /\ lat' = [lat EXCEPT ![l] = IF @ = Slots - 1 THEN @ ELSE @ + 1]
    /\ UNCHANGED <<magic, magicW, quit, slotMutex, wpc, wat, contested, failed>>

LayoutFinds(l) ==
    /\ ~magic[lat[l]]
    /\ LayoutTo(l, "look", "take")
    /\ contested' = contested \cup
                    {i \in {lat[l]} : \E k \in LayoutProcs \ {l} : lpc[k] = "take" /\ lat[k] = i}
    /\ UNCHANGED <<magic, magicW, quit, slotMutex, lat, wpc, wat, failed>>

\* Mistake: the slot is not marked.
LayoutTakesUnmarked(l) ==
    /\ LayoutTo(l, "take", "lock")
    /\ UNCHANGED <<magic, magicW, quit, slotMutex, lat, wpc, wat, contested, failed>>

\* "UNPROTECTED as no one else will write to magic"
LayoutTakes(l) ==
    /\ LayoutTo(l, "take", "lock")
    /\ magic' = [magic EXCEPT ![lat[l]] = TRUE]
    /\ UNCHANGED <<magicW, quit, slotMutex, lat, wpc, wat, contested, failed>>

\* The file is read under the mutex.
LayoutLocks(l) ==
    /\ LayoutTo(l, "lock", "load")
    /\ slotMutex[lat[l]] = Unlocked
    /\ slotMutex' = [slotMutex EXCEPT ![lat[l]] = l]
    /\ UNCHANGED <<magic, magicW, quit, lat, wpc, wat, contested, failed>>

LayoutLoads(l) ==
    /\ LayoutTo(l, "load", "show")
    /\ slotMutex' = [slotMutex EXCEPT ![lat[l]] = Unlocked]
    /\ UNCHANGED <<magic, magicW, quit, lat, wpc, wat, contested, failed>>

\* "Load layout failed": it waits for ENTER.
LayoutFails(l) ==
    /\ LayoutTo(l, "load", "failed")
    /\ slotMutex' = [slotMutex EXCEPT ![lat[l]] = Unlocked]
    /\ failed' = failed \cup {lat[l]}
    /\ UNCHANGED <<magic, magicW, quit, lat, wpc, wat, contested>>

\* The end of its loop, or ENTER
LayoutStops(l) ==
    /\ LayoutTo(l, "failed", "end") \/ (quit[lat[l]] /\ LayoutTo(l, "show", "end"))
    /\ UNCHANGED <<magic, magicW, quit, slotMutex, lat, wpc, wat, contested, failed>>

\* "INFORM OTHER PROCESSES TO QUIT"
LayoutEnds(l) ==
    /\ LayoutTo(l, "end", "gone")
    /\ slotMutex[lat[l]] = Unlocked
    /\ quit' = [quit EXCEPT ![lat[l]] = TRUE]
    /\ magic' = [magic EXCEPT ![lat[l]] = FALSE]
    /\ UNCHANGED <<magicW, slotMutex, lat, wpc, wat, contested, failed>>

\* Its window is closed, the only end of one that has loaded: nothing in the
\* code sets quit for it.
LayoutClosed(l) ==
    /\ LayoutTo(l, "show", "gone")
    /\ UNCHANGED <<magic, magicW, quit, slotMutex, lat, wpc, wat, contested, failed>>

-----------------------------------------------------------------------------
(* A warehouse.                                                            *)

WarehouseNext(w, from) ==
    /\ WarehouseTo(w, from, IF wat[w] = Slots - 1 THEN "none left" ELSE "look")
    /\ wat' = [wat EXCEPT ![w] = IF @ = Slots - 1 THEN @ ELSE @ + 1]
    /\ UNCHANGED contested

\* shared->magic: is there a layout?
WarehouseLooks(w) ==
    /\ IF magic[wat[w]]
       THEN WarehouseTo(w, "look", "look again") /\ UNCHANGED <<wat, contested>>
       ELSE WarehouseNext(w, "look")
    /\ UNCHANGED <<magic, magicW, quit, slotMutex, lpc, lat, failed>>

\* shared->magicW: is there a warehouse?
WarehouseLooksAgain(w) ==
    /\ IF magicW[wat[w]]
       THEN WarehouseNext(w, "look again")
       ELSE /\ WarehouseTo(w, "look again", "take")
            /\ contested' = contested \cup
                   {i \in {wat[w]} : \E k \in WarehouseProcs \ {w} : wpc[k] = "take" /\ wat[k] = i}
            /\ UNCHANGED wat
    /\ UNCHANGED <<magic, magicW, quit, slotMutex, lpc, lat, failed>>

\* From here on it keeps the slot, the user presses ENTER, and it works.
WarehouseTakes(w) ==
    /\ WarehouseTo(w, "take", "open")
    /\ magicW' = [magicW EXCEPT ![wat[w]] = TRUE]
    /\ UNCHANGED <<magic, quit, slotMutex, lpc, lat, wat, contested, failed>>

\* "Enter e to exit": it leaves magicW as it is.
WarehouseExits(w) ==
    /\ WarehouseTo(w, "open", "gone")
    /\ UNCHANGED <<magic, magicW, quit, slotMutex, lpc, lat, wat, contested, failed>>

-----------------------------------------------------------------------------
LayoutStep(l) ==
    \/ LayoutPasses(l) \/ LayoutFinds(l) \/ LayoutTakes(l) \/ LayoutLocks(l)
    \/ LayoutLoads(l) \/ LayoutFails(l) \/ LayoutStops(l) \/ LayoutEnds(l) \/ LayoutClosed(l)

WarehouseStep(w) ==
    WarehouseLooks(w) \/ WarehouseLooksAgain(w) \/ WarehouseTakes(w) \/ WarehouseExits(w)

SlotNext ==
    \/ \E l \in LayoutProcs : LayoutStep(l)
    \/ \E w \in WarehouseProcs : WarehouseStep(w)

SlotSpec == SlotInit /\ [][SlotNext]_slotVars

-----------------------------------------------------------------------------
Owns(l, i) == lat[l] = i /\ lpc[l] \in {"lock", "load", "show", "failed", "end"}

(* A slot that no two processes were about to take at the same time has at  *)
(* most one layout, and one warehouse ever, which the layout was there      *)
(* before; and a slot is told to quit only after a layout could not load    *)
(* it, when that layout has gone (the search for a free slot in both        *)
(* mains).  Ever is as long as the mapping lasts: the layouts and the       *)
(* warehouses of the model hold it while they run.                          *)
SlotOwners ==
    \A i \in SlotIds :
        /\ i \notin contested =>
              /\ Cardinality({l \in LayoutProcs : Owns(l, i)}) <= 1
              /\ Cardinality({w \in WarehouseProcs : wat[w] = i /\ wpc[w] \in {"open", "gone"}}) <= 1
        /\ (\E w \in WarehouseProcs : wat[w] = i /\ wpc[w] \in {"take", "open"}) =>
              \E l \in LayoutProcs : lat[l] = i /\ lpc[l] \notin {"look", "take", "none left"}
        /\ quit[i] => i \in failed /\ \E l \in LayoutProcs : lat[l] = i /\ lpc[l] = "gone"
=============================================================================
