--------------------------- MODULE FloorProof ---------------------------
(***************************************************************************)
(* Proofs about Floor, on floors of any size, with any number of slots,    *)
(* layouts and warehouses, and tasks of any length.                        *)
(*                                                                         *)
(*  1. The slots.  SlotOwners speaks of those who have taken a slot; to be *)
(*     inductive it has to speak of those who are about to, too, and of    *)
(*     the marks that keep the others away (SlotInv).                      *)
(*  2. Places.  The scan, the search and the walk give places that exist,  *)
(*     and so do the shifts to the side of a shelf.                        *)
(*  3. The tasks.  What a handler has planned has a leg for every stop     *)
(*     before the one at hand, in their order (PlannerInv).                *)
(*  4. The shelves.  What the scan has found after every place (ScanInv).  *)
(*  5. The search.  The queue holds the open places by their distance from *)
(*     the start (Searched), so that the trace is a shortest way (Way).    *)
(*  6. The walk over the labels is that way from its other end.            *)
(*  7. The legs.  One handler at a time in the solver finds its labels as  *)
(*     it has written them (PathsInv), and so each leg is a shortest one.  *)
(*                                                                         *)
(* A fold over the floor is followed through its intermediate states,      *)
(* q[0], q[1] and so on (LeftFoldStates, RightFoldStates in Sums); that    *)
(* all of them are right is shown on the first that would not be.          *)
(***************************************************************************)
EXTENDS Floor, Sums

\* A layout that has found slot i free, until it has gone
Claims(l, i) == lat[l] = i /\ lpc[l] \in {"take", "lock", "load", "show", "failed", "end"}

\* A warehouse that has found slot i free, for good
WarehouseClaims(w, i) == wat[w] = i /\ wpc[w] \in {"take", "open", "gone"}

\* A layout that has once taken slot i
WasAt(l, i) == lat[l] = i /\ lpc[l] \notin {"look", "take", "none left"}

\* The mark on a slot keeps a second layout from claiming it.
OneLayout ==
    \A i \in SlotIds : i \notin contested =>
        /\ \A l, k \in LayoutProcs : Claims(l, i) /\ Claims(k, i) => l = k
        /\ \A l \in LayoutProcs : Owns(l, i) => magic[i]

\* The same for warehouses, whose mark is never taken back.
OneWarehouse ==
    \A i \in SlotIds : i \notin contested =>
        /\ \A w, v \in WarehouseProcs : WarehouseClaims(w, i) /\ WarehouseClaims(v, i) => w = v
        /\ \A w \in WarehouseProcs : wat[w] = i /\ wpc[w] \in {"open", "gone"} => magicW[i]

\* A mark was made by a layout, and a warehouse believes the mark.
LayoutFirst ==
    /\ \A i \in SlotIds : magic[i] => \E l \in LayoutProcs : WasAt(l, i)
    /\ \A w \in WarehouseProcs :
          wpc[w] \in {"look again", "take", "open"} => \E l \in LayoutProcs : WasAt(l, wat[w])

\* Only a layout that failed to load gets to its end.
QuitAfterFailure ==
    /\ \A l \in LayoutProcs : lpc[l] \in {"failed", "end"} => lat[l] \in failed
    /\ \A i \in SlotIds : quit[i] =>
          i \in failed /\ \E l \in LayoutProcs : lat[l] = i /\ lpc[l] = "gone"

SlotInv == SlotTypeOK /\ OneLayout /\ OneWarehouse /\ LayoutFirst /\ QuitAfterFailure

-----------------------------------------------------------------------------
LEMMA SlotInitInv == SlotInit => SlotInv
<1> SUFFICES ASSUME SlotInit PROVE SlotInv
  OBVIOUS
<1>1. 0 \in SlotIds
  BY SlotAssumption DEF SlotIds
<1> QED
  BY <1>1
  DEF SlotInit, SlotInv, SlotTypeOK, OneLayout, OneWarehouse, LayoutFirst, QuitAfterFailure,
      Claims, WarehouseClaims, Owns, WasAt, LayoutPC, WarehousePC

\* The next slot is a slot.
LEMMA NextSlot ==
    ASSUME NEW i \in SlotIds, i # Slots - 1 PROVE i + 1 \in SlotIds
  BY SlotAssumption DEF SlotIds

\* The other layouts stay where they are.
LEMMA OthersStay ==
    ASSUME SlotTypeOK, NEW l \in LayoutProcs, LayoutStep(l)
    PROVE  /\ \A k \in LayoutProcs : k # l => lpc'[k] = lpc[k] /\ lat'[k] = lat[k]
           /\ UNCHANGED <<magicW, wpc, wat>>
           /\ contested \subseteq contested' /\ failed \subseteq failed'
  BY DEF SlotTypeOK, LayoutStep, LayoutTo, LayoutPasses, LayoutFinds, LayoutTakes, LayoutLocks,
     LayoutLoads, LayoutFails, LayoutStops, LayoutEnds, LayoutClosed

LEMMA LayoutKeepsTypes ==
    ASSUME SlotTypeOK, NEW l \in LayoutProcs, LayoutStep(l) PROVE SlotTypeOK'
<1> USE DEF SlotTypeOK, LayoutTo, LayoutPC
<1>1. CASE LayoutPasses(l) BY <1>1, NextSlot DEF LayoutPasses
<1>2. CASE LayoutFinds(l) BY <1>2 DEF LayoutFinds
<1>3. CASE LayoutTakes(l) BY <1>3 DEF LayoutTakes
<1>4. CASE LayoutLocks(l) BY <1>4 DEF LayoutLocks
<1>5. CASE LayoutLoads(l) BY <1>5 DEF LayoutLoads
<1>6. CASE LayoutFails(l) BY <1>6 DEF LayoutFails
<1>7. CASE LayoutStops(l) BY <1>7 DEF LayoutStops
<1>8. CASE LayoutEnds(l) BY <1>8 DEF LayoutEnds
<1>9. CASE LayoutClosed(l) BY <1>9 DEF LayoutClosed
<1> QED
  BY <1>1, <1>2, <1>3, <1>4, <1>5, <1>6, <1>7, <1>8, <1>9 DEF LayoutStep

\* One layout: only LayoutFinds makes a claim, LayoutTakes turns it into a
\* mark, and LayoutEnds takes the mark away with the last claim.
LEMMA LayoutKeepsOneLayout ==
    ASSUME SlotTypeOK, OneLayout, NEW l \in LayoutProcs, LayoutStep(l) PROVE OneLayout'
<1> USE OthersStay
<1>1. ASSUME NEW i \in SlotIds, i \notin contested'
      PROVE  /\ \A m, k \in LayoutProcs : Claims(m, i)' /\ Claims(k, i)' => m = k
             /\ \A k \in LayoutProcs : Owns(k, i)' => magic'[i]
  <2>0. /\ \A m, k \in LayoutProcs : Claims(m, i) /\ Claims(k, i) => m = k
        /\ \A k \in LayoutProcs : Owns(k, i) => magic[i]
        /\ \A k \in LayoutProcs : k # l => (Claims(k, i)' <=> Claims(k, i)) /\ (Owns(k, i)' <=> Owns(k, i))
        /\ \A k \in LayoutProcs : Owns(k, i) => Claims(k, i)
    BY <1>1 DEF OneLayout, Claims, Owns
  <2>1. CASE LayoutFinds(l)
    <3>1. /\ magic' = magic /\ lat' = lat /\ lpc'[l] = "take" /\ ~ magic[lat[l]]
          /\ contested' = contested \cup
                  {j \in {lat[l]} : \E k \in LayoutProcs \ {l} : lpc[k] = "take" /\ lat[k] = j}
      BY <2>1 DEF LayoutFinds, LayoutTo, SlotTypeOK
    <3>2. ASSUME NEW k \in LayoutProcs, k # l, lat[l] = i, Claims(k, i) PROVE FALSE
      <4>1. CASE lpc[k] = "take" BY <1>1, <3>1, <3>2, <4>1 DEF Claims
      <4>2. CASE lpc[k] # "take" BY <2>0, <3>1, <3>2, <4>2 DEF Claims, Owns
      <4> QED BY <4>1, <4>2
    <3>3. ~ Owns(l, i)' /\ (Claims(l, i)' => lat[l] = i)
      BY <3>1 DEF Claims, Owns
    <3> QED BY <2>0, <3>1, <3>2, <3>3
  <2>2. CASE LayoutTakes(l)
    BY <2>0, <2>2 DEF LayoutTakes, LayoutTo, Claims, Owns, SlotTypeOK
  <2>3. CASE LayoutEnds(l)
    <3>1. /\ Owns(l, lat[l]) /\ ~ Claims(l, i)' /\ ~ Owns(l, i)'
          /\ i # lat[l] => magic'[i] = magic[i]
      BY <2>3 DEF LayoutEnds, LayoutTo, Claims, Owns, SlotTypeOK
    <3>2. i = lat[l] => \A k \in LayoutProcs : k # l => ~ Claims(k, i)
      BY <2>0, <3>1
    <3> QED BY <2>0, <3>1, <3>2
  <2>4. CASE LayoutPasses(l)
    <3>1. magic' = magic /\ lpc'[l] \in {"look", "none left"}
      BY <2>4 DEF LayoutPasses, LayoutTo, SlotTypeOK
    <3>2. ~ Claims(l, i)' /\ ~ Owns(l, i)'
      BY <3>1 DEF Claims, Owns
    <3> QED BY <2>0, <3>1, <3>2
  <2>5. CASE LayoutLocks(l) \/ LayoutLoads(l) \/ LayoutFails(l) \/ LayoutStops(l) \/ LayoutClosed(l)
    <3>1. magic' = magic /\ (Claims(l, i)' => Claims(l, i)) /\ (Owns(l, i)' => Owns(l, i))
      BY <2>5 DEF LayoutLocks, LayoutLoads, LayoutFails, LayoutStops, LayoutClosed, LayoutTo,
                  Claims, Owns, SlotTypeOK
    <3> QED BY <2>0, <3>1
  <2> QED BY <2>1, <2>2, <2>3, <2>4, <2>5 DEF LayoutStep
<1> QED BY <1>1 DEF OneLayout

\* No layout disturbs what warehouses have found.
LEMMA LayoutKeepsOneWarehouse ==
    ASSUME SlotTypeOK, OneWarehouse, NEW l \in LayoutProcs, LayoutStep(l) PROVE OneWarehouse'
  BY OthersStay DEF OneWarehouse, WarehouseClaims

\* A mark is made by one that was there, and who was there does not move.
LEMMA LayoutKeepsLayoutFirst ==
    ASSUME SlotTypeOK, LayoutFirst, NEW l \in LayoutProcs, LayoutStep(l) PROVE LayoutFirst'
<1>1. \A k \in LayoutProcs : \A i \in SlotIds : WasAt(k, i) => WasAt(k, i)'
  <2>1. WasAt(l, lat[l]) => lat'[l] = lat[l] /\ lpc'[l] \notin {"look", "take", "none left"}
    BY DEF SlotTypeOK, WasAt, LayoutStep, LayoutTo, LayoutPasses, LayoutFinds, LayoutTakes,
           LayoutLocks, LayoutLoads, LayoutFails, LayoutStops, LayoutEnds, LayoutClosed
  <2> QED BY <2>1, OthersStay DEF WasAt
<1>2. ASSUME NEW i \in SlotIds, magic'[i] PROVE \E k \in LayoutProcs : WasAt(k, i)'
  <2>1. magic[i] \/ WasAt(l, i)'
    BY <1>2, ZenonT(40) DEF SlotTypeOK, WasAt, LayoutStep, LayoutTo, LayoutPasses, LayoutFinds, LayoutTakes,
           LayoutLocks, LayoutLoads, LayoutFails, LayoutStops, LayoutEnds, LayoutClosed
  <2> QED BY <1>1, <2>1 DEF LayoutFirst
<1>3. UNCHANGED <<wpc, wat>> /\ \A w \in WarehouseProcs : wat[w] \in SlotIds
  BY OthersStay DEF SlotTypeOK
<1>4. ASSUME NEW w \in WarehouseProcs, wpc'[w] \in {"look again", "take", "open"}
      PROVE  \E k \in LayoutProcs : WasAt(k, wat[w])'
  BY <1>1, <1>3, <1>4 DEF LayoutFirst
<1> QED BY <1>2, <1>3, <1>4 DEF LayoutFirst, WasAt

LEMMA LayoutKeepsQuit ==
    ASSUME SlotTypeOK, QuitAfterFailure, NEW l \in LayoutProcs, LayoutStep(l)
    PROVE  QuitAfterFailure'
<1>1. lpc'[l] \in {"failed", "end"} => lat'[l] \in failed'
  <2>1. CASE LayoutFails(l)
    BY <2>1 DEF LayoutFails, LayoutTo, SlotTypeOK
  <2>2. CASE LayoutStops(l)
    BY <2>2 DEF LayoutStops, LayoutTo, QuitAfterFailure, SlotTypeOK
  <2>3. CASE ~ (LayoutFails(l) \/ LayoutStops(l))
    <3>1. lpc'[l] \notin {"failed", "end"}
      BY <2>3 DEF SlotTypeOK, LayoutStep, LayoutTo, LayoutPasses, LayoutFinds, LayoutTakes,
                  LayoutLocks, LayoutLoads, LayoutEnds, LayoutClosed
    <3> QED BY <3>1
  <2> QED BY <2>1, <2>2, <2>3
<1>2. \A i \in SlotIds : quit'[i] =>
          quit[i] \/ (lat'[l] = i /\ lpc'[l] = "gone" /\ i \in failed')
  <2>1. CASE LayoutEnds(l)
    BY <2>1 DEF LayoutEnds, LayoutTo, QuitAfterFailure, SlotTypeOK
  <2>2. CASE ~ LayoutEnds(l)
    <3>1. quit' = quit
      BY <2>2 DEF LayoutStep, LayoutPasses, LayoutFinds, LayoutTakes, LayoutLocks, LayoutLoads,
                  LayoutFails, LayoutStops, LayoutClosed
    <3> QED BY <3>1
  <2> QED BY <2>1, <2>2
<1>3. lpc[l] # "gone"
  BY DEF LayoutStep, LayoutTo, LayoutPasses, LayoutFinds,
         LayoutTakes, LayoutLocks, LayoutLoads, LayoutFails, LayoutStops, LayoutEnds, LayoutClosed
<1> QED BY <1>1, <1>2, <1>3, OthersStay DEF QuitAfterFailure

-----------------------------------------------------------------------------
(* The warehouses.                                                         *)

LEMMA WarehousesStay ==
    ASSUME SlotTypeOK, NEW w \in WarehouseProcs, WarehouseStep(w)
    PROVE  /\ \A v \in WarehouseProcs : v # w => wpc'[v] = wpc[v] /\ wat'[v] = wat[v]
           /\ UNCHANGED <<magic, quit, slotMutex, lpc, lat, failed>>
           /\ contested \subseteq contested'
  BY DEF SlotTypeOK, WarehouseStep, WarehouseTo, WarehouseNext, WarehouseLooks,
         WarehouseLooksAgain, WarehouseTakes, WarehouseExits

LEMMA WarehouseKeepsTypes ==
    ASSUME SlotTypeOK, NEW w \in WarehouseProcs, WarehouseStep(w) PROVE SlotTypeOK'
<1> USE DEF SlotTypeOK, WarehouseTo, WarehousePC
<1>1. CASE WarehouseLooks(w) BY <1>1, NextSlot DEF WarehouseLooks, WarehouseNext
<1>2. CASE WarehouseLooksAgain(w)
  <2>1. CASE magicW[wat[w]] BY <1>2, <2>1, NextSlot, ZenonT(40) DEF WarehouseLooksAgain, WarehouseNext
  <2>2. CASE ~ magicW[wat[w]]
    <3>1. contested' \subseteq contested \cup {wat[w]} /\ wat' = wat
      BY <1>2, <2>2 DEF WarehouseLooksAgain
    <3>2. wpc' = [wpc EXCEPT ![w] = "take"]
      BY <1>2, <2>2 DEF WarehouseLooksAgain
    <3>3. UNCHANGED <<magic, magicW, quit, slotMutex, lpc, lat, failed>>
      BY <1>2 DEF WarehouseLooksAgain
    <3> QED BY <3>1, <3>2, <3>3
  <2> QED BY <2>1, <2>2
<1>3. CASE WarehouseTakes(w) BY <1>3 DEF WarehouseTakes
<1>4. CASE WarehouseExits(w) BY <1>4 DEF WarehouseExits
<1> QED BY <1>1, <1>2, <1>3, <1>4 DEF WarehouseStep

LEMMA WarehouseKeepsOneWarehouse ==
    ASSUME SlotTypeOK, OneWarehouse, NEW w \in WarehouseProcs, WarehouseStep(w)
    PROVE  OneWarehouse'
<1> USE WarehousesStay
<1>1. ASSUME NEW i \in SlotIds, i \notin contested'
      PROVE  /\ \A u, v \in WarehouseProcs : WarehouseClaims(u, i)' /\ WarehouseClaims(v, i)' => u = v
             /\ \A v \in WarehouseProcs : wat'[v] = i /\ wpc'[v] \in {"open", "gone"} => magicW'[i]
  <2>0. /\ \A u, v \in WarehouseProcs : WarehouseClaims(u, i) /\ WarehouseClaims(v, i) => u = v
        /\ \A v \in WarehouseProcs : wat[v] = i /\ wpc[v] \in {"open", "gone"} => magicW[i]
        /\ \A v \in WarehouseProcs : v # w => (WarehouseClaims(v, i)' <=> WarehouseClaims(v, i))
        /\ magicW[i] => magicW'[i]
    BY <1>1 DEF OneWarehouse, WarehouseClaims, WarehouseStep, WarehouseTo, WarehouseNext,
       WarehouseLooks, WarehouseLooksAgain, WarehouseTakes, WarehouseExits, SlotTypeOK
  <2>1. CASE WarehouseLooks(w) \/ (WarehouseLooksAgain(w) /\ magicW[wat[w]])
    <3>1. magicW' = magicW /\ wpc'[w] \in {"look", "look again", "none left"}
      BY <2>1 DEF WarehouseLooks, WarehouseLooksAgain, WarehouseNext, WarehouseTo, SlotTypeOK
    <3>2. ~ WarehouseClaims(w, i)'
      BY <3>1 DEF WarehouseClaims
    <3> QED BY <2>0, <3>1, <3>2
  <2>3. CASE WarehouseLooksAgain(w) /\ ~ magicW[wat[w]]
    <3>1. /\ magicW' = magicW /\ wat' = wat /\ wpc'[w] = "take" /\ ~ magicW[wat[w]]
          /\ contested' = contested \cup
                  {j \in {wat[w]} : \E v \in WarehouseProcs \ {w} : wpc[v] = "take" /\ wat[v] = j}
      BY <2>3 DEF WarehouseLooksAgain, WarehouseTo, SlotTypeOK
    <3>2. ASSUME NEW v \in WarehouseProcs, v # w, wat[w] = i, WarehouseClaims(v, i) PROVE FALSE
      <4>1. CASE wpc[v] = "take" BY <1>1, <3>1, <3>2, <4>1 DEF WarehouseClaims
      <4>2. CASE wpc[v] # "take" BY <2>0, <3>1, <3>2, <4>2 DEF WarehouseClaims
      <4> QED BY <4>1, <4>2
    <3>3. WarehouseClaims(w, i)' => wat[w] = i
      BY <3>1 DEF WarehouseClaims
    <3> QED BY <2>0, <3>1, <3>2, <3>3
  <2>4. CASE WarehouseTakes(w)
    BY <2>0, <2>4 DEF WarehouseTakes, WarehouseTo, WarehouseClaims, SlotTypeOK
  <2>5. CASE WarehouseExits(w)
    BY <2>0, <2>5 DEF WarehouseExits, WarehouseTo, WarehouseClaims, SlotTypeOK
  <2> QED BY <2>1, <2>3, <2>4, <2>5 DEF WarehouseStep
<1> QED BY <1>1 DEF OneWarehouse

LEMMA WarehouseKeepsLayoutFirst ==
    ASSUME SlotTypeOK, LayoutFirst, NEW w \in WarehouseProcs, WarehouseStep(w)
    PROVE  LayoutFirst'
<1>1. wpc'[w] \in {"look again", "take", "open"} =>
          wat'[w] = wat[w] /\ (wpc[w] \in {"look again", "take", "open"} \/ magic[wat[w]])
  BY DEF SlotTypeOK, WarehouseStep, WarehouseTo, WarehouseNext, WarehouseLooks,
         WarehouseLooksAgain, WarehouseTakes, WarehouseExits
<1>2. wpc'[w] \in {"look again", "take", "open"} => \E l \in LayoutProcs : WasAt(l, wat'[w])
  BY <1>1 DEF LayoutFirst, SlotTypeOK
<1>3. \A l \in LayoutProcs, i \in SlotIds : WasAt(l, i)' <=> WasAt(l, i)
  BY WarehousesStay DEF WasAt
<1>4. /\ \A v \in WarehouseProcs : v # w => wpc'[v] = wpc[v] /\ wat'[v] = wat[v]
      /\ magic' = magic
      /\ \A v \in WarehouseProcs : wat[v] \in SlotIds /\ wat'[v] \in SlotIds
  BY WarehousesStay, WarehouseKeepsTypes DEF SlotTypeOK
<1>5. ASSUME NEW v \in WarehouseProcs, wpc'[v] \in {"look again", "take", "open"}
      PROVE  \E l \in LayoutProcs : WasAt(l, wat'[v])
  <2>1. CASE v = w BY <1>2, <1>5, <2>1
  <2>2. CASE v # w BY <1>4, <1>5, <2>2 DEF LayoutFirst
  <2> QED BY <2>1, <2>2
<1>6. \A v \in WarehouseProcs : wpc'[v] \in {"look again", "take", "open"} =>
          \E l \in LayoutProcs : WasAt(l, wat[v])'
  <2>1. UNCHANGED <<lpc, lat>> BY WarehousesStay
  <2>2. ASSUME NEW v \in WarehouseProcs, NEW l \in LayoutProcs, WasAt(l, wat'[v])
        PROVE  WasAt(l, wat[v])'
    BY <2>1, <2>2 DEF WasAt
  <2> QED BY <1>5, <2>2
<1>7. \A i \in SlotIds : magic'[i] => \E l \in LayoutProcs : WasAt(l, i)'
  BY <1>3, <1>4 DEF LayoutFirst
<1> QED BY <1>6, <1>7 DEF LayoutFirst

LEMMA SlotStepInv == SlotInv /\ [SlotNext]_slotVars => SlotInv'
<1> SUFFICES ASSUME SlotInv, [SlotNext]_slotVars PROVE SlotInv'
  OBVIOUS
<1> USE DEF SlotInv
<1>1. ASSUME NEW l \in LayoutProcs, LayoutStep(l) PROVE SlotInv'
  BY <1>1, LayoutKeepsTypes, LayoutKeepsOneLayout, LayoutKeepsOneWarehouse,
     LayoutKeepsLayoutFirst, LayoutKeepsQuit
<1>2. ASSUME NEW w \in WarehouseProcs, WarehouseStep(w) PROVE SlotInv'
  <2>1. OneLayout' /\ QuitAfterFailure'
    BY <1>2, WarehousesStay DEF OneLayout, QuitAfterFailure, Claims, Owns
  <2> QED
    BY <1>2, <2>1, WarehouseKeepsTypes, WarehouseKeepsOneWarehouse, WarehouseKeepsLayoutFirst
<1>3. CASE UNCHANGED slotVars
  <2> USE <1>3 DEF slotVars
  <2>1. SlotTypeOK' BY DEF SlotTypeOK
  <2>2. OneLayout' BY DEF OneLayout, Claims, Owns
  <2>3. OneWarehouse' BY DEF OneWarehouse, WarehouseClaims
  <2>4. LayoutFirst' BY DEF LayoutFirst, WasAt
  <2>5. QuitAfterFailure' BY DEF QuitAfterFailure
  <2> QED BY <2>1, <2>2, <2>3, <2>4, <2>5
<1> QED BY <1>1, <1>2, <1>3 DEF SlotNext

-----------------------------------------------------------------------------
\* A set whose members are all the same has one at the most.
LEMMA AtMostOne ==
    ASSUME NEW S, \A x, y \in S : x = y PROVE Cardinality(S) <= 1
<1>1. CASE S = {} BY <1>1, FS_EmptySet
<1>2. CASE S # {}
  <2>1. PICK x \in S : TRUE BY <1>2
  <2>2. S = {x} BY <2>1
  <2> QED BY <2>2, FS_Singleton
<1> QED BY <1>1, <1>2

LEMMA SlotInvOwners == SlotInv => SlotOwners
<1> SUFFICES ASSUME SlotInv PROVE SlotOwners
  OBVIOUS
<1> USE DEF SlotInv
<1>1. ASSUME NEW i \in SlotIds, i \notin contested
      PROVE  /\ Cardinality({l \in LayoutProcs : Owns(l, i)}) <= 1
             /\ Cardinality({w \in WarehouseProcs : wat[w] = i /\ wpc[w] \in {"open", "gone"}}) <= 1
  <2>1. \A l, k \in {l \in LayoutProcs : Owns(l, i)} : l = k
    BY <1>1 DEF OneLayout, Owns, Claims
  <2>2. \A w, v \in {w \in WarehouseProcs : wat[w] = i /\ wpc[w] \in {"open", "gone"}} : w = v
    BY <1>1 DEF OneWarehouse, WarehouseClaims
  <2> QED BY <2>1, <2>2, AtMostOne
<1> QED BY <1>1, ZenonT(40) DEF SlotOwners, LayoutFirst, QuitAfterFailure, WasAt

-----------------------------------------------------------------------------
(* The floor.  A place is its row and its column.                          *)

AllowedLayouts == Layouts \cup SharedLayouts
Shelves(floor) == {n \in Nodes : floor[n] = "shelf"}

LEMMA Place ==
    ASSUME NEW n \in Nodes
    PROVE  /\ n \in Int /\ Row(n) \in 0 .. Rows - 1 /\ Col(n) \in 0 .. Cols - 1
           /\ n = Row(n) * Cols + Col(n)
<1> DEFINE r == n \div Cols
           c == n % Cols
<1>1. n \in Nat /\ n < Rows * Cols /\ Cols \in Nat /\ Cols > 0 /\ Rows \in Nat
  BY SizeAssumption DEF Nodes
<1>2. r \in Int /\ c \in Int /\ n = Cols * r + c /\ 0 =< c /\ c < Cols
  BY <1>1
<1> HIDE DEF r, c
<1>3. r >= 0
  <2>1. CASE r =< -1
    <3>1. Cols * r =< Cols * (-1) BY <1>1, <1>2, <2>1
    <3> QED BY <1>1, <1>2, <3>1
  <2> QED BY <1>2, <2>1
<1>4. r < Rows
  <2>1. CASE r >= Rows
    <3>1. Cols * r >= Cols * Rows BY <1>1, <1>2, <2>1
    <3>2. Cols * Rows = Rows * Cols BY <1>1
    <3> QED BY <1>1, <1>2, <3>1, <3>2
  <2> QED BY <1>1, <1>2, <2>1
<1>5. Row(n) = r /\ Col(n) = c BY DEF Row, Col, r, c
<1>6. Cols * r = r * Cols BY <1>1, <1>2
<1> QED BY <1>1, <1>2, <1>3, <1>4, <1>5, <1>6

LEMMA SamePlace ==
    ASSUME NEW r \in Nat, NEW c \in 0 .. Cols - 1
    PROVE  Row(r * Cols + c) = r /\ Col(r * Cols + c) = c
<1>1. Cols \in Nat /\ Cols > 0 BY SizeAssumption
<1> DEFINE n == r * Cols + c
           q == n \div Cols
           d == n % Cols
<1>2. n \in Nat BY <1>1
<1>3. q \in Int /\ d \in Int /\ n = Cols * q + d /\ 0 =< d /\ d < Cols
  BY <1>1, <1>2
<1>4. n = Cols * r + c BY <1>1
<1> HIDE DEF n, q, d
<1>5. Cols * (q - r) = c - d /\ c - d < Cols /\ c - d > -Cols
  BY <1>1, <1>3, <1>4
<1>6. q = r
  <2>1. CASE q - r >= 1
    <3>1. Cols * (q - r) >= Cols * 1 BY <1>1, <1>3, <2>1
    <3> QED BY <1>1, <1>3, <1>5, <3>1
  <2>2. CASE q - r =< -1
    <3>1. Cols * (q - r) =< Cols * (-1) BY <1>1, <1>3, <2>2
    <3> QED BY <1>1, <1>3, <1>5, <3>1
  <2> QED BY <1>3, <2>1, <2>2
<1>7. d = c BY <1>1, <1>3, <1>4, <1>6
<1> QED BY <1>6, <1>7 DEF Row, Col, n, q, d

\* There are walls around: beside a shelf, and beside that, there is the floor.
LEMMA BesideShelf ==
    ASSUME NEW floor \in AllowedLayouts, NEW n \in Shelves(floor), NEW d \in {-2, -1, 0, 1, 2}
    PROVE  n + d \in Nodes /\ Row(n) \in 1 .. Rows - 2 /\ Col(n) \in 1 .. Cols - 2
<1>1. n \in Nodes /\ floor[n] = "shelf" BY DEF Shelves
<1>2. ~ (Row(n) \in {0, Rows - 1} \/ Col(n) \in {0, Cols - 1})
  BY <1>1, LayoutAssumption DEF AllowedLayouts
<1> DEFINE r == Row(n)
           c == Col(n)
<1>3. r \in 0 .. Rows - 1 /\ c \in 0 .. Cols - 1 /\ n = r * Cols + c
  BY <1>1, Place
<1>4. Rows \in Nat /\ Cols \in Nat /\ Cols > 0 BY SizeAssumption
<1> HIDE DEF r, c
<1>5. r \in 1 .. Rows - 2 /\ c \in 1 .. Cols - 2
  BY <1>2, <1>3, <1>4 DEF r, c
<1>6. 1 * Cols =< r * Cols BY <1>4, <1>5
<1>7. r * Cols =< (Rows - 2) * Cols BY <1>4, <1>5
<1>8. (Rows - 2) * Cols = Rows * Cols - 2 * Cols BY <1>4
<1> DEFINE rc == r * Cols
           all == Rows * Cols
<1>9. rc \in Int /\ all \in Int BY <1>3, <1>4
<1>10. rc >= Cols /\ rc =< all - 2 * Cols /\ n = rc + c BY <1>3, <1>4, <1>6, <1>7, <1>8
<1> HIDE DEF rc, all
<1>11. n + d >= 0 /\ n + d =< all - 1 /\ n + d \in Int
  BY <1>4, <1>5, <1>9, <1>10
<1> QED BY <1>5, <1>9, <1>11 DEF Nodes, r, c, all
-----------------------------------------------------------------------------
(* What the scan has found.                                                *)

Maps(floor) == UNION {[D -> Shelves(floor)] : D \in SUBSET (Nat \X Nat)}

ScanType(floor) ==
    [rows : Nat, cols : Nat, counter_r : Nat, counter_c : Nat, index_r : Nat, index_c : Nat,
     lastrow : Nat, lastcol : Nat, map : Maps(floor), del_truck : Nodes, res_truck : Nodes]

LEMMA MapOne ==
    ASSUME NEW S, NEW f \in UNION {[D -> S] : D \in SUBSET (Nat \X Nat)},
           NEW key \in Nat \X Nat, NEW n \in S
    PROVE  /\ Insert(f, key, n) \in UNION {[D -> S] : D \in SUBSET (Nat \X Nat)}
           /\ DOMAIN Insert(f, key, n) = DOMAIN f \cup {key}
           /\ \A k \in DOMAIN f : Insert(f, key, n)[k] = f[k]
           /\ key \notin DOMAIN f => Insert(f, key, n)[key] = n
<1> DEFINE g == Insert(f, key, n)
<1>1. g = [x \in DOMAIN f \cup {key} |-> IF x \in DOMAIN f THEN f[x] ELSE n]
  BY DEF Insert
<1>2. PICK D \in SUBSET (Nat \X Nat) : f \in [D -> S]
  OBVIOUS
<1>3. g \in [D \cup {key} -> S] BY <1>1, <1>2
<1>4. D \cup {key} \in SUBSET (Nat \X Nat) OBVIOUS
<1> HIDE DEF g
<1> QED BY <1>1, <1>3, <1>4 DEF g

LEMMA ScanStartType ==
    ASSUME NEW floor \in AllowedLayouts
    PROVE  ScanStart \in ScanType(floor)
<1>1. 0 \in Nodes
  <2>1. Park \in Nodes BY LayoutAssumption DEF AllowedLayouts
  <2>2. Park >= 1 BY SizeAssumption DEF Park
  <2> QED BY <2>1, <2>2, SizeAssumption DEF Nodes
<1>2. << >> \in Maps(floor)
  <2>1. << >> \in [{} -> Shelves(floor)] OBVIOUS
  <2>2. {} \in SUBSET (Nat \X Nat) OBVIOUS
  <2> QED BY <2>1, <2>2 DEF Maps
<1> QED BY <1>1, <1>2 DEF ScanStart, ScanType

LEMMA ScanPlaceKeepsType ==
    ASSUME NEW floor \in AllowedLayouts, NEW s \in ScanType(floor), NEW n \in Nodes
    PROVE  ScanPlace(s, n, floor) \in ScanType(floor)
<1>1. Row(n) \in Nat /\ Col(n) \in Nat
  BY Place, SizeAssumption
<1>2. ASSUME floor[n] = "shelf" PROVE ScanShelf(s, n) \in ScanType(floor)
  <2> DEFINE newrow == Row(n) # s.lastrow
             newcol == Col(n) # s.lastcol
             number == IF newrow THEN s.index_r + 1 ELSE s.index_r
             map == IF newcol THEN Insert(s.map, <<number, s.index_c>>, n) ELSE s.map
  <2>1. number \in Nat /\ <<number, s.index_c>> \in Nat \X Nat
    <3>1. s.index_r \in Nat /\ s.index_c \in Nat BY DEF ScanType
    <3> QED BY <3>1
  <2>2. n \in Shelves(floor) BY <1>2 DEF Shelves
  <2>3. s.map \in UNION {[D -> Shelves(floor)] : D \in SUBSET (Nat \X Nat)} BY DEF ScanType, Maps
  <2>4. map \in Maps(floor)
    <3> DEFINE key == <<number, s.index_c>>
    <3>1. key \in Nat \X Nat BY <2>1
    <3> HIDE DEF key
    <3>2. Insert(s.map, key, n) \in UNION {[D -> Shelves(floor)] : D \in SUBSET (Nat \X Nat)}
      BY <2>2, <2>3, <3>1, MapOne
    <3> QED BY <2>3, <3>2 DEF Maps, key
  <2>5. ScanShelf(s, n) =
          [s EXCEPT !.rows = IF newrow /\ Row(n) > s.counter_r THEN @ + 1 ELSE @,
                    !.counter_r = IF newrow THEN Row(n) ELSE @,
                    !.index_r = number,
                    !.lastrow = Row(n),
                    !.map = map,
                    !.index_c = IF newcol THEN @ + 1 ELSE @,
                    !.cols = IF newcol /\ Col(n) > s.counter_c THEN @ + 1 ELSE @,
                    !.counter_c = IF newcol THEN Col(n) ELSE @,
                    !.lastcol = Col(n)]
    BY DEF ScanShelf, ScanType
  <2> HIDE DEF newrow, newcol, number, map
  <2>6. s \in [rows : Nat, cols : Nat, counter_r : Nat, counter_c : Nat, index_r : Nat,
               index_c : Nat, lastrow : Nat, lastcol : Nat, map : Maps(floor),
               del_truck : Nodes, res_truck : Nodes]
    BY DEF ScanType
  <2> DEFINE rows == IF newrow /\ Row(n) > s.counter_r THEN s.rows + 1 ELSE s.rows
             cols == IF newcol /\ Col(n) > s.counter_c THEN s.cols + 1 ELSE s.cols
             counter_r == IF newrow THEN Row(n) ELSE s.counter_r
             counter_c == IF newcol THEN Col(n) ELSE s.counter_c
             index_c == IF newcol THEN s.index_c + 1 ELSE s.index_c
  <2>7. /\ rows \in Nat /\ cols \in Nat /\ counter_r \in Nat /\ counter_c \in Nat
        /\ index_c \in Nat
    BY <1>1, <2>6
  <2>8. ScanShelf(s, n) =
          [rows |-> rows, cols |-> cols, counter_r |-> counter_r, counter_c |-> counter_c,
           index_r |-> number, index_c |-> index_c, lastrow |-> Row(n), lastcol |-> Col(n),
           map |-> map, del_truck |-> s.del_truck, res_truck |-> s.res_truck]
    BY <2>5, <2>6
  <2>9. s.del_truck \in Nodes /\ s.res_truck \in Nodes BY <2>6
  <2> HIDE DEF rows, cols, counter_r, counter_c, index_c
  <2> QED BY <1>1, <2>1, <2>4, <2>7, <2>8, <2>9 DEF ScanType
<1>3. ASSUME floor[n] \in {"delivery", "restock"} PROVE n - Cols \in Nodes
  <2>1. Row(n) > 0 BY <1>3, LayoutAssumption DEF AllowedLayouts
  <2>2. n = Row(n) * Cols + Col(n) /\ n \in Nodes /\ Col(n) \in Nat /\ Row(n) \in Nat BY <1>1, Place
  <2>3. Cols \in Nat BY SizeAssumption
  <2>4. Row(n) * Cols >= 1 * Cols BY <2>1, <2>2, <2>3
  <2> DEFINE rc == Row(n) * Cols
  <2>5. rc >= Cols /\ n = rc + Col(n) BY <2>2, <2>3, <2>4
  <2>6. rc \in Int BY <2>2, <2>3
  <2> HIDE DEF rc
  <2> QED BY <2>2, <2>3, <2>5, <2>6, SizeAssumption DEF Nodes
<1>4. CASE floor[n] = "shelf" BY <1>2, <1>4 DEF ScanPlace
<1>5. CASE floor[n] = "delivery" BY <1>3, <1>5 DEF ScanPlace, ScanType
<1>6. CASE floor[n] = "restock" BY <1>3, <1>6 DEF ScanPlace, ScanType
<1>7. CASE floor[n] \notin {"shelf", "delivery", "restock"} BY <1>7 DEF ScanPlace
<1> QED BY <1>4, <1>5, <1>6, <1>7

LEMMA ScanPlaceType ==
    ASSUME NEW floor \in AllowedLayouts, NEW s \in ScanType(floor), NEW n \in Nodes
    PROVE  NextRow(ScanPlace(s, n, floor), n) \in ScanType(floor)
<1> DEFINE t == ScanPlace(s, n, floor)
<1>1. t \in ScanType(floor) BY ScanPlaceKeepsType
<1> HIDE DEF t
<1>2. NextRow(t, n) \in ScanType(floor) BY <1>1 DEF NextRow, ScanType
<1> QED BY <1>2 DEF t

\* The scan goes from place to place.
LEMMA ScanStates ==
    ASSUME NEW floor \in AllowedLayouts
    PROVE  \E q \in [0 .. Rows * Cols -> ScanType(floor)] :
              /\ q[0] = ScanStart /\ q[Rows * Cols] = Scan(floor)
              /\ \A k \in 1 .. Rows * Cols :
                    q[k] = NextRow(ScanPlace(q[k - 1], k - 1, floor), k - 1)
<1> DEFINE N == Rows * Cols
           S == 1 .. N
           V == ScanType(floor)
           step == [p \in S \X V |-> NextRow(ScanPlace(p[2], p[1] - 1, floor), p[1] - 1)]
           pick == [s \in SUBSET S |-> Max(s)]
           IsIter(g) == g = [s \in SUBSET S |->
                IF s = {} THEN ScanStart
                ELSE NextRow(ScanPlace(g[s \ {Max(s)}], InOrder[Max(s)], floor), InOrder[Max(s)])]
           iter == CHOOSE g : IsIter(g)
<1>1. N \in Nat /\ Nodes = 0 .. N - 1 BY SizeAssumption DEF Nodes
<1> HIDE DEF N
<1>2. DOMAIN InOrder = S /\ \A k \in S : InOrder[k] = k - 1 /\ InOrder[k] \in Nodes
  BY <1>1 DEF InOrder, N
<1>3. Scan(floor) = iter[S]
  <2>1. Scan(floor) = (CHOOSE g : g = [s \in SUBSET DOMAIN InOrder |->
                IF s = {} THEN ScanStart
                ELSE NextRow(ScanPlace(g[s \ {Max(s)}], InOrder[Max(s)], floor), InOrder[Max(s)])])
                   [DOMAIN InOrder]
    BY DEF Scan, FoldLeft, MapThenFoldSet
  <2> QED BY <1>2, <2>1
<1>4. step \in [S \X V -> V]
  <2>1. ASSUME NEW p \in S \X V PROVE NextRow(ScanPlace(p[2], p[1] - 1, floor), p[1] - 1) \in V
    <3>1. p[2] \in V /\ p[1] - 1 \in Nodes BY <1>1
    <3> QED BY <3>1, ScanPlaceType
  <2> QED BY <2>1
<1>5. \A s \in SUBSET S : s # {} => Max(s) \in s BY <1>1, MaxOf
<1>6. ScanStart \in V BY ScanStartType
<1> HIDE DEF V
<1>7. \A k \in S, v \in V : step[<<k, v>>] = NextRow(ScanPlace(v, InOrder[k], floor), InOrder[k])
  BY <1>2
<1> HIDE DEF step
<1>8. PICK g \in [SUBSET S -> V] : IsFold(g, ScanStart, step, pick, S)
  <2>1. IsFiniteSet(S) BY <1>1, FS_Interval
  <2>2. \A s \in SUBSET S : s # {} => pick[s] \in s BY <1>5
  <2> HIDE DEF S, pick
  <2> QED BY <1>4, <1>6, <2>1, <2>2, FoldExists
<1>9. IsIter(g)
  <2>1. ASSUME NEW s \in SUBSET S
        PROVE  g[s] = IF s = {} THEN ScanStart
                      ELSE NextRow(ScanPlace(g[s \ {Max(s)}], InOrder[Max(s)], floor), InOrder[Max(s)])
    <3>1. g[s] = IF s = {} THEN ScanStart ELSE step[<<Max(s), g[s \ {Max(s)}]>>]
      BY <1>8 DEF IsFold
    <3>2. CASE s # {}
      <4>1. Max(s) \in S /\ g[s \ {Max(s)}] \in V BY <1>5, <3>2
      <4> QED BY <1>7, <3>1, <3>2, <4>1
    <3> QED BY <3>1, <3>2
  <2> HIDE DEF S
  <2>2. g = [s \in SUBSET S |-> g[s]] OBVIOUS
  <2> QED BY <2>1, <2>2
<1>10. IsIter(iter) BY <1>9
<1>11. iter[{}] = ScanStart BY <1>10
<1>12. ASSUME NEW s \in SUBSET S, s # {}, iter[s \ {Max(s)}] \in V
       PROVE  iter[s] = step[<<Max(s), iter[s \ {Max(s)}]>>]
  <2>1. iter[s] = NextRow(ScanPlace(iter[s \ {Max(s)}], InOrder[Max(s)], floor), InOrder[Max(s)])
    BY <1>10, <1>12
  <2>2. Max(s) \in S BY <1>5, <1>12
  <2> HIDE DEF iter
  <2> QED BY <1>7, <1>12, <2>1, <2>2
<1> HIDE DEF iter, pick
<1>13. PICK q : LeftStates(q, ScanStart, step, N, V, iter[1 .. N])
  <2>1. LeftIter(iter, ScanStart, step, N, V) BY <1>11, <1>12 DEF LeftIter
  <2> QED BY <1>1, <1>4, <1>6, <2>1, LeftFoldStates
<1>14. ASSUME NEW k \in 1 .. N
       PROVE  q[k] = NextRow(ScanPlace(q[k - 1], k - 1, floor), k - 1)
  <2>1. k - 1 \in 0 .. N /\ k \in S BY <1>1
  <2>2. q[k - 1] \in V BY <1>13, <2>1 DEF LeftStates
  <2>3. q[k] = step[<<k, q[k - 1]>>] BY <1>13 DEF LeftStates
  <2> QED BY <1>2, <1>7, <2>1, <2>2, <2>3
<1> QED BY <1>3, <1>13, <1>14 DEF LeftStates, N, V

-----------------------------------------------------------------------------
(* What the search has found.                                              *)

Entry == [node : Nodes, origin : Nodes \cup {-1}]

LEMMA VisitType ==
    ASSUME NEW mz, NEW queue \in Seq(Entry), NEW n \in Nodes, NEW m
    PROVE  Visit(mz, queue, n, m) \in Seq(Entry)
<1>1. CASE m \in Nodes
  <2>1. [node |-> m, origin |-> n] \in Entry BY <1>1 DEF Entry
  <2> HIDE DEF Entry
  <2>2. Append(queue, [node |-> m, origin |-> n]) \in Seq(Entry) BY <2>1
  <2> QED BY <2>2 DEF Visit
<1>2. CASE m \notin Nodes BY <1>2 DEF Visit
<1> QED BY <1>1, <1>2

LEMMA ExpandType ==
    ASSUME NEW mz, NEW queue \in Seq(Entry), NEW n \in Nodes
    PROVE  Expand(mz, queue, n) \in Seq(Entry)
<1> DEFINE left == Visit(mz, queue, n, n - 1)
           right == Visit(mz, left, n, n + 1)
           top == Visit(mz, right, n, n - Cols)
<1>1. left \in Seq(Entry) BY VisitType
<1> HIDE DEF left
<1>2. right \in Seq(Entry) BY <1>1, VisitType
<1> HIDE DEF right
<1>3. top \in Seq(Entry) BY <1>2, VisitType
<1> HIDE DEF top
<1>4. Visit(mz, top, n, n + Cols) \in Seq(Entry) BY <1>3, VisitType
<1> QED BY <1>4 DEF Expand, left, right, top

\* One turn of the loop of Search, for the front-th entry of the queue
Turn(mz, iStop, queue, front) ==
    IF front > Len(queue) \/ \E k \in 1 .. front : queue[k].node = iStop
    THEN queue
    ELSE Expand(mz, queue, queue[front].node)

LEMMA TurnType ==
    ASSUME NEW mz, NEW iStop, NEW queue \in Seq(Entry), NEW front \in Nat \ {0}
    PROVE  Turn(mz, iStop, queue, front) \in Seq(Entry)
<1>1. CASE front > Len(queue) BY <1>1 DEF Turn
<1>2. CASE ~ (front > Len(queue))
  <2>1. front \in DOMAIN queue BY <1>2
  <2>2. queue[front].node \in Nodes
    <3>1. queue[front] \in Entry BY <2>1
    <3> QED BY <3>1 DEF Entry
  <2> QED BY <2>2, ExpandType DEF Turn
<1> QED BY <1>1, <1>2

SearchStart(iStart) == <<[node |-> iStart, origin |-> -1]>>
Turns(mz) == Cardinality(Open(mz))

LEMMA TurnsNat ==
    ASSUME NEW mz PROVE Turns(mz) \in Nat /\ IsFiniteSet(Open(mz))
<1>1. IsFiniteSet(Nodes)
  <2>1. Rows * Cols - 1 \in Int BY SizeAssumption
  <2> QED BY <2>1, FS_Interval DEF Nodes
<1>2. Open(mz) \subseteq Nodes BY DEF Open
<1>3. IsFiniteSet(Open(mz)) BY <1>1, <1>2, FS_Subset
<1> QED BY <1>3, FS_CardinalityType DEF Turns

\* The search goes from turn to turn.
SearchStates(q, mz, iStart, iStop) ==
    /\ q \in [0 .. Turns(mz) -> Seq(Entry)]
    /\ q[0] = SearchStart(iStart) /\ q[Turns(mz)] = Queue(mz, iStart, iStop)
    /\ \A k \in 1 .. Turns(mz) : q[k] = Turn(mz, iStop, q[k - 1], k)

LEMMA Searching ==
    ASSUME NEW mz, NEW iStart \in Nodes, NEW iStop
    PROVE  \E q : SearchStates(q, mz, iStart, iStop)
<1> DEFINE N == Turns(mz)
           S == 1 .. N
           V == Seq(Entry)
           base == SearchStart(iStart)
           seq == UpTo(N)
           step == [p \in S \X V |-> Turn(mz, iStop, p[2], p[1])]
           pick == [s \in SUBSET S |-> Max(s)]
           IsIter(g) == g = [s \in SUBSET S |->
                IF s = {} THEN base ELSE Turn(mz, iStop, g[s \ {Max(s)}], seq[Max(s)])]
           iter == CHOOSE g : IsIter(g)
<1>1. N \in Nat BY TurnsNat
<1>2. Queue(mz, iStart, iStop) = iter[S]
  <2>1. DOMAIN seq = S BY <1>1 DEF UpTo
  <2>2. Queue(mz, iStart, iStop) = (CHOOSE g : g = [s \in SUBSET DOMAIN seq |->
                IF s = {} THEN base ELSE Turn(mz, iStop, g[s \ {Max(s)}], seq[Max(s)])])
                   [DOMAIN seq]
    BY DEF Queue, FoldLeft, MapThenFoldSet, Turn, SearchStart, Turns
  <2> QED BY <2>1, <2>2
<1> HIDE DEF N
<1>3. \A k \in S : seq[k] = k BY <1>1 DEF UpTo
<1> HIDE DEF seq
<1>4. step \in [S \X V -> V]
  <2>1. ASSUME NEW p \in S \X V PROVE Turn(mz, iStop, p[2], p[1]) \in V
    <3>1. p[2] \in V /\ p[1] \in Nat \ {0} BY <1>1
    <3> QED BY <3>1, TurnType
  <2> QED BY <2>1
<1>5. \A s \in SUBSET S : s # {} => Max(s) \in s BY <1>1, MaxOf
<1>6. base \in V
  <2>1. [node |-> iStart, origin |-> -1] \in Entry BY DEF Entry
  <2> HIDE DEF Entry
  <2> QED BY <2>1 DEF SearchStart
<1> HIDE DEF V, base
<1>7. \A k \in S, v \in V : step[<<k, v>>] = Turn(mz, iStop, v, k)
  OBVIOUS
<1> HIDE DEF step
<1>8. PICK g \in [SUBSET S -> V] : IsFold(g, base, step, pick, S)
  <2>1. IsFiniteSet(S) BY <1>1, FS_Interval
  <2>2. \A s \in SUBSET S : s # {} => pick[s] \in s BY <1>5
  <2> HIDE DEF S, pick
  <2> QED BY <1>4, <1>6, <2>1, <2>2, FoldExists
<1>9. IsIter(g)
  <2>1. ASSUME NEW s \in SUBSET S
        PROVE  g[s] = IF s = {} THEN base ELSE Turn(mz, iStop, g[s \ {Max(s)}], seq[Max(s)])
    <3>1. g[s] = IF s = {} THEN base ELSE step[<<Max(s), g[s \ {Max(s)}]>>]
      BY <1>8 DEF IsFold
    <3>2. CASE s # {}
      <4>1. Max(s) \in S /\ g[s \ {Max(s)}] \in V BY <1>5, <3>2
      <4> QED BY <1>3, <1>7, <3>1, <3>2, <4>1
    <3> QED BY <3>1, <3>2
  <2> HIDE DEF S
  <2>2. g = [s \in SUBSET S |-> g[s]] OBVIOUS
  <2> QED BY <2>1, <2>2
<1>10. IsIter(iter) BY <1>9
<1>11. iter[{}] = base BY <1>10
<1>12. ASSUME NEW s \in SUBSET S, s # {}, iter[s \ {Max(s)}] \in V
       PROVE  iter[s] = step[<<Max(s), iter[s \ {Max(s)}]>>]
  <2>1. iter[s] = Turn(mz, iStop, iter[s \ {Max(s)}], seq[Max(s)]) BY <1>10, <1>12
  <2>2. Max(s) \in S BY <1>5, <1>12
  <2> HIDE DEF iter
  <2> QED BY <1>3, <1>7, <1>12, <2>1, <2>2
<1> HIDE DEF iter, pick
<1>13. PICK q : LeftStates(q, base, step, N, V, iter[1 .. N])
  <2>1. LeftIter(iter, base, step, N, V) BY <1>11, <1>12 DEF LeftIter
  <2> QED BY <1>1, <1>4, <1>6, <2>1, LeftFoldStates
<1>14. ASSUME NEW k \in 1 .. N PROVE q[k] = Turn(mz, iStop, q[k - 1], k)
  <2>1. k - 1 \in 0 .. N BY <1>1
  <2>2. q[k - 1] \in V BY <1>13, <2>1 DEF LeftStates
  <2>3. q[k] = step[<<k, q[k - 1]>>] BY <1>13 DEF LeftStates
  <2> QED BY <1>7, <2>2, <2>3
<1> QED BY <1>2, <1>13, <1>14 DEF LeftStates, SearchStates, N, V, base

\* One turn of the loop that writes the labels
TraceOn(iStop, entry, found) ==
    IF entry.node = iStop THEN <<iStop, entry.origin>>
    ELSE IF found # << >> /\ entry.node = Last(found) THEN Append(found, entry.origin)
    ELSE found

Traces == {t \in Seq(Nodes \cup {-1}) : \A j \in 1 .. Len(t) - 1 : t[j] \in Nodes}

LEMMA TraceOnType ==
    ASSUME NEW iStop \in Nodes, NEW entry \in Entry, NEW found \in Traces
    PROVE  TraceOn(iStop, entry, found) \in Traces
<1>1. entry.node \in Nodes /\ entry.origin \in Nodes \cup {-1} BY DEF Entry
<1>2. found \in Seq(Nodes \cup {-1}) /\ \A j \in 1 .. Len(found) - 1 : found[j] \in Nodes
  BY DEF Traces
<1>3. CASE entry.node = iStop
  <2>1. <<iStop, entry.origin>> \in Traces
    <3> DEFINE t == <<iStop, entry.origin>>
    <3>1. t \in Seq(Nodes \cup {-1}) /\ Len(t) = 2 /\ t[1] = iStop BY <1>1
    <3> HIDE DEF t
    <3>2. \A j \in 1 .. Len(t) - 1 : j = 1 BY <3>1
    <3>3. t \in Traces BY <3>1, <3>2 DEF Traces
    <3> QED BY <3>3 DEF t
  <2> QED BY <1>3, <2>1 DEF TraceOn
<1>4. CASE entry.node # iStop /\ found # << >> /\ entry.node = Last(found)
  <2> DEFINE t == Append(found, entry.origin)
  <2>1. t \in Seq(Nodes \cup {-1}) /\ Len(t) = Len(found) + 1 BY <1>1, <1>2
  <2>2. ASSUME NEW j \in 1 .. Len(t) - 1 PROVE t[j] \in Nodes
    <3>1. j \in 1 .. Len(found) /\ t[j] = found[j] BY <1>1, <1>2, <2>1, <2>2
    <3>2. CASE j = Len(found) BY <1>1, <1>4, <3>1, <3>2 DEF Last
    <3>3. CASE j # Len(found)
      <4>1. j \in 1 .. Len(found) - 1 BY <1>2, <3>1, <3>3
      <4> QED BY <1>2, <3>1, <4>1
    <3> QED BY <3>2, <3>3
  <2>3. t \in Traces BY <2>1, <2>2 DEF Traces
  <2> QED BY <1>4, <2>3 DEF TraceOn
<1>5. CASE entry.node # iStop /\ ~ (found # << >> /\ entry.node = Last(found))
  BY <1>5 DEF TraceOn
<1> QED BY <1>3, <1>4, <1>5

\* The trace goes from entry to entry, from the last to the first.
TraceStates(q, mz, iStart, iStop, queue) ==
    /\ q \in [1 .. Len(queue) + 1 -> Traces]
    /\ q[Len(queue) + 1] = << >> /\ q[1] = Trace(mz, iStart, iStop)
    /\ \A k \in 1 .. Len(queue) : q[k] = TraceOn(iStop, queue[k], q[k + 1])

LEMMA Tracing ==
    ASSUME NEW mz, NEW iStart, NEW iStop \in Nodes,
           Queue(mz, iStart, iStop) \in Seq(Entry)
    PROVE  \E q : TraceStates(q, mz, iStart, iStop, Queue(mz, iStart, iStop))
<1> DEFINE seq == Queue(mz, iStart, iStop)
           N == Len(seq)
           S == 1 .. N
           V == Traces
           base == << >>
           step == [p \in S \X V |-> TraceOn(iStop, seq[p[1]], p[2])]
           pick == [s \in SUBSET S |-> Min(s)]
           IsIter(g) == g = [s \in SUBSET S |->
                IF s = {} THEN base ELSE TraceOn(iStop, seq[Min(s)], g[s \ {Min(s)}])]
           iter == CHOOSE g : IsIter(g)
<1>1. N \in Nat OBVIOUS
<1>2. Trace(mz, iStart, iStop) = iter[S]
  <2>1. DOMAIN seq = S OBVIOUS
  <2>2. Trace(mz, iStart, iStop) = (CHOOSE g : g = [s \in SUBSET DOMAIN seq |->
                IF s = {} THEN base ELSE TraceOn(iStop, seq[Min(s)], g[s \ {Min(s)}])])
                   [DOMAIN seq]
    BY DEF Trace, FoldRight, MapThenFoldSet, TraceOn
  <2> QED BY <2>1, <2>2
<1>3. \A k \in S : seq[k] \in Entry OBVIOUS
<1> HIDE DEF N, seq
<1>4. step \in [S \X V -> V]
  <2>1. ASSUME NEW p \in S \X V PROVE TraceOn(iStop, seq[p[1]], p[2]) \in V
    <3>1. p[2] \in V /\ seq[p[1]] \in Entry BY <1>3
    <3> QED BY <3>1, TraceOnType
  <2> QED BY <2>1
<1>5. \A s \in SUBSET S : s # {} => Min(s) \in s BY <1>1, MinOf
<1>6. base \in V BY DEF Traces
<1> HIDE DEF V, base
<1>7. \A k \in S, v \in V : step[<<k, v>>] = TraceOn(iStop, seq[k], v)
  OBVIOUS
<1> HIDE DEF step
<1>8. PICK g \in [SUBSET S -> V] : IsFold(g, base, step, pick, S)
  <2>1. IsFiniteSet(S) BY <1>1, FS_Interval
  <2>2. \A s \in SUBSET S : s # {} => pick[s] \in s BY <1>5
  <2> HIDE DEF S, pick
  <2> QED BY <1>4, <1>6, <2>1, <2>2, FoldExists
<1>9. IsIter(g)
  <2>1. ASSUME NEW s \in SUBSET S
        PROVE  g[s] = IF s = {} THEN base ELSE TraceOn(iStop, seq[Min(s)], g[s \ {Min(s)}])
    <3>1. g[s] = IF s = {} THEN base ELSE step[<<Min(s), g[s \ {Min(s)}]>>]
      BY <1>8 DEF IsFold
    <3>2. CASE s # {}
      <4>1. Min(s) \in S /\ g[s \ {Min(s)}] \in V BY <1>5, <3>2
      <4> QED BY <1>7, <3>1, <3>2, <4>1
    <3> QED BY <3>1, <3>2
  <2> HIDE DEF S
  <2>2. g = [s \in SUBSET S |-> g[s]] OBVIOUS
  <2> QED BY <2>1, <2>2
<1>10. IsIter(iter) BY <1>9
<1>11. iter[{}] = base BY <1>10
<1>12. ASSUME NEW s \in SUBSET S, s # {}, iter[s \ {Min(s)}] \in V
       PROVE  iter[s] = step[<<Min(s), iter[s \ {Min(s)}]>>]
  <2>1. iter[s] = TraceOn(iStop, seq[Min(s)], iter[s \ {Min(s)}]) BY <1>10, <1>12
  <2>2. Min(s) \in S BY <1>5, <1>12
  <2> HIDE DEF iter
  <2> QED BY <1>7, <1>12, <2>1, <2>2
<1> HIDE DEF iter, pick
<1>13. PICK q : RightStates(q, base, step, N, V, iter[1 .. N])
  <2>1. RightIter(iter, base, step, N, V) BY <1>11, <1>12 DEF RightIter
  <2> QED BY <1>1, <1>4, <1>6, <2>1, RightFoldStates
<1>14. ASSUME NEW k \in 1 .. N PROVE q[k] = TraceOn(iStop, seq[k], q[k + 1])
  <2>1. k + 1 \in 1 .. N + 1 BY <1>1
  <2>2. q[k + 1] \in V BY <1>13, <2>1 DEF RightStates
  <2>3. q[k] = step[<<k, q[k + 1]>>] BY <1>13 DEF RightStates
  <2> QED BY <1>7, <2>2, <2>3
<1> QED BY <1>2, <1>13, <1>14 DEF RightStates, TraceStates, N, V, base, seq

LEMMA SolutionType ==
    ASSUME NEW mz, NEW iStart \in Nodes, NEW iStop \in Nodes
    PROVE  Solution(mz, iStart, iStop) \in Seq(Nodes)
<1> DEFINE queue == Queue(mz, iStart, iStop)
           found == Trace(mz, iStart, iStop)
<1>1. queue \in Seq(Entry)
  <2>1. PICK q : SearchStates(q, mz, iStart, iStop) BY Searching
  <2>2. Turns(mz) \in 0 .. Turns(mz) BY TurnsNat
  <2> QED BY <2>1, <2>2 DEF SearchStates
<1>2. found \in Traces
  <2>1. PICK q : TraceStates(q, mz, iStart, iStop, queue) BY <1>1, Tracing
  <2>2. 1 \in 1 .. Len(queue) + 1 BY <1>1
  <2> HIDE DEF queue
  <2> QED BY <2>1, <2>2 DEF TraceStates
<1> HIDE DEF found
<1>3. found \in Seq(Nodes \cup {-1}) /\ \A j \in 1 .. Len(found) - 1 : found[j] \in Nodes
  BY <1>2 DEF Traces
<1>4. CASE found # << >>
  <2>1. Len(found) - 1 \in Nat BY <1>3, <1>4
  <2>2. Front(found) = [j \in 1 .. Len(found) - 1 |-> found[j]]
    BY <1>3, <1>4, <2>1 DEF Front
  <2>3. Front(found) \in Seq(Nodes) BY <1>3, <2>1, <2>2
  <2> QED BY <1>4, <2>3 DEF Solution, found
<1>5. CASE found = << >> BY <1>5 DEF Solution, found
<1> QED BY <1>4, <1>5
-----------------------------------------------------------------------------
(* The walk goes from place to place.                                      *)

WalkType == [at : Nodes, dir : 0 .. 3, target : Int, hung : BOOLEAN, places : Seq(Nodes)]

WalkStart(labels, iStart) ==
    [at |-> iStart, dir |-> 0, target |-> labels[iStart] - 1, hung |-> FALSE, places |-> << >>]

Steps(labels, iStart) == Max({1, labels[iStart] - 1 - EndLabel})

LEMMA StepsNat ==
    ASSUME NEW labels \in [Nodes -> Int], NEW iStart \in Nodes
    PROVE  Steps(labels, iStart) \in Nat
<1> DEFINE x == labels[iStart] - 1 - EndLabel
<1>1. x \in Int BY DEF EndLabel
<1> HIDE DEF x
<1>2. \E m \in {1, x} : \A y \in {1, x} : m >= y BY <1>1
<1>3. Max({1, x}) \in {1, x} /\ Max({1, x}) >= 1 BY <1>2 DEF Max
<1> QED BY <1>1, <1>3 DEF Steps, x

\* The direction is that of a place that has the label.
LEMMA DirectionIsGood ==
    ASSUME NEW labels, NEW walk \in WalkType, Direction(labels, walk) # -1
    PROVE  LET n == walk.at + Directions[Direction(labels, walk) + 1]
           IN  /\ Direction(labels, walk) \in 0 .. 3
               /\ n \in Nodes /\ Beside(walk.at, n) /\ labels[n] = walk.target
<1> DEFINE Good(n) == n \in Nodes /\ Beside(walk.at, n) /\ labels[n] = walk.target
           good == {d \in 0 .. 3 : Good(walk.at + Directions[((walk.dir + d) % 4) + 1])}
<1>1. Direction(labels, walk) = IF good = {} THEN -1 ELSE (walk.dir + Min(good)) % 4
  BY DEF Direction
<1>2. good # {} /\ Direction(labels, walk) = (walk.dir + Min(good)) % 4 BY <1>1
<1>3. Min(good) \in good
  <2>1. good \in SUBSET Nat OBVIOUS
  <2> HIDE DEF good
  <2>2. PICK n \in good : \A m \in good : n =< m BY <1>2, <2>1, LeastNatural
  <2> QED BY <2>2 DEF Min
<1>4. Min(good) \in 0 .. 3 /\ Good(walk.at + Directions[((walk.dir + Min(good)) % 4) + 1])
  BY <1>3
<1>5. walk.dir \in 0 .. 3 BY DEF WalkType
<1> HIDE DEF good
<1>6. (walk.dir + Min(good)) % 4 \in 0 .. 3 BY <1>4, <1>5
<1> QED BY <1>2, <1>4, <1>6

LEMMA WalkOnType ==
    ASSUME NEW labels, NEW walk \in WalkType
    PROVE  WalkOn(labels, walk) \in WalkType
<1> DEFINE dir == Direction(labels, walk)
           n == walk.at + Directions[dir + 1]
<1>1. dir # -1 => n \in Nodes /\ dir \in 0 .. 3 BY DirectionIsGood
<1>2. WalkOn(labels, walk) =
        IF walk.target = EndLabel \/ walk.hung THEN walk
        ELSE IF dir = -1 THEN [walk EXCEPT !.hung = TRUE]
        ELSE [at |-> n, dir |-> dir, target |-> walk.target - 1, hung |-> FALSE,
              places |-> Append(walk.places, n)]
  BY DEF WalkOn
<1> HIDE DEF n, dir
<1>3. walk.places \in Seq(Nodes) /\ walk.target \in Int BY DEF WalkType
<1>4. ASSUME dir # -1
      PROVE  [at |-> n, dir |-> dir, target |-> walk.target - 1, hung |-> FALSE,
              places |-> Append(walk.places, n)] \in WalkType
  <2>1. n \in Nodes /\ dir \in 0 .. 3 BY <1>1, <1>4
  <2>2. Append(walk.places, n) \in Seq(Nodes) BY <1>3, <2>1
  <2> QED BY <1>3, <2>1, <2>2 DEF WalkType
<1>5. [walk EXCEPT !.hung = TRUE] \in WalkType BY DEF WalkType
<1> QED BY <1>2, <1>4, <1>5

WalkStates(q, labels, iStart) ==
    /\ q \in [0 .. Steps(labels, iStart) -> WalkType]
    /\ q[0] = WalkStart(labels, iStart) /\ q[Steps(labels, iStart)] = Walk(labels, iStart)
    /\ \A k \in 1 .. Steps(labels, iStart) : q[k] = WalkOn(labels, q[k - 1])

LEMMA Walking ==
    ASSUME NEW labels \in [Nodes -> Int], NEW iStart \in Nodes
    PROVE  \E q : WalkStates(q, labels, iStart)
<1> DEFINE N == Steps(labels, iStart)
           S == 1 .. N
           V == WalkType
           base == WalkStart(labels, iStart)
           seq == UpTo(N)
           step == [p \in S \X V |-> WalkOn(labels, p[2])]
           pick == [s \in SUBSET S |-> Max(s)]
           IsIter(g) == g = [s \in SUBSET S |->
                IF s = {} THEN base ELSE WalkOn(labels, g[s \ {Max(s)}])]
           iter == CHOOSE g : IsIter(g)
<1>1. N \in Nat BY StepsNat
<1>2. Walk(labels, iStart) = iter[S]
  <2>1. DOMAIN seq = S BY <1>1 DEF UpTo
  <2>2. Walk(labels, iStart) = (CHOOSE g : g = [s \in SUBSET DOMAIN seq |->
                IF s = {} THEN base ELSE WalkOn(labels, g[s \ {Max(s)}])])
                   [DOMAIN seq]
    BY DEF Walk, FoldLeft, MapThenFoldSet, WalkStart, Steps
  <2> QED BY <2>1, <2>2
<1> HIDE DEF N, seq
<1>4. step \in [S \X V -> V]
  <2>1. ASSUME NEW p \in S \X V PROVE WalkOn(labels, p[2]) \in V
    <3>1. p[2] \in V OBVIOUS
    <3> QED BY <3>1, WalkOnType
  <2> QED BY <2>1
<1>5. \A s \in SUBSET S : s # {} => Max(s) \in s BY <1>1, MaxOf
<1>6. base \in V
  <2>1. labels[iStart] - 1 \in Int OBVIOUS
  <2>2. << >> \in Seq(Nodes) OBVIOUS
  <2> QED BY <2>1, <2>2 DEF WalkStart, WalkType
<1> HIDE DEF V, base
<1>7. \A k \in S, v \in V : step[<<k, v>>] = WalkOn(labels, v)
  OBVIOUS
<1> HIDE DEF step
<1>8. PICK g \in [SUBSET S -> V] : IsFold(g, base, step, pick, S)
  <2>1. IsFiniteSet(S) BY <1>1, FS_Interval
  <2>2. \A s \in SUBSET S : s # {} => pick[s] \in s BY <1>5
  <2> HIDE DEF S, pick
  <2> QED BY <1>4, <1>6, <2>1, <2>2, FoldExists
<1>9. IsIter(g)
  <2>1. ASSUME NEW s \in SUBSET S
        PROVE  g[s] = IF s = {} THEN base ELSE WalkOn(labels, g[s \ {Max(s)}])
    <3>1. g[s] = IF s = {} THEN base ELSE step[<<Max(s), g[s \ {Max(s)}]>>]
      BY <1>8 DEF IsFold
    <3>2. CASE s # {}
      <4>1. Max(s) \in S /\ g[s \ {Max(s)}] \in V BY <1>5, <3>2
      <4> QED BY <1>7, <3>1, <3>2, <4>1
    <3> QED BY <3>1, <3>2
  <2> HIDE DEF S
  <2>2. g = [s \in SUBSET S |-> g[s]] OBVIOUS
  <2> QED BY <2>1, <2>2
<1>10. IsIter(iter) BY <1>9
<1>11. iter[{}] = base BY <1>10
<1>12. ASSUME NEW s \in SUBSET S, s # {}, iter[s \ {Max(s)}] \in V
       PROVE  iter[s] = step[<<Max(s), iter[s \ {Max(s)}]>>]
  <2>1. iter[s] = WalkOn(labels, iter[s \ {Max(s)}]) BY <1>10, <1>12
  <2>2. Max(s) \in S BY <1>5, <1>12
  <2> HIDE DEF iter
  <2> QED BY <1>7, <1>12, <2>1, <2>2
<1> HIDE DEF iter, pick
<1>13. PICK q : LeftStates(q, base, step, N, V, iter[1 .. N])
  <2>1. LeftIter(iter, base, step, N, V) BY <1>11, <1>12 DEF LeftIter
  <2> QED BY <1>1, <1>4, <1>6, <2>1, LeftFoldStates
<1>14. ASSUME NEW k \in 1 .. N PROVE q[k] = WalkOn(labels, q[k - 1])
  <2>1. k - 1 \in 0 .. N BY <1>1
  <2>2. q[k - 1] \in V BY <1>13, <2>1 DEF LeftStates
  <2>3. q[k] = step[<<k, q[k - 1]>>] BY <1>13 DEF LeftStates
  <2> QED BY <1>7, <2>2, <2>3
<1> QED BY <1>2, <1>13, <1>14 DEF LeftStates, WalkStates, N, V, base

LEMMA WalkIsTyped ==
    ASSUME NEW labels \in [Nodes -> Int], NEW iStart \in Nodes
    PROVE  Walk(labels, iStart) \in WalkType
<1>1. PICK q : WalkStates(q, labels, iStart) BY Walking
<1>2. Steps(labels, iStart) \in 0 .. Steps(labels, iStart) BY StepsNat
<1> QED BY <1>1, <1>2 DEF WalkStates
-----------------------------------------------------------------------------
(* A handler's task.  Its stops at shelves are places on the floor before  *)
(* and after they are shifted to the side of the shelf, and the legs that  *)
(* are planned end at the stops, in their order.                           *)

PlannerPC == {"idle", "leg", "copy", "label", "take", "done", "hung", "undefined"}
PlannedLeg == [solved : BOOLEAN, places : Seq(Location)]

\* A stop as the task has it, and as the planner has left it
Fresh(floor) == {l \in Location : l.side # 0 => l.node \in Shelves(floor)}
Shifted(floor) == {l \in Location : l.side # 0 => \E n \in Shelves(floor) : l.node = n + l.side}

\* The last place of a leg is the stop, and the robot does nothing before.
EndsAt(places, stop) ==
    /\ places # << >> /\ Last(places) = stop
    /\ \A j \in 1 .. Len(places) - 1 : places[j].side = 0 /\ ~ places[j].dock

\* The stops up to the one at hand are shifted, and that one if it was begun.
StopsOf(floor, pc, stops, i) ==
    \A k \in DOMAIN stops :
        stops[k] \in IF k < i \/ (k = i /\ pc # "leg") THEN Shifted(floor) ELSE Fresh(floor)

\* Every stop before the one at hand has its leg.
LegsOf(pc, stops, i, legs) ==
    /\ Len(legs) = IF pc = "idle" THEN 0 ELSE i - 1
    /\ \A k \in DOMAIN legs : EndsAt(legs[k].places, stops[k])

TaskTyped(pc, stops, i, labels, legs) ==
    /\ pc \in PlannerPC /\ stops \in Seq(Location) /\ i \in Nat
    /\ i \in IF pc = "idle" THEN {0}
             ELSE IF pc = "done" THEN {Len(stops) + 1} ELSE DOMAIN stops
    /\ labels \in Seq(Nodes) /\ legs \in Seq(PlannedLeg)

TaskInv(floor, pc, stops, i, labels, legs) ==
    /\ TaskTyped(pc, stops, i, labels, legs)
    /\ StopsOf(floor, pc, stops, i) /\ LegsOf(pc, stops, i, legs)

\* Both shifts stay on the floor.
LEMMA ShiftFresh ==
    ASSUME NEW floor \in AllowedLayouts, NEW l \in Fresh(floor)
    PROVE  Shift(l) \in Shifted(floor) /\ Shift(l) \in Location
<1>1. l \in Location /\ (l.side # 0 => l.node \in Shelves(floor)) BY DEF Fresh
<1>2. /\ l.node \in Nodes /\ l.side \in {-1, 0, 1}
      /\ Shift(l) = [node |-> l.node + l.side, side |-> l.side, dock |-> l.dock]
  BY <1>1 DEF Location, Shift
<1>3. l.node + l.side \in Nodes
  <2>1. CASE l.side = 0 BY <1>2, <2>1 DEF Nodes
  <2>2. CASE l.side # 0 BY <1>1, <1>2, <2>2, BesideShelf
  <2> QED BY <2>1, <2>2
<1>4. Shift(l) \in Location
  <2>1. l.dock \in BOOLEAN BY <1>1 DEF Location
  <2> QED BY <1>2, <1>3, <2>1 DEF Location
<1>5. Shift(l).side = l.side /\ Shift(l).node = l.node + l.side BY <1>2
<1> QED BY <1>1, <1>4, <1>5 DEF Shifted

LEMMA ShiftShifted ==
    ASSUME NEW floor \in AllowedLayouts, NEW l \in Shifted(floor)
    PROVE  Shift(l) \in Location
<1>1. l \in Location /\ (l.side # 0 => \E n \in Shelves(floor) : l.node = n + l.side)
  BY DEF Shifted
<1>2. /\ l.node \in Nodes /\ l.side \in {-1, 0, 1} /\ l.dock \in BOOLEAN
      /\ Shift(l) = [node |-> l.node + l.side, side |-> l.side, dock |-> l.dock]
  BY <1>1 DEF Location, Shift
<1>3. l.node + l.side \in Nodes
  <2>1. CASE l.side = 0 BY <1>2, <2>1 DEF Nodes
  <2>2. CASE l.side # 0
    <3>1. PICK n \in Shelves(floor) : l.node = n + l.side BY <1>1, <2>2
    <3>2. l.side + l.side \in {-2, 2} BY <1>2, <2>2
    <3>3. n + (l.side + l.side) \in Nodes BY <3>2, BesideShelf
    <3>4. n \in Int BY Place DEF Shelves
    <3>5. l.node + l.side = n + (l.side + l.side) BY <1>2, <3>1, <3>4
    <3> QED BY <3>3, <3>5
  <2> QED BY <2>1, <2>2
<1> QED BY <1>2, <1>3 DEF Location

\* The place a leg starts from
From(stops, i) == IF i = 1 THEN At(Park) ELSE Shift(stops[i - 1])

LEMMA FromIsPlace ==
    ASSUME NEW floor \in AllowedLayouts, NEW pc, NEW stops, NEW i, NEW labels, NEW legs,
           TaskInv(floor, pc, stops, i, labels, legs), pc \notin {"idle", "done"}
    PROVE  From(stops, i) \in Location /\ i \in DOMAIN stops /\ stops[i] \in Location
<1>1. i \in DOMAIN stops /\ stops \in Seq(Location) /\ i \in 1 .. Len(stops)
  BY DEF TaskInv, TaskTyped
<1>2. CASE i = 1
  <2>1. Park \in Nodes BY LayoutAssumption DEF AllowedLayouts
  <2>2. At(Park) \in Location BY <2>1 DEF At, Location
  <2>3. stops[i] \in Location BY <1>1
  <2> QED BY <1>1, <1>2, <2>2, <2>3 DEF From
<1>3. CASE i # 1
  <2>1. i - 1 \in DOMAIN stops /\ i - 1 < i BY <1>1, <1>3
  <2>2. stops[i - 1] \in Shifted(floor) BY <2>1 DEF TaskInv, StopsOf
  <2>3. Shift(stops[i - 1]) \in Location BY <2>2, ShiftShifted
  <2> QED BY <1>1, <1>3, <2>3 DEF From
<1> QED BY <1>2, <1>3

\* A place with the marks taken off
LEMMA CleanIsPlace ==
    ASSUME NEW l \in Location
    PROVE  Clean(l) \in Location /\ Clean(l).side = 0 /\ ~ Clean(l).dock
  BY DEF Clean, At, Location
-----------------------------------------------------------------------------
(* What the planner does to a handler's task.                              *)

\* A leg is added, and the next one is at hand.
LEMMA NextLegKeeps ==
    ASSUME NEW floor \in AllowedLayouts, NEW pc, NEW stops, NEW i, NEW labels, NEW legs,
           TaskInv(floor, pc, stops, i, labels, legs), pc \notin {"idle", "done", "leg"},
           NEW ok \in BOOLEAN, NEW places \in Seq(Location), EndsAt(places, stops[i])
    PROVE  TaskInv(floor, IF i = Len(stops) THEN "done" ELSE "leg", stops, i + 1, << >>,
                   Append(legs, [solved |-> ok, places |-> places]))
<1> DEFINE pc2 == IF i = Len(stops) THEN "done" ELSE "leg"
           walked == [solved |-> ok, places |-> places]
           legs2 == Append(legs, walked)
<1>1. /\ stops \in Seq(Location) /\ i \in Nat /\ i \in 1 .. Len(stops) /\ legs \in Seq(PlannedLeg)
  BY DEF TaskInv, TaskTyped
<1>2. walked \in PlannedLeg /\ walked.places = places BY DEF PlannedLeg
<1> HIDE DEF walked
<1>3. Len(legs) = i - 1 /\ \A k \in DOMAIN legs : EndsAt(legs[k].places, stops[k])
  BY DEF TaskInv, LegsOf
<1>4. legs2 \in Seq(PlannedLeg) /\ Len(legs2) = i /\ legs2[i] = walked
      /\ \A k \in 1 .. i - 1 : legs2[k] = legs[k]
  BY <1>1, <1>2, <1>3
<1> HIDE DEF legs2
<1>5. TaskTyped(pc2, stops, i + 1, << >>, legs2)
  <2>1. i + 1 \in IF pc2 = "idle" THEN {0}
                  ELSE IF pc2 = "done" THEN {Len(stops) + 1} ELSE DOMAIN stops
    BY <1>1
  <2>2. << >> \in Seq(Nodes) /\ pc2 \in PlannerPC BY DEF PlannerPC
  <2> HIDE DEF pc2
  <2> QED BY <1>1, <1>4, <2>1, <2>2 DEF TaskTyped
<1>6. StopsOf(floor, pc2, stops, i + 1)
  <2>1. ASSUME NEW k \in DOMAIN stops
        PROVE  stops[k] \in IF k < i + 1 \/ (k = i + 1 /\ pc2 # "leg")
                            THEN Shifted(floor) ELSE Fresh(floor)
    <3>1. stops[k] \in IF k < i \/ (k = i /\ pc # "leg") THEN Shifted(floor) ELSE Fresh(floor)
      BY DEF TaskInv, StopsOf
    <3>2. k \in 1 .. Len(stops) BY <1>1
    <3>3. k = i + 1 => pc2 = "leg" BY <1>1, <3>2
    <3>4. k < i + 1 <=> k < i \/ k = i BY <1>1, <3>2
    <3> HIDE DEF pc2
    <3> QED BY <3>1, <3>3, <3>4
  <2> QED BY <2>1 DEF StopsOf
<1>7. LegsOf(pc2, stops, i + 1, legs2)
  <2>1. ASSUME NEW k \in DOMAIN legs2 PROVE EndsAt(legs2[k].places, stops[k])
    <3>1. k \in 1 .. i BY <1>4
    <3>2. CASE k = i BY <1>2, <1>4, <3>2
    <3>3. CASE k # i
      <4>1. k \in 1 .. i - 1 /\ k \in DOMAIN legs BY <1>1, <1>3, <3>1, <3>3
      <4> QED BY <1>3, <1>4, <4>1
    <3> QED BY <3>2, <3>3
  <2>2. pc2 # "idle" /\ Len(legs2) = (i + 1) - 1 BY <1>1, <1>4
  <2> HIDE DEF pc2
  <2> QED BY <2>1, <2>2 DEF LegsOf
<1> HIDE DEF pc2
<1> QED BY <1>5, <1>6, <1>7 DEF TaskInv, pc2, legs2, walked

\* The end of the leg at hand is shifted.
LEMMA SetOutKeeps ==
    ASSUME NEW floor \in AllowedLayouts, NEW stops, NEW i, NEW labels, NEW legs,
           TaskInv(floor, "leg", stops, i, labels, legs), NEW new \in Seq(Nodes)
    PROVE  /\ TaskInv(floor, "copy", [stops EXCEPT ![i] = Shift(stops[i])], i, new, legs)
           /\ Shift(stops[i]) \in Location
<1> DEFINE stop == Shift(stops[i])
           stops2 == [stops EXCEPT ![i] = stop]
<1>1. stops \in Seq(Location) /\ i \in Nat /\ i \in 1 .. Len(stops) /\ legs \in Seq(PlannedLeg)
  BY DEF TaskInv, TaskTyped
<1>2. stops[i] \in Fresh(floor) BY <1>1 DEF TaskInv, StopsOf
<1>3. stop \in Shifted(floor) /\ stop \in Location BY <1>2, ShiftFresh
<1> HIDE DEF stop
<1>4. /\ stops2 \in Seq(Location) /\ Len(stops2) = Len(stops) /\ stops2[i] = stop
      /\ \A k \in DOMAIN stops : k # i => stops2[k] = stops[k]
  BY <1>1, <1>3
<1> HIDE DEF stops2
<1>5. TaskTyped("copy", stops2, i, new, legs)
  <2>1. i \in DOMAIN stops2 BY <1>1, <1>4
  <2> QED BY <1>1, <1>4, <2>1 DEF TaskTyped, PlannerPC
<1>6. StopsOf(floor, "copy", stops2, i)
  <2>1. ASSUME NEW k \in DOMAIN stops2
        PROVE  stops2[k] \in IF k < i \/ (k = i /\ "copy" # "leg")
                             THEN Shifted(floor) ELSE Fresh(floor)
    <3>1. k \in DOMAIN stops BY <1>1, <1>4
    <3>2. stops[k] \in IF k < i \/ (k = i /\ "leg" # "leg") THEN Shifted(floor) ELSE Fresh(floor)
      BY <3>1 DEF TaskInv, StopsOf
    <3>3. CASE k = i BY <1>1, <1>3, <1>4, <3>3
    <3>4. CASE k # i BY <1>1, <1>4, <3>1, <3>2, <3>4
    <3> QED BY <3>3, <3>4
  <2> QED BY <2>1 DEF StopsOf
<1>7. LegsOf("copy", stops2, i, legs)
  <2>1. Len(legs) = i - 1 /\ \A k \in DOMAIN legs : EndsAt(legs[k].places, stops[k])
    BY DEF TaskInv, LegsOf
  <2>2. ASSUME NEW k \in DOMAIN legs PROVE stops2[k] = stops[k]
    <3>1. k \in 1 .. i - 1 BY <1>1, <2>1
    <3>2. k \in DOMAIN stops /\ k # i BY <1>1, <3>1
    <3> QED BY <1>4, <3>2
  <2> QED BY <2>1, <2>2 DEF LegsOf
<1> QED BY <1>3, <1>5, <1>6, <1>7 DEF TaskInv, stops2, stop

\* In the solver, and out of it without a leg, only the place in the code changes.
LEMMA GoOnKeeps ==
    ASSUME NEW floor, NEW pc, NEW stops, NEW i, NEW labels, NEW legs,
           TaskInv(floor, pc, stops, i, labels, legs), pc \notin {"idle", "done", "leg"},
           NEW pc2 \in PlannerPC \ {"idle", "done", "leg"}, NEW new \in Seq(Nodes)
    PROVE  TaskInv(floor, pc2, stops, i, new, legs)
  BY DEF TaskInv, TaskTyped, StopsOf, LegsOf

\* A new task has its stops as they are, and no leg.
LEMMA NewTask ==
    ASSUME NEW floor, NEW stops, NEW i, NEW labels, NEW legs,
           TaskInv(floor, "idle", stops, i, labels, legs),
           NEW new \in Seq(Fresh(floor)), new # << >>
    PROVE  TaskInv(floor, "leg", new, 1, labels, legs)
<1>1. legs \in Seq(PlannedLeg) /\ Len(legs) = 0 /\ labels \in Seq(Nodes)
  BY DEF TaskInv, TaskTyped, LegsOf
<1>2. 1 \in DOMAIN new OBVIOUS
<1>3. new \in Seq(Location)
  <2>1. Fresh(floor) \subseteq Location BY DEF Fresh
  <2> QED BY <2>1
<1>4. TaskTyped("leg", new, 1, labels, legs) BY <1>1, <1>2, <1>3 DEF TaskTyped, PlannerPC
<1>5. StopsOf(floor, "leg", new, 1)
  <2>1. ASSUME NEW k \in DOMAIN new PROVE ~ (k < 1) /\ new[k] \in Fresh(floor) OBVIOUS
  <2> QED BY <2>1 DEF StopsOf
<1>6. LegsOf("leg", new, 1, legs) BY <1>1 DEF LegsOf
<1> QED BY <1>4, <1>5, <1>6 DEF TaskInv

\* A leg that goes straight on
LEMMA StraightLeg ==
    ASSUME NEW from \in Location, NEW stop \in Location
    PROVE  <<Clean(from), stop>> \in Seq(Location) /\ EndsAt(<<Clean(from), stop>>, stop)
<1> DEFINE places == <<Clean(from), stop>>
<1>1. Clean(from) \in Location /\ Clean(from).side = 0 /\ ~ Clean(from).dock BY CleanIsPlace
<1>2. places \in Seq(Location) /\ Len(places) = 2 /\ places[1] = Clean(from) /\ places[2] = stop
  BY <1>1
<1> HIDE DEF places
<1>3. Last(places) = stop /\ places # << >> BY <1>2 DEF Last
<1>4. \A j \in 1 .. Len(places) - 1 : j = 1 BY <1>2
<1> QED BY <1>1, <1>2, <1>3, <1>4 DEF EndsAt, places

\* A leg over the places of a walk
LEMMA WalkedLeg ==
    ASSUME NEW from \in Location, NEW stop \in Location, NEW nodes \in Seq(Nodes)
    PROVE  LET places == [k \in DOMAIN nodes |-> At(nodes[k])]
               walked == <<Clean(from)>> \o places \o <<stop>>
           IN  walked \in Seq(Location) /\ EndsAt(walked, stop)
<1> DEFINE places == [k \in DOMAIN nodes |-> At(nodes[k])]
           first == <<Clean(from)>>
           begun == first \o places
           walked == begun \o <<stop>>
           N == Len(nodes)
<1>1. Clean(from) \in Location /\ Clean(from).side = 0 /\ ~ Clean(from).dock BY CleanIsPlace
<1>2. \A n \in Nodes : At(n) \in Location /\ At(n).side = 0 /\ ~ At(n).dock
  BY DEF At, Location
<1>3. N \in Nat /\ DOMAIN nodes = 1 .. N /\ \A k \in 1 .. N : nodes[k] \in Nodes OBVIOUS
<1> HIDE DEF N
<1>4. /\ places \in Seq(Location) /\ Len(places) = N
      /\ \A k \in 1 .. N : places[k].side = 0 /\ ~ places[k].dock
  <2>1. places = [k \in 1 .. N |-> At(nodes[k])] BY <1>3
  <2>2. \A k \in 1 .. N : places[k] = At(nodes[k]) BY <2>1
  <2>3. places \in [1 .. N -> Location] BY <1>2, <1>3, <2>1
  <2>4. places \in Seq(Location) /\ Len(places) = N BY <1>3, <2>1, <2>3
  <2> HIDE DEF places
  <2> QED BY <1>2, <1>3, <2>2, <2>4
<1> HIDE DEF places
<1>5. first \in Seq(Location) /\ Len(first) = 1 /\ first[1] = Clean(from) BY <1>1
<1> HIDE DEF first
<1>6. /\ begun \in Seq(Location) /\ Len(begun) = N + 1
      /\ \A k \in 1 .. N + 1 : begun[k].side = 0 /\ ~ begun[k].dock
  <2>1. /\ begun \in Seq(Location) /\ Len(begun) = 1 + N
        /\ \A k \in 1 .. 1 + N : begun[k] = IF k =< 1 THEN first[k] ELSE places[k - 1]
    <3>1. /\ first \o places \in Seq(Location) /\ Len(first \o places) = Len(first) + Len(places)
          /\ \A k \in 1 .. Len(first) + Len(places) :
                (first \o places)[k] = IF k =< Len(first) THEN first[k] ELSE places[k - Len(first)]
      <4>1. first \in Seq(Location) /\ places \in Seq(Location) BY <1>4, <1>5
      <4> QED BY ONLY <4>1, ConcatProperties
    <3>2. Len(first) = 1 /\ Len(places) = N BY <1>4, <1>5
    <3> QED BY <3>1, <3>2
  <2> HIDE DEF begun
  <2>2. begun[1] = Clean(from) /\ Len(begun) = N + 1 BY <1>3, <1>5, <2>1
  <2>3. ASSUME NEW k \in 2 .. N + 1 PROVE begun[k] = places[k - 1]
    BY <1>3, <2>1
  <2>4. ASSUME NEW k \in 1 .. N + 1 PROVE begun[k].side = 0 /\ ~ begun[k].dock
    <3>1. CASE k = 1 BY <1>1, <2>2, <3>1
    <3>2. CASE k # 1
      <4>1. k \in 2 .. N + 1 /\ k - 1 \in 1 .. N BY <1>3, <3>2
      <4> QED BY <1>4, <2>3, <4>1
    <3> QED BY <3>1, <3>2
  <2> QED BY <2>1, <2>2, <2>4
<1> HIDE DEF begun
<1>7. /\ walked \in Seq(Location) /\ Len(walked) = N + 2 /\ walked[N + 2] = stop
      /\ \A k \in 1 .. N + 1 : walked[k] = begun[k]
  BY <1>3, <1>6
<1> HIDE DEF walked
<1>8. EndsAt(walked, stop)
  <2>1. walked # << >> /\ Last(walked) = stop BY <1>3, <1>7 DEF Last
  <2>2. Len(walked) - 1 = N + 1 BY <1>3, <1>7
  <2> QED BY <1>6, <1>7, <2>1, <2>2 DEF EndsAt
<1> QED BY <1>7, <1>8 DEF walked, begun, first, places
-----------------------------------------------------------------------------
(* The planner.                                                            *)

\* The floor is what it was found to be.
FloorAsFound == layout \in AllowedLayouts /\ maze = Access(layout) /\ scan = Scan(layout)

Typed ==
    /\ solved \in [Nodes -> Int] /\ iPath \in Nat /\ active \subseteq Planners /\ met \in BOOLEAN
    /\ mpc \in [Planners -> PlannerPC] /\ route \in [Planners -> Seq(Location)]
    /\ leg \in [Planners -> Nat] /\ trace \in [Planners -> Seq(Nodes)]
    /\ plan \in [Planners -> Seq(PlannedLeg)]

Task(h) == TaskInv(layout, mpc[h], route[h], leg[h], trace[h], plan[h])

PlannerInv == FloorAsFound /\ Typed /\ \A h \in Planners : Task(h)

LEMMA PlannerInitInv == PlannerInit => PlannerInv
<1> SUFFICES ASSUME PlannerInit PROVE PlannerInv
  OBVIOUS
<1>1. FloorAsFound BY DEF PlannerInit, FloorAsFound, AllowedLayouts
<1>2. Typed
  <2>1. active \subseteq Planners BY DEF PlannerInit, Planners
  <2>2. solved \in [Nodes -> Int] /\ iPath \in Nat /\ met \in BOOLEAN
    <3>1. solved = [n \in Nodes |-> 0] /\ iPath = 10 BY DEF PlannerInit, EndLabel
    <3>2. met = FALSE BY DEF PlannerInit
    <3>3. met \in BOOLEAN BY <3>2
    <3>4. solved \in [Nodes -> Int] BY <3>1
    <3> QED BY <3>1, <3>3, <3>4
  <2>3. mpc \in [Planners -> PlannerPC] /\ leg \in [Planners -> Nat]
    BY DEF PlannerInit, PlannerPC
  <2>4. << >> \in Seq(Location) /\ << >> \in Seq(Nodes) /\ << >> \in Seq(PlannedLeg)
    OBVIOUS
  <2>5. /\ route \in [Planners -> Seq(Location)] /\ trace \in [Planners -> Seq(Nodes)]
        /\ plan \in [Planners -> Seq(PlannedLeg)]
    BY <2>4 DEF PlannerInit
  <2> QED BY <2>1, <2>2, <2>3, <2>5 DEF Typed
<1>3. ASSUME NEW h \in Planners PROVE Task(h)
  <2>1. mpc[h] = "idle" /\ route[h] = << >> /\ leg[h] = 0 /\ trace[h] = << >> /\ plan[h] = << >>
    BY DEF PlannerInit
  <2>2. TaskInv(layout, "idle", << >>, 0, << >>, << >>)
    BY DEF TaskInv, TaskTyped, StopsOf, LegsOf, PlannerPC
  <2> QED BY <2>1, <2>2 DEF Task
<1> QED BY <1>1, <1>2, <1>3 DEF PlannerInv

LEMMA PlannerInvTypes == PlannerInv => PlannerTypeOK
<1> SUFFICES ASSUME PlannerInv PROVE PlannerTypeOK
  OBVIOUS
<1>1. \A h \in Planners :
          leg[h] \in IF mpc[h] = "idle" THEN {0}
                     ELSE IF mpc[h] = "done" THEN {Len(route[h]) + 1} ELSE DOMAIN route[h]
  BY DEF PlannerInv, Task, TaskInv, TaskTyped
<1> QED BY <1>1 DEF PlannerInv, Typed, PlannerTypeOK, PlannerPC, PlannedLeg

\* What one handler does to its task leaves the other's alone.
LEMMA OneTaskChanges ==
    ASSUME PlannerInv, NEW h \in Planners, NEW pc, NEW stops, NEW i, NEW labels, NEW legs,
           TaskInv(layout, pc, stops, i, labels, legs),
           mpc' = [mpc EXCEPT ![h] = pc], route' = [route EXCEPT ![h] = stops],
           leg' = [leg EXCEPT ![h] = i], trace' = [trace EXCEPT ![h] = labels],
           plan' = [plan EXCEPT ![h] = legs],
           UNCHANGED floorVars,
           solved' \in [Nodes -> Int], iPath' \in Nat, met' \in BOOLEAN
    PROVE  PlannerInv'
<1>1. FloorAsFound' BY DEF PlannerInv, FloorAsFound, floorVars
<1>2. TaskTyped(pc, stops, i, labels, legs) BY DEF TaskInv
<1>3. Typed'
  <2>1. pc \in PlannerPC /\ stops \in Seq(Location) /\ i \in Nat /\ labels \in Seq(Nodes)
        /\ legs \in Seq(PlannedLeg)
    BY <1>2 DEF TaskTyped
  <2>2. active' = active BY DEF floorVars
  <2> QED BY <2>1, <2>2 DEF PlannerInv, Typed
<1>4. ASSUME NEW g \in Planners PROVE Task(g)'
  <2>1. layout' = layout BY DEF floorVars
  <2>2. CASE g = h
    <3>1. mpc'[g] = pc /\ route'[g] = stops /\ leg'[g] = i /\ trace'[g] = labels /\ plan'[g] = legs
      BY <2>2 DEF PlannerInv, Typed
    <3> QED BY <2>1, <3>1 DEF Task
  <2>3. CASE g # h
    <3>1. mpc'[g] = mpc[g] /\ route'[g] = route[g] /\ leg'[g] = leg[g] /\ trace'[g] = trace[g]
          /\ plan'[g] = plan[g]
      BY <2>3 DEF PlannerInv, Typed
    <3>2. Task(g) BY DEF PlannerInv
    <3> QED BY <2>1, <3>1, <3>2 DEF Task
  <2> QED BY <2>2, <2>3
<1> QED BY <1>1, <1>3, <1>4 DEF PlannerInv

\* The stops that can be drawn are shelves, and the docks have a place before them.
LEMMA ScanIsTyped ==
    ASSUME NEW floor \in AllowedLayouts PROVE Scan(floor) \in ScanType(floor)
<1>1. PICK q \in [0 .. Rows * Cols -> ScanType(floor)] : q[Rows * Cols] = Scan(floor)
  BY ScanStates
<1>2. Rows * Cols \in 0 .. Rows * Cols BY SizeAssumption
<1> QED BY <1>1, <1>2

LEMMA StopsAreFresh ==
    ASSUME FloorAsFound
    PROVE  /\ ShelfStops \subseteq Fresh(layout)
           /\ At(Park) \in Fresh(layout)
           /\ Dock(scan.res_truck, "restock") \in Fresh(layout) /\ Dock(scan.del_truck, "delivery") \in Fresh(layout)
<1>1. layout \in AllowedLayouts /\ scan \in ScanType(layout) BY ScanIsTyped DEF FloorAsFound
<1>2. /\ scan.map \in Maps(layout) /\ scan.res_truck \in Nodes /\ scan.del_truck \in Nodes
  BY <1>1 DEF ScanType
<1>3. Park \in Nodes BY <1>1, LayoutAssumption DEF AllowedLayouts
<1>4. \A n \in Nodes : At(n) \in Fresh(layout) /\ \A char \in Chars : Dock(n, char) \in Fresh(layout)
  BY DEF At, Dock, Fresh, Location, Chars
<1>5. ASSUME NEW key \in Drawable(scan), NEW s \in Sides
      PROVE  [node |-> scan.map[key], side |-> s, dock |-> FALSE] \in Fresh(layout)
  <2>1. key \in DOMAIN scan.map BY DEF Drawable
  <2>2. scan.map[key] \in Shelves(layout) BY <1>2, <2>1 DEF Maps
  <2>3. scan.map[key] \in Nodes BY <2>2 DEF Shelves
  <2>4. s \in {-1, 1} BY PlannerAssumption
  <2> QED BY <2>2, <2>3, <2>4 DEF Fresh, Location
<1>6. ShelfStops \subseteq Fresh(layout) BY <1>5 DEF ShelfStops
<1>7. "restock" \in Chars /\ "delivery" \in Chars BY DEF Chars
<1> QED BY <1>2, <1>3, <1>4, <1>6, <1>7

LEMMA GenerateKeeps ==
    ASSUME PlannerInv, Generate PROVE PlannerInv'
<1>1. PICK n \in 1 .. Items : \E shelves \in [1 .. n -> ShelfStops] :
        GenerateRestockTask(shelves) \/ GenerateDeliveryTask(shelves)
  BY DEF Generate
<1>2. PICK shelves \in [1 .. n -> ShelfStops] :
        GenerateRestockTask(shelves) \/ GenerateDeliveryTask(shelves)
  BY <1>1
<1>3. n \in Nat
  <2>1. Items \in Nat BY PlannerAssumption DEF Items
  <2> QED BY <2>1
<1>4. FloorAsFound /\ Typed /\ \A h \in Planners : Task(h) BY DEF PlannerInv
<1> DEFINE F == Fresh(layout)
<1>5. /\ ShelfStops \subseteq F /\ At(Park) \in F
      /\ Dock(scan.res_truck, "restock") \in F /\ Dock(scan.del_truck, "delivery") \in F
  BY <1>4, StopsAreFresh
<1> HIDE DEF F
<1>6. shelves \in Seq(F)
  <2>1. shelves \in [1 .. n -> F] BY <1>5
  <2> QED BY <1>3, <2>1
<1>7. CASE GenerateRestockTask(shelves)
  <2> DEFINE h == ResHandler
             new == <<Dock(scan.res_truck, "restock")>> \o shelves \o <<At(Park)>>
  <2>1. h \in Planners BY DEF Planners
  <2>2. new \in Seq(F) /\ new # << >>
    <3> DEFINE a == <<Dock(scan.res_truck, "restock")>>
               c == <<At(Park)>>
    <3>1. a \in Seq(F) /\ c \in Seq(F) /\ Len(a) = 1 /\ Len(c) = 1 BY <1>5
    <3> HIDE DEF a, c
    <3>2. a \o shelves \in Seq(F) BY <1>6, <3>1, ConcatProperties
    <3>3. (a \o shelves) \o c \in Seq(F)
          /\ Len((a \o shelves) \o c) = Len(a \o shelves) + Len(c)
      BY <3>1, <3>2, ConcatProperties
    <3>4. Len(a \o shelves) \in Nat BY <3>2
    <3>5. (a \o shelves) \o c # << >> BY <3>1, <3>3, <3>4
    <3> QED BY <3>3, <3>5 DEF a, c
  <2> HIDE DEF new, h
  <2>3. /\ mpc[h] = "idle" /\ mpc' = [mpc EXCEPT ![h] = "leg"]
        /\ route' = [route EXCEPT ![h] = new] /\ leg' = [leg EXCEPT ![h] = 1]
        /\ UNCHANGED <<floorVars, solved, iPath, trace, plan, met>>
    BY <1>7 DEF GenerateRestockTask, PlannerGo, h, new
  <2>4. TaskInv(layout, "idle", route[h], leg[h], trace[h], plan[h]) BY <1>4, <2>1, <2>3 DEF Task
  <2>5. TaskInv(layout, "leg", new, 1, trace[h], plan[h]) BY <2>2, <2>4, NewTask DEF F
  <2>6. /\ trace' = [trace EXCEPT ![h] = trace[h]] /\ plan' = [plan EXCEPT ![h] = plan[h]]
        /\ solved' \in [Nodes -> Int] /\ iPath' \in Nat /\ met' \in BOOLEAN
    BY <1>4, <2>3 DEF Typed
  <2>7. UNCHANGED floorVars BY <2>3
  <2>8. mpc' = [mpc EXCEPT ![h] = "leg"] /\ route' = [route EXCEPT ![h] = new]
        /\ leg' = [leg EXCEPT ![h] = 1]
    BY <2>3
  <2>9. PlannerInv OBVIOUS
  <2> QED BY ONLY <2>1, <2>5, <2>6, <2>7, <2>8, <2>9, OneTaskChanges
<1>8. CASE GenerateDeliveryTask(shelves)
  <2> DEFINE h == DelHandler
             new == shelves \o <<Dock(scan.del_truck, "delivery"), At(Park)>>
  <2>1. h \in Planners BY DEF Planners
  <2>2. new \in Seq(F) /\ new # << >>
    <3> DEFINE c == <<Dock(scan.del_truck, "delivery"), At(Park)>>
    <3>1. c \in Seq(F) /\ Len(c) = 2 BY <1>5
    <3> HIDE DEF c
    <3>2. shelves \o c \in Seq(F) /\ Len(shelves \o c) = Len(shelves) + Len(c)
      BY <1>6, <3>1, ConcatProperties
    <3>3. Len(shelves) \in Nat BY <1>6
    <3>4. shelves \o c # << >> BY <3>1, <3>2, <3>3
    <3> QED BY <3>2, <3>4 DEF c
  <2> HIDE DEF new, h
  <2>3. /\ mpc[h] = "idle" /\ mpc' = [mpc EXCEPT ![h] = "leg"]
        /\ route' = [route EXCEPT ![h] = new] /\ leg' = [leg EXCEPT ![h] = 1]
        /\ UNCHANGED <<floorVars, solved, iPath, trace, plan, met>>
    BY <1>8 DEF GenerateDeliveryTask, PlannerGo, h, new
  <2>4. TaskInv(layout, "idle", route[h], leg[h], trace[h], plan[h]) BY <1>4, <2>1, <2>3 DEF Task
  <2>5. TaskInv(layout, "leg", new, 1, trace[h], plan[h]) BY <2>2, <2>4, NewTask DEF F
  <2>6. /\ trace' = [trace EXCEPT ![h] = trace[h]] /\ plan' = [plan EXCEPT ![h] = plan[h]]
        /\ solved' \in [Nodes -> Int] /\ iPath' \in Nat /\ met' \in BOOLEAN
    BY <1>4, <2>3 DEF Typed
  <2>7. UNCHANGED floorVars BY <2>3
  <2>8. mpc' = [mpc EXCEPT ![h] = "leg"] /\ route' = [route EXCEPT ![h] = new]
        /\ leg' = [leg EXCEPT ![h] = 1]
    BY <2>3
  <2>9. PlannerInv OBVIOUS
  <2> QED BY ONLY <2>1, <2>5, <2>6, <2>7, <2>8, <2>9, OneTaskChanges
<1> QED BY <1>2, <1>7, <1>8

\* Setting out: what is known when a leg is begun
LEMMA SettingOut ==
    ASSUME PlannerInv, NEW h \in Planners, mpc[h] = "leg", SetOut(h), NEW new \in Seq(Nodes)
    PROVE  LET stops == [route[h] EXCEPT ![leg[h]] = EndOf(h)]
           IN  /\ route' = [route EXCEPT ![h] = stops]
               /\ TaskInv(layout, "copy", stops, leg[h], new, plan[h])
               /\ Len(stops) = Len(route[h]) /\ stops[leg[h]] = EndOf(h)
               /\ StartOf(h) \in Location /\ EndOf(h) \in Location
               /\ iPath' \in Nat /\ met' \in BOOLEAN
<1> DEFINE stops == [route[h] EXCEPT ![leg[h]] = EndOf(h)]
<1>1. Task(h) /\ Typed /\ layout \in AllowedLayouts BY DEF PlannerInv, FloorAsFound
<1>2. TaskInv(layout, "leg", route[h], leg[h], trace[h], plan[h]) BY <1>1 DEF Task
<1>3. EndOf(h) = Shift(route[h][leg[h]]) /\ StartOf(h) = From(route[h], leg[h])
  BY DEF EndOf, StartOf, From
<1>4. TaskInv(layout, "copy", stops, leg[h], new, plan[h]) /\ EndOf(h) \in Location
  BY <1>1, <1>2, <1>3, SetOutKeeps
<1>5. StartOf(h) \in Location /\ leg[h] \in DOMAIN route[h]
  BY <1>1, <1>2, <1>3, FromIsPlace
<1>6. route \in [Planners -> Seq(Location)] /\ route[h] \in Seq(Location) BY <1>1 DEF Typed
<1>7. Len(stops) = Len(route[h]) /\ stops[leg[h]] = EndOf(h) BY <1>5, <1>6
<1>8. route' = [route EXCEPT ![h] = stops] BY <1>6 DEF SetOut
<1>9. iPath' \in Nat BY DEF SetOut, EndLabel
<1>10. met' \in BOOLEAN BY DEF SetOut, Meet
<1> QED BY <1>4, <1>5, <1>7, <1>8, <1>9, <1>10

\* A leg ends.
LEMMA LegEnds ==
    ASSUME PlannerInv, NEW h \in Planners, NEW pc, NEW stops, NEW labels,
           TaskInv(layout, pc, stops, leg[h], labels, plan[h]), pc \notin {"idle", "done", "leg"},
           route' = [route EXCEPT ![h] = stops], Len(stops) = Len(route[h]),
           NEW ok \in BOOLEAN, NEW places \in Seq(Location), EndsAt(places, stops[leg[h]]),
           NextLeg(h, ok, places),
           UNCHANGED floorVars, solved' \in [Nodes -> Int], iPath' \in Nat, met' \in BOOLEAN
    PROVE  PlannerInv'
<1> DEFINE pc2 == IF leg[h] = Len(stops) THEN "done" ELSE "leg"
           legs2 == Append(plan[h], [solved |-> ok, places |-> places])
<1>1. Typed /\ layout \in AllowedLayouts BY DEF PlannerInv, FloorAsFound
<1>2. TaskInv(layout, pc2, stops, leg[h] + 1, << >>, legs2)
  BY <1>1, NextLegKeeps
<1>3. /\ mpc' = [mpc EXCEPT ![h] = pc2] /\ leg' = [leg EXCEPT ![h] = leg[h] + 1]
      /\ trace' = [trace EXCEPT ![h] = << >>] /\ plan' = [plan EXCEPT ![h] = legs2]
  BY <1>1 DEF NextLeg, Typed
<1> HIDE DEF pc2, legs2
<1>4. /\ PlannerInv /\ route' = [route EXCEPT ![h] = stops] /\ UNCHANGED floorVars
      /\ solved' \in [Nodes -> Int] /\ iPath' \in Nat /\ met' \in BOOLEAN
  OBVIOUS
<1> QED BY ONLY <1>2, <1>3, <1>4, h \in Planners, OneTaskChanges

LEMMA BlockedKeeps ==
    ASSUME PlannerInv, NEW h \in Planners, LegBlocked(h) PROVE PlannerInv'
<1> DEFINE stops == [route[h] EXCEPT ![leg[h]] = EndOf(h)]
           places == <<Clean(StartOf(h)), EndOf(h)>>
<1>1. /\ mpc[h] = "leg" /\ SetOut(h) /\ NextLeg(h, FALSE, places)
      /\ UNCHANGED <<floorVars, solved>>
  BY DEF LegBlocked
<1>2. << >> \in Seq(Nodes) OBVIOUS
<1>3. /\ route' = [route EXCEPT ![h] = stops]
      /\ TaskInv(layout, "copy", stops, leg[h], << >>, plan[h])
      /\ Len(stops) = Len(route[h]) /\ stops[leg[h]] = EndOf(h)
      /\ StartOf(h) \in Location /\ EndOf(h) \in Location
      /\ iPath' \in Nat /\ met' \in BOOLEAN
  BY <1>1, <1>2, SettingOut
<1>4. places \in Seq(Location) /\ EndsAt(places, EndOf(h)) BY <1>3, StraightLeg
<1> HIDE DEF stops, places
<1>5. EndsAt(places, stops[leg[h]]) BY <1>3, <1>4
<1>6. solved' \in [Nodes -> Int] /\ UNCHANGED floorVars BY <1>1 DEF PlannerInv, Typed
<1>7. PlannerInv /\ h \in Planners /\ FALSE \in BOOLEAN OBVIOUS
<1>8. NextLeg(h, FALSE, places) BY <1>1
<1>9. "copy" \notin {"idle", "done", "leg"} OBVIOUS
<1>10. PICK pc : pc = "copy" OBVIOUS
<1>11. TaskInv(layout, pc, stops, leg[h], << >>, plan[h]) /\ pc \notin {"idle", "done", "leg"}
  BY <1>3, <1>9, <1>10
<1> QED BY ONLY <1>3, <1>4, <1>5, <1>6, <1>7, <1>8, <1>11, LegEnds

LEMMA SearchedKeeps ==
    ASSUME PlannerInv, NEW h \in Planners, LegSearched(h) PROVE PlannerInv'
<1> DEFINE stops == [route[h] EXCEPT ![leg[h]] = EndOf(h)]
           new == Solution(maze, StartOf(h).node, EndOf(h).node)
<1>1. /\ mpc[h] = "leg" /\ mpc' = [mpc EXCEPT ![h] = "copy"] /\ SetOut(h)
      /\ trace' = [trace EXCEPT ![h] = new]
      /\ UNCHANGED <<floorVars, solved, leg, plan>>
  BY DEF LegSearched, PlannerGo
<1>2. StartOf(h) \in Location /\ EndOf(h) \in Location
  <2>1. << >> \in Seq(Nodes) OBVIOUS
  <2> QED BY <1>1, <2>1, SettingOut
<1>3. StartOf(h).node \in Nodes /\ EndOf(h).node \in Nodes BY <1>2 DEF Location
<1>4. new \in Seq(Nodes) BY <1>3, SolutionType
<1> HIDE DEF new
<1>5. /\ route' = [route EXCEPT ![h] = stops]
      /\ TaskInv(layout, "copy", stops, leg[h], new, plan[h])
      /\ iPath' \in Nat /\ met' \in BOOLEAN
  BY <1>1, <1>4, SettingOut
<1> HIDE DEF stops
<1>6. /\ leg' = [leg EXCEPT ![h] = leg[h]] /\ plan' = [plan EXCEPT ![h] = plan[h]]
      /\ solved' \in [Nodes -> Int] /\ UNCHANGED floorVars
  BY <1>1 DEF PlannerInv, Typed
<1>7. /\ PlannerInv /\ h \in Planners
      /\ mpc' = [mpc EXCEPT ![h] = "copy"] /\ trace' = [trace EXCEPT ![h] = new]
  BY <1>1
<1> QED BY ONLY <1>5, <1>6, <1>7, OneTaskChanges

\* In the solver: the start of the leg and its end are on the floor.
LEMMA InSolverPlaces ==
    ASSUME PlannerInv, NEW h \in Planners, mpc[h] \notin {"idle", "done", "leg"}
    PROVE  /\ TaskInv(layout, mpc[h], route[h], leg[h], trace[h], plan[h])
           /\ Start(h) \in Location /\ End(h) \in Location /\ End(h) = route[h][leg[h]]
           /\ Start(h).node \in Nodes /\ End(h).node \in Nodes
<1>1. Task(h) /\ layout \in AllowedLayouts BY DEF PlannerInv, FloorAsFound
<1>2. TaskInv(layout, mpc[h], route[h], leg[h], trace[h], plan[h]) BY <1>1 DEF Task
<1>3. From(route[h], leg[h]) \in Location /\ route[h][leg[h]] \in Location
  BY <1>1, <1>2, FromIsPlace
<1>4. Start(h) = From(route[h], leg[h]) /\ End(h) = route[h][leg[h]] BY DEF Start, End, From
<1>5. \A l \in Location : l.node \in Nodes BY DEF Location
<1> QED BY <1>2, <1>3, <1>4, <1>5

\* A step in the solver, or the last one of a plan that never ends
LEMMA SolverStepKeeps ==
    ASSUME PlannerInv, NEW h \in Planners, mpc[h] \notin {"idle", "done", "leg"},
           NEW pc2 \in PlannerPC \ {"idle", "done", "leg"}, NEW new \in Seq(Nodes),
           mpc' = [mpc EXCEPT ![h] = pc2], trace' = [trace EXCEPT ![h] = new],
           UNCHANGED <<floorVars, route, leg, plan>>,
           solved' \in [Nodes -> Int], iPath' \in Nat, met' \in BOOLEAN
    PROVE  PlannerInv'
<1>1. TaskInv(layout, mpc[h], route[h], leg[h], trace[h], plan[h]) BY InSolverPlaces
<1>2. TaskInv(layout, pc2, route[h], leg[h], new, plan[h]) BY <1>1, GoOnKeeps
<1>3. /\ route' = [route EXCEPT ![h] = route[h]] /\ leg' = [leg EXCEPT ![h] = leg[h]]
      /\ plan' = [plan EXCEPT ![h] = plan[h]]
  BY DEF PlannerInv, Typed
<1>4. /\ PlannerInv /\ h \in Planners /\ UNCHANGED floorVars
      /\ mpc' = [mpc EXCEPT ![h] = pc2] /\ trace' = [trace EXCEPT ![h] = new]
      /\ solved' \in [Nodes -> Int] /\ iPath' \in Nat /\ met' \in BOOLEAN
  OBVIOUS
<1> QED BY ONLY <1>2, <1>3, <1>4, OneTaskChanges

LEMMA CopyKeeps ==
    ASSUME PlannerInv, NEW h \in Planners, CopyMaze(h) PROVE PlannerInv'
<1>1. /\ mpc[h] = "copy" /\ mpc' = [mpc EXCEPT ![h] = "label"] /\ solved' = maze /\ Meet(h)
      /\ UNCHANGED <<floorVars, iPath, route, leg, trace, plan>>
  BY DEF CopyMaze, PlannerGo
<1>2. solved' \in [Nodes -> Int] BY <1>1 DEF PlannerInv, FloorAsFound, Access
<1>3. met' \in BOOLEAN BY <1>1 DEF Meet
<1>4. trace[h] \in Seq(Nodes) /\ trace' = [trace EXCEPT ![h] = trace[h]] /\ iPath' \in Nat
  BY <1>1 DEF PlannerInv, Typed
<1>5. "label" \in PlannerPC \ {"idle", "done", "leg"} /\ mpc[h] \notin {"idle", "done", "leg"}
  BY <1>1 DEF PlannerPC
<1>6. UNCHANGED <<floorVars, route, leg, plan>> /\ mpc' = [mpc EXCEPT ![h] = "label"]
  BY <1>1
<1>7. PlannerInv /\ h \in Planners OBVIOUS
<1> QED BY ONLY <1>2, <1>3, <1>4, <1>5, <1>6, <1>7, SolverStepKeeps

LEMMA LabelKeeps ==
    ASSUME PlannerInv, NEW h \in Planners, Label(h) PROVE PlannerInv'
<1> DEFINE pc2 == IF Len(trace[h]) = 1 THEN "take" ELSE "label"
           new == Tail(trace[h])
<1>1. trace[h] \in Seq(Nodes) /\ iPath \in Nat /\ solved \in [Nodes -> Int]
  BY DEF PlannerInv, Typed
<1>2. /\ mpc[h] = "label" /\ trace[h] # << >>
      /\ solved' = [solved EXCEPT ![Head(trace[h])] = iPath] /\ iPath' = iPath + 1
      /\ mpc' = [mpc EXCEPT ![h] = pc2] /\ Meet(h)
      /\ UNCHANGED <<floorVars, route, leg, plan>>
  BY DEF Label
<1>3. trace' = [trace EXCEPT ![h] = new] BY DEF Label, PlannerInv, Typed
<1>4. new \in Seq(Nodes) BY <1>1, <1>2
<1>5. pc2 \in PlannerPC \ {"idle", "done", "leg"} BY DEF PlannerPC
<1> HIDE DEF pc2, new
<1>6. solved' \in [Nodes -> Int] /\ iPath' \in Nat BY <1>1, <1>2
<1>7. met' \in BOOLEAN BY <1>2 DEF Meet
<1>8. mpc[h] \notin {"idle", "done", "leg"} BY <1>2
<1>9. UNCHANGED <<floorVars, route, leg, plan>> /\ mpc' = [mpc EXCEPT ![h] = pc2]
  BY <1>2
<1>10. PlannerInv /\ h \in Planners OBVIOUS
<1> QED BY ONLY <1>3, <1>4, <1>5, <1>6, <1>7, <1>8, <1>9, <1>10, SolverStepKeeps

LEMMA UndefinedKeeps ==
    ASSUME PlannerInv, NEW h \in Planners, LegUndefined(h) PROVE PlannerInv'
<1>1. /\ mpc[h] = "label" /\ mpc' = [mpc EXCEPT ![h] = "undefined"]
      /\ UNCHANGED <<floorVars, solved, iPath, route, leg, trace, plan, met>>
  BY DEF LegUndefined, PlannerGo
<1>2. solved' \in [Nodes -> Int] /\ iPath' \in Nat BY <1>1 DEF PlannerInv, Typed
<1>3. met' \in BOOLEAN BY <1>1 DEF PlannerInv, Typed
<1>4. trace[h] \in Seq(Nodes) /\ trace' = [trace EXCEPT ![h] = trace[h]]
  BY <1>1 DEF PlannerInv, Typed
<1>5. "undefined" \in PlannerPC \ {"idle", "done", "leg"} /\ mpc[h] \notin {"idle", "done", "leg"}
  BY <1>1 DEF PlannerPC
<1>6. UNCHANGED <<floorVars, route, leg, plan>> /\ mpc' = [mpc EXCEPT ![h] = "undefined"]
  BY <1>1
<1>7. PlannerInv /\ h \in Planners OBVIOUS
<1> QED BY ONLY <1>2, <1>3, <1>4, <1>5, <1>6, <1>7, SolverStepKeeps

LEMMA UnreachedKeeps ==
    ASSUME PlannerInv, NEW h \in Planners, LegUnreached(h) PROVE PlannerInv'
<1> DEFINE places == <<Clean(Start(h)), End(h)>>
<1>1. /\ mpc[h] = "label" /\ Meet(h) /\ NextLeg(h, FALSE, places)
      /\ solved' = [solved EXCEPT ![End(h).node] = iPath] /\ iPath' = iPath + 1
      /\ UNCHANGED <<floorVars, route>>
  BY DEF LegUnreached
<1>2. /\ TaskInv(layout, mpc[h], route[h], leg[h], trace[h], plan[h])
      /\ Start(h) \in Location /\ End(h) \in Location /\ End(h) = route[h][leg[h]]
      /\ End(h).node \in Nodes
  BY <1>1, InSolverPlaces
<1>3. places \in Seq(Location) /\ EndsAt(places, End(h)) BY <1>2, StraightLeg
<1> HIDE DEF places
<1>4. EndsAt(places, route[h][leg[h]]) BY <1>2, <1>3
<1>5. solved \in [Nodes -> Int] /\ iPath \in Nat /\ route \in [Planners -> Seq(Location)]
  BY DEF PlannerInv, Typed
<1>6. solved' \in [Nodes -> Int] /\ iPath' \in Nat BY <1>1, <1>2, <1>5
<1>7. met' \in BOOLEAN BY <1>1 DEF Meet
<1>8. route' = [route EXCEPT ![h] = route[h]] /\ UNCHANGED floorVars BY <1>1, <1>5
<1>9. PlannerInv /\ h \in Planners /\ mpc[h] \notin {"idle", "done", "leg"} /\ FALSE \in BOOLEAN
  BY <1>1
<1>10. NextLeg(h, FALSE, places) /\ Len(route[h]) = Len(route[h]) BY <1>1
<1>11. TaskInv(layout, mpc[h], route[h], leg[h], trace[h], plan[h]) BY <1>2
<1> QED BY ONLY <1>3, <1>4, <1>6, <1>7, <1>8, <1>9, <1>10, <1>11, LegEnds

LEMMA SolvedKeeps ==
    ASSUME PlannerInv, NEW h \in Planners, LegSolved(h) PROVE PlannerInv'
<1> DEFINE walk == Walk(solved, Start(h).node)
           nodes == walk.places
           middle == [k \in DOMAIN nodes |-> At(nodes[k])]
           places == <<Clean(Start(h))>> \o middle \o <<End(h)>>
<1>1. /\ mpc[h] = "take"
      /\ IF walk.hung
         THEN PlannerGo(h, "take", "hung") /\ UNCHANGED <<plan, leg, trace>>
         ELSE NextLeg(h, TRUE, places)
      /\ UNCHANGED <<floorVars, solved, iPath, route, met>>
  BY DEF LegSolved
<1>2. /\ TaskInv(layout, mpc[h], route[h], leg[h], trace[h], plan[h])
      /\ Start(h) \in Location /\ End(h) \in Location /\ End(h) = route[h][leg[h]]
      /\ Start(h).node \in Nodes
  BY <1>1, InSolverPlaces
<1>3. solved \in [Nodes -> Int] /\ iPath \in Nat /\ route \in [Planners -> Seq(Location)]
  BY DEF PlannerInv, Typed
<1>4. walk \in WalkType BY <1>2, <1>3, WalkIsTyped
<1> HIDE DEF walk
<1>5. nodes \in Seq(Nodes) BY <1>4 DEF WalkType
<1> HIDE DEF nodes
<1>6. places \in Seq(Location) /\ EndsAt(places, End(h)) BY <1>2, <1>5, WalkedLeg
<1> HIDE DEF places
<1>7. /\ solved' \in [Nodes -> Int] /\ iPath' \in Nat
      /\ route' = [route EXCEPT ![h] = route[h]] /\ UNCHANGED floorVars
  BY <1>1, <1>3
<1>8. met' \in BOOLEAN BY <1>1 DEF PlannerInv, Typed
<1>9. PlannerInv /\ h \in Planners /\ mpc[h] \notin {"idle", "done", "leg"} BY <1>1
<1>10. CASE walk.hung
  <2>1. /\ mpc' = [mpc EXCEPT ![h] = "hung"] /\ UNCHANGED <<floorVars, route, leg, plan>>
        /\ trace' = trace
    BY <1>1, <1>10 DEF PlannerGo
  <2>2. trace[h] \in Seq(Nodes) /\ trace' = [trace EXCEPT ![h] = trace[h]]
    BY <2>1 DEF PlannerInv, Typed
  <2>3. "hung" \in PlannerPC \ {"idle", "done", "leg"} BY DEF PlannerPC
  <2> QED BY ONLY <1>7, <1>8, <1>9, <2>1, <2>2, <2>3, SolverStepKeeps
<1>11. CASE ~ walk.hung
  <2>1. NextLeg(h, TRUE, places) /\ TRUE \in BOOLEAN /\ Len(route[h]) = Len(route[h])
    BY <1>1, <1>11
  <2>2. EndsAt(places, route[h][leg[h]]) BY <1>2, <1>6
  <2>3. TaskInv(layout, mpc[h], route[h], leg[h], trace[h], plan[h]) BY <1>2
  <2> QED BY ONLY <1>6, <1>7, <1>8, <1>9, <2>1, <2>2, <2>3, LegEnds
<1> QED BY <1>10, <1>11

\* Only their own variables matter to the tasks.
LEMMA PlannerStepInv == PlannerInv /\ [PlannerNext]_plannerVars => PlannerInv'
<1> SUFFICES ASSUME PlannerInv, [PlannerNext]_plannerVars PROVE PlannerInv'
  OBVIOUS
<1>1. CASE PlannerNext
  <2>1. CASE Generate BY <2>1, GenerateKeeps
  <2>2. CASE \E h \in Planners : PlannerStep(h)
    <3>1. PICK h \in Planners : PlannerStep(h) BY <2>2
    <3>2. CASE LegBlocked(h) BY <3>2, BlockedKeeps
    <3>3. CASE LegSearched(h) BY <3>3, SearchedKeeps
    <3>4. CASE CopyMaze(h) BY <3>4, CopyKeeps
    <3>5. CASE Label(h) BY <3>5, LabelKeeps
    <3>6. CASE LegUnreached(h) BY <3>6, UnreachedKeeps
    <3>7. CASE LegUndefined(h) BY <3>7, UndefinedKeeps
    <3>8. CASE LegSolved(h) BY <3>8, SolvedKeeps
    <3> QED BY <3>1, <3>2, <3>3, <3>4, <3>5, <3>6, <3>7, <3>8 DEF PlannerStep
  <2> QED BY <1>1, <2>1, <2>2 DEF PlannerNext
<1>2. CASE UNCHANGED plannerVars
  BY <1>2 DEF plannerVars, floorVars, planVars, PlannerInv, FloorAsFound, Typed, Task
<1> QED BY <1>1, <1>2

\* With all its legs planned, a task is at an end.
LEMMA PlannerInvStops == PlannerInv => StopsActedOnOnce
<1> SUFFICES ASSUME PlannerInv, NEW h \in active, mpc[h] = "done"
             PROVE  /\ Len(plan[h]) = Len(route[h])
                    /\ \A k \in DOMAIN plan[h] :
                          LET places == plan[h][k].places
                          IN  /\ Last(places) = route[h][k]
                              /\ \A j \in 1 .. Len(places) - 1 :
                                    places[j].side = 0 /\ ~ places[j].dock
  BY DEF StopsActedOnOnce
<1>1. h \in Planners BY DEF PlannerInv, Typed
<1>2. TaskInv(layout, "done", route[h], leg[h], trace[h], plan[h])
  BY <1>1 DEF PlannerInv, Task
<1>3. leg[h] = Len(route[h]) + 1 /\ route[h] \in Seq(Location)
  BY <1>2 DEF TaskInv, TaskTyped
<1>4. Len(plan[h]) = leg[h] - 1 /\ \A k \in DOMAIN plan[h] : EndsAt(plan[h][k].places, route[h][k])
  BY <1>2 DEF TaskInv, LegsOf
<1> QED BY <1>3, <1>4 DEF EndsAt

-----------------------------------------------------------------------------
(* The floor and the slots                                                 *)

FloorInv == SlotInv /\ PlannerInv

LEMMA FloorInitInv == Init => FloorInv
  BY SlotInitInv, PlannerInitInv DEF Init, FloorInv

LEMMA FloorStepInv == FloorInv /\ [Next]_vars => FloorInv'
<1> SUFFICES ASSUME FloorInv, [Next]_vars PROVE FloorInv'
  OBVIOUS
<1>1. [SlotNext]_slotVars BY DEF Next, vars
<1>2. [PlannerNext]_plannerVars BY DEF Next, vars
<1> QED BY <1>1, <1>2, SlotStepInv, PlannerStepInv DEF FloorInv

(* The types, whatever the size of the floor, its shelves and docks, and    *)
(* the number of items of a task.  The scan, the search and the walk give   *)
(* places that exist, and so do the shifts, of which the end of one leg     *)
(* gets two before it is the start of the next.                             *)
THEOREM FloorTypes == Spec => []FloorTypeOK
<1>1. FloorInv => FloorTypeOK
  BY PlannerInvTypes DEF FloorInv, SlotInv, FloorTypeOK
<1> QED BY <1>1, FloorInitInv, FloorStepInv, PTL DEF Spec

(* A finished plan has a leg for every stop of its task, in their order,    *)
(* and a robot that follows it acts at the end of each and nowhere else, up *)
(* to the moment at which both handlers are in the solver.                  *)
THEOREM StopsInOrder == Spec => []StopsActedOnOnce
<1>1. FloorInv => StopsActedOnOnce
  BY PlannerInvStops DEF FloorInv
<1> QED BY <1>1, FloorInitInv, FloorStepInv, PTL DEF Spec

(* However many layouts and warehouses look for a slot at a time, one that  *)
(* no two were about to take at once has one layout and one warehouse, the  *)
(* layout was first, and who is told to quit had a layout that failed.      *)
THEOREM OwnersOfSlots == Spec => []SlotOwners
<1>1. FloorInv => SlotOwners
  BY SlotInvOwners DEF FloorInv
<1> QED BY <1>1, FloorInitInv, FloorStepInv, PTL DEF Spec

-----------------------------------------------------------------------------
(* The numbers of the shelves.                                             *)

\* The shelves that the scan has come by before place k, and their rows
Before(floor, k) == {m \in Shelves(floor) : m < k}
RowsBefore(floor, k) == {Row(m) : m \in Before(floor, k)}
IsLast(floor, k, l) == l \in Before(floor, k) /\ \A m \in Before(floor, k) : m =< l

\* A shelf is passed over if it is in the column of the one before.
Passed(floor, n) ==
    \E m \in Shelves(floor) : /\ m < n /\ Col(m) = Col(n)
                              /\ \A k \in Shelves(floor) : k < n => k =< m
Found(floor, k) == {n \in Before(floor, k) : ~ Passed(floor, n)}
InRow(floor, k, r) == {m \in Found(floor, k) : Row(m) = r}

\* The key of a shelf: the rows with shelves up to its own, and those found
\* before it in its row
KeyOf(floor, n) ==
    <<Cardinality(RowsBefore(floor, n + 1)), Cardinality(InRow(floor, n, Row(n)))>>

\* What the scan knows at place k
CountsRows(floor, s, k) ==
    /\ s.index_r = Cardinality(RowsBefore(floor, k))
    /\ s.rows = s.index_r /\ s.counter_r = s.lastrow /\ s.counter_c = s.lastcol
RemembersLast(floor, s, k) ==
    /\ Before(floor, k) = {} => s.lastrow = 0 /\ s.lastcol = 0
    /\ \A l : IsLast(floor, k, l) => s.lastrow = Row(l) /\ s.lastcol = Col(l)
HasFound(floor, s, k) ==
    /\ {s.map[key] : key \in DOMAIN s.map} = Found(floor, k)
    /\ \A key \in DOMAIN s.map : key = KeyOf(floor, s.map[key])
CountsInRow(floor, s, k) ==
    k \in Nodes => s.index_c = Cardinality(InRow(floor, k, Row(k)))
CanDraw(floor, s, k) ==
    (\E m, n \in Found(floor, k) : m # n /\ Row(m) = Row(n)) =>
        s.cols >= 1 /\ \E key \in DOMAIN s.map : key[1] \in 1 .. s.index_r /\ key[2] = 1

ScanInv(floor, s, k) ==
    /\ s \in ScanType(floor) /\ CountsRows(floor, s, k) /\ RemembersLast(floor, s, k)
    /\ HasFound(floor, s, k) /\ CountsInRow(floor, s, k) /\ CanDraw(floor, s, k)

LEMMA BeforeFinite ==
    ASSUME NEW floor, NEW k \in Int
    PROVE  /\ IsFiniteSet(Before(floor, k)) /\ IsFiniteSet(RowsBefore(floor, k))
           /\ Before(floor, k) \subseteq Nodes
           /\ \A r : IsFiniteSet(InRow(floor, k, r))
<1>1. IsFiniteSet(Nodes)
  <2>1. Rows * Cols - 1 \in Int BY SizeAssumption
  <2> QED BY <2>1, FS_Interval DEF Nodes
<1>2. Before(floor, k) \subseteq Nodes BY DEF Before, Shelves
<1>3. IsFiniteSet(Before(floor, k)) BY <1>1, <1>2, FS_Subset
<1>4. IsFiniteSet(RowsBefore(floor, k))
  <2>1. Rows - 1 \in Int /\ 0 \in Int BY SizeAssumption
  <2>2. IsFiniteSet(0 .. Rows - 1) BY <2>1, FS_Interval
  <2>3. RowsBefore(floor, k) \subseteq 0 .. Rows - 1
    BY <1>2, Place DEF RowsBefore
  <2> QED BY <2>2, <2>3, FS_Subset
<1>5. ASSUME NEW r PROVE IsFiniteSet(InRow(floor, k, r))
  <2>1. InRow(floor, k, r) \subseteq Before(floor, k) BY DEF InRow, Found
  <2> QED BY <1>3, <2>1, FS_Subset
<1> QED BY <1>2, <1>3, <1>4, <1>5

\* Places come row by row.
LEMMA RowByRow ==
    ASSUME NEW m \in Nodes, NEW n \in Nodes, m =< n
    PROVE  Row(m) =< Row(n) /\ (Row(m) = Row(n) /\ m # n => Col(m) < Col(n))
<1> DEFINE r == Row(m)
           s == Row(n)
           c == Col(m)
           d == Col(n)
<1>1. /\ r \in Int /\ s \in Int /\ c \in 0 .. Cols - 1 /\ d \in 0 .. Cols - 1
      /\ m = r * Cols + c /\ n = s * Cols + d /\ Cols \in Nat /\ Cols > 0
  BY Place, SizeAssumption
<1> HIDE DEF r, s, c, d
<1>2. r =< s
  <2>1. CASE r >= s + 1
    <3>1. r * Cols >= (s + 1) * Cols BY <1>1, <2>1
    <3>2. (s + 1) * Cols = s * Cols + Cols BY <1>1
    <3> DEFINE rc == r * Cols
               sc == s * Cols
    <3>3. rc \in Int /\ sc \in Int /\ rc >= sc + Cols /\ m = rc + c /\ n = sc + d
      BY <1>1, <3>1, <3>2
    <3> HIDE DEF rc, sc
    <3> QED BY <1>1, <3>3
  <2> QED BY <1>1, <2>1
<1>3. r = s /\ m # n => c < d
  <2>1. CASE r = s
    <3> DEFINE rc == r * Cols
    <3>1. rc \in Int /\ m = rc + c /\ n = rc + d BY <1>1, <2>1
    <3> HIDE DEF rc
    <3> QED BY <1>1, <3>1
  <2> QED BY <2>1
<1> QED BY <1>2, <1>3 DEF r, s, c, d

LEMMA LastShelf ==
    ASSUME NEW floor, NEW k \in Nodes, Before(floor, k) # {}
    PROVE  \E l : IsLast(floor, k, l)
<1> DEFINE T == {k - m : m \in Before(floor, k)}
<1>1. k \in Int /\ \A m \in Before(floor, k) : m \in Int /\ m < k
  <2>1. \A m \in Before(floor, k) : m \in Nodes /\ m < k BY DEF Before, Shelves
  <2>2. \A n \in Nodes : n \in Int BY Place
  <2> QED BY <2>1, <2>2
<1>3. T \in SUBSET Nat /\ T # {} BY <1>1
<1> HIDE DEF T
<1>4. PICK t \in T : \A u \in T : t =< u BY <1>3, LeastNatural
<1>5. PICK l \in Before(floor, k) : t = k - l BY <1>4 DEF T
<1>6. ASSUME NEW m \in Before(floor, k) PROVE m =< l
  <2>1. k - m \in T BY DEF T
  <2>2. k - l =< k - m BY <1>4, <1>5, <2>1
  <2> QED BY <1>1, <2>2
<1> QED BY <1>5, <1>6 DEF IsLast

\* One place further on
LEMMA NextBefore ==
    ASSUME NEW floor, NEW k \in Nodes
    PROVE  /\ k \notin Shelves(floor) => Before(floor, k + 1) = Before(floor, k)
           /\ k \in Shelves(floor) =>
                 /\ Before(floor, k + 1) = Before(floor, k) \cup {k}
                 /\ RowsBefore(floor, k + 1) = RowsBefore(floor, k) \cup {Row(k)}
                 /\ Found(floor, k + 1) = IF Passed(floor, k) THEN Found(floor, k)
                                          ELSE Found(floor, k) \cup {k}
           /\ k \notin Before(floor, k)
<1>1. k \in Int BY Place
<1>2. ASSUME NEW m \in Shelves(floor) PROVE m < k + 1 <=> m < k \/ m = k
  <2>1. m \in Int BY Place DEF Shelves
  <2> QED BY <1>1, <2>1
<1>3. k \notin Before(floor, k) BY <1>1 DEF Before
<1>4. ASSUME k \notin Shelves(floor) PROVE Before(floor, k + 1) = Before(floor, k)
  BY <1>2, <1>4 DEF Before
<1>5. ASSUME k \in Shelves(floor) PROVE Before(floor, k + 1) = Before(floor, k) \cup {k}
  <2>1. k < k + 1 BY <1>1
  <2> QED BY <1>2, <1>5, <2>1 DEF Before
<1>6. ASSUME k \in Shelves(floor)
      PROVE  /\ RowsBefore(floor, k + 1) = RowsBefore(floor, k) \cup {Row(k)}
             /\ Found(floor, k + 1) = IF Passed(floor, k) THEN Found(floor, k)
                                      ELSE Found(floor, k) \cup {k}
  BY <1>5, <1>6 DEF RowsBefore, Found
<1> QED BY <1>3, <1>4, <1>5, <1>6

\* Before the end of a row is looked at, index_c still counts the row of k.
ScanMid(floor, t, k) ==
    /\ t \in ScanType(floor) /\ CountsRows(floor, t, k + 1) /\ RemembersLast(floor, t, k + 1)
    /\ HasFound(floor, t, k + 1) /\ CanDraw(floor, t, k + 1)
    /\ t.index_c = Cardinality(InRow(floor, k + 1, Row(k)))

LEMMA RowEnds ==
    ASSUME NEW floor, NEW t, NEW k \in Nodes, ScanMid(floor, t, k)
    PROVE  ScanInv(floor, NextRow(t, k), k + 1)
<1> DEFINE u == NextRow(t, k)
<1>1. t \in ScanType(floor) /\ CountsRows(floor, t, k + 1) /\ RemembersLast(floor, t, k + 1)
      /\ HasFound(floor, t, k + 1) /\ CanDraw(floor, t, k + 1)
      /\ t.index_c = Cardinality(InRow(floor, k + 1, Row(k)))
  BY DEF ScanMid
<1>2. /\ u \in ScanType(floor) /\ u.index_r = t.index_r /\ u.rows = t.rows /\ u.cols = t.cols
      /\ u.counter_r = t.counter_r /\ u.counter_c = t.counter_c
      /\ u.lastrow = t.lastrow /\ u.lastcol = t.lastcol /\ u.map = t.map
      /\ u.index_c = IF Col(k) = Cols - 1 THEN 0 ELSE t.index_c
  BY <1>1 DEF NextRow, ScanType
<1> HIDE DEF u
<1>3. CountsRows(floor, u, k + 1) BY <1>1, <1>2 DEF CountsRows
<1>4. RemembersLast(floor, u, k + 1) BY <1>1, <1>2 DEF RemembersLast
<1>5. HasFound(floor, u, k + 1) BY <1>1, <1>2 DEF HasFound
<1>6. CanDraw(floor, u, k + 1) BY <1>1, <1>2 DEF CanDraw
<1>7. CountsInRow(floor, u, k + 1)
  <2> SUFFICES ASSUME k + 1 \in Nodes
               PROVE  u.index_c = Cardinality(InRow(floor, k + 1, Row(k + 1)))
    BY DEF CountsInRow
  <2>1. /\ Row(k) \in Nat /\ Col(k) \in 0 .. Cols - 1 /\ k = Row(k) * Cols + Col(k)
        /\ k \in Int /\ Cols \in Nat /\ Cols > 0
    BY Place, SizeAssumption
  <2>2. CASE Col(k) = Cols - 1
    <3>1. k + 1 = (Row(k) + 1) * Cols + 0 BY <2>1, <2>2
    <3>2. Row((Row(k) + 1) * Cols + 0) = Row(k) + 1
      <4>1. Row(k) + 1 \in Nat /\ 0 \in 0 .. Cols - 1 BY <2>1
      <4> QED BY <4>1, SamePlace
    <3>3. Row(k + 1) = Row(k) + 1 BY <3>1, <3>2
    <3>4. ASSUME NEW m \in InRow(floor, k + 1, Row(k + 1)) PROVE FALSE
      <4>1. m \in Shelves(floor) /\ m < k + 1 /\ Row(m) = Row(k + 1)
        BY DEF InRow, Found, Before
      <4>2. m \in Nodes /\ m \in Int BY <4>1, Place DEF Shelves
      <4>3. m =< k BY <2>1, <4>1, <4>2
      <4>4. Row(m) =< Row(k) BY <4>2, <4>3, RowByRow
      <4> QED BY <2>1, <3>3, <4>1, <4>4
    <3>5. InRow(floor, k + 1, Row(k + 1)) = {} BY <3>4
    <3> QED BY <1>2, <2>2, <3>5, FS_EmptySet
  <2>3. CASE Col(k) # Cols - 1
    <3>1. k + 1 = Row(k) * Cols + (Col(k) + 1) /\ Col(k) + 1 \in 0 .. Cols - 1
      <4> DEFINE rc == Row(k) * Cols
                 c == Col(k)
      <4>1. rc \in Int /\ k = rc + c /\ c \in 0 .. Cols - 1 /\ c # Cols - 1 BY <2>1, <2>3
      <4> HIDE DEF rc, c
      <4>2. k + 1 = rc + (c + 1) /\ c + 1 \in 0 .. Cols - 1 BY <2>1, <4>1
      <4> QED BY <4>2 DEF rc, c
    <3>2. Row(Row(k) * Cols + (Col(k) + 1)) = Row(k) BY <2>1, <3>1, SamePlace
    <3>3. Row(k + 1) = Row(k) BY <3>1, <3>2
    <3> QED BY <1>1, <1>2, <2>3, <3>3
  <2> QED BY <2>2, <2>3
<1> QED BY <1>2, <1>3, <1>4, <1>5, <1>6, <1>7 DEF ScanInv, u

LEMMA OtherPlace ==
    ASSUME NEW floor \in AllowedLayouts, NEW s, NEW k \in Nodes, ScanInv(floor, s, k),
           floor[k] # "shelf", ScanPlace(s, k, floor) \in ScanType(floor)
    PROVE  ScanMid(floor, ScanPlace(s, k, floor), k)
<1> DEFINE t == ScanPlace(s, k, floor)
<1>1. s \in ScanType(floor) /\ CountsRows(floor, s, k) /\ RemembersLast(floor, s, k)
      /\ HasFound(floor, s, k) /\ CountsInRow(floor, s, k) /\ CanDraw(floor, s, k)
  BY DEF ScanInv
<1>2. /\ t.index_r = s.index_r /\ t.rows = s.rows /\ t.cols = s.cols
      /\ t.counter_r = s.counter_r /\ t.counter_c = s.counter_c
      /\ t.lastrow = s.lastrow /\ t.lastcol = s.lastcol /\ t.map = s.map
      /\ t.index_c = s.index_c
  <2>1. CASE floor[k] = "delivery" BY <1>1, <2>1 DEF ScanPlace, ScanType
  <2>2. CASE floor[k] = "restock" BY <1>1, <2>2 DEF ScanPlace, ScanType
  <2>3. CASE floor[k] \notin {"shelf", "delivery", "restock"} BY <2>3 DEF ScanPlace
  <2> QED BY <2>1, <2>2, <2>3
<1>3. t \in ScanType(floor) OBVIOUS
<1> HIDE DEF t
<1>4. Before(floor, k + 1) = Before(floor, k) BY NextBefore DEF Shelves
<1>5. /\ RowsBefore(floor, k + 1) = RowsBefore(floor, k) /\ Found(floor, k + 1) = Found(floor, k)
      /\ \A l : IsLast(floor, k + 1, l) <=> IsLast(floor, k, l)
  BY <1>4 DEF RowsBefore, Found, IsLast
<1>6. CountsRows(floor, t, k + 1) BY <1>1, <1>2, <1>5 DEF CountsRows
<1>7. RemembersLast(floor, t, k + 1) BY <1>1, <1>2, <1>4, <1>5 DEF RemembersLast
<1>8. HasFound(floor, t, k + 1) BY <1>1, <1>2, <1>5 DEF HasFound
<1>9. CanDraw(floor, t, k + 1) BY <1>1, <1>2, <1>5 DEF CanDraw
<1>10. t.index_c = Cardinality(InRow(floor, k + 1, Row(k)))
  BY <1>1, <1>2, <1>5 DEF CountsInRow, InRow
<1> QED BY <1>3, <1>6, <1>7, <1>8, <1>9, <1>10 DEF ScanMid, t

\* lastrow and lastcol tell the rows that are new and the shelves to pass over.
LEMMA NewRowAndColumn ==
    ASSUME NEW floor \in AllowedLayouts, NEW s, NEW k \in Shelves(floor),
           RemembersLast(floor, s, k)
    PROVE  /\ Row(k) # s.lastrow <=> Row(k) \notin RowsBefore(floor, k)
           /\ Col(k) # s.lastcol <=> ~ Passed(floor, k)
           /\ s.lastrow =< Row(k) /\ (Row(k) = s.lastrow => s.lastcol < Col(k))
<1>1. /\ k \in Nodes /\ k \in Int /\ Row(k) \in Nat /\ Col(k) \in Nat
      /\ Row(k) >= 1 /\ Col(k) >= 1
  <2>1. k \in Nodes BY DEF Shelves
  <2>2. k + 0 \in Nodes /\ Row(k) \in 1 .. Rows - 2 /\ Col(k) \in 1 .. Cols - 2 BY BesideShelf
  <2>3. k \in Int BY <2>1, Place
  <2> QED BY <2>1, <2>2, <2>3, SizeAssumption
<1>2. CASE Before(floor, k) = {}
  <2>1. s.lastrow = 0 /\ s.lastcol = 0 BY <1>2 DEF RemembersLast
  <2>2. Row(k) \notin RowsBefore(floor, k) BY <1>2 DEF RowsBefore
  <2>3. ~ Passed(floor, k) BY <1>2 DEF Passed, Before
  <2> QED BY <1>1, <2>1, <2>2, <2>3
<1>3. CASE Before(floor, k) # {}
  <2>1. PICK l : IsLast(floor, k, l) BY <1>1, <1>3, LastShelf
  <2>2. s.lastrow = Row(l) /\ s.lastcol = Col(l) BY <2>1 DEF RemembersLast
  <2>3. l \in Before(floor, k) /\ \A m \in Before(floor, k) : m =< l BY <2>1 DEF IsLast
  <2>4. l \in Nodes /\ l \in Int /\ l < k /\ l \in Shelves(floor)
    BY <2>3, Place DEF Before, Shelves
  <2>5. Row(l) =< Row(k) /\ (Row(l) = Row(k) => Col(l) < Col(k))
    BY <1>1, <2>4, RowByRow
  <2>6. Row(k) = Row(l) <=> Row(k) \in RowsBefore(floor, k)
    <3>1. ASSUME Row(k) \in RowsBefore(floor, k) PROVE Row(k) = Row(l)
      <4>1. PICK m \in Before(floor, k) : Row(m) = Row(k) BY <3>1 DEF RowsBefore
      <4>2. m \in Nodes /\ m =< l BY <2>3, <4>1 DEF Before, Shelves
      <4>3. Row(m) =< Row(l) BY <2>4, <4>2, RowByRow
      <4>4. Row(l) \in Int BY <2>4, Place
      <4> QED BY <1>1, <2>5, <4>1, <4>3, <4>4
    <3>2. Row(l) \in RowsBefore(floor, k) BY <2>3 DEF RowsBefore
    <3> QED BY <3>1, <3>2
  <2>7. Col(k) = Col(l) <=> Passed(floor, k)
    <3>1. ASSUME Col(k) = Col(l) PROVE Passed(floor, k)
      <4>1. \A m \in Shelves(floor) : m < k => m =< l BY <2>3 DEF Before
      <4> QED BY <2>4, <3>1, <4>1 DEF Passed
    <3>2. ASSUME Passed(floor, k) PROVE Col(k) = Col(l)
      <4>1. PICK m \in Shelves(floor) : /\ m < k /\ Col(m) = Col(k)
                                        /\ \A j \in Shelves(floor) : j < k => j =< m
        BY <3>2 DEF Passed
      <4>2. m =< l BY <2>3, <4>1 DEF Before
      <4>3. l =< m BY <2>4, <4>1
      <4>4. m \in Int BY Place DEF Shelves
      <4>5. m = l BY <2>4, <4>2, <4>3, <4>4
      <4> QED BY <4>1, <4>5
    <3> QED BY <3>1, <3>2
  <2> QED BY <2>2, <2>5, <2>6, <2>7
<1> QED BY <1>2, <1>3

\* No shelf has the key of a later one.
LEMMA KeyIsNew ==
    ASSUME NEW floor, NEW k \in Shelves(floor), NEW n \in Found(floor, k)
    PROVE  KeyOf(floor, n) # KeyOf(floor, k)
<1> SUFFICES ASSUME KeyOf(floor, n) = KeyOf(floor, k) PROVE FALSE
  OBVIOUS
<1>1. n \in Nodes /\ k \in Nodes /\ n \in Int /\ k \in Int /\ n < k /\ n \in Shelves(floor)
  BY Place DEF Found, Before, Shelves
<1>2. /\ Cardinality(RowsBefore(floor, n + 1)) = Cardinality(RowsBefore(floor, k + 1))
      /\ Cardinality(InRow(floor, n, Row(n))) = Cardinality(InRow(floor, k, Row(k)))
  BY DEF KeyOf
<1>3. Row(n) = Row(k)
  <2>1. Before(floor, n + 1) \subseteq Before(floor, k + 1)
    <3>1. ASSUME NEW m \in Shelves(floor), m < n + 1 PROVE m < k + 1
      <4>1. m \in Int BY Place DEF Shelves
      <4> QED BY <1>1, <3>1, <4>1
    <3> QED BY <3>1 DEF Before
  <2>2. RowsBefore(floor, n + 1) \subseteq RowsBefore(floor, k + 1) BY <2>1 DEF RowsBefore
  <2>3. IsFiniteSet(RowsBefore(floor, k + 1))
    <3>1. k + 1 \in Int BY <1>1
    <3> QED BY <3>1, BeforeFinite
  <2>4. RowsBefore(floor, n + 1) = RowsBefore(floor, k + 1) BY <1>2, <2>2, <2>3, FS_Subset
  <2>5. Row(k) \in RowsBefore(floor, k + 1)
    <3>1. k < k + 1 BY <1>1
    <3> QED BY <3>1 DEF RowsBefore, Before
  <2>6. PICK m \in Before(floor, n + 1) : Row(m) = Row(k) BY <2>4, <2>5 DEF RowsBefore
  <2>7. m \in Nodes /\ m \in Int /\ m < n + 1 BY <2>6, Place DEF Before, Shelves
  <2>8. m =< n BY <1>1, <2>7
  <2>9. Row(m) =< Row(n) /\ Row(n) =< Row(k)
    <3>1. n =< k BY <1>1
    <3> QED BY <1>1, <2>7, <2>8, <3>1, RowByRow
  <2>10. Row(n) \in Int /\ Row(k) \in Int BY <1>1, Place
  <2> QED BY <2>6, <2>9, <2>10
<1>4. InRow(floor, n, Row(n)) \subseteq InRow(floor, k, Row(k))
  <2>1. Before(floor, n) \subseteq Before(floor, k)
    <3>1. ASSUME NEW m \in Shelves(floor), m < n PROVE m < k
      <4>1. m \in Int BY Place DEF Shelves
      <4> QED BY <1>1, <3>1, <4>1
    <3> QED BY <3>1 DEF Before
  <2> QED BY <1>3, <2>1 DEF InRow, Found
<1>5. n \in InRow(floor, k, Row(k)) BY <1>3 DEF InRow
<1>6. n \notin InRow(floor, n, Row(n)) BY <1>1 DEF InRow, Found, Before
<1>7. IsFiniteSet(InRow(floor, k, Row(k))) BY <1>1, BeforeFinite
<1>8. InRow(floor, k, Row(k)) = InRow(floor, n, Row(n)) BY <1>2, <1>4, <1>7, FS_Subset
<1> QED BY <1>5, <1>6, <1>8

\* A shelf gets its key, unless it is passed over.
LEMMA ShelfPlace ==
    ASSUME NEW floor \in AllowedLayouts, NEW s, NEW k \in Nodes, ScanInv(floor, s, k),
           floor[k] = "shelf", ScanShelf(s, k) \in ScanType(floor)
    PROVE  ScanMid(floor, ScanShelf(s, k), k)
<1> DEFINE t == ScanShelf(s, k)
           newrow == Row(k) # s.lastrow
           newcol == Col(k) # s.lastcol
           number == IF newrow THEN s.index_r + 1 ELSE s.index_r
           key == <<number, s.index_c>>
           S == Shelves(floor)
           R == RowsBefore(floor, k)
           F == Found(floor, k)
           mine == InRow(floor, k, Row(k))
<1>1. s \in ScanType(floor) /\ CountsRows(floor, s, k) /\ RemembersLast(floor, s, k)
      /\ HasFound(floor, s, k) /\ CountsInRow(floor, s, k) /\ CanDraw(floor, s, k)
  BY DEF ScanInv
<1>2. t \in ScanType(floor) OBVIOUS
<1>3. /\ t.index_r = number /\ t.lastrow = Row(k) /\ t.lastcol = Col(k)
      /\ t.rows = IF newrow /\ Row(k) > s.counter_r THEN s.rows + 1 ELSE s.rows
      /\ t.cols = IF newcol /\ Col(k) > s.counter_c THEN s.cols + 1 ELSE s.cols
      /\ t.counter_r = IF newrow THEN Row(k) ELSE s.counter_r
      /\ t.counter_c = IF newcol THEN Col(k) ELSE s.counter_c
      /\ t.index_c = IF newcol THEN s.index_c + 1 ELSE s.index_c
      /\ t.map = IF newcol THEN Insert(s.map, key, k) ELSE s.map
  <2>1. t = [s EXCEPT !.rows = IF newrow /\ Row(k) > s.counter_r THEN @ + 1 ELSE @,
                      !.counter_r = IF newrow THEN Row(k) ELSE @,
                      !.index_r = number,
                      !.lastrow = Row(k),
                      !.map = IF newcol THEN Insert(@, key, k) ELSE @,
                      !.index_c = IF newcol THEN @ + 1 ELSE @,
                      !.cols = IF newcol /\ Col(k) > s.counter_c THEN @ + 1 ELSE @,
                      !.counter_c = IF newcol THEN Col(k) ELSE @,
                      !.lastcol = Col(k)]
    BY <1>1 DEF ScanShelf, ScanType
  <2> HIDE DEF t, newrow, newcol, number, key
  <2>2. s \in [rows : Nat, cols : Nat, counter_r : Nat, counter_c : Nat, index_r : Nat,
               index_c : Nat, lastrow : Nat, lastcol : Nat, map : Maps(floor),
               del_truck : Nodes, res_truck : Nodes]
    BY <1>1 DEF ScanType
  <2> QED BY <2>1, <2>2
<1>4. k \in S /\ k \in Int BY Place DEF Shelves
<1>5. /\ newrow <=> Row(k) \notin R
      /\ newcol <=> ~ Passed(floor, k)
      /\ s.lastrow =< Row(k) /\ (Row(k) = s.lastrow => s.lastcol < Col(k))
  BY <1>1, <1>4, NewRowAndColumn
<1>6. /\ s.index_r \in Nat /\ s.index_c \in Nat /\ s.rows \in Nat /\ s.cols \in Nat
      /\ s.lastrow \in Nat /\ s.lastcol \in Nat
      /\ s.map \in UNION {[D -> Shelves(floor)] : D \in SUBSET (Nat \X Nat)}
      /\ Row(k) \in Nat /\ Col(k) \in Nat
  <2>1. Row(k) \in Nat /\ Col(k) \in Nat BY Place, SizeAssumption
  <2> QED BY <1>1, <2>1 DEF ScanType, Maps
<1>7. /\ Before(floor, k + 1) = Before(floor, k) \cup {k}
      /\ RowsBefore(floor, k + 1) = R \cup {Row(k)}
      /\ Found(floor, k + 1) = IF newcol THEN F \cup {k} ELSE F
      /\ k \notin Before(floor, k)
  BY <1>4, <1>5, NextBefore
<1>8. /\ IsFiniteSet(R) /\ IsFiniteSet(mine) /\ k \notin F
  BY <1>4, <1>7, BeforeFinite DEF Found
<1> HIDE DEF t, newrow, newcol
<1>9. number = Cardinality(RowsBefore(floor, k + 1))
  <2>1. Cardinality(R \cup {Row(k)}) = IF Row(k) \in R THEN Cardinality(R) ELSE Cardinality(R) + 1
    BY <1>8, FS_AddElement
  <2>2. s.index_r = Cardinality(R) BY <1>1 DEF CountsRows
  <2> QED BY <1>5, <1>7, <2>1, <2>2
<1>10. s.index_c = Cardinality(mine) BY <1>1 DEF CountsInRow
<1>11. key = KeyOf(floor, k) BY <1>9, <1>10 DEF KeyOf
<1>12. {s.map[j] : j \in DOMAIN s.map} = F /\ \A j \in DOMAIN s.map : j = KeyOf(floor, s.map[j])
  BY <1>1 DEF HasFound
<1>13. key \notin DOMAIN s.map
  <2> SUFFICES ASSUME key \in DOMAIN s.map PROVE FALSE
    OBVIOUS
  <2>1. s.map[key] \in F /\ key = KeyOf(floor, s.map[key]) BY <1>12
  <2> QED BY <1>4, <1>11, <2>1, KeyIsNew
<1>14. key \in Nat \X Nat BY <1>6
<1> HIDE DEF key, number, mine, R, F
<1>15. newcol => /\ DOMAIN t.map = DOMAIN s.map \cup {key}
                 /\ \A j \in DOMAIN s.map : t.map[j] = s.map[j]
                 /\ t.map[key] = k
  <2> DEFINE f == Insert(s.map, key, k)
  <2>1. f = [j \in DOMAIN s.map \cup {key} |-> IF j \in DOMAIN s.map THEN s.map[j] ELSE k]
    BY DEF Insert
  <2>2. /\ DOMAIN f = DOMAIN s.map \cup {key}
        /\ \A j \in DOMAIN s.map : f[j] = s.map[j]
        /\ key \notin DOMAIN s.map => f[key] = k
    BY <2>1
  <2> HIDE DEF f
  <2>3. newcol => t.map = f BY <1>3 DEF f
  <2> QED BY <1>13, <2>2, <2>3
<1>16. CountsRows(floor, t, k + 1)
  <2>1. s.rows = s.index_r /\ s.counter_r = s.lastrow /\ s.counter_c = s.lastcol
    BY <1>1 DEF CountsRows
  <2>2. t.counter_r = t.lastrow /\ t.counter_c = t.lastcol
    BY <1>3, <2>1 DEF newrow, newcol
  <2>3. t.rows = t.index_r
    <3>1. newrow => Row(k) > s.counter_r BY <1>5, <1>6, <2>1 DEF newrow
    <3> QED BY <1>3, <2>1, <3>1 DEF number
  <2> QED BY <1>3, <1>9, <2>2, <2>3 DEF CountsRows
<1>17. RemembersLast(floor, t, k + 1)
  <2>1. Before(floor, k + 1) # {} BY <1>7
  <2>2. ASSUME NEW l, IsLast(floor, k + 1, l) PROVE l = k
    <3>1. l \in Before(floor, k) \cup {k} /\ k =< l BY <1>7, <2>2 DEF IsLast
    <3>2. l \in Before(floor, k) => l \in Int /\ l < k BY Place DEF Before, Shelves
    <3> QED BY <1>4, <3>1, <3>2
  <2> QED BY <1>3, <2>1, <2>2 DEF RemembersLast
<1>18. HasFound(floor, t, k + 1)
  <2>1. CASE newcol
    <3>1. {t.map[j] : j \in DOMAIN t.map} = F \cup {k} BY <1>12, <1>15, <2>1
    <3>2. ASSUME NEW j \in DOMAIN t.map PROVE j = KeyOf(floor, t.map[j])
      BY <1>11, <1>12, <1>15, <2>1
    <3> QED BY <1>7, <2>1, <3>1, <3>2 DEF HasFound
  <2>2. CASE ~ newcol BY <1>3, <1>7, <1>12, <2>2 DEF HasFound
  <2> QED BY <2>1, <2>2
<1>19. InRow(floor, k + 1, Row(k)) = IF newcol THEN mine \cup {k} ELSE mine
  BY <1>7 DEF InRow, F, mine
<1>20. t.index_c = Cardinality(InRow(floor, k + 1, Row(k)))
  <2>1. k \notin mine BY <1>8 DEF mine, InRow, F
  <2>2. Cardinality(mine \cup {k}) = Cardinality(mine) + 1 BY <1>8, <2>1, FS_AddElement
  <2> QED BY <1>3, <1>10, <1>19, <2>2
<1>21. CanDraw(floor, t, k + 1)
  <2> SUFFICES ASSUME \E m, n \in Found(floor, k + 1) : m # n /\ Row(m) = Row(n)
               PROVE  t.cols >= 1 /\ \E j \in DOMAIN t.map : j[1] \in 1 .. t.index_r /\ j[2] = 1
    BY DEF CanDraw
  <2>1. t.cols \in Nat /\ t.cols >= s.cols BY <1>3, <1>6
  <2>2. t.index_r \in Nat /\ t.index_r >= s.index_r BY <1>3, <1>6 DEF number
  <2>3. CASE \E m, n \in F : m # n /\ Row(m) = Row(n)
    <3>1. s.cols >= 1 /\ \E j \in DOMAIN s.map : j[1] \in 1 .. s.index_r /\ j[2] = 1
      BY <1>1, <2>3 DEF CanDraw, F
    <3>2. PICK j \in DOMAIN s.map : j[1] \in 1 .. s.index_r /\ j[2] = 1 BY <3>1
    <3>3. j \in DOMAIN t.map BY <1>3, <1>15, <3>2
    <3>4. j[1] \in 1 .. t.index_r BY <1>6, <2>2, <3>2
    <3>5. t.cols >= 1 BY <1>6, <2>1, <3>1
    <3> QED BY <3>2, <3>3, <3>4, <3>5
  <2>4. CASE ~ \E m, n \in F : m # n /\ Row(m) = Row(n)
    <3>1. newcol /\ \E m \in F : Row(m) = Row(k)
      <4>1. PICK m, n \in Found(floor, k + 1) : m # n /\ Row(m) = Row(n) OBVIOUS
      <4>2. newcol BY <1>7, <2>4, <4>1
      <4>3. m \in F \cup {k} /\ n \in F \cup {k} BY <1>7, <4>1, <4>2
      <4> QED BY <2>4, <4>1, <4>2, <4>3
    <3>2. PICK m \in F : Row(m) = Row(k) BY <3>1
    <3>3. mine = {m}
      <4>1. m \in mine BY <3>2 DEF mine, InRow, F
      <4>2. ASSUME NEW n \in mine PROVE n = m
        <5>1. n \in F /\ Row(n) = Row(k) BY DEF mine, InRow, F
        <5> QED BY <2>4, <3>2, <5>1
      <4> QED BY <4>1, <4>2
    <3>4. s.index_c = 1
      <4>1. Cardinality({m}) = 1 BY FS_Singleton
      <4> QED BY <1>10, <3>3, <4>1
    <3>5. ~ newrow
      <4>1. m \in Before(floor, k) BY <3>2 DEF F, Found
      <4>2. Row(k) \in R BY <3>2, <4>1 DEF R, RowsBefore
      <4> QED BY <1>5, <4>2 DEF R
    <3>6. s.counter_c < Col(k)
      <4>1. s.counter_c = s.lastcol BY <1>1 DEF CountsRows
      <4> QED BY <1>5, <3>5, <4>1 DEF newrow
    <3>7. t.cols >= 1
      <4>1. s.counter_c \in Nat BY <1>1 DEF ScanType
      <4> QED BY <1>3, <1>6, <3>1, <3>6, <4>1
    <3>8. number >= 1
      <4>1. Row(k) \in R BY <1>5, <3>5
      <4>2. R # {} BY <4>1
      <4>3. s.index_r = Cardinality(R) /\ Cardinality(R) # 0
        <5>1. s.index_r = Cardinality(R) BY <1>1 DEF CountsRows, R
        <5> QED BY <1>8, <4>2, <5>1, FS_EmptySet
      <4> QED BY <1>6, <3>5, <4>3 DEF number
    <3>9. key \in DOMAIN t.map /\ key[1] \in 1 .. t.index_r /\ key[2] = 1
      <4>1. key[1] = number /\ key[2] = 1 BY <3>4 DEF key
      <4>2. number \in 1 .. t.index_r BY <1>3, <2>2, <3>8
      <4>3. key \in DOMAIN t.map BY <1>15, <3>1
      <4> QED BY <4>1, <4>2, <4>3
    <3> QED BY <3>7, <3>9
  <2> QED BY <2>3, <2>4
<1> QED BY <1>2, <1>16, <1>17, <1>18, <1>20, <1>21 DEF ScanMid, t

LEMMA ScanStartInv ==
    ASSUME NEW floor \in AllowedLayouts PROVE ScanInv(floor, ScanStart, 0)
<1>1. Before(floor, 0) = {}
  <2>1. \A m \in Shelves(floor) : m \in Nodes /\ m \in Int BY Place DEF Shelves
  <2>2. \A m \in Nodes : m >= 0 BY DEF Nodes
  <2> QED BY <2>1, <2>2 DEF Before
<1>2. RowsBefore(floor, 0) = {} /\ Found(floor, 0) = {} /\ \A r : InRow(floor, 0, r) = {}
  BY <1>1 DEF RowsBefore, Found, InRow
<1>3. Cardinality({}) = 0 BY FS_EmptySet
<1>4. ScanStart \in ScanType(floor) BY ScanStartType
<1>5. CountsRows(floor, ScanStart, 0) BY <1>2, <1>3 DEF CountsRows, ScanStart
<1>6. RemembersLast(floor, ScanStart, 0) BY <1>1 DEF RemembersLast, IsLast, ScanStart
<1>7. HasFound(floor, ScanStart, 0)
  <2>1. DOMAIN ScanStart.map = {} BY DEF ScanStart
  <2> QED BY <1>2, <2>1 DEF HasFound
<1>8. CountsInRow(floor, ScanStart, 0) BY <1>2, <1>3 DEF CountsInRow, ScanStart
<1>9. CanDraw(floor, ScanStart, 0) BY <1>2 DEF CanDraw
<1> QED BY <1>4, <1>5, <1>6, <1>7, <1>8, <1>9 DEF ScanInv

LEMMA ScanIsRight ==
    ASSUME NEW floor \in AllowedLayouts PROVE ScanInv(floor, Scan(floor), Rows * Cols)
<1> DEFINE N == Rows * Cols
<1>1. PICK q \in [0 .. N -> ScanType(floor)] :
              /\ q[0] = ScanStart /\ q[N] = Scan(floor)
              /\ \A k \in 1 .. N : q[k] = NextRow(ScanPlace(q[k - 1], k - 1, floor), k - 1)
  BY ScanStates
<1>2. N \in Nat /\ Nodes = 0 .. N - 1 BY SizeAssumption DEF Nodes
<1> HIDE DEF N
<1> DEFINE bad == {k \in 0 .. N : ~ ScanInv(floor, q[k], k)}
<1>3. bad = {}
  <2> SUFFICES ASSUME bad # {} PROVE FALSE OBVIOUS
  <2>1. bad \in SUBSET Nat OBVIOUS
  <2>2. PICK k \in bad : \A m \in bad : k =< m BY <2>1, LeastNatural
  <2>3. k # 0 BY <1>1, ScanStartInv
  <2> DEFINE j == k - 1
  <2>4. k \in 1 .. N /\ j \in 0 .. N /\ j \notin bad /\ j \in Nodes /\ j + 1 = k
    BY <1>2, <2>2, <2>3
  <2>5. ScanInv(floor, q[j], j) /\ q[j] \in ScanType(floor) BY <1>1, <2>4
  <2>6. q[k] = NextRow(ScanPlace(q[j], j, floor), j) BY <1>1, <2>4
  <2> HIDE DEF j
  <2> DEFINE s == q[j]
             t == ScanPlace(s, j, floor)
  <2>7. t \in ScanType(floor) BY <2>4, <2>5, ScanPlaceKeepsType
  <2>8. ScanMid(floor, t, j)
    <3>1. CASE floor[j] = "shelf"
      <4>1. t = ScanShelf(s, j) BY <3>1 DEF ScanPlace
      <4> QED BY <2>4, <2>5, <2>7, <3>1, <4>1, ShelfPlace
    <3>2. CASE floor[j] # "shelf" BY <2>4, <2>5, <2>7, <3>2, OtherPlace
    <3> QED BY <3>1, <3>2
  <2>9. ScanInv(floor, NextRow(t, j), j + 1) BY <2>4, <2>8, RowEnds
  <2>10. ScanInv(floor, q[k], k) BY <2>4, <2>6, <2>9
  <2> QED BY <2>2, <2>10
<1>4. N \in 0 .. N /\ N \notin bad BY <1>2, <1>3
<1>5. ScanInv(floor, q[N], N) BY <1>4
<1> QED BY <1>1, <1>5 DEF N

LEMMA PlannerInvShelves == PlannerInv => ShelvesAreFound
<1> SUFFICES ASSUME PlannerInv PROVE ShelvesAreFound
  OBVIOUS
<1> DEFINE N == Rows * Cols
           shelves == {n \in Nodes : layout[n] = "shelf"}
           found == {scan.map[key] : key \in DOMAIN scan.map}
<1>1. layout \in AllowedLayouts /\ scan = Scan(layout) BY DEF PlannerInv, FloorAsFound
<1>2. ScanInv(layout, scan, N) BY <1>1, ScanIsRight
<1>3. /\ CountsRows(layout, scan, N) /\ HasFound(layout, scan, N) /\ CanDraw(layout, scan, N)
  BY <1>2 DEF ScanInv
<1>4. shelves = Shelves(layout) BY DEF Shelves
<1> HIDE DEF shelves
<1>5. Before(layout, N) = Shelves(layout)
  <2>1. \A n \in Nodes : n < N BY SizeAssumption DEF Nodes
  <2> QED BY <2>1 DEF Before, Shelves
<1> HIDE DEF N
<1>6. found = Found(layout, N) BY <1>3 DEF HasFound
<1>7. Found(layout, N) = {n \in Shelves(layout) : ~ Passed(layout, n)} BY <1>5 DEF Found
<1> HIDE DEF found
<1>8. ASSUME NEW key \in DOMAIN scan.map
      PROVE  LET n == scan.map[key]
                 before == {m \in found : Row(m) = Row(n) /\ m < n}
             IN  /\ n \in shelves
                 /\ key = <<Cardinality({r \in ShelfRows : r <= Row(n)}), Cardinality(before)>>
  <2> DEFINE n == scan.map[key]
             before == {m \in found : Row(m) = Row(n) /\ m < n}
             upto == {r \in ShelfRows : r <= Row(n)}
  <2>1. n \in found BY DEF found
  <2>2. n \in Shelves(layout) /\ n \in Nodes /\ n \in Int BY <1>6, <1>7, <2>1, Place DEF Shelves
  <2>3. key = KeyOf(layout, n) BY <1>3 DEF HasFound
  <2> HIDE DEF n
  <2>4. before = InRow(layout, n, Row(n)) BY <1>6, <1>7 DEF InRow, Found, Before
  <2>5. upto = RowsBefore(layout, n + 1)
    <3>1. ShelfRows = {Row(m) : m \in Shelves(layout)} BY DEF ShelfRows, Shelves
    <3>2. \A m \in Shelves(layout) : m \in Nodes /\ m \in Int /\ Row(m) \in Int
      BY Place DEF Shelves
    <3>3. ASSUME NEW r \in upto PROVE r \in RowsBefore(layout, n + 1)
      <4>1. PICK m \in Shelves(layout) : r = Row(m) BY <3>1
      <4>2. Row(m) <= Row(n) BY <4>1
      <4>3. CASE m =< n
        <5>1. m < n + 1 BY <2>2, <3>2, <4>3
        <5> QED BY <4>1, <5>1 DEF RowsBefore, Before
      <4>4. CASE n =< m
        <5>1. Row(n) =< Row(m) BY <2>2, <3>2, <4>4, RowByRow
        <5>2. r = Row(n) BY <2>2, <3>2, <4>1, <4>2, <5>1
        <5>3. n < n + 1 BY <2>2
        <5> QED BY <2>2, <5>2, <5>3 DEF RowsBefore, Before
      <4> QED BY <2>2, <3>2, <4>3, <4>4
    <3>4. ASSUME NEW r \in RowsBefore(layout, n + 1) PROVE r \in upto
      <4>1. PICK m \in Shelves(layout) : m < n + 1 /\ r = Row(m) BY DEF RowsBefore, Before
      <4>2. m =< n BY <2>2, <3>2, <4>1
      <4>3. Row(m) <= Row(n) BY <2>2, <3>2, <4>2, RowByRow
      <4> QED BY <3>1, <4>1, <4>3
    <3> QED BY <3>3, <3>4
  <2> HIDE DEF before, upto
  <2>6. key = <<Cardinality(upto), Cardinality(before)>> BY <2>3, <2>4, <2>5 DEF KeyOf
  <2> QED BY <1>4, <2>2, <2>6 DEF n, before, upto
<1>9. shelves \ found =
        {n \in shelves : \E m \in shelves : /\ m < n /\ Col(m) = Col(n)
                                          /\ \A k \in shelves : k < n => k <= m}
  BY <1>4, <1>6, <1>7 DEF Passed
<1>10. ASSUME \E m, n \in found : m # n /\ Row(m) = Row(n) PROVE Drawable(scan) # {}
  <2>1. scan.cols >= 1 /\ \E key \in DOMAIN scan.map : key[1] \in 1 .. scan.index_r /\ key[2] = 1
    BY <1>3, <1>6, <1>10 DEF CanDraw
  <2>2. PICK key \in DOMAIN scan.map : key[1] \in 1 .. scan.index_r /\ key[2] = 1 BY <2>1
  <2>3. scan.rows = scan.index_r BY <1>3 DEF CountsRows
  <2>4. scan.cols \in Nat BY <1>2 DEF ScanInv, ScanType
  <2>5. key \in Drawable(scan) BY <2>1, <2>2, <2>3, <2>4 DEF Drawable
  <2> QED BY <2>5
<1> QED BY <1>8, <1>9, <1>10 DEF ShelvesAreFound, shelves, found

(* Whatever the floor, the shelves get their keys in order, row by row, and *)
(* those that the scan passes over are the ones in the column of the shelf  *)
(* just before them.  With two shelves of a row some shelf can be drawn.    *)
THEOREM ShelvesNumbered == Spec => []ShelvesAreFound
<1>1. FloorInv => ShelvesAreFound
  BY PlannerInvShelves DEF FloorInv
<1> QED BY <1>1, FloorInitInv, FloorStepInv, PTL DEF Spec

-----------------------------------------------------------------------------
(* The search.  Nodes enter the queue in the order of their depth: the     *)
(* steps on the way by which they were reached.  The first c of them have  *)
(* been the front.                                                         *)

LEMMA BesideBothWays ==
    ASSUME NEW m \in Nodes, NEW n \in Nodes, Beside(m, n)
    PROVE  Beside(n, m) /\ m # n
<1>1. Row(m) \in Int /\ Row(n) \in Int /\ Col(m) \in Int /\ Col(n) \in Int BY Place
<1>2. Abs(Row(m) - Row(n)) = Abs(Row(n) - Row(m)) /\ Abs(Col(m) - Col(n)) = Abs(Col(n) - Col(m))
  BY <1>1 DEF Abs
<1>3. m = n => Abs(Row(m) - Row(n)) = 0 /\ Abs(Col(m) - Col(n)) = 0 BY <1>1 DEF Abs
<1> QED BY <1>2, <1>3 DEF Beside

\* The four places beside another
LEMMA FourBeside ==
    ASSUME NEW m \in Nodes, NEW n \in Nodes, Beside(m, n)
    PROVE  m \in {n - 1, n + 1, n - Cols, n + Cols}
<1> DEFINE r == Row(m)
           s == Row(n)
           c == Col(m)
           d == Col(n)
<1>1. /\ r \in Int /\ s \in Int /\ c \in Int /\ d \in Int /\ Cols \in Int
      /\ m = r * Cols + c /\ n = s * Cols + d
  BY Place, SizeAssumption
<1>2. Abs(r - s) + Abs(c - d) = 1 BY DEF Beside
<1> HIDE DEF r, s, c, d
<1>3. \/ r = s /\ c = d + 1
      \/ r = s /\ c = d - 1
      \/ r = s + 1 /\ c = d
      \/ r = s - 1 /\ c = d
  BY <1>1, <1>2 DEF Abs
<1> DEFINE sc == s * Cols
<1>4. sc \in Int BY <1>1
<1>5. (s + 1) * Cols = sc + Cols /\ (s - 1) * Cols = sc - Cols BY <1>1
<1> HIDE DEF sc
<1>6. n = sc + d BY <1>1 DEF sc
<1>7. CASE r = s
  <2>1. m = sc + c BY <1>1, <1>7 DEF sc
  <2> QED BY <1>1, <1>3, <1>4, <1>6, <1>7, <2>1
<1>8. CASE r = s + 1 /\ c = d
  <2>1. m = (sc + Cols) + d BY <1>1, <1>5, <1>8
  <2> QED BY <1>1, <1>4, <1>6, <2>1
<1>9. CASE r = s - 1 /\ c = d
  <2>1. m = (sc - Cols) + d BY <1>1, <1>5, <1>9
  <2> QED BY <1>1, <1>4, <1>6, <2>1
<1> QED BY <1>3, <1>7, <1>8, <1>9

Ways == [Nodes -> {0, 1}]

\* Entry i comes from one before it, a step nearer to the start.
ComesFrom(queue, depth, i) ==
    \E p \in 1 .. i - 1 : /\ queue[p].node = queue[i].origin
                          /\ Beside(queue[i].node, queue[p].node)
                          /\ depth[i] = depth[p] + 1

\* Place m has been reached, at most so deep.
Reached(queue, depth, m, deep) ==
    \E j \in 1 .. Len(queue) : queue[j].node = m /\ depth[j] =< deep

Queued(mz, iStart, queue, depth) ==
    /\ queue \in Seq(Entry) /\ depth \in [1 .. Len(queue) -> Nat]
    /\ Len(queue) >= 1 /\ queue[1] = [node |-> iStart, origin |-> -1] /\ depth[1] = 0
    /\ \A i \in 1 .. Len(queue) : queue[i].node \in Open(mz)
    /\ \A i, j \in 1 .. Len(queue) : queue[i].node = queue[j].node => i = j
    /\ \A i, j \in 1 .. Len(queue) : i < j => depth[i] =< depth[j]
    /\ \A i \in 2 .. Len(queue) : ComesFrom(queue, depth, i)

\* The places beside the first c entries have been reached, ...
Expanded(mz, queue, depth, c) ==
    \A i \in 1 .. c : \A m \in Open(mz) :
        Beside(m, queue[i].node) => Reached(queue, depth, m, depth[i] + 1)

\* ... and nothing is two steps deeper than the front.
Level(queue, depth, c) ==
    c < Len(queue) => \A j \in 1 .. Len(queue) : depth[j] =< depth[c + 1] + 1

Searched(mz, iStart, queue, depth, c) ==
    /\ c \in 0 .. Len(queue)
    /\ Queued(mz, iStart, queue, depth)
    /\ Expanded(mz, queue, depth, c) /\ Level(queue, depth, c)

\* The same while the front is being expanded: some places beside it are known.
Seen(mz, queue, depth, c, seen) ==
    \A m \in seen \cap Open(mz) :
        Beside(m, queue[c + 1].node) => Reached(queue, depth, m, depth[c + 1] + 1)

SeenFrom(mz, iStart, queue, depth, c, seen, n) ==
    /\ Searched(mz, iStart, queue, depth, c) /\ c < Len(queue)
    /\ Seen(mz, queue, depth, c, seen) /\ queue[c + 1].node = n

LEMMA VisitKeeps ==
    ASSUME NEW mz, NEW iStart, NEW queue, NEW depth, NEW c, NEW seen, NEW n, NEW m,
           SeenFrom(mz, iStart, queue, depth, c, seen, n)
    PROVE  \E d : SeenFrom(mz, iStart, Visit(mz, queue, n, m), d, c, seen \cup {m}, n)
<1> DEFINE new == Visit(mz, queue, n, m)
           entry == [node |-> m, origin |-> n]
           L == Len(queue)
<1>0. /\ Searched(mz, iStart, queue, depth, c) /\ c < L
      /\ Seen(mz, queue, depth, c, seen) /\ n = queue[c + 1].node
  BY DEF SeenFrom
<1>1. /\ c \in 0 .. L /\ Queued(mz, iStart, queue, depth)
      /\ Expanded(mz, queue, depth, c) /\ Level(queue, depth, c)
  BY <1>0 DEF Searched
<1>2. /\ queue \in Seq(Entry) /\ depth \in [1 .. L -> Nat]
      /\ L >= 1 /\ queue[1] = [node |-> iStart, origin |-> -1] /\ depth[1] = 0
      /\ \A i \in 1 .. L : queue[i].node \in Open(mz)
      /\ \A i, j \in 1 .. L : queue[i].node = queue[j].node => i = j
      /\ \A i, j \in 1 .. L : i < j => depth[i] =< depth[j]
      /\ \A i \in 2 .. L : ComesFrom(queue, depth, i)
  BY <1>1 DEF Queued
<1>3. L \in Nat /\ c + 1 \in 1 .. L /\ DOMAIN queue = 1 .. L BY <1>0, <1>1, <1>2
<1>4. n \in Open(mz) /\ n \in Nodes BY <1>0, <1>2, <1>3 DEF Open
<1>5. CASE ~ (m \in Nodes /\ Beside(m, n) /\ mz[m] = 0 /\ \A k \in DOMAIN queue : queue[k].node # m)
  <2>1. new = queue BY <1>5 DEF Visit
  <2>2. Seen(mz, queue, depth, c, seen \cup {m})
    <3>1. ASSUME m \in Open(mz), Beside(m, n) PROVE Reached(queue, depth, m, depth[c + 1] + 1)
      <4>1. PICK k \in 1 .. L : queue[k].node = m BY <1>3, <1>5, <3>1 DEF Open
      <4>2. depth[k] =< depth[c + 1] + 1 BY <1>0, <1>1, <4>1 DEF Level
      <4> QED BY <4>1, <4>2 DEF Reached
    <3> QED BY <1>0, <3>1 DEF Seen
  <2> QED BY <1>0, <2>1, <2>2 DEF SeenFrom
<1>6. CASE m \in Nodes /\ Beside(m, n) /\ mz[m] = 0 /\ \A k \in DOMAIN queue : queue[k].node # m
  <2> DEFINE d == [j \in 1 .. L + 1 |-> IF j = L + 1 THEN depth[c + 1] + 1 ELSE depth[j]]
  <2>1. new = Append(queue, entry) BY <1>6 DEF Visit
  <2>2. entry \in Entry BY <1>4, <1>6 DEF Entry
  <2>3. entry.node = m /\ entry.origin = n OBVIOUS
  <2> HIDE DEF new, entry
  <2>4. /\ new \in Seq(Entry) /\ Len(new) = L + 1 /\ new[L + 1] = entry
        /\ \A j \in 1 .. L : new[j] = queue[j]
    BY <1>2, <1>3, <2>1, <2>2
  <2>5. depth[c + 1] \in Nat BY <1>2, <1>3
  <2>6. d \in [1 .. L + 1 -> Nat] BY <1>2, <1>3, <2>5
  <2>7. d[L + 1] = depth[c + 1] + 1 /\ \A j \in 1 .. L : d[j] = depth[j] BY <1>3
  <2> HIDE DEF d
  <2>8. m \in Open(mz) BY <1>6 DEF Open
  <2>9. \A j \in 1 .. L : depth[j] =< d[L + 1] BY <1>0, <1>1, <2>7 DEF Level
  <2>10. Queued(mz, iStart, new, d)
    <3>1. new[1] = [node |-> iStart, origin |-> -1] /\ d[1] = 0 /\ Len(new) >= 1
      BY <1>2, <1>3, <2>4, <2>7
    <3>2. ASSUME NEW i \in 1 .. L + 1 PROVE new[i].node \in Open(mz)
      BY <1>2, <1>3, <2>3, <2>4, <2>8
    <3>3. ASSUME NEW i \in 1 .. L + 1, NEW j \in 1 .. L + 1, new[i].node = new[j].node
          PROVE  i = j
      <4>1. CASE i \in 1 .. L /\ j \in 1 .. L BY <1>2, <2>4, <3>3, <4>1
      <4>2. CASE i = L + 1 /\ j \in 1 .. L BY <1>3, <1>6, <2>3, <2>4, <3>3, <4>2
      <4>3. CASE j = L + 1 /\ i \in 1 .. L BY <1>3, <1>6, <2>3, <2>4, <3>3, <4>3
      <4> QED BY <1>3, <4>1, <4>2, <4>3
    <3>4. ASSUME NEW i \in 1 .. L + 1, NEW j \in 1 .. L + 1, i < j PROVE d[i] =< d[j]
      <4>1. i \in 1 .. L BY <1>3, <3>4
      <4>2. CASE j \in 1 .. L BY <1>2, <2>7, <3>4, <4>1, <4>2
      <4>3. CASE j = L + 1 BY <2>7, <2>9, <4>1, <4>3
      <4> QED BY <1>3, <4>2, <4>3
    <3>5. ASSUME NEW i \in 2 .. L + 1 PROVE ComesFrom(new, d, i)
      <4>1. CASE i \in 2 .. L
        <5>1. PICK p \in 1 .. i - 1 : /\ queue[p].node = queue[i].origin
                                      /\ Beside(queue[i].node, queue[p].node)
                                      /\ depth[i] = depth[p] + 1
          BY <1>2, <4>1 DEF ComesFrom
        <5>2. p \in 1 .. L /\ i \in 1 .. L BY <1>3, <4>1
        <5> QED BY <2>4, <2>7, <5>1, <5>2 DEF ComesFrom
      <4>2. CASE i = L + 1
        <5>1. c + 1 \in 1 .. i - 1 BY <1>3, <4>2
        <5>2. new[c + 1].node = n /\ d[c + 1] = depth[c + 1] BY <1>0, <1>3, <2>4, <2>7
        <5> QED BY <1>6, <2>3, <2>4, <2>7, <4>2, <5>1, <5>2 DEF ComesFrom
      <4> QED BY <1>3, <4>1, <4>2
    <3> QED BY <2>4, <2>6, <3>1, <3>2, <3>3, <3>4, <3>5 DEF Queued
  <2>11. ASSUME NEW x, NEW deep, Reached(queue, depth, x, deep) PROVE Reached(new, d, x, deep)
    <3>1. PICK j \in 1 .. L : queue[j].node = x /\ depth[j] =< deep BY <2>11 DEF Reached
    <3>2. j \in 1 .. L + 1 BY <1>3
    <3> QED BY <2>4, <2>7, <3>1, <3>2 DEF Reached
  <2>12. Expanded(mz, new, d, c)
    <3>1. ASSUME NEW i \in 1 .. c, NEW x \in Open(mz), Beside(x, new[i].node)
          PROVE  Reached(new, d, x, d[i] + 1)
      <4>1. i \in 1 .. L BY <1>1, <1>3
      <4>2. Reached(queue, depth, x, depth[i] + 1) BY <1>1, <2>4, <3>1, <4>1 DEF Expanded
      <4> QED BY <2>7, <2>11, <4>1, <4>2
    <3> QED BY <3>1 DEF Expanded
  <2>13. Level(new, d, c)
    <3>1. d[c + 1] = depth[c + 1] BY <1>3, <2>7
    <3>2. ASSUME NEW j \in 1 .. L + 1 PROVE d[j] =< d[c + 1] + 1
      <4>1. CASE j \in 1 .. L BY <1>0, <1>1, <2>7, <3>1, <4>1 DEF Level
      <4>2. CASE j = L + 1 BY <2>5, <2>7, <3>1, <4>2
      <4> QED BY <1>3, <4>1, <4>2
    <3> QED BY <2>4, <3>2 DEF Level
  <2>14. Seen(mz, new, d, c, seen \cup {m})
    <3>1. d[c + 1] = depth[c + 1] /\ new[c + 1] = queue[c + 1] BY <1>3, <2>4, <2>7
    <3>2. ASSUME NEW x \in seen \cap Open(mz), Beside(x, new[c + 1].node)
          PROVE  Reached(new, d, x, d[c + 1] + 1)
      <4>1. Reached(queue, depth, x, depth[c + 1] + 1) BY <1>0, <3>1, <3>2 DEF Seen
      <4> QED BY <2>11, <3>1, <4>1
    <3>3. Reached(new, d, m, d[c + 1] + 1)
      <4>1. L + 1 \in 1 .. Len(new) BY <1>3, <2>4
      <4>2. d[L + 1] =< d[c + 1] + 1 BY <2>5, <2>7, <3>1
      <4> QED BY <2>3, <2>4, <4>1, <4>2 DEF Reached
    <3> QED BY <3>2, <3>3 DEF Seen
  <2>15. c \in 0 .. Len(new) /\ c < Len(new) /\ new[c + 1].node = n
    <3>1. c \in 0 .. L + 1 /\ c < L + 1 BY <1>0, <1>1, <1>3
    <3>2. new[c + 1] = queue[c + 1] BY <1>3, <2>4
    <3> QED BY <1>0, <2>4, <3>1, <3>2
  <2>16. Searched(mz, iStart, new, d, c) BY <2>10, <2>12, <2>13, <2>15 DEF Searched
  <2> QED BY <2>14, <2>15, <2>16 DEF SeenFrom, new
<1> QED BY <1>5, <1>6

LEMMA ExpandKeeps ==
    ASSUME NEW mz \in Ways, NEW iStart \in Open(mz), NEW queue, NEW depth, NEW c,
           Searched(mz, iStart, queue, depth, c), c < Len(queue)
    PROVE  \E d : Searched(mz, iStart, Expand(mz, queue, queue[c + 1].node), d, c + 1)
<1> DEFINE n == queue[c + 1].node
           left == Visit(mz, queue, n, n - 1)
           right == Visit(mz, left, n, n + 1)
           top == Visit(mz, right, n, n - Cols)
           bottom == Visit(mz, top, n, n + Cols)
           four == (({} \cup {n - 1}) \cup {n + 1}) \cup {n - Cols}
<1>1. SeenFrom(mz, iStart, queue, depth, c, {}, n) BY DEF Seen, SeenFrom
<1>2. Expand(mz, queue, n) = bottom BY DEF Expand
<1>3. \E d : SeenFrom(mz, iStart, left, d, c, {} \cup {n - 1}, n)
  BY ONLY <1>1, VisitKeeps
<1>4. PICK d1 : SeenFrom(mz, iStart, left, d1, c, {} \cup {n - 1}, n) BY <1>3
<1>5. \E d : SeenFrom(mz, iStart, right, d, c, ({} \cup {n - 1}) \cup {n + 1}, n)
  BY ONLY <1>4, VisitKeeps
<1>6. PICK d2 : SeenFrom(mz, iStart, right, d2, c, ({} \cup {n - 1}) \cup {n + 1}, n) BY <1>5
<1>7. \E d : SeenFrom(mz, iStart, top, d, c, four, n)
  BY ONLY <1>6, VisitKeeps
<1>8. PICK d3 : SeenFrom(mz, iStart, top, d3, c, four, n) BY <1>7
<1>9. \E d : SeenFrom(mz, iStart, bottom, d, c, four \cup {n + Cols}, n)
  BY ONLY <1>8, VisitKeeps
<1>10. PICK d : SeenFrom(mz, iStart, bottom, d, c, four \cup {n + Cols}, n) BY <1>9
<1> HIDE DEF bottom
<1> DEFINE L == Len(bottom)
<1>11. /\ Searched(mz, iStart, bottom, d, c) /\ c < L
       /\ Seen(mz, bottom, d, c, four \cup {n + Cols}) /\ bottom[c + 1].node = n
  BY <1>10 DEF SeenFrom
<1>12. /\ c \in 0 .. L /\ Queued(mz, iStart, bottom, d) /\ Expanded(mz, bottom, d, c)
       /\ Level(bottom, d, c)
  BY <1>11 DEF Searched
<1>13. /\ bottom \in Seq(Entry) /\ d \in [1 .. L -> Nat]
       /\ \A i \in 1 .. L : bottom[i].node \in Open(mz)
       /\ \A i, j \in 1 .. L : i < j => d[i] =< d[j]
  BY <1>12 DEF Queued
<1>14. L \in Nat /\ c + 1 \in 1 .. L BY <1>11, <1>12, <1>13
<1>15. Expanded(mz, bottom, d, c + 1)
  <2>1. ASSUME NEW i \in 1 .. c + 1, NEW m \in Open(mz), Beside(m, bottom[i].node)
        PROVE  Reached(bottom, d, m, d[i] + 1)
    <3>1. CASE i \in 1 .. c BY <1>12, <2>1, <3>1 DEF Expanded
    <3>2. CASE i = c + 1
      <4>1. m \in Nodes /\ n \in Nodes BY <1>11, <1>13, <1>14 DEF Open
      <4>2. m \in {n - 1, n + 1, n - Cols, n + Cols} BY <1>11, <2>1, <3>2, <4>1, FourBeside
      <4>3. m \in four \cup {n + Cols} BY <4>2
      <4> QED BY <1>11, <2>1, <3>2, <4>3 DEF Seen
    <3> QED BY <1>12, <3>1, <3>2
  <2> QED BY <2>1 DEF Expanded
<1>16. Level(bottom, d, c + 1)
  <2> SUFFICES ASSUME c + 1 < L, NEW j \in 1 .. L PROVE d[j] =< d[c + 1 + 1] + 1
    BY DEF Level
  <2>1. c + 1 + 1 \in 1 .. L /\ c + 1 < c + 1 + 1 BY <1>12, <1>14
  <2>2. d[j] =< d[c + 1] + 1 BY <1>11, <1>12 DEF Level
  <2>3. d[c + 1] =< d[c + 1 + 1] BY <1>13, <1>14, <2>1
  <2>4. d[j] \in Nat /\ d[c + 1] \in Nat /\ d[c + 1 + 1] \in Nat BY <1>13, <1>14, <2>1
  <2> QED BY <2>2, <2>3, <2>4
<1>17. c + 1 \in 0 .. L BY <1>14
<1>18. Searched(mz, iStart, bottom, d, c + 1) BY <1>12, <1>15, <1>16, <1>17 DEF Searched
<1> QED BY <1>2, <1>18

\* After so many turns: the search has got to the turn, or it has found iStop in
\* front, or it has come to the end of the queue.
Stopped(queue, iStop, c, k) ==
    /\ \A i \in 1 .. c : queue[i].node # iStop
    /\ c = k \/ c = Len(queue) \/ (c < Len(queue) /\ queue[c + 1].node = iStop)

TurnInv(mz, iStart, iStop, queue, k) ==
    \E depth, c : /\ Searched(mz, iStart, queue, depth, c)
                  /\ c =< k /\ Stopped(queue, iStop, c, k)

\* Entries that have been the front are not changed.
LEMMA ExpandAppends ==
    ASSUME NEW mz, NEW queue \in Seq(Entry), NEW n \in Nodes
    PROVE  LET new == Expand(mz, queue, n)
           IN  /\ new \in Seq(Entry) /\ Len(new) >= Len(queue)
               /\ \A i \in 1 .. Len(queue) : new[i] = queue[i]
<1>1. ASSUME NEW q \in Seq(Entry), NEW m
      PROVE  LET new == Visit(mz, q, n, m)
             IN  /\ new \in Seq(Entry) /\ Len(new) >= Len(q)
                 /\ \A i \in 1 .. Len(q) : new[i] = q[i]
  <2> DEFINE entry == [node |-> m, origin |-> n]
  <2>1. CASE Visit(mz, q, n, m) = q BY <2>1
  <2>2. CASE m \in Nodes /\ Visit(mz, q, n, m) = Append(q, entry)
    <3>1. entry \in Entry BY <2>2 DEF Entry
    <3> HIDE DEF entry
    <3> QED BY <2>2, <3>1
  <2> QED BY <2>1, <2>2 DEF Visit
<1> DEFINE left == Visit(mz, queue, n, n - 1)
           right == Visit(mz, left, n, n + 1)
           top == Visit(mz, right, n, n - Cols)
           bottom == Visit(mz, top, n, n + Cols)
<1>2. Expand(mz, queue, n) = bottom BY DEF Expand
<1>3. /\ left \in Seq(Entry) /\ Len(left) >= Len(queue)
      /\ \A i \in 1 .. Len(queue) : left[i] = queue[i]
  BY <1>1
<1> HIDE DEF left
<1>4. /\ right \in Seq(Entry) /\ Len(right) >= Len(left)
      /\ \A i \in 1 .. Len(left) : right[i] = left[i]
  BY <1>1, <1>3
<1> HIDE DEF right
<1>5. /\ top \in Seq(Entry) /\ Len(top) >= Len(right)
      /\ \A i \in 1 .. Len(right) : top[i] = right[i]
  BY <1>1, <1>4
<1> HIDE DEF top
<1>6. /\ bottom \in Seq(Entry) /\ Len(bottom) >= Len(top)
      /\ \A i \in 1 .. Len(top) : bottom[i] = top[i]
  BY <1>1, <1>5
<1> HIDE DEF bottom
<1>7. /\ Len(queue) \in Nat /\ Len(left) \in Nat /\ Len(right) \in Nat /\ Len(top) \in Nat
      /\ Len(bottom) \in Nat
  BY <1>3, <1>4, <1>5, <1>6
<1>8. ASSUME NEW i \in 1 .. Len(queue) PROVE bottom[i] = queue[i]
  <2>1. i \in 1 .. Len(left) /\ i \in 1 .. Len(right) /\ i \in 1 .. Len(top)
    BY <1>3, <1>4, <1>5, <1>7
  <2> QED BY <1>3, <1>4, <1>5, <1>6, <2>1
<1>9. Len(bottom) >= Len(queue) BY <1>3, <1>4, <1>5, <1>6, <1>7
<1> QED BY <1>2, <1>6, <1>8, <1>9

LEMMA TurnKeeps ==
    ASSUME NEW mz \in Ways, NEW iStart \in Open(mz), NEW iStop, NEW queue, NEW k \in Nat \ {0},
           TurnInv(mz, iStart, iStop, queue, k - 1)
    PROVE  TurnInv(mz, iStart, iStop, Turn(mz, iStop, queue, k), k)
<1>1. PICK depth, c : /\ Searched(mz, iStart, queue, depth, c)
                      /\ c =< k - 1 /\ Stopped(queue, iStop, c, k - 1)
  BY DEF TurnInv
<1> DEFINE L == Len(queue)
<1>2. /\ c \in 0 .. L /\ queue \in Seq(Entry) /\ L \in Nat
      /\ \A i \in 1 .. L : queue[i].node \in Nodes
  BY <1>1 DEF Searched, Queued, Open
<1>3. CASE c = L
  <2>1. k > L BY <1>1, <1>2, <1>3
  <2>2. Turn(mz, iStop, queue, k) = queue BY <2>1 DEF Turn
  <2>3. Stopped(queue, iStop, c, k) BY <1>1, <1>3 DEF Stopped
  <2>4. c =< k BY <1>1, <1>2
  <2> QED BY <1>1, <2>2, <2>3, <2>4 DEF TurnInv
<1>4. CASE c < L /\ queue[c + 1].node = iStop
  <2>1. c + 1 \in 1 .. k BY <1>1, <1>2
  <2>2. Turn(mz, iStop, queue, k) = queue BY <1>4, <2>1 DEF Turn
  <2>3. Stopped(queue, iStop, c, k) BY <1>1, <1>4 DEF Stopped
  <2>4. c =< k BY <1>1, <1>2
  <2> QED BY <1>1, <2>2, <2>3, <2>4 DEF TurnInv
<1>5. CASE c < L /\ queue[c + 1].node # iStop /\ c = k - 1
  <2>1. c + 1 = k /\ ~ (k > L) /\ k \in 1 .. L BY <1>2, <1>5
  <2>2. \A i \in 1 .. k : queue[i].node # iStop
    <3>1. \A i \in 1 .. c : queue[i].node # iStop BY <1>1 DEF Stopped
    <3>2. \A i \in 1 .. k : i \in 1 .. c \/ i = c + 1 BY <1>2, <2>1
    <3> QED BY <1>5, <3>1, <3>2
  <2> DEFINE n == queue[k].node
             new == Expand(mz, queue, n)
  <2>3. Turn(mz, iStop, queue, k) = new BY <2>1, <2>2 DEF Turn
  <2>4. n \in Nodes BY <1>2, <2>1
  <2>5. \E d : Searched(mz, iStart, new, d, c + 1) BY <1>1, <1>5, <2>1, ExpandKeeps
  <2>6. PICK d : Searched(mz, iStart, new, d, k) BY <2>1, <2>5
  <2>7. \A i \in 1 .. L : new[i] = queue[i] BY <1>2, <2>4, ExpandAppends
  <2> HIDE DEF new, n
  <2>8. \A i \in 1 .. k : new[i].node # iStop
    <3>1. \A i \in 1 .. k : i \in 1 .. L BY <1>2, <2>1
    <3> QED BY <2>2, <2>7, <3>1
  <2>9. Stopped(new, iStop, k, k) BY <2>8 DEF Stopped
  <2>10. k =< k OBVIOUS
  <2> QED BY <2>3, <2>6, <2>9, <2>10 DEF TurnInv
<1> QED BY <1>1, <1>2, <1>3, <1>4, <1>5 DEF Stopped

\* The end of the search: all entries have been the front, or iStop is there.
SearchEnd(mz, iStart, iStop, queue, depth, c) ==
    /\ Searched(mz, iStart, queue, depth, c)
    /\ \A i \in 1 .. c : queue[i].node # iStop
    /\ c = Len(queue) \/ (c < Len(queue) /\ queue[c + 1].node = iStop)

\* There is an entry at most for every open place.
LEMMA QueueFits ==
    ASSUME NEW mz, NEW iStart, NEW queue, NEW depth, Queued(mz, iStart, queue, depth)
    PROVE  Len(queue) =< Turns(mz)
<1> DEFINE S == 1 .. Len(queue)
           f == [i \in S |-> queue[i].node]
<1>1. f \in [S -> Open(mz)] BY DEF Queued
<1>2. \A i, j \in S : f[i] = f[j] => i = j BY DEF Queued
<1>3. f \in Injection(S, Open(mz)) BY <1>1, <1>2 DEF Injection, IsInjective
<1>4. IsFiniteSet(Open(mz)) BY TurnsNat
<1>5. Cardinality(S) =< Cardinality(Open(mz)) BY <1>3, <1>4, FS_Injection
<1>6. Len(queue) \in Nat BY DEF Queued
<1>7. Cardinality(S) = Len(queue)
  <2>1. Cardinality(S) = IF 1 > Len(queue) THEN 0 ELSE Len(queue) - 1 + 1 BY <1>6, FS_Interval
  <2> QED BY <1>6, <2>1
<1> QED BY <1>5, <1>7 DEF Turns

LEMMA FirstTurn ==
    ASSUME NEW mz \in Ways, NEW iStart \in Open(mz), NEW iStop
    PROVE  TurnInv(mz, iStart, iStop, SearchStart(iStart), 0)
<1> DEFINE first == [node |-> iStart, origin |-> -1]
           queue == SearchStart(iStart)
           depth == [i \in 1 .. 1 |-> 0]
<1>1. iStart \in Nodes BY DEF Open
<1>2. first \in Entry /\ first.node = iStart BY <1>1 DEF Entry
<1> HIDE DEF first
<1>3. queue \in Seq(Entry) /\ Len(queue) = 1 /\ queue[1] = first
  BY <1>2 DEF SearchStart, first
<1> HIDE DEF queue
<1>4. depth \in [1 .. 1 -> Nat] /\ depth[1] = 0 OBVIOUS
<1> HIDE DEF depth
<1>5. \A i \in 1 .. 1 : i = 1 OBVIOUS
<1>6. 2 .. 1 = {} /\ 1 .. 0 = {} OBVIOUS
<1>7. Queued(mz, iStart, queue, depth)
  <2>1. \A i \in 1 .. 1 : queue[i].node \in Open(mz) BY <1>2, <1>3, <1>5
  <2>2. \A i, j \in 1 .. 1 : i < j => depth[i] =< depth[j] BY <1>5
  <2>3. \A i \in 2 .. 1 : ComesFrom(queue, depth, i) BY <1>6
  <2>4. \A i, j \in 1 .. 1 : queue[i].node = queue[j].node => i = j BY <1>5
  <2>5. queue[1] = [node |-> iStart, origin |-> -1] BY <1>3 DEF first
  <2>6. Len(queue) >= 1 BY <1>3
  <2> QED BY <1>3, <1>4, <2>1, <2>2, <2>3, <2>4, <2>5, <2>6 DEF Queued
<1>8. Expanded(mz, queue, depth, 0) BY <1>6 DEF Expanded
<1>9. Level(queue, depth, 0)
  <2>1. \A j \in 1 .. 1 : depth[j] =< depth[0 + 1] + 1 BY <1>4, <1>5
  <2> QED BY <1>3, <2>1 DEF Level
<1>10. 0 \in 0 .. Len(queue) BY <1>3
<1>11. Searched(mz, iStart, queue, depth, 0) BY <1>7, <1>8, <1>9, <1>10 DEF Searched
<1>12. Stopped(queue, iStop, 0, 0) BY <1>6 DEF Stopped
<1>13. 0 =< 0 OBVIOUS
<1> QED BY <1>11, <1>12, <1>13 DEF TurnInv, queue

LEMMA SearchIsRight ==
    ASSUME NEW mz \in Ways, NEW iStart \in Open(mz), NEW iStop
    PROVE  \E depth, c :
              SearchEnd(mz, iStart, iStop, Queue(mz, iStart, iStop), depth, c)
<1> DEFINE N == Turns(mz)
           queue == Queue(mz, iStart, iStop)
<1>1. N \in Nat BY TurnsNat
<1>2. iStart \in Nodes BY DEF Open
<1>3. PICK q : SearchStates(q, mz, iStart, iStop) BY <1>2, Searching
<1>4. /\ q[0] = SearchStart(iStart) /\ q[N] = queue
      /\ \A k \in 1 .. N : q[k] = Turn(mz, iStop, q[k - 1], k)
  BY <1>3 DEF SearchStates
<1> DEFINE bad == {k \in 0 .. N : ~ TurnInv(mz, iStart, iStop, q[k], k)}
<1>5. bad = {}
  <2> SUFFICES ASSUME bad # {} PROVE FALSE OBVIOUS
  <2>1. bad \in SUBSET Nat BY <1>1
  <2>2. PICK k \in bad : \A m \in bad : k =< m BY <2>1, LeastNatural
  <2>3. k # 0 BY <1>4, FirstTurn
  <2>4. k \in 1 .. N /\ k \in Nat \ {0} BY <1>1, <2>3
  <2>5. k - 1 \notin bad /\ k - 1 \in 0 .. N BY <1>1, <2>2, <2>4
  <2>6. TurnInv(mz, iStart, iStop, q[k - 1], k - 1) BY <2>5
  <2>7. TurnInv(mz, iStart, iStop, Turn(mz, iStop, q[k - 1], k), k)
    BY <2>4, <2>6, TurnKeeps
  <2>8. TurnInv(mz, iStart, iStop, q[k], k) BY <1>4, <2>4, <2>7
  <2> QED BY <2>8
<1>6. TurnInv(mz, iStart, iStop, queue, N)
  <2>1. N \in 0 .. N BY <1>1
  <2> QED BY <1>4, <1>5, <2>1
<1> HIDE DEF queue
<1>7. PICK depth, c : /\ Searched(mz, iStart, queue, depth, c)
                      /\ c =< N /\ Stopped(queue, iStop, c, N)
  BY <1>6 DEF TurnInv
<1>8. c \in 0 .. Len(queue) /\ Queued(mz, iStart, queue, depth) BY <1>7 DEF Searched
<1>9. Len(queue) =< N /\ Len(queue) \in Nat
  <2>1. Len(queue) \in Nat BY <1>8 DEF Queued
  <2> QED BY <1>8, <2>1, QueueFits
<1>10. c = N => c = Len(queue) BY <1>1, <1>8, <1>9
<1>11. SearchEnd(mz, iStart, iStop, queue, depth, c) BY <1>7, <1>10 DEF SearchEnd, Stopped
<1> QED BY <1>11 DEF queue
-----------------------------------------------------------------------------
(* The places within so many steps, against those that the search has found. *)

\* Depths go up by one at most, from 0.
LEMMA DepthOfEntry ==
    ASSUME NEW mz, NEW iStart, NEW queue, NEW depth, Queued(mz, iStart, queue, depth)
    PROVE  \A j \in 1 .. Len(queue) : depth[j] =< j - 1
<1> DEFINE L == Len(queue)
           bad == {j \in 1 .. L : ~ (depth[j] =< j - 1)}
<1>1. depth \in [1 .. L -> Nat] /\ depth[1] = 0 /\ L \in Nat
      /\ \A i \in 2 .. L : ComesFrom(queue, depth, i)
  BY DEF Queued
<1>2. bad = {}
  <2> SUFFICES ASSUME bad # {} PROVE FALSE OBVIOUS
  <2>1. bad \in SUBSET Nat OBVIOUS
  <2>2. PICK j \in bad : \A m \in bad : j =< m BY <2>1, LeastNatural
  <2>3. j \in 2 .. L BY <1>1, <2>2
  <2>4. PICK p \in 1 .. j - 1 : depth[j] = depth[p] + 1 BY <1>1, <2>3 DEF ComesFrom
  <2>5. p \in 1 .. L /\ p \notin bad BY <1>1, <2>2, <2>3, <2>4
  <2>6. depth[p] =< p - 1 BY <2>5
  <2>7. depth[p] \in Nat BY <1>1, <2>5
  <2>8. depth[j] =< j - 1 BY <2>3, <2>4, <2>6, <2>7
  <2> QED BY <2>8
<1> QED BY <1>2

LEMMA DepthsFilled ==
    ASSUME NEW mz, NEW iStart, NEW queue, NEW depth, Queued(mz, iStart, queue, depth),
           NEW i \in 1 .. Len(queue), NEW k \in 1 .. depth[i]
    PROVE  \E j \in 1 .. Len(queue) : depth[j] = k
<1> DEFINE L == Len(queue)
           deep == {j \in 1 .. L : depth[j] >= k}
<1>1. depth \in [1 .. L -> Nat] /\ depth[1] = 0 /\ L \in Nat
      /\ \A m \in 2 .. L : ComesFrom(queue, depth, m)
  BY DEF Queued
<1>2. depth[i] \in Nat BY <1>1
<1>3. i \in deep BY <1>2
<1>4. deep \in SUBSET Nat OBVIOUS
<1>5. PICK j \in deep : \A m \in deep : j =< m BY <1>3, <1>4, LeastNatural
<1>6. j \in 2 .. L BY <1>1, <1>2, <1>5
<1>7. PICK p \in 1 .. j - 1 : depth[j] = depth[p] + 1 BY <1>1, <1>6 DEF ComesFrom
<1>8. p \in 1 .. L /\ p \notin deep BY <1>1, <1>5, <1>6, <1>7
<1>9. ~ (depth[p] >= k) /\ depth[p] \in Nat BY <1>1, <1>8
<1>10. depth[j] = k BY <1>2, <1>5, <1>7, <1>9
<1> QED BY <1>6, <1>10

\* One turn of Reach
Ball(mz, ball) == ball \cup {n \in Open(mz) : \E m \in ball : Beside(m, n)}
ReachOn(mz, iStop, r, k) ==
    IF iStop \in r.ball \/ Ball(mz, r.ball) = r.ball
    THEN r ELSE [ball |-> Ball(mz, r.ball), steps |-> k]

Balls == [ball : SUBSET Nodes, steps : Nat]
ReachStart(iStart) == [ball |-> {iStart}, steps |-> 0]

ReachStates(q, mz, iStart, iStop) ==
    /\ q \in [0 .. Turns(mz) -> Balls]
    /\ q[0] = ReachStart(iStart) /\ q[Turns(mz)] = Reach(mz, iStart, iStop)
    /\ \A k \in 1 .. Turns(mz) : q[k] = ReachOn(mz, iStop, q[k - 1], k)

LEMMA Reaching ==
    ASSUME NEW mz, NEW iStart \in Nodes, NEW iStop
    PROVE  \E q : ReachStates(q, mz, iStart, iStop)
<1> DEFINE N == Turns(mz)
           S == 1 .. N
           V == Balls
           base == ReachStart(iStart)
           seq == UpTo(N)
           step == [p \in S \X V |-> ReachOn(mz, iStop, p[2], p[1])]
           pick == [s \in SUBSET S |-> Max(s)]
           IsIter(g) == g = [s \in SUBSET S |->
                IF s = {} THEN base ELSE ReachOn(mz, iStop, g[s \ {Max(s)}], seq[Max(s)])]
           iter == CHOOSE g : IsIter(g)
<1>1. N \in Nat BY TurnsNat
<1>2. Reach(mz, iStart, iStop) = iter[S]
  <2>1. DOMAIN seq = S BY <1>1 DEF UpTo
  <2>2. Reach(mz, iStart, iStop) = (CHOOSE g : g = [s \in SUBSET DOMAIN seq |->
                IF s = {} THEN base ELSE ReachOn(mz, iStop, g[s \ {Max(s)}], seq[Max(s)])])
                   [DOMAIN seq]
    BY DEF Reach, FoldLeft, MapThenFoldSet, ReachOn, Ball, ReachStart, Turns
  <2> QED BY <2>1, <2>2
<1> HIDE DEF N
<1>3. \A k \in S : seq[k] = k BY <1>1 DEF UpTo
<1> HIDE DEF seq
<1>4. step \in [S \X V -> V]
  <2>1. ASSUME NEW p \in S \X V PROVE ReachOn(mz, iStop, p[2], p[1]) \in V
    <3>1. p[2] \in V /\ p[1] \in Nat BY <1>1
    <3>2. Ball(mz, p[2].ball) \in SUBSET Nodes BY <3>1 DEF Ball, Balls, Open
    <3> QED BY <3>1, <3>2 DEF ReachOn, Balls
  <2> QED BY <2>1
<1>5. \A s \in SUBSET S : s # {} => Max(s) \in s BY <1>1, MaxOf
<1>6. base \in V BY DEF ReachStart, Balls
<1> HIDE DEF V, base
<1>7. \A k \in S, v \in V : step[<<k, v>>] = ReachOn(mz, iStop, v, k)
  OBVIOUS
<1> HIDE DEF step
<1>8. PICK g \in [SUBSET S -> V] : IsFold(g, base, step, pick, S)
  <2>1. IsFiniteSet(S) BY <1>1, FS_Interval
  <2>2. \A s \in SUBSET S : s # {} => pick[s] \in s BY <1>5
  <2> HIDE DEF S, pick
  <2> QED BY <1>4, <1>6, <2>1, <2>2, FoldExists
<1>9. IsIter(g)
  <2>1. ASSUME NEW s \in SUBSET S
        PROVE  g[s] = IF s = {} THEN base ELSE ReachOn(mz, iStop, g[s \ {Max(s)}], seq[Max(s)])
    <3>1. g[s] = IF s = {} THEN base ELSE step[<<Max(s), g[s \ {Max(s)}]>>]
      BY <1>8 DEF IsFold
    <3>2. CASE s # {}
      <4>1. Max(s) \in S /\ g[s \ {Max(s)}] \in V BY <1>5, <3>2
      <4> QED BY <1>3, <1>7, <3>1, <3>2, <4>1
    <3> QED BY <3>1, <3>2
  <2> HIDE DEF S
  <2>2. g = [s \in SUBSET S |-> g[s]] OBVIOUS
  <2> QED BY <2>1, <2>2
<1>10. IsIter(iter) BY <1>9
<1>11. iter[{}] = base BY <1>10
<1>12. ASSUME NEW s \in SUBSET S, s # {}, iter[s \ {Max(s)}] \in V
       PROVE  iter[s] = step[<<Max(s), iter[s \ {Max(s)}]>>]
  <2>1. iter[s] = ReachOn(mz, iStop, iter[s \ {Max(s)}], seq[Max(s)]) BY <1>10, <1>12
  <2>2. Max(s) \in S BY <1>5, <1>12
  <2> HIDE DEF iter
  <2> QED BY <1>3, <1>7, <1>12, <2>1, <2>2
<1> HIDE DEF iter, pick
<1>13. PICK q : LeftStates(q, base, step, N, V, iter[1 .. N])
  <2>1. LeftIter(iter, base, step, N, V) BY <1>11, <1>12 DEF LeftIter
  <2> QED BY <1>1, <1>4, <1>6, <2>1, LeftFoldStates
<1>14. ASSUME NEW k \in 1 .. N PROVE q[k] = ReachOn(mz, iStop, q[k - 1], k)
  <2>1. k - 1 \in 0 .. N BY <1>1
  <2>2. q[k - 1] \in V BY <1>13, <2>1 DEF LeftStates
  <2>3. q[k] = step[<<k, q[k - 1]>>] BY <1>13 DEF LeftStates
  <2> QED BY <1>7, <2>2, <2>3
<1> QED BY <1>2, <1>13, <1>14 DEF LeftStates, ReachStates, N, V, base

\* The places that entries have at most so deep
Within(queue, depth, k) == {queue[j].node : j \in {i \in 1 .. Len(queue) : depth[i] =< k}}

\* As long as iStop is deeper, the places beside those within k are within k + 1.
LEMMA NextBall ==
    ASSUME NEW mz \in Ways, NEW iStart, NEW iStop, NEW queue, NEW depth, NEW c,
           SearchEnd(mz, iStart, iStop, queue, depth, c), c < Len(queue),
           NEW k \in Nat, k < depth[c + 1]
    PROVE  /\ Ball(mz, Within(queue, depth, k)) = Within(queue, depth, k + 1)
           /\ Within(queue, depth, k + 1) # Within(queue, depth, k)
           /\ iStop \notin Within(queue, depth, k)
<1> DEFINE L == Len(queue)
<1>1. /\ Queued(mz, iStart, queue, depth) /\ Expanded(mz, queue, depth, c)
      /\ c \in 0 .. L /\ queue[c + 1].node = iStop
  BY DEF SearchEnd, Searched
<1>0. queue \in Seq(Entry) /\ L \in Nat BY <1>1 DEF Queued
<1>2. /\ depth \in [1 .. L -> Nat] /\ depth[1] = 0
      /\ \A i \in 1 .. L : queue[i].node \in Open(mz)
      /\ \A i, j \in 1 .. L : queue[i].node = queue[j].node => i = j
      /\ \A i, j \in 1 .. L : i < j => depth[i] =< depth[j]
      /\ \A i \in 2 .. L : ComesFrom(queue, depth, i)
  BY <1>1 DEF Queued
<1>3. c + 1 \in 1 .. L /\ depth[c + 1] \in Nat BY <1>0, <1>1, <1>2
<1>4. ASSUME NEW j \in 1 .. L, depth[j] =< k PROVE j \in 1 .. c
  <2>1. CASE j = c + 1 BY <1>3, <1>4, <2>1
  <2>2. CASE j > c + 1
    <3>1. depth[c + 1] =< depth[j] BY <1>2, <1>3, <2>2
    <3> QED BY <1>2, <1>3, <1>4, <3>1
  <2> QED BY <1>1, <2>1, <2>2
<1>5. iStop \notin Within(queue, depth, k)
  <2> SUFFICES ASSUME NEW j \in 1 .. L, depth[j] =< k, queue[j].node = iStop PROVE FALSE
    BY DEF Within
  <2>1. j = c + 1 BY <1>1, <1>2, <1>3
  <2> QED BY <1>3, <2>1
<1>6. ASSUME NEW n \in Ball(mz, Within(queue, depth, k)) PROVE n \in Within(queue, depth, k + 1)
  <2>1. CASE n \in Within(queue, depth, k)
    <3>1. PICK j \in 1 .. L : depth[j] =< k /\ queue[j].node = n BY <2>1 DEF Within
    <3>2. depth[j] =< k + 1 BY <1>2, <3>1
    <3> QED BY <3>1, <3>2 DEF Within
  <2>2. CASE n \in Open(mz) /\ \E m \in Within(queue, depth, k) : Beside(m, n)
    <3>1. PICK j \in 1 .. L : depth[j] =< k /\ Beside(queue[j].node, n) BY <2>2 DEF Within
    <3>2. n \in Nodes /\ queue[j].node \in Nodes BY <1>2, <2>2 DEF Open
    <3>3. Beside(n, queue[j].node) BY <3>1, <3>2, BesideBothWays
    <3>4. j \in 1 .. c BY <1>4, <3>1
    <3>5. Reached(queue, depth, n, depth[j] + 1) BY <1>1, <2>2, <3>3, <3>4 DEF Expanded
    <3>6. PICK i \in 1 .. L : queue[i].node = n /\ depth[i] =< depth[j] + 1
      BY <3>5 DEF Reached
    <3>7. depth[i] =< k + 1 BY <1>2, <3>1, <3>6
    <3> QED BY <3>6, <3>7 DEF Within
  <2> QED BY <1>6, <2>1, <2>2 DEF Ball
<1>7. ASSUME NEW j \in 1 .. L, depth[j] =< k + 1
      PROVE  queue[j].node \in Ball(mz, Within(queue, depth, k))
  <2>1. CASE depth[j] =< k BY <2>1 DEF Ball, Within
  <2>2. CASE ~ (depth[j] =< k)
    <3>1. depth[j] = k + 1 BY <1>2, <1>7, <2>2
    <3>2. j \in 2 .. L BY <1>2, <3>1
    <3>3. PICK p \in 1 .. j - 1 : /\ Beside(queue[j].node, queue[p].node)
                                  /\ depth[j] = depth[p] + 1
      BY <1>2, <3>2 DEF ComesFrom
    <3>4. p \in 1 .. L BY <1>2, <3>2
    <3>5. depth[p] =< k BY <1>2, <3>1, <3>3, <3>4
    <3>6. queue[p].node \in Within(queue, depth, k) BY <3>4, <3>5 DEF Within
    <3>7. queue[j].node \in Nodes /\ queue[p].node \in Nodes BY <1>2, <3>4 DEF Open
    <3>8. Beside(queue[p].node, queue[j].node) BY <3>3, <3>7, BesideBothWays
    <3> QED BY <1>2, <3>6, <3>8 DEF Ball
  <2> QED BY <2>1, <2>2
<1>8. Within(queue, depth, k + 1) \subseteq Ball(mz, Within(queue, depth, k))
  BY <1>7 DEF Within
<1>9. Within(queue, depth, k + 1) # Within(queue, depth, k)
  <2>1. k + 1 \in 1 .. depth[c + 1] BY <1>3
  <2>2. PICK j \in 1 .. L : depth[j] = k + 1 BY <1>1, <1>3, <2>1, DepthsFilled
  <2>3. queue[j].node \in Within(queue, depth, k + 1) BY <2>2 DEF Within
  <2>4. queue[j].node \notin Within(queue, depth, k)
    <3> SUFFICES ASSUME NEW i \in 1 .. L, depth[i] =< k, queue[i].node = queue[j].node PROVE FALSE
      BY DEF Within
    <3>1. i = j BY <1>2
    <3> QED BY <2>2, <3>1
  <2> QED BY <2>3, <2>4
<1> QED BY <1>5, <1>6, <1>8, <1>9

\* If the search has found iStop, its depth is the distance, ...
LEMMA DistanceFound ==
    ASSUME NEW mz \in Ways, NEW iStart \in Open(mz), NEW iStop \in Open(mz),
           NEW queue, NEW depth, NEW c,
           SearchEnd(mz, iStart, iStop, queue, depth, c), c < Len(queue)
    PROVE  Distance(mz, iStart, iStop) = depth[c + 1]
<1> DEFINE N == Turns(mz)
           D == depth[c + 1]
           B(k) == Within(queue, depth, k)
           Inv(r, k) == /\ r.steps \in Nat /\ r.steps =< D /\ r.ball = B(r.steps)
                        /\ r.steps = k \/ r.steps = D
<1>1. Queued(mz, iStart, queue, depth) /\ c \in 0 .. Len(queue) /\ queue[c + 1].node = iStop
  BY DEF SearchEnd, Searched
<1>2. /\ queue \in Seq(Entry) /\ depth \in [1 .. Len(queue) -> Nat]
      /\ queue[1] = [node |-> iStart, origin |-> -1] /\ depth[1] = 0
      /\ \A i, j \in 1 .. Len(queue) : queue[i].node = queue[j].node => i = j
      /\ \A i \in 2 .. Len(queue) : ComesFrom(queue, depth, i)
  BY <1>1 DEF Queued
<1>3. c + 1 \in 1 .. Len(queue) /\ D \in Nat /\ N \in Nat BY <1>1, <1>2, TurnsNat
<1>4. D =< N
  <2>1. Len(queue) =< N BY <1>1, QueueFits
  <2>2. D =< (c + 1) - 1 BY <1>1, <1>3, DepthOfEntry
  <2> QED BY <1>1, <1>2, <1>3, <2>1, <2>2
<1>5. iStart \in Nodes /\ mz[iStart] = 0 /\ mz[iStop] = 0 BY DEF Open
<1>6. PICK q : ReachStates(q, mz, iStart, iStop) BY <1>5, Reaching
<1>7. /\ q[0] = ReachStart(iStart) /\ q[N] = Reach(mz, iStart, iStop)
      /\ \A k \in 1 .. N : q[k] = ReachOn(mz, iStop, q[k - 1], k)
  BY <1>6 DEF ReachStates
<1>8. iStop \in B(D) BY <1>1, <1>3 DEF Within
<1>9. \A k \in Nat : k < D => /\ Ball(mz, B(k)) = B(k + 1) /\ B(k + 1) # B(k)
                              /\ iStop \notin B(k)
  BY NextBall
<1>10. B(0) = {iStart}
  <2>1. iStart \in B(0) BY <1>2, <1>3 DEF Within
  <2>2. ASSUME NEW j \in 1 .. Len(queue), depth[j] =< 0 PROVE queue[j].node = iStart
    <3>1. CASE j = 1 BY <1>2, <3>1
    <3>2. CASE j \in 2 .. Len(queue)
      <4>1. PICK p \in 1 .. j - 1 : depth[j] = depth[p] + 1 BY <1>2, <3>2 DEF ComesFrom
      <4>2. p \in 1 .. Len(queue) BY <1>2, <3>2
      <4>3. depth[p] \in Nat BY <1>2, <4>2
      <4> QED BY <2>2, <4>1, <4>3
    <3> QED BY <3>1, <3>2
  <2> QED BY <2>1, <2>2 DEF Within
<1> HIDE DEF B, D, N
<1>11. Inv(q[0], 0)
  <2>1. q[0].ball = {iStart} /\ q[0].steps = 0 BY <1>7 DEF ReachStart
  <2> QED BY <1>3, <1>10, <2>1
<1>12. ASSUME NEW k \in 1 .. N, Inv(q[k - 1], k - 1) PROVE Inv(q[k], k)
  <2> DEFINE r == q[k - 1]
  <2>1. q[k] = ReachOn(mz, iStop, r, k) BY <1>7
  <2>2. r.steps \in Nat /\ r.steps =< D /\ r.ball = B(r.steps) /\ (r.steps = k - 1 \/ r.steps = D)
    BY <1>12
  <2> HIDE DEF r
  <2>3. CASE r.steps = D
    <3>1. q[k] = r BY <1>8, <2>1, <2>2, <2>3 DEF ReachOn
    <3> QED BY <1>3, <2>2, <2>3, <3>1
  <2>4. CASE r.steps = k - 1 /\ r.steps # D
    <3>1. k - 1 \in Nat /\ k - 1 < D /\ k - 1 + 1 = k /\ k \in Nat /\ k =< D BY <1>3, <2>2, <2>4
    <3>2. /\ Ball(mz, r.ball) = B(k) /\ B(k) # r.ball /\ iStop \notin r.ball
      BY <1>9, <2>2, <2>4, <3>1
    <3>3. q[k] = [ball |-> B(k), steps |-> k] BY <2>1, <3>2 DEF ReachOn
    <3>4. q[k].ball = B(k) /\ q[k].steps = k BY <3>3
    <3> QED BY <3>1, <3>4
  <2> QED BY <2>2, <2>3, <2>4
<1> DEFINE bad == {k \in 0 .. N : ~ Inv(q[k], k)}
<1>13. bad = {}
  <2> HIDE DEF Inv
  <2> SUFFICES ASSUME bad # {} PROVE FALSE OBVIOUS
  <2>1. bad \in SUBSET Nat BY <1>3
  <2>2. PICK k \in bad : \A m \in bad : k =< m BY <2>1, LeastNatural
  <2>3. k # 0 BY <1>11
  <2>4. k \in 1 .. N BY <1>3, <2>3
  <2>5. k - 1 \notin bad /\ k - 1 \in 0 .. N BY <1>3, <2>2, <2>4
  <2>6. Inv(q[k - 1], k - 1) BY <2>5
  <2>7. Inv(q[k], k) BY <1>12, <2>4, <2>6
  <2> QED BY <2>7
<1>14. Inv(q[N], N)
  <2>1. N \in 0 .. N BY <1>3
  <2> HIDE DEF Inv
  <2> QED BY <1>13, <2>1
<1> DEFINE r == q[N]
<1>15. r.steps = D /\ iStop \in r.ball
  <2>1. r.steps \in Nat /\ r.steps =< D /\ r.ball = B(r.steps) /\ (r.steps = N \/ r.steps = D)
    BY <1>14
  <2> HIDE DEF r
  <2>2. r.steps = D BY <1>3, <1>4, <2>1
  <2> QED BY <1>8, <2>1, <2>2
<1> QED BY <1>5, <1>7, <1>15 DEF Distance, D

\* ... and if not, there is no way.
LEMMA DistanceNone ==
    ASSUME NEW mz \in Ways, NEW iStart \in Open(mz), NEW iStop,
           NEW queue, NEW depth, NEW c,
           SearchEnd(mz, iStart, iStop, queue, depth, c), ~ (c < Len(queue))
    PROVE  Distance(mz, iStart, iStop) = -1
<1> DEFINE N == Turns(mz)
           all == {queue[j].node : j \in 1 .. Len(queue)}
<1>1. /\ Queued(mz, iStart, queue, depth) /\ c = Len(queue)
      /\ \A i \in 1 .. c : queue[i].node # iStop
      /\ Expanded(mz, queue, depth, c)
  BY DEF SearchEnd, Searched
<1>2. /\ queue \in Seq(Entry) /\ Len(queue) >= 1
      /\ queue[1] = [node |-> iStart, origin |-> -1]
      /\ \A i \in 1 .. Len(queue) : queue[i].node \in Open(mz)
  BY <1>1 DEF Queued
<1>3. N \in Nat /\ iStart \in Nodes BY TurnsNat DEF Open
<1>4. PICK q : ReachStates(q, mz, iStart, iStop) BY <1>3, Reaching
<1>5. /\ q[0] = ReachStart(iStart) /\ q[N] = Reach(mz, iStart, iStop)
      /\ \A k \in 1 .. N : q[k] = ReachOn(mz, iStop, q[k - 1], k)
  BY <1>4 DEF ReachStates
<1>6. q[0].ball \subseteq all
  <2>1. q[0].ball = {iStart} BY <1>5 DEF ReachStart
  <2>2. 1 \in 1 .. Len(queue) /\ queue[1].node = iStart BY <1>2
  <2> QED BY <2>1, <2>2
<1>7. ASSUME NEW k \in 1 .. N, q[k - 1].ball \subseteq all PROVE q[k].ball \subseteq all
  <2> DEFINE r == q[k - 1]
  <2>1. q[k] = ReachOn(mz, iStop, r, k) /\ r.ball \subseteq all BY <1>5, <1>7
  <2> HIDE DEF r
  <2>2. ASSUME NEW n \in Open(mz), NEW m \in r.ball, Beside(m, n) PROVE n \in all
    <3>1. PICK j \in 1 .. Len(queue) : queue[j].node = m BY <2>1
    <3>2. n \in Nodes /\ m \in Nodes BY <1>2, <3>1 DEF Open
    <3>3. Beside(n, queue[j].node) BY <2>2, <3>1, <3>2, BesideBothWays
    <3>4. Reached(queue, depth, n, depth[j] + 1) BY <1>1, <3>3 DEF Expanded
    <3> QED BY <3>4 DEF Reached
  <2>3. Ball(mz, r.ball) \subseteq all BY <2>1, <2>2 DEF Ball
  <2>4. q[k] = r \/ q[k] = [ball |-> Ball(mz, r.ball), steps |-> k] BY <2>1 DEF ReachOn
  <2> QED BY <2>1, <2>3, <2>4
<1> DEFINE bad == {k \in 0 .. N : ~ (q[k].ball \subseteq all)}
<1> HIDE DEF all, N
<1>8. bad = {}
  <2> SUFFICES ASSUME bad # {} PROVE FALSE OBVIOUS
  <2>1. bad \in SUBSET Nat BY <1>3
  <2>2. PICK k \in bad : \A m \in bad : k =< m BY <2>1, LeastNatural
  <2>3. k # 0 BY <1>6
  <2>4. k \in 1 .. N BY <1>3, <2>3
  <2>5. k - 1 \notin bad /\ k - 1 \in 0 .. N BY <1>3, <2>2, <2>4
  <2>6. q[k - 1].ball \subseteq all BY <2>5
  <2>7. q[k].ball \subseteq all BY <1>7, <2>4, <2>6
  <2> QED BY <2>7
<1>9. q[N].ball \subseteq all
  <2>1. N \in 0 .. N BY <1>3
  <2> QED BY <1>8, <2>1
<1>10. iStop \notin all BY <1>1 DEF all
<1>11. iStop \notin Reach(mz, iStart, iStop).ball BY <1>5, <1>9, <1>10
<1> QED BY <1>11 DEF Distance
-----------------------------------------------------------------------------
(* The way back along the origins.                                         *)

\* A way from iStop back to iStart, without a place twice
Way(mz, way, iStart, iStop, steps) ==
    /\ way \in Seq(Nodes) /\ Len(way) = steps + 1
    /\ way[1] = iStop /\ way[steps + 1] = iStart
    /\ \A j \in 1 .. steps + 1 : way[j] \in Open(mz)
    /\ \A i, j \in 1 .. steps + 1 : way[i] = way[j] => i = j
    /\ \A j \in 1 .. steps : Beside(way[j], way[j + 1])

\* Every place of the trace but the last has an entry, one less deep each.
OneLessDeep(queue, depth, top, t) ==
    \A j \in 1 .. Len(t) - 1 :
        \E i \in 1 .. Len(queue) : queue[i].node = t[j] /\ depth[i] = depth[top] - (j - 1)

\* The last place is where the one before comes from; its entry is among the k
\* that are left.
LastComesFrom(queue, depth, t, p, o) ==
    /\ queue[o].node = t[Len(t)]
    /\ Beside(t[Len(t) - 1], t[Len(t)]) /\ depth[p] = depth[o] + 1

Traced(queue, depth, top, t, k) ==
    /\ t \in Traces /\ Len(t) >= 2 /\ t[1] = queue[top].node
    /\ OneLessDeep(queue, depth, top, t)
    /\ \A j \in 1 .. Len(t) - 2 : Beside(t[j], t[j + 1])
    /\ \E p \in k + 1 .. top :
          /\ queue[p].node = t[Len(t) - 1] /\ queue[p].origin = t[Len(t)]
          /\ p = 1 \/ \E o \in 1 .. k : LastComesFrom(queue, depth, t, p, o)

LEMMA TraceBegins ==
    ASSUME NEW mz, NEW iStart, NEW queue, NEW depth, Queued(mz, iStart, queue, depth),
           NEW top \in 1 .. Len(queue)
    PROVE  LET t == <<queue[top].node, queue[top].origin>>
           IN  Traced(queue, depth, top, t, top - 1)
<1> DEFINE t == <<queue[top].node, queue[top].origin>>
<1>1. /\ queue \in Seq(Entry) /\ depth \in [1 .. Len(queue) -> Nat]
      /\ \A i \in 2 .. Len(queue) : ComesFrom(queue, depth, i)
  BY DEF Queued
<1>2. queue[top].node \in Nodes /\ queue[top].origin \in Nodes \cup {-1}
  <2>1. queue[top] \in Entry BY <1>1
  <2> QED BY <2>1 DEF Entry
<1>3. /\ t \in Seq(Nodes \cup {-1}) /\ Len(t) = 2
      /\ t[1] = queue[top].node /\ t[2] = queue[top].origin
  BY <1>2
<1> HIDE DEF t
<1>4. t \in Traces
  <2>1. \A j \in 1 .. Len(t) - 1 : j = 1 BY <1>3
  <2> QED BY <1>2, <1>3, <2>1 DEF Traces
<1>5. OneLessDeep(queue, depth, top, t)
  <2>1. \A j \in 1 .. Len(t) - 1 : j = 1 BY <1>3
  <2>2. depth[top] = depth[top] - (1 - 1) BY <1>1
  <2> QED BY <1>3, <2>1, <2>2 DEF OneLessDeep
<1>6. \A j \in 1 .. Len(t) - 2 : Beside(t[j], t[j + 1])
  <2>1. 1 .. Len(t) - 2 = {} BY <1>3
  <2> QED BY <2>1
<1>7. top = 1 \/ \E o \in 1 .. top - 1 : LastComesFrom(queue, depth, t, top, o)
  <2>1. CASE top # 1
    <3>1. top \in 2 .. Len(queue) BY <2>1
    <3>2. PICK o \in 1 .. top - 1 : /\ queue[o].node = queue[top].origin
                                    /\ Beside(queue[top].node, queue[o].node)
                                    /\ depth[top] = depth[o] + 1
      BY <1>1, <3>1 DEF ComesFrom
    <3>3. Len(t) - 1 = 1 BY <1>3
    <3>4. LastComesFrom(queue, depth, t, top, o) BY <1>3, <3>2, <3>3 DEF LastComesFrom
    <3> QED BY <3>4
  <2> QED BY <2>1
<1>8. top \in (top - 1) + 1 .. top /\ Len(t) - 1 = 1 /\ Len(t) >= 2 BY <1>3
<1>9. queue[top].node = t[Len(t) - 1] /\ queue[top].origin = t[Len(t)] BY <1>3, <1>8
<1>10. Traced(queue, depth, top, t, top - 1)
  BY <1>3, <1>4, <1>5, <1>6, <1>7, <1>8, <1>9 DEF Traced
<1> QED BY <1>10 DEF t

LEMMA TraceGoesOn ==
    ASSUME NEW mz, NEW iStart, NEW queue, NEW depth, Queued(mz, iStart, queue, depth),
           NEW top \in 1 .. Len(queue), NEW k \in 1 .. top - 1, NEW t,
           Traced(queue, depth, top, t, k)
    PROVE  Traced(queue, depth, top, TraceOn(queue[top].node, queue[k], t), k - 1)
<1> DEFINE n == Len(t)
           L == Len(queue)
           iStop == queue[top].node
           new == TraceOn(iStop, queue[k], t)
<1>1. queue \in Seq(Entry) /\ L \in Nat BY DEF Queued
<1>2. /\ depth \in [1 .. L -> Nat]
      /\ \A i, j \in 1 .. L : queue[i].node = queue[j].node => i = j
      /\ \A i \in 2 .. L : ComesFrom(queue, depth, i)
  BY DEF Queued
<1>3. /\ t \in Traces /\ n >= 2 /\ t[1] = iStop
      /\ OneLessDeep(queue, depth, top, t)
      /\ \A j \in 1 .. n - 2 : Beside(t[j], t[j + 1])
  BY DEF Traced
<1>4. PICK p \in k + 1 .. top :
        /\ queue[p].node = t[n - 1] /\ queue[p].origin = t[n]
        /\ p = 1 \/ \E o \in 1 .. k : LastComesFrom(queue, depth, t, p, o)
  BY DEF Traced
<1>5. t \in Seq(Nodes \cup {-1}) /\ n \in Nat BY <1>3 DEF Traces
<1>6. k \in 1 .. L /\ p \in 1 .. L /\ p # 1 /\ queue[k] \in Entry BY <1>1, <1>4
<1>7. PICK o \in 1 .. k : LastComesFrom(queue, depth, t, p, o) BY <1>4, <1>6
<1>8. queue[o].node = t[n] /\ Beside(t[n - 1], t[n]) /\ depth[p] = depth[o] + 1
  BY <1>7 DEF LastComesFrom
<1>9. queue[k].node # iStop /\ t # << >> /\ Last(t) = t[n]
  <2>1. k # top OBVIOUS
  <2>2. queue[k].node # iStop BY <1>2, <1>6, <2>1
  <2> QED BY <1>3, <1>5, <2>2 DEF Last
<1>10. iStop \in Nodes
  <2>1. queue[top] \in Entry BY <1>1
  <2> QED BY <2>1 DEF Entry
<1>11. CASE queue[k].node # t[n]
  <2>1. new = t BY <1>9, <1>11 DEF TraceOn
  <2>2. o \in 1 .. k - 1 BY <1>8, <1>11
  <2>3. p \in (k - 1) + 1 .. top BY <1>4
  <2>4. Traced(queue, depth, top, t, k - 1) BY <1>3, <1>4, <1>7, <2>2, <2>3 DEF Traced
  <2> QED BY <2>1, <2>4
<1>12. CASE queue[k].node = t[n]
  <2> DEFINE e == queue[k].origin
  <2>1. new = Append(t, e) BY <1>9, <1>12 DEF TraceOn
  <2>2. new \in Traces BY <1>3, <1>6, <1>10, TraceOnType
  <2>3. e \in Nodes \cup {-1} BY <1>6 DEF Entry
  <2> HIDE DEF new, e
  <2>4. Len(new) = n + 1 /\ new[n + 1] = e /\ \A j \in 1 .. n : new[j] = t[j]
    BY <1>5, <2>1, <2>3
  <2>5. o = k
    <3>1. o \in 1 .. L BY <1>1
    <3> QED BY <1>2, <1>6, <1>8, <1>12, <3>1
  <2>6. n - 1 \in 1 .. n - 1 /\ n \in 1 .. n BY <1>3, <1>5
  <2>7. depth[k] = depth[top] - (n - 1)
    <3>1. PICK i \in 1 .. L : queue[i].node = t[n - 1] /\ depth[i] = depth[top] - ((n - 1) - 1)
      BY <1>3, <2>6 DEF OneLessDeep
    <3>2. i = p BY <1>2, <1>4, <1>6, <3>1
    <3>3. depth[k] \in Nat /\ depth[top] \in Nat BY <1>2, <1>6
    <3> QED BY <1>5, <1>8, <2>5, <3>1, <3>2, <3>3
  <2>8. OneLessDeep(queue, depth, top, new)
    <3>1. ASSUME NEW j \in 1 .. Len(new) - 1
          PROVE  \E i \in 1 .. L : queue[i].node = new[j] /\ depth[i] = depth[top] - (j - 1)
      <4>1. j \in 1 .. n BY <1>5, <2>4
      <4>2. CASE j = n BY <1>6, <1>12, <2>4, <2>6, <2>7, <4>2
      <4>3. CASE j # n
        <5>1. j \in 1 .. n - 1 BY <1>5, <4>1, <4>3
        <5>2. PICK i \in 1 .. L : queue[i].node = t[j] /\ depth[i] = depth[top] - (j - 1)
          BY <1>3, <5>1 DEF OneLessDeep
        <5> QED BY <2>4, <4>1, <5>2
      <4> QED BY <4>2, <4>3
    <3> QED BY <3>1 DEF OneLessDeep
  <2>9. ASSUME NEW j \in 1 .. Len(new) - 2 PROVE Beside(new[j], new[j + 1])
    <3>1. j \in 1 .. n - 1 /\ j \in 1 .. n /\ j + 1 \in 1 .. n BY <1>5, <2>4
    <3>2. Beside(t[j], t[j + 1])
      <4>1. CASE j = n - 1
        <5>1. j + 1 = n BY <1>5, <4>1
        <5> QED BY <1>8, <4>1, <5>1
      <4>2. CASE j # n - 1
        <5>1. j \in 1 .. n - 2 BY <1>5, <3>1, <4>2
        <5> QED BY <1>3, <5>1
      <4> QED BY <4>1, <4>2
    <3> QED BY <2>4, <3>1, <3>2
  <2>10. Len(new) - 1 = n /\ Len(new) >= 2 /\ 1 \in 1 .. n BY <1>3, <1>5, <2>4
  <2>11. new[Len(new) - 1] = t[n] /\ new[Len(new)] = e /\ new[1] = iStop
    BY <1>3, <2>4, <2>6, <2>10
  <2>12. k = 1 \/ \E b \in 1 .. k - 1 : LastComesFrom(queue, depth, new, k, b)
    <3>1. CASE k # 1
      <4>1. k \in 2 .. L BY <1>6, <3>1
      <4>2. PICK b \in 1 .. k - 1 : /\ queue[b].node = queue[k].origin
                                    /\ Beside(queue[k].node, queue[b].node)
                                    /\ depth[k] = depth[b] + 1
        BY <1>2, <4>1 DEF ComesFrom
      <4>3. LastComesFrom(queue, depth, new, k, b)
        BY <1>12, <2>11, <4>2 DEF LastComesFrom, e
      <4> QED BY <4>3
    <3> QED BY <3>1
  <2>13. k \in (k - 1) + 1 .. top OBVIOUS
  <2>14. queue[k].node = new[Len(new) - 1] /\ queue[k].origin = new[Len(new)]
    BY <1>12, <2>11 DEF e
  <2>15. Traced(queue, depth, top, new, k - 1)
    BY <2>2, <2>8, <2>9, <2>10, <2>11, <2>12, <2>13, <2>14 DEF Traced
  <2> QED BY <2>15 DEF new
<1> QED BY <1>11, <1>12

\* Without its last place, a trace that has come to the first entry is a way.
LEMMA TraceEnds ==
    ASSUME NEW mz, NEW iStart, NEW queue, NEW depth, Queued(mz, iStart, queue, depth),
           NEW top \in 1 .. Len(queue), NEW t, Traced(queue, depth, top, t, 0)
    PROVE  t # << >> /\ Way(mz, Front(t), iStart, queue[top].node, depth[top])
<1> DEFINE n == Len(t)
           L == Len(queue)
           D == depth[top]
           way == Front(t)
<1>1. /\ queue \in Seq(Entry) /\ depth \in [1 .. L -> Nat]
      /\ queue[1] = [node |-> iStart, origin |-> -1] /\ depth[1] = 0
      /\ \A i \in 1 .. L : queue[i].node \in Open(mz)
      /\ \A i, j \in 1 .. L : queue[i].node = queue[j].node => i = j
  BY DEF Queued
<1>2. /\ t \in Traces /\ n >= 2 /\ t[1] = queue[top].node
      /\ OneLessDeep(queue, depth, top, t)
      /\ \A j \in 1 .. n - 2 : Beside(t[j], t[j + 1])
  BY DEF Traced
<1>3. PICK p \in 0 + 1 .. top :
        /\ queue[p].node = t[n - 1]
        /\ p = 1 \/ \E o \in 1 .. 0 : LastComesFrom(queue, depth, t, p, o)
  BY DEF Traced
<1>4. p = 1 BY <1>3
<1>5. t \in Seq(Nodes \cup {-1}) /\ n \in Nat BY <1>2 DEF Traces
<1>6. D \in Nat BY <1>1
<1>7. n = D + 2
  <2>1. n - 1 \in 1 .. n - 1 BY <1>2, <1>5
  <2>2. PICK i \in 1 .. L : queue[i].node = t[n - 1] /\ depth[i] = D - ((n - 1) - 1)
    BY <1>2, <2>1 DEF OneLessDeep
  <2>3. 1 \in 1 .. L OBVIOUS
  <2>4. i = 1 BY <1>1, <1>3, <1>4, <2>2, <2>3
  <2> QED BY <1>1, <1>5, <1>6, <2>2, <2>4
<1>8. /\ way \in Seq(Nodes \cup {-1}) /\ Len(way) = D + 1
      /\ \A j \in 1 .. D + 1 : way[j] = t[j]
  <2>1. Len(t) - 1 = D + 1 /\ t # << >> BY <1>2, <1>5, <1>6, <1>7
  <2>2. way = [j \in 1 .. D + 1 |-> t[j]] BY <1>5, <2>1 DEF Front
  <2> HIDE DEF way
  <2>3. way \in [1 .. D + 1 -> Nodes \cup {-1}] BY <1>5, <1>6, <1>7, <2>2
  <2> QED BY <1>6, <2>2, <2>3
<1> HIDE DEF way, D
<1>9. \A j \in 1 .. D + 1 : j \in 1 .. n - 1 BY <1>6, <1>7
<1>10. ASSUME NEW j \in 1 .. D + 1
       PROVE  \E i \in 1 .. L : queue[i].node = way[j] /\ depth[i] = D - (j - 1)
  BY <1>2, <1>8, <1>9 DEF OneLessDeep, D
<1>11. \A j \in 1 .. D + 1 : way[j] \in Open(mz) BY <1>1, <1>10
<1>12. ASSUME NEW i \in 1 .. D + 1, NEW j \in 1 .. D + 1, way[i] = way[j] PROVE i = j
  <2>1. PICK x \in 1 .. L : queue[x].node = way[i] /\ depth[x] = D - (i - 1) BY <1>10
  <2>2. PICK y \in 1 .. L : queue[y].node = way[j] /\ depth[y] = D - (j - 1) BY <1>10
  <2>3. x = y BY <1>1, <1>12, <2>1, <2>2
  <2>4. D - (i - 1) = D - (j - 1) BY <2>1, <2>2, <2>3
  <2> QED BY <1>6, <2>4
<1>13. ASSUME NEW j \in 1 .. D PROVE Beside(way[j], way[j + 1])
  <2>1. j \in 1 .. n - 2 /\ j \in 1 .. D + 1 /\ j + 1 \in 1 .. D + 1 BY <1>6, <1>7
  <2> QED BY <1>2, <1>8, <2>1
<1>14. way[1] = queue[top].node /\ way[D + 1] = iStart
  <2>1. 1 \in 1 .. D + 1 /\ D + 1 \in 1 .. D + 1 /\ n - 1 = D + 1 BY <1>6, <1>7
  <2> QED BY <1>1, <1>2, <1>3, <1>4, <1>8, <2>1
<1>15. way \in Seq(Nodes)
  <2>1. \A j \in 1 .. Len(way) : way[j] \in Nodes BY <1>8, <1>11 DEF Open
  <2> QED BY <1>8, <2>1
<1>16. t # << >> BY <1>2
<1> QED BY <1>8, <1>11, <1>12, <1>13, <1>14, <1>15, <1>16 DEF Way, way, D

LEMMA SolutionFound ==
    ASSUME NEW mz \in Ways, NEW iStart \in Open(mz), NEW iStop \in Open(mz),
           NEW queue, queue = Queue(mz, iStart, iStop), NEW depth, NEW c,
           SearchEnd(mz, iStart, iStop, queue, depth, c), c < Len(queue)
    PROVE  Way(mz, Solution(mz, iStart, iStop), iStart, iStop, depth[c + 1])
<1> DEFINE L == Len(queue)
           top == c + 1
<1>1. Queued(mz, iStart, queue, depth) /\ c \in 0 .. L /\ queue[top].node = iStop
  BY DEF SearchEnd, Searched
<1>2. queue \in Seq(Entry) /\ L \in Nat BY <1>1 DEF Queued
<1>3. \A i, j \in 1 .. L : queue[i].node = queue[j].node => i = j BY <1>1 DEF Queued
<1>4. top \in 1 .. L BY <1>1, <1>2
<1>5. iStop \in Nodes /\ iStart \in Nodes BY DEF Open
<1>6. PICK q : TraceStates(q, mz, iStart, iStop, queue) BY <1>2, <1>5, Tracing
<1>7. /\ q[L + 1] = << >> /\ q[1] = Trace(mz, iStart, iStop)
      /\ \A k \in 1 .. L : q[k] = TraceOn(iStop, queue[k], q[k + 1])
  BY <1>6 DEF TraceStates
<1> HIDE DEF L, top
<1> DEFINE Inv(k) == IF k > top THEN q[k] = << >>
                     ELSE Traced(queue, depth, top, q[k], k - 1)
<1>8. Inv(L + 1)
  <2>1. L + 1 > top BY <1>2, <1>4
  <2> QED BY <1>7, <2>1
<1>9. ASSUME NEW k \in 1 .. L, Inv(k + 1) PROVE Inv(k)
  <2>1. q[k] = TraceOn(iStop, queue[k], q[k + 1]) BY <1>7
  <2>2. CASE k > top
    <3>1. k + 1 > top BY <1>2, <1>4, <2>2
    <3>2. q[k + 1] = << >> BY <1>9, <3>1
    <3>3. queue[k].node # iStop BY <1>1, <1>3, <1>4, <2>2
    <3>4. q[k] = << >> BY <2>1, <3>2, <3>3 DEF TraceOn
    <3> QED BY <2>2, <3>4
  <2>3. CASE k = top
    <3>1. k + 1 > top /\ ~ (k > top) BY <1>2, <1>4, <2>3
    <3>2. q[k] = <<queue[top].node, queue[top].origin>> BY <1>1, <2>1, <2>3 DEF TraceOn
    <3>3. Traced(queue, depth, top, q[k], top - 1) BY <1>1, <1>4, <3>2, TraceBegins DEF L
    <3> QED BY <2>3, <3>1, <3>3
  <2>4. CASE k < top
    <3>1. ~ (k + 1 > top) /\ k + 1 - 1 = k /\ k \in 1 .. top - 1 /\ ~ (k > top)
      BY <1>2, <1>4, <2>4
    <3>2. Traced(queue, depth, top, q[k + 1], k) BY <1>9, <3>1
    <3>3. Traced(queue, depth, top, q[k], k - 1)
      BY <1>1, <1>4, <2>1, <3>1, <3>2, TraceGoesOn DEF L
    <3> QED BY <3>1, <3>3
  <2> QED BY <1>4, <2>2, <2>3, <2>4
<1> DEFINE bad == {i \in 0 .. L : ~ Inv(L + 1 - i)}
<1>10. bad = {}
  <2> HIDE DEF Inv
  <2> SUFFICES ASSUME bad # {} PROVE FALSE OBVIOUS
  <2>1. bad \in SUBSET Nat BY <1>2
  <2>2. PICK i \in bad : \A m \in bad : i =< m BY <2>1, LeastNatural
  <2>3. i # 0
    <3>1. L + 1 - 0 = L + 1 BY <1>2
    <3> QED BY <1>8, <3>1
  <2>4. i \in 1 .. L BY <1>2, <2>3
  <2>5. i - 1 \notin bad /\ i - 1 \in 0 .. L BY <1>2, <2>2, <2>4
  <2>6. Inv(L + 1 - (i - 1)) BY <2>5
  <2> DEFINE k == L + 1 - i
  <2>7. k \in 1 .. L /\ L + 1 - (i - 1) = k + 1 BY <1>2, <2>4
  <2>8. Inv(k + 1) BY <2>6, <2>7
  <2> HIDE DEF k
  <2>9. Inv(k) BY <1>9, <2>7, <2>8
  <2> QED BY <2>9 DEF k
<1>11. Inv(1)
  <2> HIDE DEF Inv
  <2>1. L \in 0 .. L /\ L + 1 - L = 1 BY <1>2
  <2> DEFINE i == L
  <2>2. i \in 0 .. L /\ L + 1 - i = 1 /\ i \notin bad BY <1>10, <2>1
  <2> HIDE DEF i
  <2>3. Inv(L + 1 - i) BY <2>2
  <2> QED BY <2>2, <2>3
<1>12. Traced(queue, depth, top, Trace(mz, iStart, iStop), 0)
  <2>1. ~ (1 > top) /\ 1 - 1 = 0 BY <1>4
  <2>2. Traced(queue, depth, top, q[1], 1 - 1) BY <1>11, <2>1
  <2> QED BY <1>7, <2>1, <2>2
<1>13. /\ Trace(mz, iStart, iStop) # << >>
       /\ Way(mz, Front(Trace(mz, iStart, iStop)), iStart, queue[top].node, depth[top])
  BY <1>1, <1>4, <1>12, TraceEnds DEF L
<1> QED BY <1>1, <1>13 DEF Solution, top

LEMMA SolutionNone ==
    ASSUME NEW mz \in Ways, NEW iStart \in Open(mz), NEW iStop \in Open(mz),
           NEW queue, queue = Queue(mz, iStart, iStop), NEW depth, NEW c,
           SearchEnd(mz, iStart, iStop, queue, depth, c), ~ (c < Len(queue))
    PROVE  Solution(mz, iStart, iStop) = << >>
<1> DEFINE L == Len(queue)
<1>1. Queued(mz, iStart, queue, depth) /\ \A k \in 1 .. L : queue[k].node # iStop
  BY DEF SearchEnd, Searched
<1>2. queue \in Seq(Entry) /\ L \in Nat BY <1>1 DEF Queued
<1>3. iStop \in Nodes /\ iStart \in Nodes BY DEF Open
<1>4. PICK q : TraceStates(q, mz, iStart, iStop, queue) BY <1>2, <1>3, Tracing
<1>5. /\ q[L + 1] = << >> /\ q[1] = Trace(mz, iStart, iStop)
      /\ \A k \in 1 .. L : q[k] = TraceOn(iStop, queue[k], q[k + 1])
  BY <1>4 DEF TraceStates
<1>6. \A k \in 1 .. L : q[k + 1] = << >> => q[k] = << >> BY <1>1, <1>5 DEF TraceOn
<1> HIDE DEF L
<1> DEFINE bad == {i \in 0 .. L : q[L + 1 - i] # << >>}
<1>7. bad = {}
  <2> SUFFICES ASSUME bad # {} PROVE FALSE OBVIOUS
  <2>1. bad \in SUBSET Nat BY <1>2
  <2>2. PICK i \in bad : \A m \in bad : i =< m BY <2>1, LeastNatural
  <2>3. i # 0
    <3>1. L + 1 - 0 = L + 1 BY <1>2
    <3> QED BY <1>5, <3>1
  <2>4. i \in 1 .. L BY <1>2, <2>3
  <2>5. i - 1 \notin bad /\ i - 1 \in 0 .. L BY <1>2, <2>2, <2>4
  <2>6. q[L + 1 - (i - 1)] = << >> BY <2>5
  <2> DEFINE k == L + 1 - i
  <2>7. k \in 1 .. L /\ L + 1 - (i - 1) = k + 1 BY <1>2, <2>4
  <2>8. q[k + 1] = << >> BY <2>6, <2>7
  <2> HIDE DEF k
  <2>9. q[k] = << >> BY <1>6, <2>7, <2>8
  <2> QED BY <2>9 DEF k
<1>8. q[1] = << >>
  <2>1. L \in 0 .. L /\ L + 1 - L = 1 BY <1>2
  <2>2. L \notin bad BY <1>7
  <2>3. q[L + 1 - L] = << >> BY <2>1, <2>2
  <2> QED BY <2>1, <2>3
<1> QED BY <1>5, <1>8 DEF Solution

(* What the search of MazeSolver finds, traced back from the end, is a way  *)
(* over open places that is as short as any, and it finds nothing only if   *)
(* there is no way, in every maze.                                          *)
THEOREM SolutionIsShortest ==
    ASSUME NEW mz \in Ways, NEW iStart \in Open(mz), NEW iStop \in Open(mz)
    PROVE  LET steps == Distance(mz, iStart, iStop)
               sol == Solution(mz, iStart, iStop)
           IN  \/ steps = -1 /\ sol = << >>
               \/ steps \in Nat /\ Way(mz, sol, iStart, iStop, steps)
<1> DEFINE queue == Queue(mz, iStart, iStop)
<1>1. PICK depth, c : SearchEnd(mz, iStart, iStop, queue, depth, c) BY SearchIsRight
<1>2. PICK Q : Q = queue OBVIOUS
<1>3. SearchEnd(mz, iStart, iStop, Q, depth, c) /\ Q = Queue(mz, iStart, iStop) BY <1>1, <1>2
<1> HIDE DEF queue
<1>4. CASE c < Len(Q)
  <2>1. Distance(mz, iStart, iStop) = depth[c + 1] BY <1>3, <1>4, DistanceFound
  <2>2. Way(mz, Solution(mz, iStart, iStop), iStart, iStop, depth[c + 1])
    BY <1>3, <1>4, SolutionFound
  <2>3. depth[c + 1] \in Nat
    <3>1. Q \in Seq(Entry) /\ depth \in [1 .. Len(Q) -> Nat] /\ c \in 0 .. Len(Q)
      BY <1>3 DEF SearchEnd, Searched, Queued
    <3>2. c + 1 \in 1 .. Len(Q) BY <1>4, <3>1
    <3> QED BY <3>1, <3>2
  <2> QED BY <2>1, <2>2, <2>3
<1>5. CASE ~ (c < Len(Q))
  <2>1. Distance(mz, iStart, iStop) = -1 BY <1>3, <1>5, DistanceNone
  <2>2. Solution(mz, iStart, iStop) = << >> BY <1>3, <1>5, SolutionNone
  <2> QED BY <2>1, <2>2
<1> QED BY <1>4, <1>5
-----------------------------------------------------------------------------
(* The walk over the labels is the way, from its other end.                *)

\* The first i places of the way have their labels, the others are as the maze.
Labelled(mz, way, i, labels) ==
    /\ labels \in [Nodes -> Int]
    /\ \A j \in 1 .. i : labels[way[j]] = EndLabel + (j - 1)
    /\ \A n \in Nodes : (\A j \in 1 .. i : way[j] # n) => labels[n] = mz[n]

\* A label above those of the maze is only on its place.
LEMMA LabelIsOnWay ==
    ASSUME NEW mz \in Ways, NEW way, NEW i \in Nat, NEW labels, Labelled(mz, way, i, labels),
           NEW n \in Nodes, NEW k \in Nat, labels[n] = EndLabel + k
    PROVE  n = way[k + 1]
<1>1. PICK j \in 1 .. i : way[j] = n
  <2> SUFFICES ASSUME \A j \in 1 .. i : way[j] # n PROVE FALSE
    OBVIOUS
  <2>1. labels[n] = mz[n] BY DEF Labelled
  <2>2. mz[n] \in {0, 1} BY DEF Ways
  <2> QED BY <2>1, <2>2 DEF EndLabel
<1>2. labels[n] = EndLabel + (j - 1) BY <1>1 DEF Labelled
<1>3. j = k + 1 BY <1>2 DEF EndLabel
<1> QED BY <1>1, <1>3

LEMMA StepsEnough ==
    ASSUME NEW labels \in [Nodes -> Int], NEW iStart \in Nodes
    PROVE  Steps(labels, iStart) >= labels[iStart] - 1 - EndLabel /\ Steps(labels, iStart) >= 1
<1> DEFINE x == labels[iStart] - 1 - EndLabel
<1>1. x \in Int BY DEF EndLabel
<1> HIDE DEF x
<1>2. \E m \in {1, x} : \A y \in {1, x} : m >= y BY <1>1
<1>3. Max({1, x}) >= 1 /\ Max({1, x}) >= x BY <1>2 DEF Max
<1> QED BY <1>3 DEF Steps, x

\* There is a direction to every place beside.
LEMMA DirectionTo ==
    ASSUME NEW labels, NEW walk \in WalkType, NEW n \in Nodes,
           Beside(n, walk.at), labels[n] = walk.target
    PROVE  Direction(labels, walk) # -1
<1> DEFINE Good(m) == m \in Nodes /\ Beside(walk.at, m) /\ labels[m] = walk.target
           good == {d \in 0 .. 3 : Good(walk.at + Directions[((walk.dir + d) % 4) + 1])}
<1>1. Direction(labels, walk) = IF good = {} THEN -1 ELSE (walk.dir + Min(good)) % 4
  BY DEF Direction
<1>2. walk.at \in Nodes /\ walk.dir \in 0 .. 3 BY DEF WalkType
<1>3. Good(n) BY <1>2, BesideBothWays
<1>4. n \in {walk.at - 1, walk.at + 1, walk.at - Cols, walk.at + Cols} BY <1>2, FourBeside
<1>5. walk.at \in Int /\ Cols \in Int BY <1>2, Place, SizeAssumption
<1>6. PICK e \in 0 .. 3 : n = walk.at + Directions[e + 1]
  <2>1. CASE n = walk.at + Cols
    <3>1. Directions[0 + 1] = Cols BY DEF Directions
    <3> QED BY <2>1, <3>1
  <2>2. CASE n = walk.at + 1
    <3>1. Directions[1 + 1] = 1 BY DEF Directions
    <3> QED BY <2>2, <3>1
  <2>3. CASE n = walk.at - Cols
    <3>1. Directions[2 + 1] = -Cols BY DEF Directions
    <3>2. n = walk.at + (-Cols) BY <1>5, <2>3
    <3> QED BY <3>1, <3>2
  <2>4. CASE n = walk.at - 1
    <3>1. Directions[3 + 1] = -1 BY DEF Directions
    <3>2. n = walk.at + (-1) BY <1>5, <2>4
    <3> QED BY <3>1, <3>2
  <2> QED BY <1>4, <2>1, <2>2, <2>3, <2>4
<1>7. PICK d \in 0 .. 3 : (walk.dir + d) % 4 = e
  <2>1. \A a, b \in 0 .. 3 : \E x \in 0 .. 3 : (a + x) % 4 = b
    <3>0. \A b \in 0 .. 3 : b % 4 = b /\ (b + 4) % 4 = b OBVIOUS
    <3>1. ASSUME NEW a \in 0 .. 3, NEW b \in 0 .. 3, b >= a
          PROVE  b - a \in 0 .. 3 /\ (a + (b - a)) % 4 = b
      <4>1. b - a \in 0 .. 3 /\ a + (b - a) = b BY <3>1
      <4> QED BY <3>0, <4>1
    <3>2. ASSUME NEW a \in 0 .. 3, NEW b \in 0 .. 3, b < a
          PROVE  b - a + 4 \in 0 .. 3 /\ (a + (b - a + 4)) % 4 = b
      <4>1. b - a + 4 \in 0 .. 3 /\ a + (b - a + 4) = b + 4 BY <3>2
      <4> QED BY <3>0, <4>1
    <3>3. \A a, b \in 0 .. 3 : b >= a \/ b < a OBVIOUS
    <3> QED BY <3>1, <3>2, <3>3
  <2> QED BY <1>2, <2>1
<1>8. d \in good
  <2> HIDE DEF Good
  <2> QED BY <1>3, <1>6, <1>7
<1>9. Min(good) \in good
  <2>1. good \in SUBSET Nat OBVIOUS
  <2> HIDE DEF good
  <2>2. PICK m \in good : \A l \in good : m =< l BY <1>8, <2>1, LeastNatural
  <2> QED BY <2>2 DEF Min
<1>10. Min(good) \in 0 .. 3 BY <1>9
<1> HIDE DEF good
<1>11. (walk.dir + Min(good)) % 4 \in 0 .. 3 BY <1>2, <1>10
<1> QED BY <1>1, <1>8, <1>11

\* After i steps of the walk
WalkedBack(way, steps, walk, i) ==
    /\ walk \in WalkType /\ ~ walk.hung /\ i \in 0 .. steps - 1
    /\ walk.at = way[steps + 1 - i] /\ walk.target = EndLabel + (steps - 1 - i)
    /\ Len(walk.places) = i /\ \A j \in 1 .. i : walk.places[j] = way[steps + 1 - j]

LEMMA StepBack ==
    ASSUME NEW mz \in Ways, NEW iStart, NEW iStop, NEW steps \in Nat, NEW way, NEW labels,
           Way(mz, way, iStart, iStop, steps), Labelled(mz, way, steps + 1, labels),
           NEW walk, NEW i, WalkedBack(way, steps, walk, i), i < steps - 1
    PROVE  WalkedBack(way, steps, WalkOn(labels, walk), i + 1)
<1> DEFINE k == steps - 1 - i
           dir == Direction(labels, walk)
           n == walk.at + Directions[dir + 1]
<1>1. /\ walk \in WalkType /\ ~ walk.hung /\ i \in 0 .. steps - 1
      /\ walk.at = way[steps + 1 - i] /\ walk.target = EndLabel + k
      /\ Len(walk.places) = i /\ \A j \in 1 .. i : walk.places[j] = way[steps + 1 - j]
  BY DEF WalkedBack
<1>2. k \in Nat /\ k >= 1 /\ k + 1 \in 1 .. steps + 1 /\ k + 1 \in 1 .. steps
      /\ (k + 1) + 1 = steps + 1 - i /\ steps + 1 - (i + 1) = k + 1
  BY <1>1
<1>3. /\ way \in Seq(Nodes) /\ Len(way) = steps + 1
      /\ \A j \in 1 .. steps : Beside(way[j], way[j + 1])
  BY DEF Way
<1>4. way[k + 1] \in Nodes /\ Beside(way[k + 1], walk.at)
  <2>1. Beside(way[k + 1], way[(k + 1) + 1]) BY <1>2, <1>3
  <2> HIDE DEF k
  <2> QED BY <1>1, <1>2, <1>3, <2>1
<1>5. labels[way[k + 1]] = walk.target
  <2>1. labels[way[k + 1]] = EndLabel + ((k + 1) - 1) BY <1>2 DEF Labelled
  <2>2. (k + 1) - 1 = k BY <1>2
  <2> QED BY <1>1, <2>1, <2>2
<1> HIDE DEF k
<1>6. dir # -1 BY <1>1, <1>4, <1>5, DirectionTo
<1>7. dir \in 0 .. 3 /\ n \in Nodes /\ labels[n] = walk.target BY <1>1, <1>6, DirectionIsGood
<1> HIDE DEF n, dir
<1>8. n = way[k + 1]
  <2>1. labels[n] = EndLabel + k /\ k \in Nat /\ n \in Nodes BY <1>1, <1>2, <1>7
  <2>2. PICK i1 : i1 = steps + 1 OBVIOUS
  <2>3. mz \in Ways /\ i1 \in Nat /\ Labelled(mz, way, i1, labels) BY <2>2
  <2> QED BY ONLY <2>1, <2>3, LabelIsOnWay
<1>9. walk.target # EndLabel BY <1>1, <1>2 DEF EndLabel
<1> DEFINE new == [at |-> n, dir |-> dir, target |-> walk.target - 1, hung |-> FALSE,
                   places |-> Append(walk.places, n)]
<1>10. WalkOn(labels, walk) = new BY <1>1, <1>6, <1>9 DEF WalkOn, n, dir
<1>11. new \in WalkType BY <1>1, <1>10, WalkOnType
<1>12. /\ new.at = n /\ new.target = walk.target - 1 /\ new.hung = FALSE
       /\ new.places = Append(walk.places, n)
  OBVIOUS
<1> HIDE DEF new
<1>13. walk.places \in Seq(Nodes) /\ walk.target \in Int BY <1>1 DEF WalkType
<1>14. i + 1 \in 0 .. steps - 1 BY <1>1
<1>15. new.target = EndLabel + (steps - 1 - (i + 1))
  BY <1>1, <1>12, <1>13 DEF EndLabel, k
<1>16. Len(new.places) = i + 1 BY <1>1, <1>7, <1>12, <1>13
<1>17. ASSUME NEW j \in 1 .. i + 1 PROVE new.places[j] = way[steps + 1 - j]
  <2>1. CASE j = i + 1
    <3>1. new.places[i + 1] = n BY <1>1, <1>7, <1>12, <1>13
    <3> QED BY <1>2, <1>8, <2>1, <3>1
  <2>2. CASE j # i + 1
    <3>1. j \in 1 .. i BY <1>1, <2>2
    <3>2. new.places[j] = walk.places[j] BY <1>1, <1>7, <1>12, <1>13, <3>1
    <3> QED BY <1>1, <3>1, <3>2
  <2> QED BY <2>1, <2>2
<1>18. new.at = way[steps + 1 - (i + 1)] BY <1>2, <1>8, <1>12
<1>19. WalkedBack(way, steps, new, i + 1)
  BY <1>11, <1>12, <1>14, <1>15, <1>16, <1>17, <1>18 DEF WalkedBack
<1> QED BY <1>10, <1>19

\* The walk hangs over the way from a place to itself, and else goes all the way.
GoesBack(walk, way, steps) ==
    /\ walk.hung => steps = 0
    /\ ~ walk.hung => /\ steps >= 1 /\ walk.places \in Seq(Nodes)
                      /\ Len(walk.places) = steps - 1
                      /\ \A j \in 1 .. steps - 1 : walk.places[j] = way[steps + 1 - j]

LEMMA WalkIsWay ==
    ASSUME NEW mz \in Ways, NEW iStart \in Nodes, NEW iStop, NEW steps \in Nat, NEW way,
           NEW labels,
           Way(mz, way, iStart, iStop, steps), Labelled(mz, way, steps + 1, labels)
    PROVE  GoesBack(Walk(labels, iStart), way, steps)
<1> USE DEF GoesBack
<1> DEFINE N == Steps(labels, iStart)
           walk == Walk(labels, iStart)
<1>1. labels \in [Nodes -> Int] /\ \A j \in 1 .. steps + 1 : labels[way[j]] = EndLabel + (j - 1)
  BY DEF Labelled
<1>2. way[steps + 1] = iStart /\ way[1] = iStop BY DEF Way
<1>3. labels[iStart] = EndLabel + steps
  <2>1. steps + 1 \in 1 .. steps + 1 /\ (steps + 1) - 1 = steps OBVIOUS
  <2>2. labels[way[steps + 1]] = EndLabel + ((steps + 1) - 1) BY <1>1, <2>1
  <2> QED BY <1>2, <2>1, <2>2
<1>4. N \in Nat /\ N >= steps - 1 /\ N >= 1
  <2>1. N \in Nat BY <1>1, StepsNat
  <2>2. N >= labels[iStart] - 1 - EndLabel /\ N >= 1 BY <1>1, StepsEnough
  <2> HIDE DEF N
  <2> QED BY <1>3, <2>1, <2>2 DEF EndLabel
<1>5. PICK q : WalkStates(q, labels, iStart) BY <1>1, Walking
<1>6. /\ q \in [0 .. N -> WalkType] /\ q[0] = WalkStart(labels, iStart) /\ q[N] = walk
      /\ \A k \in 1 .. N : q[k] = WalkOn(labels, q[k - 1])
  BY <1>5 DEF WalkStates
<1> HIDE DEF N, walk
<1>7. /\ q[0].at = iStart /\ q[0].dir = 0 /\ q[0].target = labels[iStart] - 1 /\ ~ q[0].hung
      /\ q[0].places = << >>
  BY <1>6 DEF WalkStart
<1>8. q[0] \in WalkType BY <1>4, <1>6
<1>9. CASE steps = 0
  <2> DEFINE w == q[0]
             Hung(v) == v \in WalkType /\ v.hung
  <2>1. w.target = 9 /\ w.target # EndLabel BY <1>3, <1>7, <1>9 DEF EndLabel
  <2>2. Direction(labels, w) = -1
    <3> SUFFICES ASSUME Direction(labels, w) # -1 PROVE FALSE
      OBVIOUS
    <3> DEFINE n == w.at + Directions[Direction(labels, w) + 1]
    <3>1. n \in Nodes /\ labels[n] = w.target BY <1>8, DirectionIsGood
    <3> HIDE DEF n
    <3>2. (\A j \in 1 .. steps + 1 : way[j] # n) => labels[n] = mz[n] BY <3>1 DEF Labelled
    <3>3. mz[n] \in {0, 1} BY <3>1 DEF Ways
    <3>4. PICK j \in 1 .. steps + 1 : way[j] = n BY <2>1, <3>1, <3>2, <3>3
    <3>5. labels[n] = EndLabel + (j - 1) BY <1>1, <3>4
    <3> QED BY <2>1, <3>1, <3>5 DEF EndLabel
  <2>3. q[1] = [w EXCEPT !.hung = TRUE]
    <3>1. 1 \in 1 .. N /\ 1 - 1 = 0 BY <1>4
    <3>2. q[1] = WalkOn(labels, w) BY <1>6, <3>1
    <3> HIDE DEF w
    <3> QED BY <1>7, <2>1, <2>2, <3>2 DEF WalkOn, w
  <2>4. Hung(q[1])
    <3>1. q[1].hung = TRUE BY <1>8, <2>3 DEF WalkType
    <3>2. 1 \in 0 .. N BY <1>4
    <3> QED BY <1>6, <3>1, <3>2
  <2>5. ASSUME NEW k \in 2 .. N, Hung(q[k - 1]) PROVE Hung(q[k])
    <3>1. k \in 1 .. N /\ k \in 0 .. N OBVIOUS
    <3>2. q[k] = WalkOn(labels, q[k - 1]) BY <1>6, <3>1
    <3>3. q[k] = q[k - 1] BY <2>5, <3>2 DEF WalkOn
    <3> QED BY <2>5, <3>3
  <2> HIDE DEF Hung
  <2> DEFINE bad == {k \in 1 .. N : ~ Hung(q[k])}
  <2>6. bad = {}
    <3> SUFFICES ASSUME bad # {} PROVE FALSE OBVIOUS
    <3>1. bad \in SUBSET Nat OBVIOUS
    <3>2. PICK k \in bad : \A m \in bad : k =< m BY <3>1, LeastNatural
    <3>3. k # 1 BY <2>4
    <3>4. k \in 2 .. N BY <1>4, <3>3
    <3>5. k - 1 \notin bad /\ k - 1 \in 1 .. N BY <1>4, <3>2, <3>4
    <3>6. Hung(q[k - 1]) BY <3>5
    <3>7. Hung(q[k]) BY <2>5, <3>4, <3>6
    <3> QED BY <3>7
  <2>7. Hung(q[N])
    <3>1. N \in 1 .. N BY <1>4
    <3> QED BY <2>6, <3>1
  <2>8. walk.hung BY <1>6, <2>7 DEF Hung
  <2> QED BY <1>9, <2>8 DEF walk
<1>10. CASE steps >= 1
  <2> DEFINE Inv(k) == \E i \in 0 .. steps - 1 :
                          /\ WalkedBack(way, steps, q[k], i) /\ (i = k \/ i = steps - 1)
  <2>1. Inv(0)
    <3>1. 0 \in 0 .. steps - 1 /\ steps + 1 - 0 = steps + 1 BY <1>10
    <3>2. q[0].target = EndLabel + (steps - 1 - 0) BY <1>3, <1>7 DEF EndLabel
    <3>3. Len(q[0].places) = 0 /\ 1 .. 0 = {} BY <1>7
    <3>4. WalkedBack(way, steps, q[0], 0) BY <1>2, <1>7, <1>8, <3>1, <3>2, <3>3 DEF WalkedBack
    <3> QED BY <3>1, <3>4
  <2>2. ASSUME NEW k \in 1 .. N, Inv(k - 1) PROVE Inv(k)
    <3>1. PICK i \in 0 .. steps - 1 :
            /\ WalkedBack(way, steps, q[k - 1], i) /\ (i = k - 1 \/ i = steps - 1)
      BY <2>2
    <3>2. q[k] = WalkOn(labels, q[k - 1]) BY <1>6
    <3>3. CASE i = steps - 1
      <4>1. WalkedBack(way, steps, q[k - 1], i) BY <3>1, <3>3
      <4>2. q[k - 1].target = EndLabel
        <5>1. q[k - 1].target = EndLabel + (steps - 1 - i) BY <4>1 DEF WalkedBack
        <5> QED BY <3>3, <5>1 DEF EndLabel
      <4>3. q[k] = q[k - 1] BY <3>2, <4>2 DEF WalkOn
      <4> QED BY <3>3, <4>1, <4>3
    <3>4. CASE i = k - 1 /\ i < steps - 1
      <4>1. WalkedBack(way, steps, q[k - 1], i) /\ i < steps - 1 BY <3>1, <3>4
      <4>2. /\ mz \in Ways /\ steps \in Nat /\ Way(mz, way, iStart, iStop, steps)
            /\ Labelled(mz, way, steps + 1, labels)
        OBVIOUS
      <4>3. WalkedBack(way, steps, WalkOn(labels, q[k - 1]), i + 1)
        BY ONLY <4>1, <4>2, StepBack
      <4>4. i + 1 = k /\ i + 1 \in 0 .. steps - 1 BY <3>4
      <4> QED BY <3>2, <4>3, <4>4
    <3> QED BY <3>1, <3>3, <3>4
  <2> HIDE DEF Inv
  <2> DEFINE bad == {k \in 0 .. N : ~ Inv(k)}
  <2>3. bad = {}
    <3> SUFFICES ASSUME bad # {} PROVE FALSE OBVIOUS
    <3>1. bad \in SUBSET Nat OBVIOUS
    <3>2. PICK k \in bad : \A m \in bad : k =< m BY <3>1, LeastNatural
    <3>3. k # 0 BY <2>1
    <3>4. k \in 1 .. N BY <1>4, <3>3
    <3>5. k - 1 \notin bad /\ k - 1 \in 0 .. N BY <1>4, <3>2, <3>4
    <3>6. Inv(k - 1) BY <3>5
    <3>7. Inv(k) BY <2>2, <3>4, <3>6
    <3> QED BY <3>7
  <2>4. Inv(N)
    <3>1. N \in 0 .. N BY <1>4
    <3> QED BY <2>3, <3>1
  <2>5. WalkedBack(way, steps, walk, steps - 1)
    <3>1. PICK i \in 0 .. steps - 1 :
            /\ WalkedBack(way, steps, q[N], i) /\ (i = N \/ i = steps - 1)
      BY <2>4 DEF Inv
    <3>2. WalkedBack(way, steps, q[N], i) BY <3>1
    <3>3. i = steps - 1 BY <1>4, <3>1
    <3> QED BY <1>6, <3>2, <3>3
  <2>6. /\ walk \in WalkType /\ ~ walk.hung /\ Len(walk.places) = steps - 1
        /\ \A j \in 1 .. steps - 1 : walk.places[j] = way[steps + 1 - j]
    BY <2>5 DEF WalkedBack
  <2>7. walk.places \in Seq(Nodes) BY <2>6 DEF WalkType
  <2> QED BY <1>10, <2>6, <2>7 DEF walk
<1> QED BY <1>9, <1>10
-----------------------------------------------------------------------------
(* A handler in the solver, when it is alone there.                        *)

\* The first i places are labelled, the others are still to be.
Labelling(mz, sol, i, labels, next, rest) ==
    /\ i < Len(sol) \/ sol = << >>
    /\ next = EndLabel + i /\ Labelled(mz, sol, i, labels)
    /\ Len(rest) = Len(sol) - i /\ \A j \in 1 .. Len(rest) : rest[j] = sol[i + j]

Solving(mz, labels, next, pc, from, to, rest) ==
    LET sol == Solution(mz, from, to)
    IN  /\ from \in Open(mz) /\ to \in Open(mz)
        /\ pc = "copy" => rest = sol /\ next = EndLabel
        /\ pc = "label" => \E i \in 0 .. Len(sol) : Labelling(mz, sol, i, labels, next, rest)
        /\ pc = "take" => sol # << >> /\ Labelled(mz, sol, Len(sol), labels)

LEMMA SolutionIsSeq ==
    ASSUME NEW mz \in Ways, NEW from \in Open(mz), NEW to \in Open(mz)
    PROVE  /\ Solution(mz, from, to) \in Seq(Nodes) /\ Len(Solution(mz, from, to)) \in Nat
           /\ Solution(mz, from, to) = << >> <=> Len(Solution(mz, from, to)) = 0
           /\ \A i, j \in 1 .. Len(Solution(mz, from, to)) :
                 Solution(mz, from, to)[i] = Solution(mz, from, to)[j] => i = j
<1> DEFINE sol == Solution(mz, from, to)
<1>1. from \in Nodes /\ to \in Nodes BY DEF Open
<1>2. sol \in Seq(Nodes) BY <1>1, SolutionType
<1>3. sol = << >> \/ \E steps \in Nat : Way(mz, sol, from, to, steps)
  BY SolutionIsShortest
<1> HIDE DEF sol
<1>4. Len(sol) \in Nat /\ (sol = << >> <=> Len(sol) = 0) BY <1>2
<1>5. \A i, j \in 1 .. Len(sol) : sol[i] = sol[j] => i = j
  <2>1. CASE sol = << >>
    <3>1. 1 .. Len(sol) = {} BY <1>4, <2>1
    <3> QED BY <3>1
  <2>2. CASE \E steps \in Nat : Way(mz, sol, from, to, steps)
    <3>1. PICK steps \in Nat : Way(mz, sol, from, to, steps) BY <2>2
    <3> QED BY <3>1 DEF Way
  <2> QED BY <1>3, <2>1, <2>2
<1> QED BY <1>2, <1>4, <1>5 DEF sol

LEMMA CopyGoesOn ==
    ASSUME NEW mz \in Ways, NEW labels, NEW next, NEW from, NEW to, NEW rest,
           Solving(mz, labels, next, "copy", from, to, rest)
    PROVE  Solving(mz, mz, next, "label", from, to, rest)
<1> DEFINE sol == Solution(mz, from, to)
<1>1. from \in Open(mz) /\ to \in Open(mz) /\ rest = sol /\ next = EndLabel BY DEF Solving
<1>2. sol \in Seq(Nodes) /\ Len(sol) \in Nat /\ (sol = << >> <=> Len(sol) = 0)
  BY <1>1, SolutionIsSeq
<1> HIDE DEF sol
<1>3. Labelled(mz, sol, 0, mz)
  <2>1. mz \in [Nodes -> Int] BY DEF Ways
  <2>2. 1 .. 0 = {} OBVIOUS
  <2> QED BY <2>1, <2>2 DEF Labelled
<1>4. 0 < Len(sol) \/ sol = << >> BY <1>2
<1>5. next = EndLabel + 0 /\ Len(rest) = Len(sol) - 0 BY <1>1, <1>2 DEF EndLabel
<1>6. \A j \in 1 .. Len(rest) : rest[j] = sol[0 + j] BY <1>1, <1>2
<1>7. Labelling(mz, sol, 0, mz, next, rest) BY <1>3, <1>4, <1>5, <1>6 DEF Labelling
<1>8. 0 \in 0 .. Len(sol) BY <1>2
<1> QED BY <1>1, <1>7, <1>8 DEF Solving, sol

LEMMA LabelGoesOn ==
    ASSUME NEW mz \in Ways, NEW labels, NEW next, NEW from, NEW to, NEW rest \in Seq(Nodes),
           Solving(mz, labels, next, "label", from, to, rest), rest # << >>
    PROVE  Solving(mz, [labels EXCEPT ![Head(rest)] = next], next + 1,
                   IF Len(rest) = 1 THEN "take" ELSE "label", from, to, Tail(rest))
<1> DEFINE sol == Solution(mz, from, to)
           pc == IF Len(rest) = 1 THEN "take" ELSE "label"
           n == Head(rest)
           new == [labels EXCEPT ![n] = next]
           tail == Tail(rest)
           L == Len(sol)
<1>1. from \in Open(mz) /\ to \in Open(mz) BY DEF Solving
<1>2. PICK i \in 0 .. L : Labelling(mz, sol, i, labels, next, rest) BY DEF Solving
<1>3. /\ sol \in Seq(Nodes) /\ L \in Nat /\ (sol = << >> <=> L = 0)
      /\ \A j, k \in 1 .. L : sol[j] = sol[k] => j = k
  BY <1>1, SolutionIsSeq
<1> HIDE DEF sol
<1>4. /\ next = EndLabel + i /\ Labelled(mz, sol, i, labels)
      /\ Len(rest) = L - i /\ \A j \in 1 .. Len(rest) : rest[j] = sol[i + j]
  BY <1>2 DEF Labelling
<1>5. Len(rest) \in Nat /\ Len(rest) >= 1 /\ n = rest[1] OBVIOUS
<1>6. i + 1 \in 1 .. L /\ n = sol[i + 1] /\ n \in Nodes BY <1>3, <1>4, <1>5
<1>7. tail \in Seq(Nodes) /\ Len(tail) = Len(rest) - 1
      /\ \A j \in 1 .. Len(rest) - 1 : tail[j] = rest[j + 1]
  OBVIOUS
<1> HIDE DEF n, tail
<1>8. Labelled(mz, sol, i + 1, new)
  <2>1. /\ labels \in [Nodes -> Int]
        /\ \A j \in 1 .. i : labels[sol[j]] = EndLabel + (j - 1)
        /\ \A m \in Nodes : (\A j \in 1 .. i : sol[j] # m) => labels[m] = mz[m]
    BY <1>4 DEF Labelled
  <2>2. next \in Int BY <1>4 DEF EndLabel
  <2>3. new \in [Nodes -> Int] /\ new[n] = next /\ \A m \in Nodes : m # n => new[m] = labels[m]
    BY <1>6, <2>1, <2>2
  <2> HIDE DEF new
  <2>4. ASSUME NEW j \in 1 .. i + 1 PROVE new[sol[j]] = EndLabel + (j - 1)
    <3>1. CASE j = i + 1
      <4>1. j - 1 = i BY <3>1
      <4> QED BY <1>4, <1>6, <2>3, <3>1, <4>1
    <3>2. CASE j # i + 1
      <4>1. j \in 1 .. i /\ j \in 1 .. L BY <1>3, <3>2
      <4>2. sol[j] # n /\ sol[j] \in Nodes BY <1>3, <1>6, <3>2, <4>1
      <4> QED BY <2>1, <2>3, <4>1, <4>2
    <3> QED BY <3>1, <3>2
  <2>5. ASSUME NEW m \in Nodes, \A j \in 1 .. i + 1 : sol[j] # m PROVE new[m] = mz[m]
    <3>1. i + 1 \in 1 .. i + 1 /\ \A j \in 1 .. i : j \in 1 .. i + 1 OBVIOUS
    <3>2. m # n /\ \A j \in 1 .. i : sol[j] # m BY <1>6, <2>5, <3>1
    <3> QED BY <2>1, <2>3, <3>2
  <2> QED BY <2>3, <2>4, <2>5 DEF Labelled
<1> HIDE DEF new
<1>9. CASE Len(rest) = 1
  <2>0. i + 1 = L /\ L # 0
    <3>1. L \in Nat /\ 1 = L - i BY <1>3, <1>4, <1>9
    <3> HIDE DEF L
    <3> QED BY <3>1
  <2>1. i + 1 = L /\ pc = "take" /\ sol # << >> BY <1>3, <1>9, <2>0
  <2> HIDE DEF pc
  <2> QED BY <1>1, <1>8, <2>1 DEF Solving, sol, pc, L, new, n, tail
<1>10. CASE Len(rest) # 1
  <2>1. pc = "label" /\ i + 1 < L BY <1>4, <1>5, <1>10
  <2>2. next + 1 = EndLabel + (i + 1) BY <1>4 DEF EndLabel
  <2>3. Len(tail) = L - (i + 1) BY <1>3, <1>4, <1>7
  <2>4. ASSUME NEW j \in 1 .. Len(tail) PROVE tail[j] = sol[(i + 1) + j]
    <3>1. j \in 1 .. Len(rest) - 1 /\ j + 1 \in 1 .. Len(rest) /\ i + (j + 1) = (i + 1) + j
      BY <1>5, <1>7
    <3> QED BY <1>4, <1>7, <3>1
  <2>5. Labelling(mz, sol, i + 1, new, next + 1, tail) BY <1>8, <2>1, <2>2, <2>3, <2>4 DEF Labelling
  <2>6. i + 1 \in 0 .. L BY <1>6
  <2> HIDE DEF pc
  <2> QED BY <1>1, <2>1, <2>5, <2>6 DEF Solving, sol, pc, L, new, n, tail
<1> QED BY <1>9, <1>10

\* With nothing to label there is no way.
LEMMA NothingToLabel ==
    ASSUME NEW mz \in Ways, NEW labels, NEW next, NEW from, NEW to,
           Solving(mz, labels, next, "label", from, to, << >>)
    PROVE  Distance(mz, from, to) = -1
<1> DEFINE sol == Solution(mz, from, to)
<1>1. from \in Open(mz) /\ to \in Open(mz) BY DEF Solving
<1>2. PICK i \in 0 .. Len(sol) : Labelling(mz, sol, i, labels, next, << >>) BY DEF Solving
<1>3. sol \in Seq(Nodes) /\ Len(sol) \in Nat /\ (sol = << >> <=> Len(sol) = 0)
  BY <1>1, SolutionIsSeq
<1>4. Distance(mz, from, to) = -1 \/ \E steps \in Nat : Way(mz, sol, from, to, steps)
  BY <1>1, SolutionIsShortest
<1> HIDE DEF sol
<1>5. (i < Len(sol) \/ sol = << >>) /\ 0 = Len(sol) - i BY <1>2 DEF Labelling
<1>6. Len(sol) = 0 BY <1>3, <1>5
<1>7. \A steps \in Nat : ~ Way(mz, sol, from, to, steps)
  <2>1. ASSUME NEW steps \in Nat, Way(mz, sol, from, to, steps) PROVE FALSE
    <3>1. Len(sol) = steps + 1 BY <2>1 DEF Way
    <3> QED BY <1>6, <3>1
  <2> QED BY <2>1
<1> QED BY <1>4, <1>7
-----------------------------------------------------------------------------
(* The legs.                                                               *)

\* ShortestLeg, in a maze
ShortestOn(mz, l) ==
    LET nodes == [k \in DOMAIN l.places |-> l.places[k].node]
    IN  IF ~l.solved
        THEN Len(nodes) = 2 /\ Distance(mz, l.places[1].node, Last(l.places).node) = -1
        ELSE /\ Len(nodes) - 1 = Distance(mz, nodes[1], Last(nodes))
             /\ \A k \in DOMAIN nodes : mz[nodes[k]] = 0
             /\ \A k \in 2 .. Len(nodes) : Beside(nodes[k - 1], nodes[k])

LEMMA StraightIsShortest ==
    ASSUME NEW mz, NEW from \in Location, NEW stop \in Location,
           Distance(mz, from.node, stop.node) = -1
    PROVE  LET places == <<Clean(from), stop>>
           IN  ShortestOn(mz, [solved |-> FALSE, places |-> places]) /\ places[1].node = from.node
<1> DEFINE places == <<Clean(from), stop>>
           l == [solved |-> FALSE, places |-> places]
           nodes == [k \in DOMAIN l.places |-> l.places[k].node]
<1>1. Clean(from) \in Location /\ Clean(from).node = from.node
  <2>1. Clean(from).node = from.node BY DEF Clean, At
  <2> QED BY <2>1, CleanIsPlace
<1>2. places \in Seq(Location) /\ Len(places) = 2 /\ places[1] = Clean(from) /\ places[2] = stop
  BY <1>1
<1> HIDE DEF places
<1>3. Last(places).node = stop.node BY <1>2 DEF Last
<1>4. l.places = places /\ l.solved = FALSE OBVIOUS
<1>5. Len(nodes) = 2
  <2>1. DOMAIN l.places = 1 .. 2 BY <1>2, <1>4
  <2>2. nodes = [k \in 1 .. 2 |-> places[k].node] BY <1>4, <2>1
  <2>3. places[1].node \in Nodes /\ places[2].node \in Nodes BY <1>1, <1>2 DEF Location
  <2> HIDE DEF nodes
  <2>4. \A k \in 1 .. 2 : k = 1 \/ k = 2 OBVIOUS
  <2>5. nodes \in [1 .. 2 -> Nodes] BY <2>2, <2>3, <2>4
  <2>6. PICK n \in Nat : n = 2 OBVIOUS
  <2>7. nodes \in [1 .. n -> Nodes] BY <2>5, <2>6
  <2>8. Len(nodes) = n BY <2>7
  <2> QED BY <2>6, <2>8
<1> HIDE DEF l
<1>6. ShortestOn(mz, l) BY <1>1, <1>2, <1>3, <1>4, <1>5 DEF ShortestOn
<1> QED BY <1>1, <1>2, <1>6 DEF l, places

\* The nodes of a leg over the places of a walk
LEMMA WalkedLegNodes ==
    ASSUME NEW from \in Location, NEW stop \in Location, NEW nodes \in Seq(Nodes)
    PROVE  LET places == [k \in DOMAIN nodes |-> At(nodes[k])]
               walked == <<Clean(from)>> \o places \o <<stop>>
           IN  /\ Len(walked) = Len(nodes) + 2 /\ walked[1].node = from.node
               /\ walked[Len(nodes) + 2].node = stop.node
               /\ \A k \in 1 .. Len(nodes) : walked[k + 1].node = nodes[k]
<1> DEFINE places == [k \in DOMAIN nodes |-> At(nodes[k])]
           first == <<Clean(from)>>
           begun == first \o places
           walked == begun \o <<stop>>
           N == Len(nodes)
<1>1. Clean(from) \in Location /\ Clean(from).node = from.node
  <2>1. Clean(from).node = from.node BY DEF Clean, At
  <2> QED BY <2>1, CleanIsPlace
<1>2. \A n \in Nodes : At(n) \in Location /\ At(n).node = n BY DEF At, Location
<1>3. N \in Nat /\ DOMAIN nodes = 1 .. N /\ \A k \in 1 .. N : nodes[k] \in Nodes OBVIOUS
<1> HIDE DEF N
<1>4. places \in Seq(Location) /\ Len(places) = N /\ \A k \in 1 .. N : places[k].node = nodes[k]
  <2>1. places = [k \in 1 .. N |-> At(nodes[k])] BY <1>3
  <2>2. \A k \in 1 .. N : places[k] = At(nodes[k]) BY <2>1
  <2>3. places \in [1 .. N -> Location] BY <1>2, <1>3, <2>1
  <2>4. places \in Seq(Location) /\ Len(places) = N BY <1>3, <2>1, <2>3
  <2> HIDE DEF places
  <2> QED BY <1>2, <1>3, <2>2, <2>4
<1> HIDE DEF places
<1>5. first \in Seq(Location) /\ Len(first) = 1 /\ first[1] = Clean(from) BY <1>1
<1> HIDE DEF first
<1>6. /\ begun \in Seq(Location) /\ Len(begun) = N + 1 /\ begun[1] = Clean(from)
      /\ \A k \in 1 .. N : begun[k + 1] = places[k]
  <2>1. /\ first \o places \in Seq(Location) /\ Len(first \o places) = Len(first) + Len(places)
        /\ \A k \in 1 .. Len(first) + Len(places) :
              (first \o places)[k] = IF k =< Len(first) THEN first[k] ELSE places[k - Len(first)]
    <3>1. first \in Seq(Location) /\ places \in Seq(Location) BY <1>4, <1>5
    <3> QED BY ONLY <3>1, ConcatProperties
  <2>2. Len(first) = 1 /\ Len(places) = N BY <1>4, <1>5
  <2>3. \A k \in 1 .. 1 + N : begun[k] = IF k =< 1 THEN first[k] ELSE places[k - 1]
    BY <2>1, <2>2
  <2>4. begun \in Seq(Location) /\ Len(begun) = 1 + N BY <2>1, <2>2
  <2> HIDE DEF begun
  <2>5. begun[1] = Clean(from) /\ Len(begun) = N + 1 BY <1>3, <1>5, <2>3, <2>4
  <2>6. ASSUME NEW k \in 1 .. N PROVE begun[k + 1] = places[k]
    <3>1. k + 1 \in 1 .. 1 + N /\ ~ (k + 1 =< 1) /\ k + 1 - 1 = k BY <1>3
    <3> QED BY <2>3, <3>1
  <2> QED BY <2>4, <2>5, <2>6
<1> HIDE DEF begun
<1>7. /\ Len(walked) = N + 2 /\ walked[N + 2] = stop /\ \A k \in 1 .. N + 1 : walked[k] = begun[k]
  BY <1>3, <1>6
<1> HIDE DEF walked
<1>8. walked[1].node = from.node
  <2>1. 1 \in 1 .. N + 1 BY <1>3
  <2> QED BY <1>1, <1>6, <1>7, <2>1
<1>9. ASSUME NEW k \in 1 .. N PROVE walked[k + 1].node = nodes[k]
  <2>1. k + 1 \in 1 .. N + 1 BY <1>3
  <2> QED BY <1>4, <1>6, <1>7, <2>1
<1> QED BY <1>7, <1>8, <1>9 DEF walked, begun, first, places, N

\* A leg over a way that is as long as the distance
SolvedLeg(places) == [solved |-> TRUE, places |-> places]
LegOver(way, steps, places) ==
    /\ places \in Seq(Location) /\ Len(places) = steps + 1
    /\ \A k \in 1 .. steps + 1 : places[k].node = way[steps + 2 - k]

LEMMA WayIsShortest ==
    ASSUME NEW mz \in Ways, NEW iStart \in Nodes, NEW iStop, NEW steps \in Nat, NEW way,
           Way(mz, way, iStart, iStop, steps), Distance(mz, iStart, iStop) = steps,
           NEW places, LegOver(way, steps, places)
    PROVE  ShortestOn(mz, SolvedLeg(places))
<1> DEFINE l == SolvedLeg(places)
           nodes == [k \in DOMAIN l.places |-> l.places[k].node]
<1>0. /\ places \in Seq(Location) /\ Len(places) = steps + 1
      /\ \A k \in 1 .. steps + 1 : places[k].node = way[steps + 2 - k]
  BY DEF LegOver
<1>1. l.places = places /\ l.solved = TRUE BY DEF SolvedLeg
<1>2. /\ way[1] = iStop /\ way[steps + 1] = iStart
      /\ \A j \in 1 .. steps + 1 : way[j] \in Open(mz)
      /\ \A j \in 1 .. steps : Beside(way[j], way[j + 1])
  BY DEF Way
<1>3. /\ nodes \in Seq(Nodes) /\ Len(nodes) = steps + 1 /\ DOMAIN nodes = 1 .. steps + 1
      /\ \A k \in 1 .. steps + 1 : nodes[k] = way[steps + 2 - k]
  <2>1. DOMAIN l.places = 1 .. steps + 1 BY <1>0, <1>1
  <2>2. nodes = [k \in 1 .. steps + 1 |-> places[k].node] BY <1>1, <2>1
  <2>3. \A k \in 1 .. steps + 1 : places[k].node \in Nodes
    <3>1. \A k \in 1 .. steps + 1 : places[k] \in Location BY <1>0
    <3> QED BY <3>1 DEF Location
  <2> HIDE DEF nodes
  <2>4. nodes \in [1 .. steps + 1 -> Nodes] BY <2>2, <2>3
  <2>5. nodes \in Seq(Nodes) BY <2>4
  <2>6. Len(nodes) = steps + 1 /\ DOMAIN nodes = 1 .. steps + 1 BY <2>4, <2>5
  <2>7. \A k \in 1 .. steps + 1 : nodes[k] = places[k].node BY <2>2
  <2> QED BY <1>0, <2>5, <2>6, <2>7
<1> HIDE DEF l, nodes
<1>4. nodes[1] = iStart /\ Last(nodes) = iStop
  <2>1. /\ 1 \in 1 .. steps + 1 /\ steps + 1 \in 1 .. steps + 1
        /\ steps + 2 - 1 = steps + 1 /\ steps + 2 - (steps + 1) = 1
    OBVIOUS
  <2>2. nodes[1] = iStart /\ nodes[steps + 1] = iStop BY <1>2, <1>3, <2>1
  <2> QED BY <1>3, <2>2 DEF Last
<1>5. Len(nodes) - 1 = Distance(mz, nodes[1], Last(nodes)) BY <1>3, <1>4
<1>6. ASSUME NEW k \in DOMAIN nodes PROVE mz[nodes[k]] = 0
  <2>1. k \in 1 .. steps + 1 BY <1>3
  <2>2. steps + 2 - k \in 1 .. steps + 1 BY <2>1
  <2> QED BY <1>2, <1>3, <2>1, <2>2 DEF Open
<1>7. ASSUME NEW k \in 2 .. Len(nodes) PROVE Beside(nodes[k - 1], nodes[k])
  <2>1. k \in 1 .. steps + 1 /\ k - 1 \in 1 .. steps + 1 BY <1>3
  <2> DEFINE j == steps + 2 - k
  <2>2. j \in 1 .. steps /\ steps + 2 - (k - 1) = j + 1 /\ j \in 1 .. steps + 1
        /\ j + 1 \in 1 .. steps + 1
    BY <1>3, <2>1
  <2>3. nodes[k - 1] = way[j + 1] /\ nodes[k] = way[j]
    <3>1. nodes[k - 1] = way[steps + 2 - (k - 1)] /\ nodes[k] = way[j] BY <1>3, <2>1
    <3> QED BY <2>2, <3>1
  <2> HIDE DEF j
  <2>4. way[j] \in Nodes /\ way[j + 1] \in Nodes BY <1>2, <2>2 DEF Open
  <2>5. Beside(way[j + 1], way[j]) BY <1>2, <2>2, <2>4, BesideBothWays
  <2> QED BY <2>3, <2>5
<1>8. ShortestOn(mz, l)
  <2>1. nodes = [k \in DOMAIN l.places |-> l.places[k].node] BY DEF nodes
  <2> QED BY <1>1, <1>5, <1>6, <1>7, <2>1 DEF ShortestOn
<1> QED BY <1>8 DEF l

\* The leg that is made of a walk
LegAlong(walk, from, stop) ==
    LET places == [k \in DOMAIN walk.places |-> At(walk.places[k])]
    IN  <<Clean(from)>> \o places \o <<stop>>

Walked(mz, walk, from, stop) ==
    /\ walk.hung => from.node = stop.node
    /\ ~ walk.hung => /\ ShortestOn(mz, SolvedLeg(LegAlong(walk, from, stop)))
                      /\ LegAlong(walk, from, stop)[1].node = from.node

LEMMA WalkIsShortest ==
    ASSUME NEW mz \in Ways, NEW labels, NEW next, NEW from \in Location, NEW stop \in Location,
           NEW rest, Solving(mz, labels, next, "take", from.node, stop.node, rest)
    PROVE  Walked(mz, Walk(labels, from.node), from, stop)
<1> DEFINE walk == Walk(labels, from.node)
           leg0 == LegAlong(walk, from, stop)
           iStart == from.node
           iStop == stop.node
           sol == Solution(mz, iStart, iStop)
           steps == Distance(mz, iStart, iStop)
<1>1. /\ iStart \in Open(mz) /\ iStop \in Open(mz)
      /\ sol # << >> /\ Labelled(mz, sol, Len(sol), labels)
  BY DEF Solving
<1>2. steps \in Nat /\ Way(mz, sol, iStart, iStop, steps) BY <1>1, SolutionIsShortest
<1>3. iStart \in Nodes /\ iStop \in Nodes BY <1>1 DEF Open
<1> HIDE DEF sol
<1>4. PICK D : D = steps OBVIOUS
<1> HIDE DEF steps
<1>5. D \in Nat /\ Way(mz, sol, iStart, iStop, D) /\ Distance(mz, iStart, iStop) = D
  BY <1>2, <1>4 DEF steps
<1>6. Len(sol) = D + 1 /\ sol[1] = iStop /\ sol[D + 1] = iStart BY <1>5 DEF Way
<1>7. Labelled(mz, sol, D + 1, labels) BY <1>1, <1>6
<1> HIDE DEF iStart, iStop, walk, leg0
<1>8. GoesBack(walk, sol, D)
  <2>1. mz \in Ways /\ iStart \in Nodes /\ D \in Nat /\ Way(mz, sol, iStart, iStop, D)
        /\ Labelled(mz, sol, D + 1, labels)
    BY <1>3, <1>5, <1>7
  <2>2. walk = Walk(labels, iStart) BY DEF iStart, walk
  <2>3. GoesBack(Walk(labels, iStart), sol, D) BY ONLY <2>1, WalkIsWay
  <2> QED BY <2>2, <2>3
<1>9. ASSUME walk.hung PROVE from.node = stop.node
  <2>1. D = 0 BY <1>8, <1>9 DEF GoesBack
  <2>2. iStart = iStop BY <1>6, <2>1
  <2> QED BY <2>2 DEF iStart, iStop
<1>10. ASSUME ~ walk.hung
       PROVE  ShortestOn(mz, SolvedLeg(leg0)) /\ leg0[1].node = from.node
  <2>1. /\ D >= 1 /\ walk.places \in Seq(Nodes) /\ Len(walk.places) = D - 1
        /\ \A j \in 1 .. D - 1 : walk.places[j] = sol[D + 1 - j]
    BY <1>8, <1>10 DEF GoesBack
  <2> DEFINE nodes == walk.places
             N == Len(nodes)
  <2>2. leg0 \in Seq(Location) BY <2>1, WalkedLeg DEF leg0, LegAlong
  <2>3. /\ Len(leg0) = N + 2 /\ leg0[1].node = from.node
        /\ leg0[N + 2].node = stop.node
        /\ \A k \in 1 .. N : leg0[k + 1].node = nodes[k]
    <3> HIDE DEF N
    <3>1. nodes \in Seq(Nodes) BY <2>1
    <3> HIDE DEF nodes
    <3>2. LET p == [k \in DOMAIN nodes |-> At(nodes[k])]
              l == <<Clean(from)>> \o p \o <<stop>>
          IN  /\ Len(l) = Len(nodes) + 2 /\ l[1].node = from.node
              /\ l[Len(nodes) + 2].node = stop.node
              /\ \A k \in 1 .. Len(nodes) : l[k + 1].node = nodes[k]
      BY ONLY <3>1, from \in Location, stop \in Location, WalkedLegNodes
    <3>3. leg0 = <<Clean(from)>> \o [k \in DOMAIN nodes |-> At(nodes[k])] \o <<stop>>
      BY DEF nodes, leg0, LegAlong
    <3> QED BY ONLY <3>2, <3>3 DEF N
  <2>4. N = D - 1 BY <2>1
  <2> HIDE DEF N
  <2>9. Len(leg0) = D + 1
    <3>1. Len(leg0) = N + 2 BY <2>3
    <3>2. N + 2 = D + 1
      <4>1. D \in Nat BY <1>5
      <4> QED BY ONLY <2>4, <4>1
    <3> QED BY ONLY <3>1, <3>2
  <2> HIDE DEF nodes
  <2>5. ASSUME NEW k \in 1 .. D + 1 PROVE leg0[k].node = sol[D + 2 - k]
    <3>1. CASE k = 1
      <4>1. D + 2 - k = D + 1 BY <1>5, <3>1
      <4> QED BY <1>6, <2>3, <3>1, <4>1 DEF iStart
    <3>2. CASE k = D + 1
      <4>1. D + 2 - k = 1 /\ N + 2 = k BY <1>5, <2>4, <3>2
      <4> QED BY <1>6, <2>3, <3>2, <4>1 DEF iStop
    <3>3. CASE k # 1 /\ k # D + 1
      <4>1. k - 1 \in 1 .. N /\ k - 1 \in 1 .. D - 1 /\ (k - 1) + 1 = k /\ D + 1 - (k - 1) = D + 2 - k
        BY <1>5, <2>4, <3>3
      <4>2. leg0[k].node = nodes[k - 1]
        <5>1. leg0[(k - 1) + 1].node = nodes[k - 1] BY <2>3, <4>1
        <5> QED BY <4>1, <5>1
      <4>3. nodes[k - 1] = sol[D + 2 - k]
        <5>1. nodes[k - 1] = sol[D + 1 - (k - 1)] BY <2>1, <4>1 DEF nodes
        <5> QED BY <4>1, <5>1
      <4> QED BY <4>2, <4>3
    <3> QED BY <3>1, <3>2, <3>3
  <2>6. ShortestOn(mz, SolvedLeg(leg0))
    <3>1. /\ mz \in Ways /\ iStart \in Nodes /\ D \in Nat /\ Way(mz, sol, iStart, iStop, D)
          /\ Distance(mz, iStart, iStop) = D
      BY <1>3, <1>5
    <3>2. LegOver(sol, D, leg0) BY <2>2, <2>5, <2>9 DEF LegOver
    <3> QED BY ONLY <3>1, <3>2, WayIsShortest
  <2> QED BY <2>3, <2>6
<1> QED BY <1>9, <1>10 DEF Walked, leg0, walk
-----------------------------------------------------------------------------
(* The legs of a handler's task, as far as it was alone in the solver.     *)

\* Every leg begins where its start is and is a shortest one.
LegsShortest(mz, stops, legs) ==
    \A k \in DOMAIN legs :
        ShortestOn(mz, legs[k]) /\ legs[k].places[1].node = From(stops, k).node

PathOf(mz, labels, next, pc, stops, i, rest, legs) ==
    /\ LegsShortest(mz, stops, legs)
    /\ pc \in InSolver =>
          Solving(mz, labels, next, pc, From(stops, i).node, stops[i].node, rest)
    /\ pc = "hung" => From(stops, i).node = stops[i].node
    /\ pc = "undefined" => Distance(mz, From(stops, i).node, stops[i].node) = -1

Path(h) == PathOf(maze, solved, iPath, mpc[h], route[h], leg[h], trace[h], plan[h])

\* Nobody but h is in the solver, and there is at most one who is.
Alone(h) == \A g \in Planners \ {h} : mpc[g] \notin InSolver
OneInSolver == \A g, h \in Planners : mpc[g] \in InSolver /\ mpc[h] \in InSolver => g = h

Undisturbed == OneInSolver /\ \A h \in Planners : Path(h)
PathsInv == met \/ Undisturbed

\* What a step leaves to the other handler: it stays out of the labels, or the
\* other is not in the solver.
LeavesOther(h, pc) ==
    \/ Alone(h)
    \/ UNCHANGED <<solved, iPath>> /\ (pc \notin InSolver \/ mpc[h] \in InSolver)

LEMMA OnePathChanges ==
    ASSUME PlannerInv, Undisturbed, NEW h \in Planners,
           NEW pc, NEW stops, NEW i, NEW rest, NEW legs,
           mpc' = [mpc EXCEPT ![h] = pc], route' = [route EXCEPT ![h] = stops],
           leg' = [leg EXCEPT ![h] = i], trace' = [trace EXCEPT ![h] = rest],
           plan' = [plan EXCEPT ![h] = legs],
           UNCHANGED floorVars, LeavesOther(h, pc),
           PathOf(maze, solved', iPath', pc, stops, i, rest, legs)
    PROVE  Undisturbed'
<1>1. Typed BY DEF PlannerInv
<1>2. maze' = maze BY DEF floorVars
<1>3. /\ mpc'[h] = pc /\ route'[h] = stops /\ leg'[h] = i /\ trace'[h] = rest /\ plan'[h] = legs
      /\ \A g \in Planners \ {h} :
            /\ mpc'[g] = mpc[g] /\ route'[g] = route[g] /\ leg'[g] = leg[g]
            /\ trace'[g] = trace[g] /\ plan'[g] = plan[g]
  BY <1>1 DEF Typed
<1>4. OneInSolver'
  <2>1. ASSUME NEW g \in Planners \ {h}, mpc'[g] \in InSolver PROVE mpc'[h] \notin InSolver
    <3>1. mpc[g] \in InSolver BY <1>3, <2>1
    <3>2. ~ Alone(h) BY <3>1 DEF Alone
    <3>3. pc \notin InSolver \/ mpc[h] \in InSolver BY <3>2 DEF LeavesOther
    <3>4. mpc[h] \notin InSolver BY <3>1 DEF Undisturbed, OneInSolver
    <3> QED BY <1>3, <3>3, <3>4
  <2>2. ASSUME NEW f \in Planners \ {h}, NEW g \in Planners \ {h},
               mpc'[f] \in InSolver, mpc'[g] \in InSolver
        PROVE  f = g
    <3>1. mpc[f] \in InSolver /\ mpc[g] \in InSolver BY <1>3, <2>2
    <3> QED BY <3>1 DEF Undisturbed, OneInSolver
  <2>3. ASSUME NEW f \in Planners, NEW g \in Planners,
               mpc'[f] \in InSolver, mpc'[g] \in InSolver
        PROVE  f = g
    <3>1. CASE f = h
      <4>1. g = h BY <2>1, <2>3, <3>1
      <4> QED BY <3>1, <4>1
    <3>2. CASE f # h
      <4>1. g # h BY <2>1, <2>3, <3>2
      <4> QED BY <2>2, <2>3, <3>2, <4>1
    <3> QED BY <3>1, <3>2
  <2> QED BY <2>3 DEF OneInSolver, InSolver
<1>5. ASSUME NEW g \in Planners PROVE Path(g)'
  <2>1. CASE g = h BY <1>2, <1>3, <2>1 DEF Path
  <2>2. CASE g # h
    <3>1. PathOf(maze, solved, iPath, mpc[g], route[g], leg[g], trace[g], plan[g])
      BY DEF Undisturbed, Path
    <3>2. PathOf(maze, solved', iPath', mpc[g], route[g], leg[g], trace[g], plan[g])
      <4>1. CASE Alone(h)
        <5>1. mpc[g] \notin InSolver BY <2>2, <4>1 DEF Alone
        <5> QED BY <3>1, <5>1 DEF PathOf
      <4>2. CASE UNCHANGED <<solved, iPath>> BY <3>1, <4>2
      <4> QED BY <4>1, <4>2 DEF LeavesOther
    <3> QED BY <1>2, <1>3, <2>2, <3>2 DEF Path
  <2> QED BY <2>1, <2>2
<1> QED BY <1>4, <1>5 DEF Undisturbed

\* One who has met nobody was alone.
LEMMA AloneUnlessMet ==
    ASSUME NEW h \in Planners, Meet(h), ~ met' PROVE Alone(h)
  BY DEF Meet, Alone

\* A leg more
LEMMA OneLegMore ==
    ASSUME NEW mz, NEW floor, NEW pc, NEW stops, NEW i, NEW labels, NEW legs,
           TaskInv(floor, pc, stops, i, labels, legs), pc \notin {"idle", "done"},
           LegsShortest(mz, stops, legs), NEW l \in PlannedLeg,
           ShortestOn(mz, l), l.places[1].node = From(stops, i).node
    PROVE  LegsShortest(mz, stops, Append(legs, l))
<1> DEFINE legs2 == Append(legs, l)
<1>1. legs \in Seq(PlannedLeg) /\ i \in Nat /\ i \in 1 .. Len(stops) /\ stops \in Seq(Location)
  BY DEF TaskInv, TaskTyped
<1>2. Len(legs) = i - 1 BY DEF TaskInv, LegsOf
<1>3. legs2 \in Seq(PlannedLeg) /\ Len(legs2) = i /\ legs2[i] = l
      /\ \A k \in 1 .. i - 1 : legs2[k] = legs[k]
  BY <1>1, <1>2
<1> HIDE DEF legs2
<1>4. ASSUME NEW k \in DOMAIN legs2
      PROVE  ShortestOn(mz, legs2[k]) /\ legs2[k].places[1].node = From(stops, k).node
  <2>1. k \in 1 .. i BY <1>3
  <2>2. CASE k = i BY <1>3, <2>2
  <2>3. CASE k # i
    <3>1. k \in 1 .. i - 1 /\ k \in DOMAIN legs BY <1>1, <1>2, <2>1, <2>3
    <3> QED BY <1>3, <3>1 DEF LegsShortest
  <2> QED BY <2>2, <2>3
<1> QED BY <1>4 DEF LegsShortest, legs2

\* The stop that a leg sets out to does not matter to the legs there are, and
\* neither to its own start.
LEMMA SetOutLegs ==
    ASSUME NEW mz, NEW floor, NEW pc, NEW stops, NEW i, NEW labels, NEW legs,
           TaskInv(floor, pc, stops, i, labels, legs), pc \notin {"idle", "done"},
           LegsShortest(mz, stops, legs), NEW stop
    PROVE  LET stops2 == [stops EXCEPT ![i] = stop]
           IN  /\ LegsShortest(mz, stops2, legs) /\ From(stops2, i) = From(stops, i)
               /\ stops2[i] = stop
<1> DEFINE stops2 == [stops EXCEPT ![i] = stop]
<1>1. legs \in Seq(PlannedLeg) /\ i \in Nat /\ i \in 1 .. Len(stops) /\ stops \in Seq(Location)
  BY DEF TaskInv, TaskTyped
<1>2. Len(legs) = i - 1 BY DEF TaskInv, LegsOf
<1>3. stops2[i] = stop /\ \A k \in 1 .. i - 1 : stops2[k] = stops[k] BY <1>1
<1> HIDE DEF stops2
<1>4. ASSUME NEW k \in 1 .. i PROVE From(stops2, k) = From(stops, k)
  <2>1. CASE k = 1 BY <2>1 DEF From
  <2>2. CASE k # 1
    <3>1. k - 1 \in 1 .. i - 1 BY <1>1, <2>2
    <3>2. stops2[k - 1] = stops[k - 1] BY <1>3, <3>1
    <3> QED BY <2>2, <3>2 DEF From
  <2> QED BY <2>1, <2>2
<1>5. From(stops2, i) = From(stops, i)
  <2>1. i \in 1 .. i BY <1>1
  <2> QED BY <1>4, <2>1
<1>6. LegsShortest(mz, stops2, legs)
  <2>1. ASSUME NEW k \in DOMAIN legs
        PROVE  ShortestOn(mz, legs[k]) /\ legs[k].places[1].node = From(stops2, k).node
    <3>1. k \in 1 .. i BY <1>1, <1>2
    <3>2. From(stops2, k) = From(stops, k) BY <1>4, <3>1
    <3> QED BY <3>2 DEF LegsShortest
  <2> QED BY <2>1 DEF LegsShortest
<1> QED BY <1>3, <1>5, <1>6 DEF stops2

\* Out of the solver only the legs matter.
LEMMA OnlyLegs ==
    ASSUME NEW mz, NEW labels, NEW next, NEW pc, NEW stops, NEW i, NEW rest, NEW legs,
           pc \in {"idle", "leg", "done"}, LegsShortest(mz, stops, legs)
    PROVE  PathOf(mz, labels, next, pc, stops, i, rest, legs)
  BY DEF PathOf, InSolver

\* A leg ends.
LEMMA LegEndsPath ==
    ASSUME PlannerInv, Undisturbed, NEW h \in Planners, NEW pc, NEW stops, NEW labels,
           TaskInv(layout, pc, stops, leg[h], labels, plan[h]), pc \notin {"idle", "done"},
           route' = [route EXCEPT ![h] = stops],
           LegsShortest(maze, stops, plan[h]),
           NEW ok \in BOOLEAN, NEW places \in Seq(Location),
           ShortestOn(maze, [solved |-> ok, places |-> places]),
           places[1].node = From(stops, leg[h]).node,
           NextLeg(h, ok, places),
           UNCHANGED floorVars, LeavesOther(h, "leg")
    PROVE  Undisturbed'
<1> DEFINE pc2 == IF leg[h] = Len(route[h]) THEN "done" ELSE "leg"
           l == [solved |-> ok, places |-> places]
           legs2 == Append(plan[h], l)
           i2 == leg[h] + 1
           none == << >>
<1>1. Typed BY DEF PlannerInv
<1>2. l \in PlannedLeg /\ l.places = places BY DEF PlannedLeg
<1>3. ShortestOn(maze, l) OBVIOUS
<1>4. /\ mpc' = [mpc EXCEPT ![h] = pc2] /\ leg' = [leg EXCEPT ![h] = i2]
      /\ trace' = [trace EXCEPT ![h] = none] /\ plan' = [plan EXCEPT ![h] = legs2]
  BY <1>1 DEF NextLeg, Typed
<1> HIDE DEF l
<1>5. l.places[1].node = From(stops, leg[h]).node BY <1>2
<1>6. LegsShortest(maze, stops, legs2)
  <2>1. /\ TaskInv(layout, pc, stops, leg[h], labels, plan[h]) /\ pc \notin {"idle", "done"}
        /\ LegsShortest(maze, stops, plan[h])
    OBVIOUS
  <2> QED BY ONLY <1>2, <1>3, <1>5, <2>1, OneLegMore
<1> HIDE DEF legs2
<1>7. pc2 \in {"idle", "leg", "done"} /\ pc2 \notin InSolver /\ "leg" \notin InSolver
  BY DEF InSolver
<1> HIDE DEF pc2, i2, none
<1>8. PathOf(maze, solved', iPath', pc2, stops, i2, none, legs2) BY <1>6, <1>7, OnlyLegs
<1>9. LeavesOther(h, pc2) BY <1>7 DEF LeavesOther
<1>10. /\ PlannerInv /\ Undisturbed /\ h \in Planners
       /\ route' = [route EXCEPT ![h] = stops] /\ UNCHANGED floorVars
  OBVIOUS
<1> QED BY ONLY <1>4, <1>8, <1>9, <1>10, OnePathChanges

LEMMA SettingOutPath ==
    ASSUME PlannerInv, NEW h \in Planners, Path(h), mpc[h] = "leg"
    PROVE  LET stops == [route[h] EXCEPT ![leg[h]] = EndOf(h)]
           IN  /\ LegsShortest(maze, stops, plan[h])
               /\ From(stops, leg[h]) = StartOf(h) /\ stops[leg[h]] = EndOf(h)
<1>1. TaskInv(layout, mpc[h], route[h], leg[h], trace[h], plan[h]) BY DEF PlannerInv, Task
<1>2. mpc[h] \notin {"idle", "done"} OBVIOUS
<1>3. LegsShortest(maze, route[h], plan[h]) BY DEF Path, PathOf
<1>4. From(route[h], leg[h]) = StartOf(h) BY DEF From, StartOf
<1>5. LET stops2 == [route[h] EXCEPT ![leg[h]] = EndOf(h)]
      IN  /\ LegsShortest(maze, stops2, plan[h])
          /\ From(stops2, leg[h]) = From(route[h], leg[h]) /\ stops2[leg[h]] = EndOf(h)
  BY ONLY <1>1, <1>2, <1>3, SetOutLegs
<1> QED BY <1>4, <1>5

\* There is no way from or to a place that is not open.
LEMMA NoWayClosed ==
    ASSUME NEW mz, NEW from, NEW to, mz[from] # 0 \/ mz[to] # 0
    PROVE  Distance(mz, from, to) = -1
  BY DEF Distance

LEMMA MazeIsWays ==
    ASSUME PlannerInv PROVE maze \in Ways
<1>1. maze = Access(layout) BY DEF PlannerInv, FloorAsFound
<1> QED BY <1>1 DEF Access, Ways

LEMMA GeneratePath ==
    ASSUME PlannerInv, Undisturbed, Generate PROVE Undisturbed'
<1>1. PICK n \in 1 .. Items : \E shelves \in [1 .. n -> ShelfStops] :
        GenerateRestockTask(shelves) \/ GenerateDeliveryTask(shelves)
  BY DEF Generate
<1>2. PICK shelves \in [1 .. n -> ShelfStops] :
        GenerateRestockTask(shelves) \/ GenerateDeliveryTask(shelves)
  BY <1>1
<1>3. \E h \in Planners : \E new :
          /\ mpc[h] = "idle" /\ mpc' = [mpc EXCEPT ![h] = "leg"]
          /\ route' = [route EXCEPT ![h] = new] /\ leg' = [leg EXCEPT ![h] = 1]
          /\ UNCHANGED <<floorVars, solved, iPath, trace, plan, met>>
  <2>1. ResHandler \in Planners /\ DelHandler \in Planners BY DEF Planners
  <2>2. CASE GenerateRestockTask(shelves)
    BY <2>1, <2>2 DEF GenerateRestockTask, PlannerGo
  <2>3. CASE GenerateDeliveryTask(shelves)
    BY <2>1, <2>3 DEF GenerateDeliveryTask, PlannerGo
  <2> QED BY <1>2, <2>2, <2>3
<1>3a. PICK h \in Planners : \E new :
          /\ mpc[h] = "idle" /\ mpc' = [mpc EXCEPT ![h] = "leg"]
          /\ route' = [route EXCEPT ![h] = new] /\ leg' = [leg EXCEPT ![h] = 1]
          /\ UNCHANGED <<floorVars, solved, iPath, trace, plan, met>>
  BY <1>3
<1>4. PICK new :
          /\ mpc[h] = "idle" /\ mpc' = [mpc EXCEPT ![h] = "leg"]
          /\ route' = [route EXCEPT ![h] = new] /\ leg' = [leg EXCEPT ![h] = 1]
          /\ UNCHANGED <<floorVars, solved, iPath, trace, plan, met>>
  BY <1>3a
<1>5. TaskInv(layout, "idle", route[h], leg[h], trace[h], plan[h]) BY <1>4 DEF PlannerInv, Task
<1>6. DOMAIN plan[h] = {}
  <2>1. plan[h] \in Seq(PlannedLeg) /\ Len(plan[h]) = 0
    BY <1>5 DEF TaskInv, TaskTyped, LegsOf
  <2> QED BY <2>1
<1>7. LegsShortest(maze, new, plan[h]) BY <1>6 DEF LegsShortest
<1>8. PathOf(maze, solved', iPath', "leg", new, 1, trace[h], plan[h]) BY <1>7, OnlyLegs
<1>9. LeavesOther(h, "leg") BY <1>4 DEF LeavesOther, InSolver
<1>10. /\ trace' = [trace EXCEPT ![h] = trace[h]] /\ plan' = [plan EXCEPT ![h] = plan[h]]
  BY <1>4 DEF PlannerInv, Typed
<1>11. /\ PlannerInv /\ Undisturbed /\ h \in Planners /\ UNCHANGED floorVars
       /\ mpc' = [mpc EXCEPT ![h] = "leg"] /\ route' = [route EXCEPT ![h] = new]
       /\ leg' = [leg EXCEPT ![h] = 1]
  BY <1>4
<1> QED BY ONLY <1>8, <1>9, <1>10, <1>11, OnePathChanges

LEMMA BlockedPath ==
    ASSUME PlannerInv, Undisturbed, NEW h \in Planners, LegBlocked(h), ~ met'
    PROVE  Undisturbed'
<1> DEFINE stops == [route[h] EXCEPT ![leg[h]] = EndOf(h)]
           places == <<Clean(StartOf(h)), EndOf(h)>>
<1>1. /\ mpc[h] = "leg" /\ SetOut(h) /\ NextLeg(h, FALSE, places)
      /\ maze[StartOf(h).node] # 0 \/ maze[EndOf(h).node] # 0
      /\ UNCHANGED <<floorVars, solved>>
  BY DEF LegBlocked
<1>2. << >> \in Seq(Nodes) /\ Path(h) BY DEF Undisturbed
<1>3. /\ route' = [route EXCEPT ![h] = stops]
      /\ TaskInv(layout, "copy", stops, leg[h], << >>, plan[h])
      /\ StartOf(h) \in Location /\ EndOf(h) \in Location
  BY <1>1, <1>2, SettingOut
<1>4. LegsShortest(maze, stops, plan[h]) /\ From(stops, leg[h]) = StartOf(h)
  BY <1>1, <1>2, SettingOutPath
<1>5. places \in Seq(Location) BY <1>3, StraightLeg
<1>6. Distance(maze, StartOf(h).node, EndOf(h).node) = -1 BY <1>1, NoWayClosed
<1>7. ShortestOn(maze, [solved |-> FALSE, places |-> places]) /\ places[1].node = StartOf(h).node
  BY <1>3, <1>6, StraightIsShortest
<1> HIDE DEF stops, places
<1>8. Alone(h) BY <1>1, AloneUnlessMet DEF SetOut
<1>9. LeavesOther(h, "leg") BY <1>8 DEF LeavesOther
<1>10. PICK pc : pc = "copy" OBVIOUS
<1>11. TaskInv(layout, pc, stops, leg[h], << >>, plan[h]) /\ pc \notin {"idle", "done"}
  BY <1>3, <1>10
<1>12. /\ PlannerInv /\ Undisturbed /\ h \in Planners /\ FALSE \in BOOLEAN
       /\ NextLeg(h, FALSE, places) /\ UNCHANGED floorVars
       /\ places[1].node = From(stops, leg[h]).node
  BY <1>1, <1>4, <1>7
<1> QED BY ONLY <1>3, <1>4, <1>5, <1>7, <1>9, <1>11, <1>12, LegEndsPath

LEMMA SearchedPath ==
    ASSUME PlannerInv, Undisturbed, NEW h \in Planners, LegSearched(h), ~ met'
    PROVE  Undisturbed'
<1> DEFINE stops == [route[h] EXCEPT ![leg[h]] = EndOf(h)]
           new == Solution(maze, StartOf(h).node, EndOf(h).node)
<1>1. /\ mpc[h] = "leg" /\ mpc' = [mpc EXCEPT ![h] = "copy"] /\ SetOut(h)
      /\ maze[StartOf(h).node] = 0 /\ maze[EndOf(h).node] = 0
      /\ trace' = [trace EXCEPT ![h] = new]
      /\ UNCHANGED <<floorVars, solved, leg, plan>>
  BY DEF LegSearched, PlannerGo
<1>2. << >> \in Seq(Nodes) /\ Path(h) BY DEF Undisturbed
<1>3. /\ route' = [route EXCEPT ![h] = stops]
      /\ StartOf(h) \in Location /\ EndOf(h) \in Location
  BY <1>1, <1>2, SettingOut
<1>4. LegsShortest(maze, stops, plan[h]) /\ From(stops, leg[h]) = StartOf(h)
      /\ stops[leg[h]] = EndOf(h)
  BY <1>1, <1>2, SettingOutPath
<1> HIDE DEF stops, new
<1>5. StartOf(h).node \in Open(maze) /\ EndOf(h).node \in Open(maze)
  BY <1>1, <1>3 DEF Open, Location
<1>6. iPath' = EndLabel /\ Meet(h) BY <1>1 DEF SetOut
<1>7. Solving(maze, solved', iPath', "copy", From(stops, leg[h]).node, stops[leg[h]].node, new)
  BY <1>4, <1>5, <1>6 DEF Solving, new
<1>8. PathOf(maze, solved', iPath', "copy", stops, leg[h], new, plan[h])
  BY <1>4, <1>7 DEF PathOf
<1>9. Alone(h) BY <1>6, AloneUnlessMet
<1>10. LeavesOther(h, "copy") BY <1>9 DEF LeavesOther
<1>11. /\ PlannerInv /\ Undisturbed /\ h \in Planners /\ UNCHANGED floorVars
       /\ mpc' = [mpc EXCEPT ![h] = "copy"] /\ trace' = [trace EXCEPT ![h] = new]
       /\ route' = [route EXCEPT ![h] = stops]
       /\ leg' = [leg EXCEPT ![h] = leg[h]] /\ plan' = [plan EXCEPT ![h] = plan[h]]
  BY <1>1, <1>3 DEF PlannerInv, Typed
<1> QED BY ONLY <1>8, <1>10, <1>11, OnePathChanges

\* In the solver: what is known of the path
LEMMA InSolverPath ==
    ASSUME PlannerInv, Undisturbed, NEW h \in Planners, mpc[h] \in InSolver
    PROVE  /\ LegsShortest(maze, route[h], plan[h])
           /\ Solving(maze, solved, iPath, mpc[h], From(route[h], leg[h]).node,
                      route[h][leg[h]].node, trace[h])
           /\ Start(h) = From(route[h], leg[h]) /\ End(h) = route[h][leg[h]]
  BY DEF Undisturbed, Path, PathOf, Start, End, From

\* A step in the solver, or out of it without a leg
LEMMA SolverStepPath ==
    ASSUME PlannerInv, Undisturbed, NEW h \in Planners, mpc[h] \in InSolver,
           NEW pc, NEW rest,
           mpc' = [mpc EXCEPT ![h] = pc], trace' = [trace EXCEPT ![h] = rest],
           UNCHANGED <<floorVars, route, leg, plan>>,
           Alone(h) \/ UNCHANGED <<solved, iPath>>,
           PathOf(maze, solved', iPath', pc, route[h], leg[h], rest, plan[h])
    PROVE  Undisturbed'
<1>1. /\ route' = [route EXCEPT ![h] = route[h]] /\ leg' = [leg EXCEPT ![h] = leg[h]]
      /\ plan' = [plan EXCEPT ![h] = plan[h]]
  BY DEF PlannerInv, Typed
<1>2. LeavesOther(h, pc) BY DEF LeavesOther
<1>3. /\ PlannerInv /\ Undisturbed /\ h \in Planners /\ UNCHANGED floorVars
      /\ mpc' = [mpc EXCEPT ![h] = pc] /\ trace' = [trace EXCEPT ![h] = rest]
      /\ PathOf(maze, solved', iPath', pc, route[h], leg[h], rest, plan[h])
  OBVIOUS
<1> QED BY ONLY <1>1, <1>2, <1>3, OnePathChanges

LEMMA CopyPath ==
    ASSUME PlannerInv, Undisturbed, NEW h \in Planners, CopyMaze(h), ~ met'
    PROVE  Undisturbed'
<1> DEFINE from == From(route[h], leg[h]).node
           to == route[h][leg[h]].node
<1>1. /\ mpc[h] = "copy" /\ mpc' = [mpc EXCEPT ![h] = "label"] /\ solved' = maze /\ Meet(h)
      /\ UNCHANGED <<floorVars, iPath, route, leg, trace, plan>>
  BY DEF CopyMaze, PlannerGo
<1>2. mpc[h] \in InSolver BY <1>1 DEF InSolver
<1>3. LegsShortest(maze, route[h], plan[h])
      /\ Solving(maze, solved, iPath, "copy", from, to, trace[h])
  BY <1>1, <1>2, InSolverPath
<1>4. Solving(maze, maze, iPath, "label", from, to, trace[h])
  BY <1>3, MazeIsWays, CopyGoesOn
<1>5. PathOf(maze, solved', iPath', "label", route[h], leg[h], trace[h], plan[h])
  BY <1>1, <1>3, <1>4 DEF PathOf
<1>6. Alone(h) BY <1>1, AloneUnlessMet
<1>7. trace' = [trace EXCEPT ![h] = trace[h]] BY <1>1 DEF PlannerInv, Typed
<1>8. /\ PlannerInv /\ Undisturbed /\ h \in Planners /\ mpc' = [mpc EXCEPT ![h] = "label"]
      /\ UNCHANGED <<floorVars, route, leg, plan>>
  BY <1>1
<1> QED BY ONLY <1>2, <1>5, <1>6, <1>7, <1>8, SolverStepPath

LEMMA LabelPath ==
    ASSUME PlannerInv, Undisturbed, NEW h \in Planners, Label(h), ~ met'
    PROVE  Undisturbed'
<1> DEFINE from == From(route[h], leg[h]).node
           to == route[h][leg[h]].node
           pc2 == IF Len(trace[h]) = 1 THEN "take" ELSE "label"
           new == Tail(trace[h])
           labels == [solved EXCEPT ![Head(trace[h])] = iPath]
<1>1. /\ mpc[h] = "label" /\ trace[h] # << >> /\ solved' = labels /\ iPath' = iPath + 1
      /\ mpc' = [mpc EXCEPT ![h] = pc2] /\ Meet(h)
      /\ UNCHANGED <<floorVars, route, leg, plan>>
  BY DEF Label
<1>2. trace' = [trace EXCEPT ![h] = new] BY DEF Label, PlannerInv, Typed
<1>3. mpc[h] \in InSolver BY <1>1 DEF InSolver
<1>4. LegsShortest(maze, route[h], plan[h])
      /\ Solving(maze, solved, iPath, "label", from, to, trace[h])
  BY <1>1, <1>3, InSolverPath
<1>5. trace[h] \in Seq(Nodes) BY DEF PlannerInv, Typed
<1>6. Solving(maze, labels, iPath + 1, pc2, from, to, new)
  <2>1. /\ maze \in Ways /\ trace[h] \in Seq(Nodes) /\ trace[h] # << >>
        /\ Solving(maze, solved, iPath, "label", from, to, trace[h])
    BY <1>1, <1>4, <1>5, MazeIsWays
  <2> QED BY ONLY <2>1, LabelGoesOn
<1>7. pc2 \in {"take", "label"} OBVIOUS
<1> HIDE DEF labels, pc2, new
<1>8. PathOf(maze, solved', iPath', pc2, route[h], leg[h], new, plan[h])
  BY <1>1, <1>4, <1>6, <1>7 DEF PathOf
<1>9. Alone(h) BY <1>1, AloneUnlessMet
<1>10. /\ PlannerInv /\ Undisturbed /\ h \in Planners /\ mpc' = [mpc EXCEPT ![h] = pc2]
       /\ UNCHANGED <<floorVars, route, leg, plan>>
  BY <1>1
<1> QED BY ONLY <1>2, <1>3, <1>8, <1>9, <1>10, SolverStepPath

LEMMA UndefinedPath ==
    ASSUME PlannerInv, Undisturbed, NEW h \in Planners, LegUndefined(h)
    PROVE  Undisturbed'
<1> DEFINE from == From(route[h], leg[h]).node
           to == route[h][leg[h]].node
<1>1. /\ mpc[h] = "label" /\ trace[h] = << >> /\ mpc' = [mpc EXCEPT ![h] = "undefined"]
      /\ UNCHANGED <<floorVars, solved, iPath, route, leg, trace, plan, met>>
  BY DEF LegUndefined, PlannerGo
<1>2. mpc[h] \in InSolver BY <1>1 DEF InSolver
<1>3. LegsShortest(maze, route[h], plan[h])
      /\ Solving(maze, solved, iPath, "label", from, to, << >>)
  BY <1>1, <1>2, InSolverPath
<1>4. Distance(maze, from, to) = -1 BY <1>3, MazeIsWays, NothingToLabel
<1>5. "undefined" \notin InSolver /\ "undefined" # "hung" BY DEF InSolver
<1>6. PathOf(maze, solved', iPath', "undefined", route[h], leg[h], trace[h], plan[h])
  BY <1>3, <1>4, <1>5 DEF PathOf
<1>7. trace' = [trace EXCEPT ![h] = trace[h]] BY <1>1 DEF PlannerInv, Typed
<1>8. /\ PlannerInv /\ Undisturbed /\ h \in Planners /\ mpc' = [mpc EXCEPT ![h] = "undefined"]
      /\ UNCHANGED <<floorVars, route, leg, plan>> /\ UNCHANGED <<solved, iPath>>
  BY <1>1
<1> QED BY ONLY <1>2, <1>6, <1>7, <1>8, SolverStepPath

LEMMA UnreachedPath ==
    ASSUME PlannerInv, Undisturbed, NEW h \in Planners, LegUnreached(h), ~ met'
    PROVE  Undisturbed'
<1> DEFINE from == From(route[h], leg[h])
           stop == route[h][leg[h]]
           places == <<Clean(Start(h)), End(h)>>
<1>1. /\ mpc[h] = "label" /\ trace[h] = << >> /\ Meet(h) /\ NextLeg(h, FALSE, places)
      /\ UNCHANGED <<floorVars, route>>
  BY DEF LegUnreached
<1>2. mpc[h] \in InSolver /\ mpc[h] \notin {"idle", "done", "leg"} BY <1>1 DEF InSolver
<1>3. /\ LegsShortest(maze, route[h], plan[h])
      /\ Solving(maze, solved, iPath, "label", from.node, stop.node, << >>)
      /\ Start(h) = from /\ End(h) = stop
  BY <1>1, <1>2, InSolverPath
<1>4. Start(h) \in Location /\ End(h) \in Location
      /\ TaskInv(layout, mpc[h], route[h], leg[h], trace[h], plan[h])
  BY <1>2, InSolverPlaces
<1>5. Distance(maze, Start(h).node, End(h).node) = -1 BY <1>3, MazeIsWays, NothingToLabel
<1>6. places \in Seq(Location) BY <1>4, StraightLeg
<1>7. ShortestOn(maze, [solved |-> FALSE, places |-> places]) /\ places[1].node = Start(h).node
  BY <1>4, <1>5, StraightIsShortest
<1> HIDE DEF places
<1>8. Alone(h) BY <1>1, AloneUnlessMet
<1>9. LeavesOther(h, "leg") BY <1>8 DEF LeavesOther
<1>10. route' = [route EXCEPT ![h] = route[h]] BY <1>1 DEF PlannerInv, Typed
<1>11. /\ PlannerInv /\ Undisturbed /\ h \in Planners /\ FALSE \in BOOLEAN
       /\ NextLeg(h, FALSE, places) /\ UNCHANGED floorVars
       /\ mpc[h] \notin {"idle", "done"}
       /\ places[1].node = From(route[h], leg[h]).node
  BY <1>1, <1>2, <1>3, <1>7
<1> QED BY ONLY <1>3, <1>4, <1>6, <1>7, <1>9, <1>10, <1>11, LegEndsPath

LEMMA SolvedPath ==
    ASSUME PlannerInv, Undisturbed, NEW h \in Planners, LegSolved(h)
    PROVE  Undisturbed'
<1> DEFINE from == From(route[h], leg[h])
           stop == route[h][leg[h]]
           walk == Walk(solved, from.node)
           places == LegAlong(walk, from, stop)
<1>1. mpc[h] = "take" BY DEF LegSolved
<1>2. mpc[h] \in InSolver /\ mpc[h] \notin {"idle", "done", "leg"} BY <1>1 DEF InSolver
<1>3. /\ LegsShortest(maze, route[h], plan[h])
      /\ Solving(maze, solved, iPath, "take", from.node, stop.node, trace[h])
      /\ Start(h) = from /\ End(h) = stop
  BY <1>1, <1>2, InSolverPath
<1>4. /\ from \in Location /\ stop \in Location /\ from.node \in Nodes
      /\ TaskInv(layout, mpc[h], route[h], leg[h], trace[h], plan[h])
  BY <1>2, <1>3, InSolverPlaces
<1>5. /\ IF walk.hung
         THEN PlannerGo(h, "take", "hung") /\ UNCHANGED <<plan, leg, trace>>
         ELSE NextLeg(h, TRUE, places)
      /\ UNCHANGED <<floorVars, solved, iPath, route, met>>
  BY <1>3 DEF LegSolved, LegAlong
<1>6. /\ walk.hung => from.node = stop.node
      /\ ~ walk.hung => ShortestOn(maze, SolvedLeg(places)) /\ places[1].node = from.node
  <2>1. /\ maze \in Ways /\ from \in Location /\ stop \in Location
        /\ Solving(maze, solved, iPath, "take", from.node, stop.node, trace[h])
    BY <1>3, <1>4, MazeIsWays
  <2> HIDE DEF from, stop
  <2>2. Walked(maze, Walk(solved, from.node), from, stop) BY ONLY <2>1, WalkIsShortest
  <2> QED BY <2>2 DEF Walked
<1>7. places \in Seq(Location)
  <2>1. solved \in [Nodes -> Int] BY DEF PlannerInv, Typed
  <2>2. walk \in WalkType BY <1>4, <2>1, WalkIsTyped
  <2> HIDE DEF walk
  <2>3. walk.places \in Seq(Nodes) BY <2>2 DEF WalkType
  <2> QED BY <1>4, <2>3, WalkedLeg DEF LegAlong
<1> HIDE DEF walk, places, from, stop
<1>8. CASE walk.hung
  <2>1. /\ mpc' = [mpc EXCEPT ![h] = "hung"] /\ UNCHANGED <<floorVars, route, leg, plan>>
        /\ UNCHANGED <<solved, iPath>> /\ trace' = trace
    BY <1>5, <1>8 DEF PlannerGo
  <2>2. trace' = [trace EXCEPT ![h] = trace[h]] BY <2>1 DEF PlannerInv, Typed
  <2>3. "hung" \notin InSolver /\ "hung" # "undefined" BY DEF InSolver
  <2>4. PathOf(maze, solved', iPath', "hung", route[h], leg[h], trace[h], plan[h])
    BY <1>3, <1>6, <1>8, <2>3 DEF PathOf, from, stop
  <2>5. PlannerInv /\ Undisturbed /\ h \in Planners OBVIOUS
  <2> QED BY ONLY <1>2, <2>1, <2>2, <2>4, <2>5, SolverStepPath
<1>9. CASE ~ walk.hung
  <2>1. NextLeg(h, TRUE, places) /\ TRUE \in BOOLEAN /\ UNCHANGED floorVars
        /\ UNCHANGED <<solved, iPath>>
    BY <1>5, <1>9
  <2>2. LeavesOther(h, "leg") BY <2>1 DEF LeavesOther, InSolver
  <2>3. ShortestOn(maze, [solved |-> TRUE, places |-> places]) BY <1>6, <1>9 DEF SolvedLeg
  <2>4. places[1].node = From(route[h], leg[h]).node BY <1>6, <1>9 DEF from
  <2>5. route' = [route EXCEPT ![h] = route[h]] BY <1>5 DEF PlannerInv, Typed
  <2>6. PlannerInv /\ Undisturbed /\ h \in Planners /\ mpc[h] \notin {"idle", "done"} BY <1>2
  <2> QED BY ONLY <1>3, <1>4, <1>7, <2>1, <2>2, <2>3, <2>4, <2>5, <2>6, LegEndsPath
<1> QED BY <1>8, <1>9

LEMMA PathsInitInv == PlannerInit => PathsInv
<1> SUFFICES ASSUME PlannerInit PROVE Undisturbed
  BY DEF PathsInv
<1>1. \A h \in Planners : mpc[h] = "idle" /\ plan[h] = << >> BY DEF PlannerInit
<1>2. OneInSolver BY <1>1 DEF OneInSolver, InSolver
<1>3. ASSUME NEW h \in Planners PROVE Path(h)
  <2>1. DOMAIN plan[h] = {} BY <1>1
  <2>2. LegsShortest(maze, route[h], plan[h]) BY <2>1 DEF LegsShortest
  <2>3. mpc[h] = "idle" BY <1>1
  <2> QED BY <2>2, <2>3, OnlyLegs DEF Path
<1> QED BY <1>2, <1>3 DEF Undisturbed

LEMMA PathsStepInv == PlannerInv /\ PathsInv /\ [PlannerNext]_plannerVars => PathsInv'
<1> SUFFICES ASSUME PlannerInv, PathsInv, [PlannerNext]_plannerVars PROVE PathsInv'
  OBVIOUS
<1>1. CASE PlannerNext
  <2>1. Undisturbed BY <1>1 DEF PathsInv, PlannerNext
  <2>2. CASE met' BY <2>2 DEF PathsInv
  <2>3. CASE ~ met'
    <3>1. CASE Generate BY <2>1, <3>1, GeneratePath DEF PathsInv
    <3>2. CASE \E h \in Planners : PlannerStep(h)
      <4>1. PICK h \in Planners : PlannerStep(h) BY <3>2
      <4>2. CASE LegBlocked(h) BY <2>1, <2>3, <4>2, BlockedPath DEF PathsInv
      <4>3. CASE LegSearched(h) BY <2>1, <2>3, <4>3, SearchedPath DEF PathsInv
      <4>4. CASE CopyMaze(h) BY <2>1, <2>3, <4>4, CopyPath DEF PathsInv
      <4>5. CASE Label(h) BY <2>1, <2>3, <4>5, LabelPath DEF PathsInv
      <4>6. CASE LegUnreached(h) BY <2>1, <2>3, <4>6, UnreachedPath DEF PathsInv
      <4>7. CASE LegUndefined(h) BY <2>1, <4>7, UndefinedPath DEF PathsInv
      <4>8. CASE LegSolved(h) BY <2>1, <4>8, SolvedPath DEF PathsInv
      <4> QED BY <4>1, <4>2, <4>3, <4>4, <4>5, <4>6, <4>7, <4>8 DEF PlannerStep
    <3> QED BY <1>1, <3>1, <3>2 DEF PlannerNext
  <2> QED BY <2>2, <2>3
<1>2. CASE UNCHANGED plannerVars
  BY <1>2 DEF plannerVars, floorVars, planVars, PathsInv, Undisturbed, OneInSolver, Path
<1> QED BY <1>1, <1>2

LEMMA PathsInvShortest == PlannerInv /\ PathsInv => LegsAreShortest
<1> SUFFICES ASSUME PlannerInv, Undisturbed, NEW h \in active
             PROVE  /\ plan[h] # << >> /\ mpc[h] \in {"leg", "done"} => ShortestLeg(Last(plan[h]))
                    /\ Len(plan[h]) > 1 =>
                          LET from == Last(plan[h][Len(plan[h]) - 1].places)
                          IN  Last(plan[h]).places[1].node = from.node + from.side
                    /\ mpc[h] = "hung" => Start(h).node = End(h).node
                    /\ mpc[h] = "undefined" => ~Solvable(Start(h), End(h))
  BY DEF PathsInv, LegsAreShortest
<1>1. h \in Planners BY DEF PlannerInv, Typed
<1>2. PathOf(maze, solved, iPath, mpc[h], route[h], leg[h], trace[h], plan[h])
  BY <1>1 DEF Undisturbed, Path
<1>3. LegsShortest(maze, route[h], plan[h]) BY <1>2 DEF PathOf
<1>4. TaskInv(layout, mpc[h], route[h], leg[h], trace[h], plan[h])
  BY <1>1 DEF PlannerInv, Task
<1>5. plan[h] \in Seq(PlannedLeg) /\ \A k \in DOMAIN plan[h] : EndsAt(plan[h][k].places, route[h][k])
  BY <1>4 DEF TaskInv, TaskTyped, LegsOf
<1> DEFINE N == Len(plan[h])
<1>6. N \in Nat /\ Last(plan[h]) = plan[h][N] /\ DOMAIN plan[h] = 1 .. N BY <1>5 DEF Last
<1> HIDE DEF N
<1>7. ASSUME plan[h] # << >> PROVE ShortestLeg(Last(plan[h]))
  <2>1. N # 0 BY <1>5, <1>7 DEF N
  <2>2. N \in DOMAIN plan[h] BY <1>6, <2>1
  <2>3. ShortestOn(maze, plan[h][N]) BY <1>3, <2>2 DEF LegsShortest
  <2>4. ShortestLeg(plan[h][N]) BY <2>3 DEF ShortestOn, ShortestLeg, Solvable
  <2> QED BY <1>6, <2>4
<1>8. ASSUME N > 1
      PROVE  LET from == Last(plan[h][N - 1].places)
             IN  Last(plan[h]).places[1].node = from.node + from.side
  <2>1. N \in DOMAIN plan[h] /\ N - 1 \in DOMAIN plan[h] /\ N # 1 BY <1>6, <1>8
  <2>2. plan[h][N].places[1].node = From(route[h], N).node BY <1>3, <2>1 DEF LegsShortest
  <2>3. From(route[h], N) = Shift(route[h][N - 1]) BY <2>1 DEF From
  <2>4. Last(plan[h][N - 1].places) = route[h][N - 1] BY <1>5, <2>1 DEF EndsAt
  <2>5. Shift(route[h][N - 1]).node = route[h][N - 1].node + route[h][N - 1].side
    <3>1. route[h][N - 1] \in Location
      <4>1. plan[h][N - 1] \in PlannedLeg BY <1>5, <2>1
      <4>2. plan[h][N - 1].places \in Seq(Location) BY <4>1 DEF PlannedLeg
      <4>3. plan[h][N - 1].places # << >> BY <1>5, <2>1 DEF EndsAt
      <4>4. Last(plan[h][N - 1].places) \in Location BY <4>2, <4>3 DEF Last
      <4> QED BY <2>4, <4>4
    <3> QED BY <3>1 DEF Shift, Location
  <2> QED BY <1>6, <2>2, <2>3, <2>4, <2>5
<1>9. Start(h) = From(route[h], leg[h]) /\ End(h) = route[h][leg[h]] BY DEF Start, End, From
<1>10. mpc[h] = "hung" => Start(h).node = End(h).node BY <1>2, <1>9 DEF PathOf
<1>11. mpc[h] = "undefined" => ~Solvable(Start(h), End(h))
  BY <1>2, <1>9 DEF PathOf, Solvable
<1> QED BY <1>7, <1>8, <1>10, <1>11 DEF N

(* As long as the two handlers were never in the solver at once: every leg   *)
(* of a plan is one of the shortest ways over open places of the floor, and  *)
(* goes straight on only where there is no way; it begins where the leg      *)
(* before ended, or beside.  The search, the labels it leaves and the walk   *)
(* over them are followed place by place, on a floor of any size.            *)
THEOREM LegsByTheShortestWay == Spec => []LegsAreShortest
<1> DEFINE Inv == FloorInv /\ PathsInv
<1>1. Init => Inv BY FloorInitInv, PathsInitInv DEF Init
<1>2. Inv /\ [Next]_vars => Inv'
  <2> SUFFICES ASSUME Inv, [Next]_vars PROVE Inv'
    OBVIOUS
  <2>1. FloorInv' BY FloorStepInv
  <2>2. [PlannerNext]_plannerVars BY DEF Next, vars
  <2>3. PathsInv' BY <2>2, PathsStepInv DEF FloorInv
  <2> QED BY <2>1, <2>3
<1>3. Inv => LegsAreShortest BY PathsInvShortest DEF FloorInv
<1> HIDE DEF Inv
<1> QED BY <1>1, <1>2, <1>3, PTL DEF Spec
=============================================================================
