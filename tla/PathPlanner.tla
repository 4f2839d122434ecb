------------------------------ MODULE PathPlanner ------------------------------
(***************************************************************************)
(* GenerateRestockTask and GenerateDeliveryTask as far as they plan a      *)
(* robot's path: PathGenerator, PathGenRepeater and the MazeSolver, of     *)
(* which there is one for both dock handlers and which no lock protects.   *)
(* Every handler plans once.                                               *)
(*                                                                         *)
(* Copying the maze, labelling one place and copying the labels are a step *)
(* each.  Two handlers that are in the solver at the same time write the   *)
(* same words without a lock, which is undefined: there the model stops.   *)
(***************************************************************************)
EXTENDS FloorPlan

CONSTANTS
    ResHandler, DelHandler,
    Layouts,           \* the layouts for one handler alone
    SharedLayouts,     \* the layouts for both together
    Sides,             \* randomnum(-1, 1): 1 or -1
    MaxItems,          \* bound: shelves of a plan of one handler alone
    MaxSharedItems     \* bound: shelves of a plan of both together

Planners == {ResHandler, DelHandler}
Park == Cols + 1       \* park(1, 1)

ASSUME PlannerAssumption ==
    /\ ResHandler # DelHandler
    /\ Layouts \subseteq [Nodes -> Chars] /\ SharedLayouts \subseteq [Nodes -> Chars]
    /\ Sides \subseteq {-1, 1} /\ MaxItems \in Nat /\ MaxSharedItems \in Nat

\* LayoutInfo: there are walls around, but for the docks, which are not in the
\* first row; park is inside and free.
ASSUME LayoutAssumption ==
    \A layout \in Layouts \cup SharedLayouts :
        /\ Park \in Nodes /\ layout[Park] = "empty"
        /\ \A n \in Nodes : layout[n] \in {"delivery", "restock"} => Row(n) > 0
        /\ \A n \in Nodes :
              Row(n) \in {0, Rows - 1} \/ Col(n) \in {0, Cols - 1} =>
                  layout[n] \in {"wall", "delivery", "restock"}

VARIABLES
    layout, maze, scan,  \* layinfo, m_iMaze, and what the scan found
    active,              \* the handlers that plan in this behaviour
    solved, iPath,       \* iMazeSolved, iPath
    mpc,                 \* program point
    route,               \* endlocs: places with their mark
    leg,                 \* i, the endloc at hand
    trace,               \* places still to be labelled
    plan,                \* the legs of the path: solved or not, and its places
    met                  \* both were in the solver at the same time

floorVars == <<layout, maze, scan, active>>
planVars == <<mpc, route, leg, trace, plan>>
plannerVars == <<floorVars, solved, iPath, planVars, met>>

\* side is leftrightmiddle, and dock says that shelflevel is -1.
Location == [node : Nodes, side : {-1, 0, 1}, dock : BOOLEAN]

PlannerTypeOK ==
    /\ solved \in [Nodes -> Int] /\ iPath \in Nat
    /\ active \subseteq Planners
    /\ mpc \in [Planners -> {"idle", "leg", "copy", "label", "take", "done", "hung", "undefined"}]
    /\ route \in [Planners -> Seq(Location)]
    /\ \A h \in Planners :
          leg[h] \in IF mpc[h] = "idle" THEN {0}
                     ELSE IF mpc[h] = "done" THEN {Len(route[h]) + 1} ELSE DOMAIN route[h]
    /\ trace \in [Planners -> Seq(Nodes)]
    /\ plan \in [Planners -> Seq([solved : BOOLEAN, places : Seq(Location)])]
    /\ met \in BOOLEAN

PlannerInit ==
    /\ \/ \E h \in Planners : active = {h} /\ layout \in Layouts
       \/ active = Planners /\ layout \in SharedLayouts
    /\ maze = Access(layout) /\ scan = Scan(layout)
    /\ solved = [n \in Nodes |-> 0] /\ iPath = EndLabel
    /\ mpc = [h \in Planners |-> "idle"]
    /\ route = [h \in Planners |-> << >>] /\ leg = [h \in Planners |-> 0]
    /\ trace = [h \in Planners |-> << >>] /\ plan = [h \in Planners |-> << >>]
    /\ met = FALSE

-----------------------------------------------------------------------------
PlannerGo(h, from, to) == mpc[h] = from /\ mpc' = [mpc EXCEPT ![h] = to]

At(n) == [node |-> n, side |-> 0, dock |-> FALSE]
\* res_truck and del_truck are the first place and marked as no dock, where
\* the layout has none.
Dock(n, char) ==
    [node |-> n, side |-> 0, dock |-> n + Cols \in Nodes /\ layout[n + Cols] = char]
ShelfStops == {[node |-> scan.map[key], side |-> s, dock |-> FALSE] :
                 key \in Drawable(scan), s \in Sides}
Items == IF active = Planners THEN MaxSharedItems ELSE MaxItems

\* The restock task: to the truck, then to a random shelf for every item, then
\* to the parking place.  If there is no shelf to draw, it is tried for ever.
GenerateRestockTask(shelves) ==
    /\ ResHandler \in active
    /\ PlannerGo(ResHandler, "idle", "leg")
    /\ route' = [route EXCEPT ![ResHandler] = <<Dock(scan.res_truck, "restock")>> \o shelves \o <<At(Park)>>]
    /\ leg' = [leg EXCEPT ![ResHandler] = 1]
    /\ UNCHANGED <<floorVars, solved, iPath, trace, plan, met>>

\* The delivery task: to where the items were shelved by such a task, then to
\* the truck, then to the parking place.
GenerateDeliveryTask(shelves) ==
    /\ DelHandler \in active
    /\ PlannerGo(DelHandler, "idle", "leg")
    /\ route' = [route EXCEPT ![DelHandler] = shelves \o <<Dock(scan.del_truck, "delivery"), At(Park)>>]
    /\ leg' = [leg EXCEPT ![DelHandler] = 1]
    /\ UNCHANGED <<floorVars, solved, iPath, trace, plan, met>>

-----------------------------------------------------------------------------
(* PathGenRepeater, for the leg at hand.                                   *)

Shift(location) == [location EXCEPT !.node = @ + location.side]

\* The end of the leg before has been shifted by then, and is shifted again.
StartOf(h) == IF leg[h] = 1 THEN At(Park) ELSE Shift(route[h][leg[h] - 1])
EndOf(h) == Shift(route[h][leg[h]])

\* Mistake: a start keeps the mark of the stop it is.
CleanNot(location) == location

\* leftrightmiddle and shelflevel of a start are 0.
Clean(location) == At(location.node)

InSolver == {"copy", "label", "take"}
Meet(h) == met' = (met \/ \E g \in Planners \ {h} : mpc[g] \in InSolver)

\* Mistake: there is a leg more than there are endlocs.
NextLegPastEnd(h, isSolved, places) ==
    /\ plan' = [plan EXCEPT ![h] = Append(@, [solved |-> isSolved, places |-> places])]
    /\ leg' = [leg EXCEPT ![h] = @ + 1]
    /\ mpc' = [mpc EXCEPT ![h] = IF leg[h] > Len(route[h]) THEN "done" ELSE "leg"]
    /\ trace' = [trace EXCEPT ![h] = << >>]

\* The plan gets the leg that ends here, and the next one is begun.
NextLeg(h, isSolved, places) ==
    /\ plan' = [plan EXCEPT ![h] = Append(@, [solved |-> isSolved, places |-> places])]
    /\ leg' = [leg EXCEPT ![h] = @ + 1]
    /\ mpc' = [mpc EXCEPT ![h] = IF leg[h] = Len(route[h]) THEN "done" ELSE "leg"]
    /\ trace' = [trace EXCEPT ![h] = << >>]

\* The end's place in the vector is shifted; iPath is 10 for all.
SetOut(h) ==
    /\ route' = [route EXCEPT ![h][leg[h]] = EndOf(h)]
    /\ iPath' = EndLabel
    /\ Meet(h)

\* "Path not solvable", as start or end is not open: straight on
LegBlocked(h) ==
    /\ mpc[h] = "leg"
    /\ maze[StartOf(h).node] # 0 \/ maze[EndOf(h).node] # 0
    /\ SetOut(h)
    /\ NextLeg(h, FALSE, <<Clean(StartOf(h)), EndOf(h)>>)
    /\ UNCHANGED <<floorVars, solved>>

LegSearched(h) ==
    /\ PlannerGo(h, "leg", "copy")
    /\ maze[StartOf(h).node] = 0 /\ maze[EndOf(h).node] = 0
    /\ SetOut(h)
    /\ trace' = [trace EXCEPT ![h] = Solution(maze, StartOf(h).node, EndOf(h).node)]
    /\ UNCHANGED <<floorVars, solved, leg, plan>>

\* From here on the end of the leg in route is shifted.
Start(h) == IF leg[h] = 1 THEN At(Park) ELSE Shift(route[h][leg[h] - 1])
End(h) == route[h][leg[h]]

CopyMaze(h) ==
    /\ PlannerGo(h, "copy", "label")
    /\ solved' = maze
    /\ Meet(h)
    /\ UNCHANGED <<floorVars, iPath, route, leg, trace, plan>>

\* iMazeSolved at the node is iPath++.
Label(h) ==
    /\ mpc[h] = "label" /\ trace[h] # << >>
    /\ solved' = [solved EXCEPT ![Head(trace[h])] = iPath]
    /\ iPath' = iPath + 1
    /\ trace' = [trace EXCEPT ![h] = Tail(@)]
    /\ mpc' = [mpc EXCEPT ![h] = IF Len(trace[h]) = 1 THEN "take" ELSE "label"]
    /\ Meet(h)
    /\ UNCHANGED <<floorVars, route, leg, plan>>

\* The end was not reached.  Its label is written all the same, and
\* Queue[iRear], which nobody has written, is read.
LegUnreached(h) ==
    /\ mpc[h] = "label" /\ trace[h] = << >>
    /\ solved' = [solved EXCEPT ![End(h).node] = iPath]
    /\ iPath' = iPath + 1
    /\ Meet(h)
    /\ NextLeg(h, FALSE, <<Clean(Start(h)), End(h)>>)
    /\ UNCHANGED <<floorVars, route>>

\* It may be the end by chance, with any origin.
LegUndefined(h) ==
    /\ PlannerGo(h, "label", "undefined")
    /\ trace[h] = << >>
    /\ UNCHANGED <<floorVars, solved, iPath, route, leg, trace, plan, met>>

\* The labels are copied and walked over.
LegSolved(h) ==
    LET walk == Walk(solved, Start(h).node)
        places == [k \in DOMAIN walk.places |-> At(walk.places[k])]
    IN  /\ mpc[h] = "take"
        /\ IF walk.hung
           THEN PlannerGo(h, "take", "hung") /\ UNCHANGED <<plan, leg, trace>>
           ELSE NextLeg(h, TRUE, <<Clean(Start(h))>> \o places \o <<End(h)>>)
        /\ UNCHANGED <<floorVars, solved, iPath, route, met>>

-----------------------------------------------------------------------------
Generate ==
    \E n \in 1 .. Items : \E shelves \in [1 .. n -> ShelfStops] :
        GenerateRestockTask(shelves) \/ GenerateDeliveryTask(shelves)

PlannerStep(h) ==
    \/ LegBlocked(h) \/ LegSearched(h) \/ CopyMaze(h) \/ Label(h)
    \/ LegUnreached(h) \/ LegUndefined(h) \/ LegSolved(h)

PlannerNext ==
    /\ ~met
    /\ Generate \/ \E h \in Planners : PlannerStep(h)

PlannerSpec == PlannerInit /\ [][PlannerNext]_plannerVars

-----------------------------------------------------------------------------
Solvable(from, to) == Distance(maze, from.node, to.node) # -1

ShortestLeg(l) ==
    LET nodes == [k \in DOMAIN l.places |-> l.places[k].node]
    IN  IF ~l.solved
        THEN Len(nodes) = 2 /\ ~Solvable(l.places[1], Last(l.places))
        ELSE /\ Len(nodes) - 1 = Distance(maze, nodes[1], Last(nodes))
             /\ \A k \in DOMAIN nodes : maze[nodes[k]] = 0
             /\ \A k \in 2 .. Len(nodes) : Beside(nodes[k - 1], nodes[k])

(* As long as the handlers do not plan at the same time: a planned leg is   *)
(* one of the shortest ways over open places, and a straight jump only      *)
(* where there is no way; it begins where the leg before ended, or beside.  *)
(* A plan that never ends is one from a place to itself, as when the shelf  *)
(* is left on the side of the next one, and what is read uninitialised is   *)
(* read only when there is no way (FindPath, PathGenRepeater).              *)
LegsAreShortest ==
    met \/ \A h \in active :
        /\ plan[h] # << >> /\ mpc[h] \in {"leg", "done"} => ShortestLeg(Last(plan[h]))
        /\ Len(plan[h]) > 1 =>
              LET from == Last(plan[h][Len(plan[h]) - 1].places)
              IN  Last(plan[h]).places[1].node = from.node + from.side
        /\ mpc[h] = "hung" => Start(h).node = End(h).node
        /\ mpc[h] = "undefined" => ~Solvable(Start(h), End(h))

(* A robot that follows a finished plan handles cargo exactly at the stops  *)
(* of its task, once each and in their order: the plan has a leg for every  *)
(* stop, which ends there, and the marks that make the robot act are on no  *)
(* other place of it (PathGenRepeater; HandleRestock and HandleDelivery     *)
(* test leftrightmiddle and shelflevel).                                    *)
StopsActedOnOnce ==
    \A h \in active :
        mpc[h] = "done" =>
            /\ Len(plan[h]) = Len(route[h])
            /\ \A k \in DOMAIN plan[h] :
                  LET places == plan[h][k].places
                  IN  /\ Last(places) = route[h][k]
                      /\ \A j \in 1 .. Len(places) - 1 : places[j].side = 0 /\ ~ places[j].dock

ShelfRows == {Row(n) : n \in {m \in Nodes : layout[m] = "shelf"}}

(* The shelves are numbered by the rows that have any, from 1, and from 0   *)
(* in a row, in order.  The map misses the shelves in the column of the     *)
(* shelf just before them, which is in a row above.  With two shelves of a  *)
(* row in the map some shelf can be drawn, so that GenerateRestockTask does *)
(* not try for ever (the scan in main).                                     *)
ShelvesAreFound ==
    LET shelves == {n \in Nodes : layout[n] = "shelf"}
        found == {scan.map[key] : key \in DOMAIN scan.map}
    IN  /\ \A key \in DOMAIN scan.map :
              LET n == scan.map[key]
                  before == {m \in found : Row(m) = Row(n) /\ m < n}
              IN  /\ n \in shelves
                  /\ key = <<Cardinality({r \in ShelfRows : r <= Row(n)}), Cardinality(before)>>
        /\ shelves \ found =
              {n \in shelves : \E m \in shelves : /\ m < n /\ Col(m) = Col(n)
                                                /\ \A k \in shelves : k < n => k <= m}
        /\ (\E m, n \in found : m # n /\ Row(m) = Row(n)) => Drawable(scan) # {}
=============================================================================
