------------------------------- MODULE FloorPlan -------------------------------
(***************************************************************************)
(* What the warehouse makes of the layout it finds in shared memory: where *)
(* robots can go (LayoutUI::draw_layout), where shelves and docks are (the *)
(* scan in main), and the shortest way from one place to another           *)
(* (MazeSolver::Search, and the walk in PathGenRepeater).  A place is its  *)
(* node number, row * cols + col, as in FindPath.                          *)
(***************************************************************************)
EXTENDS Integers, SequencesExt

CONSTANTS Rows, Cols       \* linfo.rows, linfo.cols

ASSUME SizeAssumption == Rows \in Nat /\ Cols \in Nat \ {0}

Nodes == 0 .. Rows * Cols - 1
Chars == {"wall", "empty", "shelf", "delivery", "restock"}

Row(n) == n \div Cols
Col(n) == n % Cols

Abs(i) == IF i < 0 THEN -i ELSE i
Beside(m, n) == Abs(Row(m) - Row(n)) + Abs(Col(m) - Col(n)) = 1

\* draw_layout: shelves and walls are closed, docks are open.
Access(layout) == [n \in Nodes |-> IF layout[n] \in {"wall", "shelf"} THEN 1 ELSE 0]

-----------------------------------------------------------------------------
(* The scan.  A shelf gets the key (number of its row among the rows with  *)
(* shelves, number in its row).  shelves_rows and shelves_cols are to      *)
(* count the rows and columns of keys.                                     *)

ScanStart == [rows |-> 0, cols |-> 0, counter_r |-> 0, counter_c |-> 0,
              index_r |-> 0, index_c |-> 0, lastrow |-> 0, lastcol |-> 0,
              map |-> << >>, del_truck |-> 0, res_truck |-> 0]

\* ShelfMap.insert leaves a key that is there as it is.
Insert(map, key, n) ==
    [k \in DOMAIN map \cup {key} |-> IF k \in DOMAIN map THEN map[k] ELSE n]

\* A shelf in the column of the one before is passed over, as the last one of
\* the row above may be.
ScanShelf(s, n) ==
    LET newrow == Row(n) # s.lastrow
        newcol == Col(n) # s.lastcol
        number == IF newrow THEN s.index_r + 1 ELSE s.index_r
    IN  [s EXCEPT !.rows = IF newrow /\ Row(n) > s.counter_r THEN @ + 1 ELSE @,
                  !.counter_r = IF newrow THEN Row(n) ELSE @,
                  !.index_r = number,
                  !.lastrow = Row(n),
                  !.map = IF newcol THEN Insert(@, <<number, s.index_c>>, n) ELSE @,
                  !.index_c = IF newcol THEN @ + 1 ELSE @,
                  !.cols = IF newcol /\ Col(n) > s.counter_c THEN @ + 1 ELSE @,
                  !.counter_c = IF newcol THEN Col(n) ELSE @,
                  !.lastcol = Col(n)]

ScanPlace(s, n, layout) ==
    CASE layout[n] = "shelf" -> ScanShelf(s, n)
      [] layout[n] = "delivery" -> [s EXCEPT !.del_truck = n - Cols]
      [] layout[n] = "restock" -> [s EXCEPT !.res_truck = n - Cols]
      [] OTHER -> s

\* Mistake: the numbers of a row go on in the next.
NextRowGoingOn(s, n) == s

\* shelfindex_c is 0 again at the end of a row.
NextRow(s, n) == IF Col(n) = Cols - 1 THEN [s EXCEPT !.index_c = 0] ELSE s

\* Node numbers from 0, in order
InOrder == [k \in 1 .. Rows * Cols |-> k - 1]

Scan(layout) ==
    FoldLeft(LAMBDA s, n : NextRow(ScanPlace(s, n, layout), n), ScanStart, InOrder)

\* The keys that randomnum(0, shelves_rows) and randomnum(0, shelves_cols) can
\* give: 1 and more (or -1).  A key that is not in ShelfMap is drawn again.
Drawable(scan) == {key \in DOMAIN scan.map : key[1] \in 1 .. scan.rows /\ key[2] \in 1 .. scan.cols}

-----------------------------------------------------------------------------
(* Search.  The queue holds a node and its origin.                         *)

\* Mistake: places that are not open are passed through.
VisitClosed(maze, queue, n, m) ==
    IF m \in Nodes /\ Beside(m, n) /\ \A k \in DOMAIN queue : queue[k].node # m
    THEN Append(queue, [node |-> m, origin |-> n])
    ELSE queue

\* A place that exists, is open and ready joins the queue, after which it is not
\* ready any more.
Visit(maze, queue, n, m) ==
    IF m \in Nodes /\ Beside(m, n) /\ maze[m] = 0 /\ \A k \in DOMAIN queue : queue[k].node # m
    THEN Append(queue, [node |-> m, origin |-> n])
    ELSE queue

Expand(maze, queue, n) ==
    LET left == Visit(maze, queue, n, n - 1)
        right == Visit(maze, left, n, n + 1)
        top == Visit(maze, right, n, n - Cols)
    IN  Visit(maze, top, n, n + Cols)

\* The places of a maze that are open, and 1 .. n as a sequence
Open(maze) == {n \in Nodes : maze[n] = 0}
UpTo(n) == [k \in 1 .. n |-> k]

\* The queue when its front is iStop, or when it is empty
Queue(maze, iStart, iStop) ==
    FoldLeft(LAMBDA queue, front :
                IF front > Len(queue) \/ \E k \in 1 .. front : queue[k].node = iStop
                THEN queue
                ELSE Expand(maze, queue, queue[front].node),
             <<[node |-> iStart, origin |-> -1]>>,
             UpTo(Cardinality(Open(maze))))

\* From iStop back along the origins: the nodes in the order in which they are
\* labelled, none if iStop was not reached
Trace(maze, iStart, iStop) ==
    LET queue == Queue(maze, iStart, iStop)
    IN  FoldRight(LAMBDA entry, trace :
                     IF entry.node = iStop THEN <<iStop, entry.origin>>
                     ELSE IF trace # << >> /\ entry.node = Last(trace)
                     THEN Append(trace, entry.origin)
                     ELSE trace,
                  queue, << >>)

Solution(maze, iStart, iStop) ==
    LET trace == Trace(maze, iStart, iStop)
    IN  IF trace = << >> THEN << >> ELSE Front(trace)

-----------------------------------------------------------------------------
(* The walk from the start over the labels, down to the one above EndLabel, *)
(* trying the four directions in turn from the last one that was good.     *)

EndLabel == 10
Directions == <<Cols, 1, -Cols, -1>>     \* of movef: 0 .. 3

Direction(labels, walk) ==
    LET good == {d \in 0 .. 3 :
                    LET n == walk.at + Directions[((walk.dir + d) % 4) + 1]
                    IN  n \in Nodes /\ Beside(walk.at, n) /\ labels[n] = walk.target}
    IN  IF good = {} THEN -1 ELSE (walk.dir + Min(good)) % 4

\* Without a direction the walk turns round and round for ever.
WalkOn(labels, walk) ==
    LET dir == Direction(labels, walk)
        n == walk.at + Directions[dir + 1]
    IN  IF walk.target = EndLabel \/ walk.hung THEN walk
        ELSE IF dir = -1 THEN [walk EXCEPT !.hung = TRUE]
        ELSE [at |-> n, dir |-> dir, target |-> walk.target - 1, hung |-> FALSE,
              places |-> Append(walk.places, n)]

\* Every step lowers the target by one.  Below EndLabel from the start there is
\* no place with its label.
Walk(labels, iStart) ==
    FoldLeft(LAMBDA walk, k : WalkOn(labels, walk),
             [at |-> iStart, dir |-> 0, target |-> labels[iStart] - 1, hung |-> FALSE,
              places |-> << >>],
             UpTo(Max({1, labels[iStart] - 1 - EndLabel})))

-----------------------------------------------------------------------------
(* What the search is for: the places within so many steps of another.      *)

Reach(maze, iStart, iStop) ==
    FoldLeft(LAMBDA r, k :
                LET next == r.ball \cup {n \in Open(maze) : \E m \in r.ball : Beside(m, n)}
                IN  IF iStop \in r.ball \/ next = r.ball
                    THEN r ELSE [ball |-> next, steps |-> k],
             [ball |-> {iStart}, steps |-> 0],
             UpTo(Cardinality(Open(maze))))

\* Steps of the shortest way, or -1 if there is none
Distance(maze, iStart, iStop) ==
    LET r == Reach(maze, iStart, iStop)
    IN  IF maze[iStart] = 0 /\ maze[iStop] = 0 /\ iStop \in r.ball THEN r.steps ELSE -1
=============================================================================
