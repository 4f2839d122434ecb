# The Amazoom warehouse in TLA+

This directory holds TLA+ models of the automated warehouse in `src/`: its
threads, processes and queues, with TLC configurations that check them on small
instances and TLAPS proofs, for instances of any size, of every safety property
that the runs check and of the refinements. Paths below are relative to `src/`; `WM` stands for
`WarehouseMain/WarehouseMain/warehouse_main.cpp`, and `robots.h`, `truck.h`,
`stock.h` and `warehouse_local.h` are beside it.

## The system

A customer's program (`WarehouseMain/Client`) fills a cart and sends orders over
a socket to the web server (`WarehouseMain/Webserver`). The web server queues
orders and hands them to the warehouse programs (`WarehouseMain/WarehouseMain`)
that have connected to it. A warehouse calls trucks; a truck docks, leaves its
list of items in a buffer, and a dock handler turns the list into tasks for
robots. A layout program (`Warehouse/WarehouseLayout`) loads the floor plan into
shared memory and draws what moves on it. Everything rests on a course library
of synchronisation primitives (`library-master`, third party).

| Part | State | Operations | Shares or calls |
|---|---|---|---|
| Truck threads (`truck.h`) | own cargo, program point | `Restock`, `Delivery` | dock and arrived semaphores, buffer, buffer mutex, task counter, condition variable |
| Dock handlers (`WM` 363-416, 483-537) | load, weight, planned tasks | plan, count, push | the same, `tasks_Q`, `MazeSolver`, `StockInfo_map` |
| Robots (`robots.h`) | current task | `go2`, `HandleRestock`, `HandleDelivery` | `tasks_Q`, task counters, condition variables, `StockInfo_map` |
| Menu (`WM` 846-962) | robots, trucks | robot+1, robot-1, restock, deliver, query, robotspeed | `tasks_Q`, stock |
| `tasks_Q` (`thread/fifo.h`) | ring, two indices, two semaphores, two mutexes | `push`, `pop` | producers: handlers, menu; consumers: robots |
| Client (`Amazoom_Client.cpp`) | cart, `Order` | search, `makeorder`, quit | one socket |
| Web server (`Webserver.cpp`) | `order_queue`, one basket per client | `service`, `warehouseservice` | `Server_Mutex`, `Warehouse_Mutex`, `DynamicOrderQueue` |
| Order intake (`WarehouseComm.h` 41-111, `WM` 563-575) | `OrderItemList`, `orderbuff` | `GetOrdersFromServer`, `ClientOrderHandler` | `mutex_orderbuff`, `cv_server_order`, `CallDelivery` |
| Stock (`stock.h`, `WM` 311-360, 420-480) | `StockInfo_map`, `_currentstockquant` | `CallRestock`, `CallDelivery`, `StockUpdate` | menu, order handler, robots, delivery handler |
| Paths (`ShortestPath.h`, `WM` 32-166) | maze matrices | `FindPath`, `PathGenerator` | both handlers |
| Layout (`WarehouseLayout/main.cpp`, `LayoutUI.cpp`) | four shared-memory slots | claim a slot, load, draw, quit | `magic`, `magicW`, `quit` |
| Library (`library-master/include/cpen333`) | counters and semaphores of each primitive | `event`, `shared_mutex_fair`, `rendezvous`, `fifo`, `mutex` | used by all the others |

What is hard here is concurrency. The two docks are crossed by truck, handler
and robot threads over two semaphores, one mutex and one condition variable,
and the task counter behind the condition variable is changed outside of the
mutex. The web server gives every client a thread and lets them share a mutex
that each of them still holds when it ends. Clients and warehouses can go at any
moment, with messages under way. What makes each part correct:

* docks: one truck at a time at the buffer; no task mixes the items of two
  trucks; every unit of every truck is handled once, and in the end; no robot is
  overloaded; a truck waits until its tasks are done, and no longer;
* `tasks_Q`: values come out once and in order; no slot is read while it is
  written; nobody waits for ever;
* orders: an order is in one place; the orders of a client are called in turn
  and with what was asked for; every client is answered, every order called;
* stock: quantities match locations and the total; what is promised to an order
  has a location when its task is planned, as far as no location was deleted twice; every truck that is sent is served;
* paths: a path leads over free cells from start to end, is a shortest one, and
  makes the robot act once at every stop of its task;
* layout: a slot has one layout and one warehouse;
* library: the event wakes all and only those who waited, the shared mutex
  excludes and serves in batches, a rendezvous releases its group together.

`PROJECT.json` lists, under `hazards`, the lines where these can go wrong.

## Modules

| Module | Models | Notes |
|---|---|---|
| `DockGate` | a truck and the head of a handler's loop | one program point per blocking call; a condition wait is test / block / asleep / lock, so that what happens between the test and the sleep is visible |
| `RobotPool` | robots, `tasks_Q` as a bounded queue, robot+1 and robot-1 | the countdown is check / load / store / notify |
| `DockHandler` | what both handlers share: weighing, pushing, the end of an iteration | extends `RobotPool`, which extends `DockGate` |
| `RestockDock` | `res_dockHandler`, `GenerateRestockTask`, `HandleRestock` | each overload makes a task that stays |
| `DeliveryDock` | `del_dockHandler`, `GenerateDeliveryTask`, `HandleDelivery` | each overload drops the tasks, keeps the items, and deletes locations |
| `CargoService` | abstract: a truck's cargo is taken up at once, and then units of any items are handled, each once | implemented by `RestockDock` (a robot shelves one unit at a time) and `DeliveryDock` (a robot hands over its whole task) |
| `Stock` | `CallDelivery`, `CallRestock`, `StockUpdate`, and the loop of `del_dockHandler` that deletes locations, again for every overload of a robot | no lock anywhere: every `++`, `--`, push and pop is a load and a store; `raced` collects where two threads met |
| `ThreadFifo` | `push` and `pop` of `thread/fifo.h` by semaphore, claim, copy, notify | |
| `BoundedQueue` | abstract: a queue of at most `Size` values | implemented by `ThreadFifo`; `RobotPool` uses `tasks_Q` through it |
| `Event` | `thread/event.h`: gate, queue of sleepers, three counters | `process::impl::condition_base` is the same algorithm |
| `SharedMutexFair` | `process/impl/shared_mutex_fair.h`, with its timeouts | one step per piece of a call that holds its mutex |
| `Rendezvous` | `thread/rendezvous.h` and `process/rendezvous.h` | `version` says which |
| `Library` | the four library primitives side by side | a behaviour has one `subject` |
| `FloorPlan` | pure: access, the scan, `Search`, the walk, and a reference distance | folds only, over `LAMBDA`s that the proofs can name state by state |
| `PathPlanner` | `PathGenerator` over the shared `MazeSolver`, for one handler or both | copy, labels and walk are steps |
| `LayoutSlots` | layouts and warehouses that search for a slot | reads and writes of `magic`, `magicW` apart |
| `Floor` | `LayoutSlots` and `PathPlanner` | a behaviour has one `subject` |
| `NamedMutex` | `process::mutex` of the library on Windows | operators on a lock: owner, depth, abandoned |
| `OrderServer` | clients and `service` threads | |
| `OrderIntake` | `warehouseservice`, `GetOrdersFromServer`, `ClientOrderHandler` | |
| `OrderPipeline` | the two together, over the order queue | |
| `Sums` | lemmas about folds, and about sums over functions and sequences | the proofs of the docks, the stock and the floor use them |
| `DockHandlerProof`, `RestockDockProof`, `DeliveryDockProof` | proofs of the docks | see below for all the proofs |
| `OrderPipelineProof` | proofs of the order pipeline | |
| `StockProof` | proofs of `Stock` | |
| `LibraryProof` | proofs of `ThreadFifo`, `Event`, `SharedMutexFair`, `Rendezvous` and of their composition `Library` | |
| `FloorProof` | proofs of `LayoutSlots`, `FloorPlan`, `PathPlanner` and of their composition `Floor` | one section per stage, listed at its head |
| `MC*` | instances for TLC: cargoes, masses, carts, stock | |

Correspondence. In the dock modules `dock`, `arrived`, `buffMutex`, `buff`,
`taskcount` stand for the globals of one dock (`restockdock`, `restock_arrived`,
`mutex_rbuff`, `res_buff`, `restocktaskid`; likewise for delivery). `tpc`, `hpc`
and `rpc` are the program points of trucks, handler and robots. `load`,
`weight`, `planned` are the handler's locals; `hreg` and `rreg` hold what `++`
and `--` have loaded of the counter, which is a plain `unsigned long` and so is
read and written in two steps. Masses are integers in the unit of the code's
`id / 6.0`. In the order modules `up` and `wire` are the sockets, `msg`,
`incoming` and `receivedorder` the message each thread has in hand, `order`,
`basket` and `itemList` the three places where quantities accumulate, and
`called` the orders with which `CallDelivery` was called. An order record
carries two fields the code does not have, `number` and `asked`, so that
properties can speak of the cart it came from; no guard reads them.

Two steps of the code are one action only where nothing else can tell: the
library's semaphores (their `wait` and `notify` hold an inner mutex from begin
to end), work done wholly under one mutex, and a `notify_one` that is followed
by steps nobody else sees. `PlanHang` stands for the endless loop of
`PathGenRepeater`, which a leg from a place to itself causes, as between the facing
sides of two shelves three columns apart (`LoopingLegs`); it is an action without fairness. `PlanUndefined` is the
`back()` of an empty vector in `GenerateDeliveryTask`: the model stops there,
and the runs look at whether it is reached.

In `Stock`, `ask` holds what is left of `itemvect`, `hand` the items for the next
truck, `road` the trucks that run, in any order in which the docks may serve
them; `creg`, `rreg` and `hreg` hold what was loaded. `buff` is `del_buff`, `load`
is `deliveryitems`, and `plan` is what is left of the task for which
`GenerateDeliveryTask` is being called: that is all of `deliveryitems` each time. A location is a unit of
`located`, not a place. `call`, `raced`, `dropped` (locations
deleted for tasks that no robot gets), `crossed` in `RestockDock` and, in the library modules, `due`,
`roused`, `usurped`, `tries`, `overtaken` and `reentered` are bookkeeping that no
guard reads, but for the bound on `tries`.

`PathPlanner` stops where both handlers are in the solver at once, which is a
data race; until then each finds what the other left in `iPath` and `solved`.
`LegUndefined` stands for the trace that begins with an entry of `Queue` nobody
has written. In `LayoutSlots` a mutex is held only over the loading, and what is
loaded is abstracted; `contested` names the slots that two were about to take at
the same time.

The web server is modelled as built for Windows, for which the project files
are: the named mutex is recursive and, when its owner's thread ends, abandoned.
`lock()` loops while the wait does not return `WAIT_OBJECT_0`; the wait that
acquires an abandoned mutex returns something else, so the loop waits again and
acquires the mutex a second time. On POSIX the library's mutex is a semaphore
and the nested `lock` in `service` (Webserver.cpp:127) would block at the first
order.

## Runs

| Run | Expect | Question |
|---|---|---|
| `RestockDock` | pass | Two trucks, one of which overloads a robot, two robots, poison, hanging paths, a spurious wakeup: one truck at the dock, no mixed task, no overloaded robot, a counter that never exceeds the tasks under way until two threads cross in it, all units shelved as long as a robot is left and no path hangs; refines `CargoService`. |
| `RestockWakeup` | violation | robots.h:338: the notification lets the truck leave. |
| `DeliveryDock` | pass | A truck that overloads a robot and one that does not, with locations for the first, whose overload deletes some of them twice, and then one too few for the second: until a location is missing, tasks of one truck each bring every item at most once; refines `CargoService`. |
| `DeliveryLive` | pass | Trucks that fit one robot each: deleted locations are those taken out, they suffice, and everything is delivered while a robot is alive. |
| `DeliveryDeletes` | violation | `WM`:217: a location is deleted because its unit is taken out. |
| `Orders` | pass | A client with two orders, a second client, two warehouses, anybody may go: an order is in exactly one place, called in turn, with nothing forgotten. |
| `OrdersLive` | pass | Fair threads: a client left alone is answered; a served order is buffered by a warehouse that stays. |
| `OrdersHeld` | violation | Webserver.cpp:284: a client's thread runs on its own. |
| `OrdersStuck` | violation | WarehouseComm.h:94: the handler is told of an order that has come in. |
| `Stock` | pass | Two orders or restocks by two threads, a robot, the delivery handler, with two hats in stock, one, or none yet, and orders that overload a robot or a truck: locations and total balance, the promised is located unless a dropped task has used its location up, every truck served. |
| `Library` | pass | Fifo: exclusive slots, FIFO refinement, no lasting fullness. Event: counters account, no spurious wakeup, `notify_all` wakes all. Shared mutex: exclusion, passed by one writer, nobody starves. Rendezvous: in groups. |
| `Floor` | pass | 33 layouts, one without docks: numbering of shelves, shortest legs, each stop acted on once; two warehouses and three layouts: owners of slots. |

What the violations show:

* `RestockWakeup`. A robot changes the counter and notifies without
  `mutex_rbuff`. A truck that has read the counter and not yet gone to sleep
  misses the notification.
* `DeliveryDeletes`. `deliverytasks.clear()` (`WM`:511) drops the task and not
  the items. The next task carries them again and pops their locations again,
  until, without spare locations, `back()` is called on an empty vector.
* `OrdersHeld`. `service` returns, and leaves its loop, with `Server_Mutex`
  locked. The next service thread to lock it gets it twice, unlocks it once per
  message, and so keeps it while its own client is silent.
* `OrdersStuck`. `ClientOrderHandler` waits for a size of exactly one. Two
  orders that come in before it looks are never called, nor is any after them.

Deviations that no run refutes, since a property would only restate them: a
truck whose cargo fits one robot waits for a counter that nobody raises
(truck.h:77, `WM`:404-405), although its cargo is shelved (`AllShelved`); the
check of `CallRestock` (`WM`:318) does not count what is on the way, so two calls
in a row pass it and exceed `MAXWAREHOUSESTOCK` (warehouse_common.h:30).

**Conditional properties.** Where the code is racy a property says what still
holds, and its condition names the race. In `Stock` an item counts only while no
two threads have met on it (`raced`), and `EveryTruckServed` while no caller
pushed a truck between the `push_back` and `back()->start()` of the other.
`PromisedIsLocated` is about the step that finds an empty vector of locations,
and allows it to the item of which a robot has counted a unit and not yet stored
its location (stock.h:109 and 110): an order can be faster, which TLC shows if
no hat is there at first. It allows it also to an item of which locations were
deleted for a task that was then dropped: an order that weighs as much as a robot
may carry, 40 kg, loses locations without any race, and `LocationsBalance` counts
them (`dropped`). `DeliveryDeletes` is that case at the dock. Handlers whose paths
hang and robots that were poisoned, which keep trucks from being served too, are
left to the docks. In
`RestockDock` the counter never exceeds the tasks under way, for any number of
robots, up to the moment at which two threads cross in it (`crossed`: one stores
it while another is between its test or load and its store); after that it can
wrap, and no property says how far it is off. All is
shelved if a robot is alive and the handler does not hang. In `Event` the
counters are right until a waiter that timed out uses up the signal of another
(event.h:232); TLC finds `NotifyAllWakes` violated without that condition. In
`SharedMutexFair` all holds until the first `try_lock_shared` that succeeds,
which counts nobody in, and readers behind a writer that gives up are excepted
(`Stranded`): nobody tells them. In `Rendezvous` the barrier holds until a member
comes back before all have left. In `Floor` a slot that two looked at at the
same time may get two owners, and a planned leg counts until both handlers are
in the solver.

**Bounds.** Each is a constant of a cfg. Two trucks are the fewest that compete
for a dock, and the handler admits no more than one to the buffer (which is
proved for any number). Cargo of three items over a capacity of four gives an
overload task and a last task; two robots are
enough for their countdowns to interleave; poison and spurious wakeups are
bounded by `MaxPoison` and `MaxSpurious`, since each is idempotent in its
effect. `StoredTwo` has what the overloading truck takes if it comes first,
duplicates included, so that both the whole service and the missing location are
reached. `CounterMod` is 8 in place of 2^32: more than the tasks of a run, so
that a wrap is seen as such. `ThreadFifo` has two slots, so both indices wrap and
both ends meet at a slot. Two orders per client show what accumulates from one
to the next; two warehouses compete for the queue; three clients are needed for
`OrdersHeld` (one goes, one holds, one waits). In `Stock` two calls meet each
other, a robot and the handler; a pen and a hat fit a truck and overload a robot,
and two pens overload a truck. There are two hats and a pen, so that a task can be
dropped with locations enough for the next; one hat, so that back() is then
called on an empty vector, and both callers may find the last one; or none, so
that one may be planned for while it is being shelved. Two waiters and two notifiers of `Event` are
enough for a batch to be under way when the next comes; `MaxGone` bounds how many
have timed out. Three users of the shared mutex are a writer, a reader and one
that competes with either, and three members of a rendezvous come up to three
times. `Floor` has five rows of eight, with room for every arrangement of five
shelves that tells the scan or the search apart: three columns apart, in one
column, in a corner, and in the way; the two handlers together get one layout,
each with one item. A symmetry of layouts and of warehouses reduces that run,
which has no liveness. Deadlock is checked in the order runs. It is not checked
at the docks and in `Stock`, `Library` and `Floor`, where the system does stop:
all trucks are served, a handler hangs, a truck waits for ever, all calls are
made, a plan is done.

**Fairness.** Started threads run: weak fairness per thread at the docks, where
each lock is asked for a bounded number of times. The order runs assume strong
fairness for the threads that share a named mutex or the order buffer with
others that take it again and again, because the kernel serves its waiters in
turn. In the library runs a thread that is inside a call goes on, with strong
fairness where it waits for a mutex that others take and release; nobody has to
begin a call, a wait need not time out, and whoever holds the shared mutex gives
it back. In `Stock` threads run and no call need be made. `Floor` has safety
only. No fairness for what users do (menu, clients, a warehouse that leaves),
for spurious wakeups, or for `PlanHang`.

## Proofs

All theorems hold for every value of the constants that satisfies the named
assumptions of the modules: any number of trucks, robots, items, calls and stops,
every cargo and mass; any finite number of producers and consumers, of ring slots,
of users of a primitive, of clients and warehouses, and any carts; every layout of
every size. What a theorem assumes beyond that is in the last column.

| Theorem | States | Assumes |
|---|---|---|
| `RestockDockProof!TypeCorrect`, `DeliveryDockProof!TypeCorrect` | `[]TypeOK`; with it, `tasks_Q` stays within its size, the counter within its width, and no location is taken that is not there | |
| `RestockDockProof!OneTruck`, `DeliveryDockProof!OneTruck` | `[]OneTruckAtDock` | |
| `RestockDockProof!MutexCorrect`, `DeliveryDockProof!MutexCorrect` | `[]MutexOwned`: the buffer mutex is held by exactly the thread whose program point says so | |
| `RestockDockProof!OneTruckPerTask`, `DeliveryDockProof!OneTruckPerTask` | `[]TasksOfOneTruck` | |
| `RestockDockProof!ShelvesWhatComes`, `DeliveryDockProof!BringsWhatIsAsked` | each dock implements `CargoService`: no unit is lost, invented or handled twice | finitely many robots |
| `RestockDockProof!NoOverload` | `[]CapacityRespected` | |
| `RestockDockProof!CountedTasks` | `[]CounterCovered` | finitely many trucks and robots, and fewer items come than the counter can count |
| `DeliveryDockProof!EnoughLocations` | `[]LocationsSuffice` | finitely many trucks and robots; every truck fits one robot |
| `DeliveryDockProof!OneDeletedPerUnit` | `[]DeletedIsTakenOut` | the same |
| `LibraryProof!FifoTypes`, `ExclusiveSlots` | `[]TypeOK`, `[]SlotsExclusive` of the fifo | |
| `LibraryProof!RingIsAQueue` | the ring implements `BoundedQueue` | |
| `LibraryProof!FairMutex`, `OneWriterPasses` | `[]FairExclusion`; `[]PassedByOneWriter` | |
| `LibraryProof!PassingInGroups` | `[]PassedInGroups` | |
| `LibraryProof!EventCounts`, `WokenByNotification` | `[]CountersAccount`; `[]NoSpuriousWake` | |
| `LibraryProof!LibrarySafe`, `LibraryHasAQueue` | `[]LibraryTypeOK` and these properties of the composition that the run checks, and the refinement | |
| `FloorProof!FloorTypes`, `OwnersOfSlots` | `[]FloorTypeOK`, `[]SlotOwners` | |
| `FloorProof!StopsInOrder` | `[]StopsActedOnOnce` | |
| `FloorProof!ShelvesNumbered` | `[]ShelvesAreFound`: what the scan has numbered and what it has missed | |
| `FloorProof!SolutionIsShortest` | the search finds a shortest way, or nothing where there is none | |
| `FloorProof!LegsByTheShortestWay` | `[]LegsAreShortest` | |
| `StockProof!TypeCorrect` | `[]TypeOK`; with it, no count of locations goes below zero and no truck is empty | |
| `StockProof!LocationsBalanced` | `[]LocationsBalance`, dropped tasks included | |
| `StockProof!FoundIsLocated` | `PromisedIsLocated`, about steps | |
| `StockProof!TotalBalanced` | `[]TotalBalance` | |
| `OrderPipelineProof!TypeCorrect` | `[]TypeOK`; with it, a mutex is held twice at the most | |
| `OrderPipelineProof!CalledAsAsked` | `[]NothingForgotten` | |
| `OrderPipelineProof!CallsInOrder` | `[]CalledInOrder` | |
| `OrderPipelineProof!PlacedOnce` | `[]OrderInOnePlace` | at least one warehouse |

The assumptions of the modules (`GateAssumption`, `PoolAssumption`,
`HandlerAssumption`, `StoredAssumption`, `PipelineAssumption` and those of the
library and the slots) say that handlers and `Nobody` are not trucks or threads,
that cargoes are sequences of known items, that no more is ordered of an item than
is stored, that carts are not empty, that `tasks_Q`, a ring and a capacity are at
least one, and that a single item weighs less than a robot carries.
`StockAssumption` says that a single item fits a truck and a robot and that the lists given to
`CallRestock` are not empty: for an empty one it sends no truck (`WM`:349).
`RestocksFitOneTruck` says that such a list, which is admitted for less than
`MAXWAREHOUSESTOCK` units, never fills a truck: an item weighs its number over six
(stock.h:51), so 5 kg at the most, and a truck carries 10000.
`SizeAssumption` and `LayoutAssumption` describe the layouts the program is shipped
with: there is a column, walls are all around but for the docks, no dock is in the
first row, and `park` is inside and free. Without the walls the place beside a
shelf, to which a robot is sent, need not be on the floor.
TLC evaluates the assumptions in the runs.

**Docks.** `OneTruckAtDock` counts one token: `OpenDock` makes it, and it is in
the dock semaphore, with one truck, in the arrived semaphore, or with the
handler. That, with types and `MutexOwned`, is `GateInv`, and it is inductive by
itself: a step of anything but the gate leaves the gate's variables framed
(`FrameKeepsGate`). `TasksOfOneTruck` is not inductive: a truck appends to
whatever is in the buffer. `BufferReady` adds why that is nothing: a truck that
is moored, or can still moor, finds the buffer empty, and the handler carries no
load from one iteration to the next. `IInv` in `DockHandlerProof` is `GateInv`,
the types, `BufferReady` and `TasksOfOneTruck`; one lemma per shared action shows
it preserved, and each dock adds its own planning and robot steps.

The refinements need more: that a robot without a task carries nothing
(`EmptyHanded`) and, on the delivery side, that no task is planned before the load
is complete (`PlannedLate`: the tasks of an overload are dropped). What
`CargoService` calls pending is a sum: the units in the buffer, the handler's
load, the planned tasks, `tasks_Q` and the robots' hands. Every step of the
handler and the robots moves units from one summand to another, which is a
stutter, until a robot handles them.

`CapacityInv` adds to `CapacityRespected` that the handler's weight is at least
that of its load. `CounterCovered` says that each count of `restocktaskid` is that
of a task planned, queued or with a robot that has yet to count it down. It is not
inductive: `Counted` adds that the counter is at most the items that have come and
are no longer in the buffer, so that it does not come near its width, and that
whoever has tested or loaded it still finds it so, which is what a crossing
breaks. A robot that counts down takes a task away with the count, and one that
finds zero takes away a task that was not counted. On the
delivery side, if every truck fits one robot, no load is ever counted as an
overload (`FitsSoFar`); then units are neither lost nor repeated between the trucks
still to come, the dock and what was delivered (`Conserved`), and locations, units
in tasks and units delivered add up to what was stored (`Balanced`).

**Sums.** The sums are folds, which no induction can reach here. `Sums` proves
what they do without any: a finite set that is wrong for a sum has a smallest
wrong subset (`SmallestSet`), and taking one element out of that refutes it. A sum over
naturals is shown to be the size of a set of pairs (`Tally`), whose cardinality the
library's theorems handle; appending, taking the front or the tail, moving a
unit from one place to another follow from that. Folds that compute something
else are followed through their intermediate states: `LeftFoldStates` and
`RightFoldStates` give a function `q` with the first state in `q[0]` and each next
one made from the last; if one of them were wrong there would be a first
(`LeastNatural`), and the step to it refutes that. In this way the results of the
scan, the search and the walk are proved for every floor, although induction as
such cannot be used.

**Fifo.** `FifoInv` says how many tokens there are: those of both semaphores and
one for each thread that has claimed a slot and not yet passed it on make up the
ring (`Conserved`), that who works at an end of the ring holds its mutex
(`EndsLocked`), and how far the indices are apart (`IndicesAgree`). The abstract
queue holds what was written and not yet read, from the slot that is being read
or comes next: a value enters with the copy in `push` and leaves with that in
`pop`, and every other step is a stutter.

**Library.** `SharedInv` counts, for the shared mutex, who is in and who may go in
by their program points, and adds that a reader of the next batch has seen no
writer go but the one that is in. `EventInv` relates the event's three counters to
the threads that sleep, have been woken and are leaving; `MeetInv` relates the
count of a rendezvous to the number of complete groups.

**Stock.** Every `++`, `--`, push and pop is a load and a store, and `raced` grows
where two threads are between the two at once. Four parts make up `StockInv`.
`Typed` adds to the types what a program point promises about the data there: a
caller at work on an item still has one, a truck about to be sent has a load.
`Agree` says that, for an item that is not in `raced`, a register holds what the
variable still holds, and an item found in stock still is; without it a store
could write anything. `Located` is the balance itself: the locations of an item
and those a robot is about to push (`Placing`), less the quantity and what is
promised to orders (in a hand, in a truck that waits, on the road, with the handler),
are the units that an overloaded delivery sent out on a restock truck
(`Misrouted`), as long as `trucks` is undisturbed, and never below zero in any case. Each
step moves one unit between two of these places. A unit with the handler is
promised once, however often its location is looked for, and each location
deleted for a task that is dropped counts against that (`Due`); `LoadPlanned`
says that such a task asks for no more than the load holds. `LocationsBalance`
follows, and so does `PromisedIsLocated`, about the step that looks for a
location: a planned unit is promised, so a location of it is there unless a robot
is about to push it or it was deleted for a dropped task. `TotalBalance` needs one more invariant, `Totalled`: as long as
nobody has met on an item or on the total, the total is the sum of the
quantities and of those who have changed a quantity and not yet the total.

**Floor.** `SlotInv` says of each slot who claims it and where it stands, and
that a layout which is told to quit is one whose loading failed. Of the paths,
`PlannerInv` says that the layout is one of those allowed and its matrix and scan
are of that layout, that places stay on the floor, and that what a handler has
planned has one leg for each stop before the one at hand, in their order; that
gives `StopsActedOnOnce`. `ScanInv` follows the scan of `draw_layout` place by place:
how many rows with a shelf it has counted, which place it saw last, and what its
map holds. `LegsAreShortest` takes four steps. The queue of `FindPath` holds the open
places by their distance from the start, each beside an earlier one that is one
nearer, and none is missing nearer than the front (`Searched`); so the trace
along the origins is a way without a repetition and as long as the distance
(`Way`, `SolutionIsShortest`). The labels are those of the places of that way, in
order, and all others are as in the maze (`Labelled`), so that the walk finds at
each place one label and goes the same way (`GoesBack`). But labels are shared
by both handlers: the property is not inductive before it is known that
whoever is in the solver is there alone and finds his own labels. `PathsInv` says
so (`OneInSolver`, `Path`), up to the moment two have met.

**Orders.** `TypeInv` has, beyond types, that a mutex is held by the thread whose
program point says so, at most twice, that each thread has at most one message
in hand, and that an order never holds less than its cart asked for.
`CalledInOrder` and `OrderInOnePlace` speak of a dozen places and are far from
inductive. `LinesInv` pictures the pipeline as lines: for a client and a
warehouse, the eight places from the client's socket to the calls of
`CallDelivery`, each a sequence of numbers. The numbers are in line if they
increase towards the client and no number is twice in them (`InLine`). Whatever a
thread does, it hands the first of a place on to the next (`Move`), lets a larger
number in at the far end (`Grow`), or empties places (`Emptied`); each of the three
keeps numbers in line. The lines of one client share the places up to the queue,
where a number goes to one of them; `Placed` says that the numbers from one to
`made` are those in the lines and those that are lost, and that no two lines and
no loss have one in common. One lemma per kind of step (`HandsOnPlaced`,
`TakePlaced`, `LosesPlaced`, `SaidPlaced`, `HeardPlaced`) takes it from there.

**Only model-checked.** The liveness properties, under the fairness above, since
no liveness under fairness is within reach of the prover: `AllShelved`,
`AllDelivered`, `AnsweredOnceAlone`, `ServedIsBuffered`, `EveryTruckServed`,
`FullIsRelieved`, `NotifyAllWakes`, `SharedServes`. Every other property of the
passing runs is a theorem.

## Not modelled

* The contents of a layout file, and a process that is killed in the middle of
  claiming or loading a slot; drawing (console output only). The place in shared
  memory that a robot or truck writes for the display.
* Which shelf a unit is on, in `Stock`, and names of customers and orders in it.
* JSON and regular-expression search: conversions; the vendored parser.
* `peek`, `size`, `empty` of the fifo, which the warehouse does not call. Read
  off the code: `peek` takes a token of `csem_` and gives none back, although
  its comment keeps the item for the next `pop`; `size` is 0 for a full ring.
* `shared_mutex_exclusive`, `condition`, `timer`, message queues and the fifo
  between processes, which the program does not use. Read off the code:
  `shared_mutex_exclusive::try_lock_until` returns true after a timeout, too.
* Sockets, pipes, subprocesses, shared memory and the console of the library:
  wrappers of system calls for three platforms, without a protocol of their own.
  With the vendored `json.hpp` (13 367 lines) and the teaching examples they are
  by far the largest part of the source, and the modules stand for none of it:
  what they cover is the logic of the program and the synchronisation it rests
  on.
* `ClientOrderRejection` and `RejectOrder` (never started), a failing web server.

## Plan

1. Done: docks, fifo, order pipeline, proofs of the dock protocol.
2. Done: `Stock`, `LayoutSlots`, `FloorPlan` and `PathPlanner`, `Event`,
   `SharedMutexFair`, `Rendezvous`.
3. Done: proofs of the fifo, the library, the slots, the refinements at both
   docks, capacity, counter and locations, and of the order pipeline.
4. Done: proofs of `Stock` (types, both balances, what is promised) and of the floor
   (types, stops, scan, search, legs). Nothing but liveness is left to prove.
5. If room is found for more runs: the bound of `CallRestock` and the truck that
   fits one robot as violations of their own.
