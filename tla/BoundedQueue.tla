------------------------------ MODULE BoundedQueue ------------------------------
(***************************************************************************)
(* What cpen333::thread::fifo promises its users: a queue of at most Size  *)
(* values, put in at one end, taken out at the other, one at a time.       *)
(***************************************************************************)
EXTENDS Naturals, Sequences

CONSTANTS Consumers, Values, Size

VARIABLES
    queue,      \* the values put in and not yet taken
    got         \* the value each consumer took last

vars == <<queue, got>>

Init == queue = <<>> /\ got \in [Consumers -> Values]

Put(v) ==
    /\ Len(queue) < Size
    /\ queue' = Append(queue, v)
    /\ UNCHANGED got

Take(c) ==
    /\ queue # <<>>
    /\ got' = [got EXCEPT ![c] = Head(queue)]
    /\ queue' = Tail(queue)

Next == (\E v \in Values : Put(v)) \/ (\E c \in Consumers : Take(c))

Spec == Init /\ [][Next]_vars
=============================================================================
