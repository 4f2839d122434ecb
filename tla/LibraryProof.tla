------------------------------ MODULE LibraryProof ------------------------------
(***************************************************************************)
(* Proofs about the primitives of the course library, for any number of    *)
(* threads: the ring buffer of tasks_Q, whose two ends never meet at a     *)
(* slot and which implements a bounded queue, the fair shared mutex, the   *)
(* two rendezvous, the event, and then all of them side by side.           *)
(***************************************************************************)
EXTENDS Library, SequenceTheorems, Sums

-----------------------------------------------------------------------------
(* Counting threads at program points.                                     *)

LEMMA CountNat ==
    ASSUME NEW S, IsFiniteSet(S), NEW P, NEW f \in [S -> P], NEW points
    PROVE  At(f, points) \in Nat /\ IsFiniteSet({x \in DOMAIN f : f[x] \in points})
<1>1. {x \in DOMAIN f : f[x] \in points} \in SUBSET S OBVIOUS
<1> QED BY <1>1, FS_Subset, FS_CardinalityType DEF At

\* One thread goes from one point to another.
LEMMA CountMove ==
    ASSUME NEW S, IsFiniteSet(S), NEW P, NEW f \in [S -> P], NEW g \in [S -> P],
           NEW a \in S, \A x \in S : x # a => g[x] = f[x],
           NEW points
    PROVE  At(g, points) = At(f, points)
                + (IF g[a] \in points THEN 1 ELSE 0) - (IF f[a] \in points THEN 1 ELSE 0)
<1> DEFINE before == {x \in DOMAIN f : f[x] \in points}
           after == {x \in DOMAIN g : g[x] \in points}
<1>1. IsFiniteSet(before) /\ Cardinality(before) \in Nat
  BY CountNat DEF At
<1>3. /\ g[a] \in points /\ f[a] \in points => after = before
      /\ g[a] \in points /\ f[a] \notin points => after = before \cup {a} /\ a \notin before
      /\ g[a] \notin points /\ f[a] \in points => after = before \ {a} /\ a \in before
      /\ g[a] \notin points /\ f[a] \notin points => after = before
  OBVIOUS
<1> HIDE DEF before, after
<1>4. /\ a \notin before => Cardinality(before \cup {a}) = Cardinality(before) + 1
      /\ a \in before => Cardinality(before \ {a}) = Cardinality(before) - 1
  BY <1>1, FS_AddElement, FS_RemoveElement
<1>5. Cardinality(after) = Cardinality(before)
          + (IF g[a] \in points THEN 1 ELSE 0) - (IF f[a] \in points THEN 1 ELSE 0)
  <2>1. CASE g[a] \in points /\ f[a] \in points BY <1>1, <1>3, <2>1
  <2>2. CASE g[a] \in points /\ f[a] \notin points
    <3>1. Cardinality(after) = Cardinality(before) + 1 BY <1>3, <1>4, <2>2
    <3> QED BY <1>1, <2>2, <3>1
  <2>3. CASE g[a] \notin points /\ f[a] \in points
    <3>1. Cardinality(after) = Cardinality(before) - 1 BY <1>3, <1>4, <2>3
    <3> QED BY <1>1, <2>3, <3>1
  <2>4. CASE g[a] \notin points /\ f[a] \notin points BY <1>1, <1>3, <2>4
  <2> QED BY <2>1, <2>2, <2>3, <2>4
<1> QED BY <1>5 DEF At, before, after

\* Who is at one of some points is at one point or another.
LEMMA CountUnion ==
    ASSUME NEW S, IsFiniteSet(S), NEW P, NEW f \in [S -> P], NEW A, NEW B, A \cap B = {}
    PROVE  At(f, A \cup B) = At(f, A) + At(f, B)
<1> DEFINE inA == {x \in DOMAIN f : f[x] \in A}
           inB == {x \in DOMAIN f : f[x] \in B}
<1>1. {x \in DOMAIN f : f[x] \in A \cup B} = inA \cup inB /\ inA \cap inB = {}
  OBVIOUS
<1>2. IsFiniteSet(inA) /\ IsFiniteSet(inB) /\ Cardinality(inA) \in Nat /\ Cardinality(inB) \in Nat
  BY CountNat DEF At
<1>3. Cardinality(inA \cup inB) = Cardinality(inA) + Cardinality(inB) - Cardinality(inA \cap inB)
  BY <1>2, FS_Union
<1>4. Cardinality(inA \cap inB) = 0
  BY <1>1, FS_EmptySet
<1> HIDE DEF inA, inB
<1>5. Cardinality(inA \cup inB) = Cardinality(inA) + Cardinality(inB)
  BY <1>2, <1>3, <1>4
<1> QED BY <1>1, <1>5 DEF inA, inB, At

\* Someone, nobody, one only.
LEMMA CountSome ==
    ASSUME NEW S, IsFiniteSet(S), NEW P, NEW f \in [S -> P], NEW points,
           NEW a \in S, f[a] \in points
    PROVE  At(f, points) >= 1
<1> DEFINE there == {x \in DOMAIN f : f[x] \in points}
<1>1. a \in there
  OBVIOUS
<1>2. IsFiniteSet(there) /\ Cardinality(there) \in Nat
  BY CountNat DEF At
<1>3. Cardinality(there) # 0
  BY <1>1, <1>2, FS_EmptySet
<1> HIDE DEF there
<1>4. Cardinality(there) >= 1
  BY <1>2, <1>3
<1> QED BY <1>4 DEF there, At

LEMMA CountNone ==
    ASSUME NEW f, NEW points, \A x \in DOMAIN f : f[x] \notin points
    PROVE  At(f, points) = 0
<1>1. {x \in DOMAIN f : f[x] \in points} = {}
  OBVIOUS
<1> QED BY <1>1, FS_EmptySet DEF At

LEMMA CountOne ==
    ASSUME NEW f, NEW points, NEW a \in DOMAIN f,
           \A x \in DOMAIN f : f[x] \in points <=> x = a
    PROVE  At(f, points) = 1
<1>1. {x \in DOMAIN f : f[x] \in points} = {a}
  OBVIOUS
<1> QED BY <1>1, FS_Singleton DEF At

-----------------------------------------------------------------------------
(* How many threads are at each point of push and pop.                     *)

Rooms == At(ppc, {"room"})
Writing == At(ppc, {"write"})
Written == At(ppc, {"written"})
Items == At(cpc, {"item"})
Reading == At(cpc, {"read"})
Taken == At(cpc, {"taken"})

LEMMA Counted ==
    ASSUME TypeOK
    PROVE  /\ {Rooms, Writing, Written, Items, Reading, Taken} \subseteq Nat
           /\ At(ppc, {"room", "write", "written"}) = Rooms + Writing + Written
           /\ At(cpc, {"item", "read", "taken"}) = Items + Reading + Taken
           /\ At(ppc, {"room", "write"}) = Rooms + Writing
<1> DEFINE PC == {"idle", "room", "write", "written"}
           QC == {"idle", "item", "read", "taken"}
<1>1. ppc \in [Producers -> PC] /\ IsFiniteSet(Producers) /\ DOMAIN ppc = Producers
  BY FifoAssumption DEF TypeOK
<1>2. cpc \in [Consumers -> QC] /\ IsFiniteSet(Consumers) /\ DOMAIN cpc = Consumers
  BY FifoAssumption DEF TypeOK
<1> HIDE DEF PC, QC
<1>3. \A points : At(ppc, points) \in Nat /\ At(cpc, points) \in Nat
  BY <1>1, <1>2, CountNat
<1>4. At(ppc, {"room"} \cup {"write"}) = Rooms + Writing
  BY <1>1, CountUnion DEF Rooms, Writing
<1>5. At(ppc, {"room", "write"} \cup {"written"}) = At(ppc, {"room", "write"}) + Written
  BY <1>1, CountUnion DEF Written
<1>6. At(cpc, {"item"} \cup {"read"}) = Items + Reading
  BY <1>2, CountUnion DEF Items, Reading
<1>7. At(cpc, {"item", "read"} \cup {"taken"}) = At(cpc, {"item", "read"}) + Taken
  BY <1>2, CountUnion DEF Taken
<1>8. /\ {"room"} \cup {"write"} = {"room", "write"}
      /\ {"room", "write"} \cup {"written"} = {"room", "write", "written"}
      /\ {"item"} \cup {"read"} = {"item", "read"}
      /\ {"item", "read"} \cup {"taken"} = {"item", "read", "taken"}
  OBVIOUS
<1>9. {Rooms, Writing, Written, Items, Reading, Taken} \subseteq Nat
  BY <1>3 DEF Rooms, Writing, Written, Items, Reading, Taken
<1>10. At(ppc, {"room", "write", "written"}) = Rooms + Writing + Written
  BY <1>4, <1>5, <1>8
<1>11. At(cpc, {"item", "read", "taken"}) = Items + Reading + Taken
  BY <1>6, <1>7, <1>8
<1> QED BY <1>4, <1>8, <1>9, <1>10, <1>11

LEMMA ProducerMoves ==
    ASSUME TypeOK, NEW p \in Producers, NEW from, NEW to \in {"idle", "room", "write", "written"}, ProducerGo(p, from, to)
    PROVE  \A points : At(ppc', points) = At(ppc, points)
              + (IF to \in points THEN 1 ELSE 0) - (IF from \in points THEN 1 ELSE 0)
<1> SUFFICES ASSUME NEW points
             PROVE  At(ppc', points) = At(ppc, points)
                      + (IF to \in points THEN 1 ELSE 0) - (IF from \in points THEN 1 ELSE 0)
  OBVIOUS
<1> DEFINE PC == {"idle", "room", "write", "written"}
<1>1. ppc \in [Producers -> PC] /\ IsFiniteSet(Producers)
  BY FifoAssumption DEF TypeOK
<1>2. /\ ppc[p] = from /\ ppc'[p] = to
      /\ \A x \in DOMAIN ppc : x # p => ppc'[x] = ppc[x]
      /\ ppc' \in [DOMAIN ppc -> PC]
  BY <1>1 DEF ProducerGo
<1> HIDE DEF PC
<1>3. At(ppc', points) = At(ppc, points)
          + (IF ppc'[p] \in points THEN 1 ELSE 0) - (IF ppc[p] \in points THEN 1 ELSE 0)
  BY <1>1, <1>2, CountMove, SMTT(30)
<1> QED BY <1>2, <1>3

LEMMA ConsumerMoves ==
    ASSUME TypeOK, NEW c \in Consumers, NEW from, NEW to \in {"idle", "item", "read", "taken"}, ConsumerGo(c, from, to)
    PROVE  \A points : At(cpc', points) = At(cpc, points)
              + (IF to \in points THEN 1 ELSE 0) - (IF from \in points THEN 1 ELSE 0)
<1> SUFFICES ASSUME NEW points
             PROVE  At(cpc', points) = At(cpc, points)
                      + (IF to \in points THEN 1 ELSE 0) - (IF from \in points THEN 1 ELSE 0)
  OBVIOUS
<1> DEFINE PC == {"idle", "item", "read", "taken"}
<1>1. cpc \in [Consumers -> PC] /\ IsFiniteSet(Consumers)
  BY FifoAssumption DEF TypeOK
<1>2. /\ cpc[c] = from /\ cpc'[c] = to
      /\ \A x \in DOMAIN cpc : x # c => cpc'[x] = cpc[x]
      /\ cpc' \in [DOMAIN cpc -> PC]
  BY <1>1 DEF ConsumerGo
<1> HIDE DEF PC
<1>3. At(cpc', points) = At(cpc, points)
          + (IF cpc'[c] \in points THEN 1 ELSE 0) - (IF cpc[c] \in points THEN 1 ELSE 0)
  BY <1>1, <1>2, CountMove
<1> QED BY <1>2, <1>3

-----------------------------------------------------------------------------
(* The inductive invariant.                                                *)

\* Each end's mutex is held by the thread that copies there.
EndsLocked ==
    /\ \A p \in Producers : ppc[p] = "write" <=> pmutex = p
    /\ \A c \in Consumers : cpc[c] = "read" <=> cmutex = c

\* Slots claimed by a producer and not yet by a consumer
Between == csem + Writing + Written + Items

\* The indices are as far apart as there are such slots, and who copies does
\* so at the slot just passed.
IndicesAgree ==
    /\ pidx = cidx + Between \/ pidx = cidx + Between - Size
    /\ \A p \in Producers : ppc[p] = "write" => pidx = After(ploc[p])
    /\ \A c \in Consumers : cpc[c] = "read" => cidx = After(cloc[c])

\* TokensConserved, point by point
Conserved == psem + csem + Rooms + Writing + Written + Items + Reading + Taken = Size

FifoInv == TypeOK /\ EndsLocked /\ Conserved /\ IndicesAgree

\* One producer copies at a time, and one consumer.
LEMMA OneCopies ==
    ASSUME TypeOK, EndsLocked
    PROVE  /\ Writing = IF pmutex = Nobody THEN 0 ELSE 1
           /\ Reading = IF cmutex = Nobody THEN 0 ELSE 1
<1>1. pmutex = Nobody => Writing = 0
  <2>1. pmutex = Nobody => \A p \in DOMAIN ppc : ppc[p] \notin {"write"}
    BY FifoAssumption DEF TypeOK, EndsLocked
  <2> QED BY <2>1, CountNone DEF Writing
<1>2. pmutex # Nobody => Writing = 1
  <2>1. pmutex # Nobody =>
          pmutex \in DOMAIN ppc /\ \A p \in DOMAIN ppc : ppc[p] \in {"write"} <=> p = pmutex
    BY DEF TypeOK, EndsLocked
  <2> QED BY <2>1, CountOne DEF Writing
<1>3. cmutex = Nobody => Reading = 0
  <2>1. cmutex = Nobody => \A c \in DOMAIN cpc : cpc[c] \notin {"read"}
    BY FifoAssumption DEF TypeOK, EndsLocked
  <2> QED BY <2>1, CountNone DEF Reading
<1>4. cmutex # Nobody => Reading = 1
  <2>1. cmutex # Nobody =>
          cmutex \in DOMAIN cpc /\ \A c \in DOMAIN cpc : cpc[c] \in {"read"} <=> c = cmutex
    BY DEF TypeOK, EndsLocked
  <2> QED BY <2>1, CountOne DEF Reading
<1> QED BY <1>1, <1>2, <1>3, <1>4

LEMMA Tokens == ASSUME TypeOK, Conserved PROVE TokensConserved
<1>1. psem \in Int /\ csem \in Int /\ Size \in Int
  BY FifoAssumption DEF TypeOK
<1> QED BY <1>1, Counted DEF TokensConserved, Conserved

LEMMA FifoInitInv == Init => FifoInv
<1> SUFFICES ASSUME Init PROVE FifoInv
  OBVIOUS
<1> USE FifoAssumption
<1>1. TypeOK BY DEF Init, TypeOK, Slots
<1>2. EndsLocked BY DEF Init, EndsLocked
<1>3. Rooms = 0 /\ Writing = 0 /\ Written = 0 /\ Items = 0 /\ Reading = 0 /\ Taken = 0
  BY CountNone DEF Init, Rooms, Writing, Written, Items, Reading, Taken
<1>4. Conserved BY <1>3 DEF Init, Conserved
<1>5. IndicesAgree BY <1>3 DEF Init, IndicesAgree, Between
<1> QED BY <1>1, <1>2, <1>4, <1>5 DEF FifoInv

\* What a step of a thread does to the counts.
LEMMA ProducerCounts ==
    ASSUME TypeOK, NEW p \in Producers
    PROVE  /\ ProducerGo(p, "idle", "room") =>
                Rooms' = Rooms + 1 /\ Writing' = Writing /\ Written' = Written
           /\ ProducerGo(p, "room", "write") =>
                Rooms' = Rooms - 1 /\ Writing' = Writing + 1 /\ Written' = Written /\ Rooms >= 1
           /\ ProducerGo(p, "write", "written") =>
                Rooms' = Rooms /\ Writing' = Writing - 1 /\ Written' = Written + 1 /\ Writing >= 1
           /\ ProducerGo(p, "written", "idle") =>
                Rooms' = Rooms /\ Writing' = Writing /\ Written' = Written - 1 /\ Written >= 1
<1>1. Rooms \in Nat /\ Writing \in Nat /\ Written \in Nat
  BY Counted
<1>2. ppc \in [Producers -> {"idle", "room", "write", "written"}] /\ IsFiniteSet(Producers)
  BY FifoAssumption DEF TypeOK
<1>3. \A points : ppc[p] \in points => At(ppc, points) >= 1
  BY <1>2, CountSome
<1>4. CASE ProducerGo(p, "idle", "room")
  BY <1>1, <1>4, ProducerMoves DEF Rooms, Writing, Written
<1>5. CASE ProducerGo(p, "room", "write")
  <2>1. Rooms >= 1 BY <1>3, <1>5 DEF Rooms, ProducerGo
  <2> QED BY <1>1, <2>1, <1>5, ProducerMoves DEF Rooms, Writing, Written
<1>6. CASE ProducerGo(p, "write", "written")
  <2>1. Writing >= 1 BY <1>3, <1>6 DEF Writing, ProducerGo
  <2> QED BY <1>1, <2>1, <1>6, ProducerMoves DEF Rooms, Writing, Written
<1>7. CASE ProducerGo(p, "written", "idle")
  <2>1. Written >= 1 BY <1>3, <1>7 DEF Written, ProducerGo
  <2> QED BY <1>1, <2>1, <1>7, ProducerMoves DEF Rooms, Writing, Written
<1> QED BY <1>4, <1>5, <1>6, <1>7

LEMMA ConsumerCounts ==
    ASSUME TypeOK, NEW c \in Consumers
    PROVE  /\ ConsumerGo(c, "idle", "item") =>
                Items' = Items + 1 /\ Reading' = Reading /\ Taken' = Taken
           /\ ConsumerGo(c, "item", "read") =>
                Items' = Items - 1 /\ Reading' = Reading + 1 /\ Taken' = Taken /\ Items >= 1
           /\ ConsumerGo(c, "read", "taken") =>
                Items' = Items /\ Reading' = Reading - 1 /\ Taken' = Taken + 1 /\ Reading >= 1
           /\ ConsumerGo(c, "taken", "idle") =>
                Items' = Items /\ Reading' = Reading /\ Taken' = Taken - 1 /\ Taken >= 1
<1>1. Items \in Nat /\ Reading \in Nat /\ Taken \in Nat
  BY Counted
<1>2. cpc \in [Consumers -> {"idle", "item", "read", "taken"}] /\ IsFiniteSet(Consumers)
  BY FifoAssumption DEF TypeOK
<1>3. \A points : cpc[c] \in points => At(cpc, points) >= 1
  BY <1>2, CountSome
<1>4. CASE ConsumerGo(c, "idle", "item")
  BY <1>1, <1>4, ConsumerMoves DEF Items, Reading, Taken
<1>5. CASE ConsumerGo(c, "item", "read")
  <2>1. Items >= 1 BY <1>3, <1>5 DEF Items, ConsumerGo
  <2> QED BY <1>1, <2>1, <1>5, ConsumerMoves DEF Items, Reading, Taken
<1>6. CASE ConsumerGo(c, "read", "taken")
  <2>1. Reading >= 1 BY <1>3, <1>6 DEF Reading, ConsumerGo
  <2> QED BY <1>1, <2>1, <1>6, ConsumerMoves DEF Items, Reading, Taken
<1>7. CASE ConsumerGo(c, "taken", "idle")
  <2>1. Taken >= 1 BY <1>3, <1>7 DEF Taken, ConsumerGo
  <2> QED BY <1>1, <2>1, <1>7, ConsumerMoves DEF Items, Reading, Taken
<1> QED BY <1>4, <1>5, <1>6, <1>7

-----------------------------------------------------------------------------
(* Every step keeps the invariant.                                         *)

\* An index moves on by one, around the ring.
LEMMA AfterSlot ==
    ASSUME NEW i \in Slots
    PROVE  /\ After(i) \in Slots
           /\ After(i) = i + 1 \/ (After(i) = i + 1 - Size /\ After(i) = 0)
  BY FifoAssumption DEF After, Slots

\* The counts as numbers.
LEMMA Numbers ==
    ASSUME FifoInv
    PROVE  /\ Rooms \in Nat /\ Writing \in Nat /\ Written \in Nat
           /\ Items \in Nat /\ Reading \in Nat /\ Taken \in Nat
           /\ psem \in Nat /\ csem \in Nat /\ Size \in Nat /\ Size > 0
           /\ psem + csem + Rooms + Writing + Written + Items + Reading + Taken = Size
           /\ pidx \in Nat /\ cidx \in Nat /\ pidx < Size /\ cidx < Size
  BY FifoAssumption, Counted DEF FifoInv, TypeOK, Slots, Conserved

LEMMA PushWaitInv ==
    ASSUME FifoInv, NEW p \in Producers, NEW v \in Values, PushWait(p, v) PROVE FifoInv'
<1> USE FifoAssumption DEF FifoInv
<1>1. ProducerGo(p, "idle", "room") BY DEF PushWait
<1>2. UNCHANGED <<Items, Reading, Taken>> BY DEF PushWait, consVars, prodVars, Items, Reading, Taken
<1>3. TypeOK'
  BY <1>1, <1>2, Numbers, ProducerCounts, AfterSlot DEF PushWait, TypeOK, ProducerGo, consVars, prodVars
<1>4. EndsLocked'
  BY <1>1 DEF PushWait, EndsLocked, TypeOK, ProducerGo, consVars, prodVars
<1>5. Conserved'
  BY <1>1, <1>2, Numbers, ProducerCounts DEF PushWait, Conserved
<1>6. IndicesAgree'
  <2>1. (pidx = cidx + Between \/ pidx = cidx + Between - Size)'
    BY <1>1, <1>2, Numbers, ProducerCounts, AfterSlot DEF PushWait, IndicesAgree, Between, TypeOK
  <2>2. \A q \in Producers : ppc'[q] = "write" => pidx' = After(ploc'[q])
    BY <1>1, <1>4 DEF PushWait, IndicesAgree, EndsLocked, TypeOK, ProducerGo, prodVars
  <2>3. \A q \in Consumers : cpc'[q] = "read" => cidx' = After(cloc'[q])
    BY <1>1, <1>4 DEF PushWait, IndicesAgree, EndsLocked, TypeOK, ProducerGo, consVars
  <2> QED BY <2>1, <2>2, <2>3 DEF IndicesAgree
<1> QED BY <1>3, <1>4, <1>5, <1>6

LEMMA PushClaimInv ==
    ASSUME FifoInv, NEW p \in Producers, PushClaim(p) PROVE FifoInv'
<1> USE FifoAssumption DEF FifoInv
<1>1. ProducerGo(p, "room", "write") BY DEF PushClaim
<1>2. UNCHANGED <<Items, Reading, Taken>> BY DEF PushClaim, consVars, prodVars, Items, Reading, Taken
<1>3. TypeOK'
  BY <1>1, <1>2, Numbers, ProducerCounts, AfterSlot DEF PushClaim, TypeOK, ProducerGo, consVars, prodVars
<1>4. EndsLocked'
  BY <1>1 DEF PushClaim, EndsLocked, TypeOK, ProducerGo, consVars, prodVars
<1>5. Conserved'
  BY <1>1, <1>2, Numbers, ProducerCounts DEF PushClaim, Conserved
<1>6. IndicesAgree'
  <2>1. (pidx = cidx + Between \/ pidx = cidx + Between - Size)'
    BY <1>1, <1>2, Numbers, ProducerCounts, AfterSlot DEF PushClaim, IndicesAgree, Between, TypeOK
  <2>2. \A q \in Producers : ppc'[q] = "write" => pidx' = After(ploc'[q])
    BY <1>1, <1>4 DEF PushClaim, IndicesAgree, EndsLocked, TypeOK, ProducerGo, prodVars
  <2>3. \A q \in Consumers : cpc'[q] = "read" => cidx' = After(cloc'[q])
    BY <1>1, <1>4 DEF PushClaim, IndicesAgree, EndsLocked, TypeOK, ProducerGo, consVars
  <2> QED BY <2>1, <2>2, <2>3 DEF IndicesAgree
<1> QED BY <1>3, <1>4, <1>5, <1>6

LEMMA PushWriteInv ==
    ASSUME FifoInv, NEW p \in Producers, PushWrite(p) PROVE FifoInv'
<1> USE FifoAssumption DEF FifoInv
<1>1. ProducerGo(p, "write", "written") BY DEF PushWrite
<1>2. UNCHANGED <<Items, Reading, Taken>> BY DEF PushWrite, consVars, prodVars, Items, Reading, Taken
<1>3. TypeOK'
  BY <1>1, <1>2, Numbers, ProducerCounts, AfterSlot DEF PushWrite, TypeOK, ProducerGo, consVars, prodVars
<1>4. EndsLocked'
  BY <1>1 DEF PushWrite, EndsLocked, TypeOK, ProducerGo, consVars, prodVars
<1>5. Conserved'
  BY <1>1, <1>2, Numbers, ProducerCounts DEF PushWrite, Conserved
<1>6. IndicesAgree'
  <2>1. (pidx = cidx + Between \/ pidx = cidx + Between - Size)'
    BY <1>1, <1>2, Numbers, ProducerCounts, AfterSlot DEF PushWrite, IndicesAgree, Between, TypeOK
  <2>2. \A q \in Producers : ppc'[q] = "write" => pidx' = After(ploc'[q])
    BY <1>1, <1>4 DEF PushWrite, IndicesAgree, EndsLocked, TypeOK, ProducerGo, prodVars
  <2>3. \A q \in Consumers : cpc'[q] = "read" => cidx' = After(cloc'[q])
    BY <1>1, <1>4 DEF PushWrite, IndicesAgree, EndsLocked, TypeOK, ProducerGo, consVars
  <2> QED BY <2>1, <2>2, <2>3 DEF IndicesAgree
<1> QED BY <1>3, <1>4, <1>5, <1>6

LEMMA PushNotifyInv ==
    ASSUME FifoInv, NEW p \in Producers, PushNotify(p) PROVE FifoInv'
<1> USE FifoAssumption DEF FifoInv
<1>1. ProducerGo(p, "written", "idle") BY DEF PushNotify
<1>2. UNCHANGED <<Items, Reading, Taken>> BY DEF PushNotify, consVars, prodVars, Items, Reading, Taken
<1>3. TypeOK'
  <2>1. csem + 1 \in 0 .. Size
    BY <1>1, Numbers, ProducerCounts
  <2> QED BY <1>1, <2>1 DEF PushNotify, TypeOK, ProducerGo, consVars, prodVars
<1>4. EndsLocked'
  BY <1>1 DEF PushNotify, EndsLocked, TypeOK, ProducerGo, consVars, prodVars
<1>5. Conserved'
  BY <1>1, <1>2, Numbers, ProducerCounts DEF PushNotify, Conserved
<1>6. IndicesAgree'
  <2>1. (pidx = cidx + Between \/ pidx = cidx + Between - Size)'
    BY <1>1, <1>2, Numbers, ProducerCounts, AfterSlot DEF PushNotify, IndicesAgree, Between, TypeOK
  <2>2. \A q \in Producers : ppc'[q] = "write" => pidx' = After(ploc'[q])
    BY <1>1, <1>4 DEF PushNotify, IndicesAgree, EndsLocked, TypeOK, ProducerGo, prodVars
  <2>3. \A q \in Consumers : cpc'[q] = "read" => cidx' = After(cloc'[q])
    BY <1>1, <1>4 DEF PushNotify, IndicesAgree, EndsLocked, TypeOK, ProducerGo, consVars
  <2> QED BY <2>1, <2>2, <2>3 DEF IndicesAgree
<1> QED BY <1>3, <1>4, <1>5, <1>6

LEMMA PopWaitInv ==
    ASSUME FifoInv, NEW c \in Consumers, PopWait(c) PROVE FifoInv'
<1> USE FifoAssumption DEF FifoInv
<1>1. ConsumerGo(c, "idle", "item") BY DEF PopWait
<1>2. UNCHANGED <<Rooms, Writing, Written>> BY DEF PopWait, consVars, prodVars, Rooms, Writing, Written
<1>3. TypeOK'
  BY <1>1, <1>2, Numbers, ConsumerCounts, AfterSlot DEF PopWait, TypeOK, ConsumerGo, consVars, prodVars
<1>4. EndsLocked'
  BY <1>1 DEF PopWait, EndsLocked, TypeOK, ConsumerGo, consVars, prodVars
<1>5. Conserved'
  BY <1>1, <1>2, Numbers, ConsumerCounts DEF PopWait, Conserved
<1>6. IndicesAgree'
  <2>1. (pidx = cidx + Between \/ pidx = cidx + Between - Size)'
    BY <1>1, <1>2, Numbers, ConsumerCounts, AfterSlot DEF PopWait, IndicesAgree, Between, TypeOK
  <2>2. \A q \in Producers : ppc'[q] = "write" => pidx' = After(ploc'[q])
    BY <1>1, <1>4 DEF PopWait, IndicesAgree, EndsLocked, TypeOK, ConsumerGo, prodVars
  <2>3. \A q \in Consumers : cpc'[q] = "read" => cidx' = After(cloc'[q])
    BY <1>1, <1>4 DEF PopWait, IndicesAgree, EndsLocked, TypeOK, ConsumerGo, consVars
  <2> QED BY <2>1, <2>2, <2>3 DEF IndicesAgree
<1> QED BY <1>3, <1>4, <1>5, <1>6

LEMMA PopClaimInv ==
    ASSUME FifoInv, NEW c \in Consumers, PopClaim(c) PROVE FifoInv'
<1> USE FifoAssumption DEF FifoInv
<1>1. ConsumerGo(c, "item", "read") BY DEF PopClaim
<1>2. UNCHANGED <<Rooms, Writing, Written>> BY DEF PopClaim, consVars, prodVars, Rooms, Writing, Written
<1>3. TypeOK'
  BY <1>1, <1>2, Numbers, ConsumerCounts, AfterSlot DEF PopClaim, TypeOK, ConsumerGo, consVars, prodVars
<1>4. EndsLocked'
  BY <1>1 DEF PopClaim, EndsLocked, TypeOK, ConsumerGo, consVars, prodVars
<1>5. Conserved'
  BY <1>1, <1>2, Numbers, ConsumerCounts DEF PopClaim, Conserved
<1>6. IndicesAgree'
  <2>1. (pidx = cidx + Between \/ pidx = cidx + Between - Size)'
    BY <1>1, <1>2, Numbers, ConsumerCounts, AfterSlot DEF PopClaim, IndicesAgree, Between, TypeOK
  <2>2. \A q \in Producers : ppc'[q] = "write" => pidx' = After(ploc'[q])
    BY <1>1, <1>4 DEF PopClaim, IndicesAgree, EndsLocked, TypeOK, ConsumerGo, prodVars
  <2>3. \A q \in Consumers : cpc'[q] = "read" => cidx' = After(cloc'[q])
    BY <1>1, <1>4 DEF PopClaim, IndicesAgree, EndsLocked, TypeOK, ConsumerGo, consVars
  <2> QED BY <2>1, <2>2, <2>3 DEF IndicesAgree
<1> QED BY <1>3, <1>4, <1>5, <1>6

LEMMA PopReadInv ==
    ASSUME FifoInv, NEW c \in Consumers, PopRead(c) PROVE FifoInv'
<1> USE FifoAssumption DEF FifoInv
<1>1. ConsumerGo(c, "read", "taken") BY DEF PopRead
<1>2. UNCHANGED <<Rooms, Writing, Written>> BY DEF PopRead, consVars, prodVars, Rooms, Writing, Written
<1>3. TypeOK'
  BY <1>1, <1>2, Numbers, ConsumerCounts, AfterSlot DEF PopRead, TypeOK, ConsumerGo, consVars, prodVars
<1>4. EndsLocked'
  BY <1>1 DEF PopRead, EndsLocked, TypeOK, ConsumerGo, consVars, prodVars
<1>5. Conserved'
  <2>1. psem' = psem /\ csem' = csem BY DEF PopRead
  <2>2. Items' = Items /\ Reading' = Reading - 1 /\ Taken' = Taken + 1
    BY <1>1, ConsumerCounts
  <2> QED BY <1>2, <2>1, <2>2, Numbers DEF Conserved
<1>6. IndicesAgree'
  <2>1. (pidx = cidx + Between \/ pidx = cidx + Between - Size)'
    BY <1>1, <1>2, Numbers, ConsumerCounts, AfterSlot DEF PopRead, IndicesAgree, Between, TypeOK
  <2>2. \A q \in Producers : ppc'[q] = "write" => pidx' = After(ploc'[q])
    BY <1>1, <1>4 DEF PopRead, IndicesAgree, EndsLocked, TypeOK, ConsumerGo, prodVars
  <2>3. \A q \in Consumers : cpc'[q] = "read" => cidx' = After(cloc'[q])
    BY <1>1, <1>4 DEF PopRead, IndicesAgree, EndsLocked, TypeOK, ConsumerGo, consVars
  <2> QED BY <2>1, <2>2, <2>3 DEF IndicesAgree
<1> QED BY <1>3, <1>4, <1>5, <1>6

LEMMA PopNotifyInv ==
    ASSUME FifoInv, NEW c \in Consumers, PopNotify(c) PROVE FifoInv'
<1> USE FifoAssumption DEF FifoInv
<1>1. ConsumerGo(c, "taken", "idle") BY DEF PopNotify
<1>2. UNCHANGED <<Rooms, Writing, Written>> BY DEF PopNotify, consVars, prodVars, Rooms, Writing, Written
<1>3. TypeOK'
  <2>1. psem + 1 \in 0 .. Size
    BY <1>1, Numbers, ConsumerCounts
  <2> QED BY <1>1, <2>1 DEF PopNotify, TypeOK, ConsumerGo, consVars, prodVars
<1>4. EndsLocked'
  BY <1>1 DEF PopNotify, EndsLocked, TypeOK, ConsumerGo, consVars, prodVars
<1>5. Conserved'
  BY <1>1, <1>2, Numbers, ConsumerCounts DEF PopNotify, Conserved
<1>6. IndicesAgree'
  <2>1. (pidx = cidx + Between \/ pidx = cidx + Between - Size)'
    BY <1>1, <1>2, Numbers, ConsumerCounts, AfterSlot DEF PopNotify, IndicesAgree, Between, TypeOK
  <2>2. \A q \in Producers : ppc'[q] = "write" => pidx' = After(ploc'[q])
    BY <1>1, <1>4 DEF PopNotify, IndicesAgree, EndsLocked, TypeOK, ConsumerGo, prodVars
  <2>3. \A q \in Consumers : cpc'[q] = "read" => cidx' = After(cloc'[q])
    BY <1>1, <1>4 DEF PopNotify, IndicesAgree, EndsLocked, TypeOK, ConsumerGo, consVars
  <2> QED BY <2>1, <2>2, <2>3 DEF IndicesAgree
<1> QED BY <1>3, <1>4, <1>5, <1>6

LEMMA FifoStepInv == FifoInv /\ [Next]_vars => FifoInv'
<1> SUFFICES ASSUME FifoInv, [Next]_vars PROVE FifoInv'
  OBVIOUS
<1>1. ASSUME NEW p \in Producers, ProducerStep(p) PROVE FifoInv'
  BY <1>1, PushWaitInv, PushClaimInv, PushWriteInv, PushNotifyInv DEF ProducerStep, ProducerWork
<1>2. ASSUME NEW c \in Consumers, ConsumerStep(c) PROVE FifoInv'
  BY <1>2, PopWaitInv, PopClaimInv, PopReadInv, PopNotifyInv DEF ConsumerStep
<1>3. CASE UNCHANGED vars
  <2> USE <1>3 DEF vars, prodVars, consVars, FifoInv
  <2>1. TypeOK' BY DEF TypeOK
  <2>2. EndsLocked' BY DEF EndsLocked
  <2>3. Conserved' BY DEF Conserved, Rooms, Writing, Written, Items, Reading, Taken
  <2>4. IndicesAgree' BY DEF IndicesAgree, Between, Writing, Written, Items
  <2> QED BY <2>1, <2>2, <2>3, <2>4
<1> QED BY <1>1, <1>2, <1>3 DEF Next

LEMMA FifoInvExclusive == FifoInv => SlotsExclusive
<1> SUFFICES ASSUME FifoInv PROVE SlotsExclusive
  OBVIOUS
<1>1. TokensConserved BY Tokens DEF FifoInv
<1>2. ASSUME NEW p \in Producers, NEW c \in Consumers, ppc[p] = "write", cpc[c] = "read"
      PROVE  ploc[p] # cloc[c]
  <2>1. Writing = 1 /\ Reading = 1
    BY <1>2, OneCopies, FifoAssumption DEF FifoInv, EndsLocked
  <2>2. Between >= 1 /\ Between < Size /\ Between \in Nat
    BY <2>1, Numbers DEF Between
  <2>3. pidx # cidx
    BY <2>2, Numbers DEF FifoInv, IndicesAgree
  <2>4. pidx = After(ploc[p]) /\ cidx = After(cloc[c])
    BY <1>2 DEF FifoInv, IndicesAgree
  <2> QED BY <2>3, <2>4
<1>3. ASSUME NEW p \in Producers, NEW q \in Producers, p # q, ppc[p] = "write", ppc[q] = "write"
      PROVE  FALSE
  BY <1>3 DEF FifoInv, EndsLocked
<1> QED BY <1>1, <1>2, <1>3 DEF SlotsExclusive

(* The types of the fifo: the semaphores count no further than the ring is  *)
(* long, and the indices stay on it.                                       *)
THEOREM FifoTypes == Spec => []TypeOK
<1>1. FifoInv => TypeOK BY DEF FifoInv
<1> QED BY <1>1, FifoInitInv, FifoStepInv, PTL DEF Spec

(* No slot is written by one thread while another reads or writes it, and   *)
(* no token is lost, whatever the number of threads and slots.             *)
THEOREM ExclusiveSlots == Spec => []SlotsExclusive
  BY FifoInitInv, FifoStepInv, FifoInvExclusive, PTL DEF Spec

-----------------------------------------------------------------------------
(* The ring as a queue.                                                    *)

LEMMA ModSize ==
    ASSUME NEW x \in Nat, x < 2 * Size
    PROVE  x % Size = IF x < Size THEN x ELSE x - Size
<1>1. CASE x < Size BY <1>1, FifoAssumption
<1>2. CASE x >= Size BY <1>2, FifoAssumption
<1> QED BY <1>1, <1>2, FifoAssumption

Queue == [k \in 1 .. Held |-> data[(FirstHeld + k - 1) % Size]]

\* The place of the k-th value of a queue that begins at slot i
LEMMA PlaceOf ==
    ASSUME NEW i \in Slots, NEW k \in 1 .. Size
    PROVE  /\ (i + k - 1) % Size \in Slots
           /\ (i + k - 1) % Size = IF i + k - 1 < Size THEN i + k - 1 ELSE i + k - 1 - Size
<1>1. i + k - 1 \in Nat /\ i + k - 1 < 2 * Size /\ Size \in Nat /\ i \in Nat /\ k \in Nat
  BY FifoAssumption DEF Slots
<1>2. (i + k - 1) % Size = IF i + k - 1 < Size THEN i + k - 1 ELSE i + k - 1 - Size
  BY <1>1, ModSize
<1> QED BY <1>1, <1>2 DEF Slots

\* Two slots that both come first behind the queue are the same.
LEMMA SameSlot ==
    ASSUME NEW v \in Nat, NEW l \in Nat, v < Size, l < Size,
           NEW f \in Int, NEW h \in Int, NEW c \in Int, NEW r \in Int, NEW b, NEW i,
           v = f + h \/ v = f + h - Size,
           f = c - r \/ f = c - r + Size,
           b = h - r + 1,
           i = c + b \/ i = c + b - Size,
           i = l + 1 \/ i = l + 1 - Size
    PROVE  v = l
  BY FifoAssumption

\* The queue holds what has been written and not yet read, and begins where a
\* consumer reads or else will read next.
LEMMA QueueShape ==
    ASSUME FifoInv
    PROVE  /\ Held = csem + Written + Items + Reading
           /\ Held \in 0 .. Size
           /\ FirstHeld \in Slots
           /\ FirstHeld = cidx - Reading \/ FirstHeld = cidx - Reading + Size
           /\ Reading = 0 => FirstHeld = cidx
<1>1. Held = csem + Written + Items + Reading /\ Held \in 0 .. Size
  <2>1. Held = Size - psem - (Rooms + Writing) - Taken
    BY Counted DEF Held, FifoInv, Taken
  <2> QED BY <2>1, Numbers
<1>2. /\ FirstHeld \in Slots
      /\ FirstHeld = cidx - Reading \/ FirstHeld = cidx - Reading + Size
      /\ Reading = 0 => FirstHeld = cidx
  <2>1. CASE \E c \in Consumers : cpc[c] = "read"
    <3>1. Reading = 1
      BY <2>1, OneCopies, FifoAssumption DEF FifoInv, EndsLocked
    <3>2. cidx + Size - 1 \in Nat /\ cidx + Size - 1 < 2 * Size
      BY Numbers
    <3>3. FirstHeld = (cidx + Size - 1) % Size
      BY <2>1 DEF FirstHeld
    <3>4. PICK x \in Nat : x = cidx + Size - 1 BY <3>2
    <3>5. x % Size = IF x < Size THEN x ELSE x - Size BY <3>2, <3>4, ModSize
    <3>6. FirstHeld = x % Size BY <3>3, <3>4
    <3> QED BY <3>1, <3>4, <3>5, <3>6, Numbers DEF Slots
  <2>2. CASE ~ \E c \in Consumers : cpc[c] = "read"
    <3>1. Reading = 0
      <4>1. cmutex = Nobody BY <2>2 DEF FifoInv, EndsLocked, TypeOK
      <4> QED BY <4>1, OneCopies DEF FifoInv
    <3>2. FirstHeld = cidx BY <2>2 DEF FirstHeld
    <3> QED BY <3>1, <3>2, Numbers DEF Slots
  <2> QED BY <2>1, <2>2
<1> QED BY <1>1, <1>2

LEMMA QueueType ==
    ASSUME FifoInv PROVE Queue \in Seq(Values) /\ Len(Queue) = Held
<1>1. Held \in 0 .. Size /\ FirstHeld \in Slots
  BY QueueShape
<1>2. \A k \in 1 .. Held : data[(FirstHeld + k - 1) % Size] \in Values
  <2>1. \A k \in 1 .. Held : k \in 1 .. Size BY <1>1, FifoAssumption
  <2> QED BY <1>1, <2>1, PlaceOf DEF FifoInv, TypeOK
<1>3. Held \in Nat BY <1>1, FifoAssumption
<1> QED BY <1>2, <1>3 DEF Queue

\* A step that moves no value leaves the queue as it is.
LEMMA SameQueue ==
    ASSUME Held' = Held, FirstHeld' = FirstHeld, UNCHANGED data PROVE Queue' = Queue
  BY DEF Queue

LEMMA ProducerKeepsQueue ==
    ASSUME FifoInv, NEW p \in Producers,
           \/ \E v \in Values : PushWait(p, v)
           \/ PushClaim(p) \/ PushNotify(p)
    PROVE  UNCHANGED <<Queue, got>>
<1>1. UNCHANGED <<data, cidx, consVars>> BY DEF PushWait, PushClaim, PushNotify
<1>2. FirstHeld' = FirstHeld BY <1>1 DEF FirstHeld, consVars
<1>3. Held' = Held
  <2>1. At(ppc, {"room", "write"}) \in Nat /\ psem \in Nat
    BY Counted, Numbers DEF FifoInv
  <2>2. At(cpc, {"taken"})' = At(cpc, {"taken"})
    BY <1>1 DEF consVars
  <2>3. CASE \E v \in Values : PushWait(p, v)
    <3>1. At(ppc', {"room", "write"}) = At(ppc, {"room", "write"}) + 1
      BY <2>1, <2>3, ProducerMoves DEF FifoInv, PushWait
    <3>2. psem' = psem - 1 BY <2>3 DEF PushWait
    <3> QED BY <2>1, <2>2, <3>1, <3>2, FifoAssumption, Numbers DEF Held, Taken
  <2>4. CASE PushClaim(p)
    <3>1. At(ppc', {"room", "write"}) = At(ppc, {"room", "write"})
      BY <2>1, <2>4, ProducerMoves DEF FifoInv, PushClaim
    <3>2. psem' = psem BY <2>4 DEF PushClaim
    <3> QED BY <2>2, <3>1, <3>2 DEF Held
  <2>5. CASE PushNotify(p)
    <3>1. At(ppc', {"room", "write"}) = At(ppc, {"room", "write"})
      BY <2>1, <2>5, ProducerMoves DEF FifoInv, PushNotify
    <3>2. psem' = psem BY <2>5 DEF PushNotify
    <3> QED BY <2>2, <3>1, <3>2 DEF Held
  <2> QED BY <2>3, <2>4, <2>5
<1> QED BY <1>1, <1>2, <1>3, SameQueue DEF consVars

\* A consumer that claims a slot goes on where the queue begins.
LEMMA ConsumerKeepsQueue ==
    ASSUME FifoInv, NEW c \in Consumers, PopWait(c) \/ PopClaim(c) \/ PopNotify(c)
    PROVE  UNCHANGED <<Queue, got>>
<1>1. UNCHANGED <<data, got, prodVars>> BY DEF PopWait, PopClaim, PopNotify
<1>2. Held' = Held
  <2>1. At(ppc, {"room", "write"})' = At(ppc, {"room", "write"})
    BY <1>1 DEF prodVars
  <2>2. CASE PopWait(c)
    <3>1. At(cpc', {"taken"}) = At(cpc, {"taken"})
      BY <2>2, ConsumerMoves, Numbers DEF FifoInv, PopWait, Taken
    <3> QED BY <2>1, <2>2, <3>1 DEF Held, PopWait
  <2>3. CASE PopClaim(c)
    <3>1. At(cpc', {"taken"}) = At(cpc, {"taken"})
      BY <2>3, ConsumerMoves, Numbers DEF FifoInv, PopClaim, Taken
    <3> QED BY <2>1, <2>3, <3>1 DEF Held, PopClaim
  <2>4. CASE PopNotify(c)
    <3>1. At(cpc', {"taken"}) = At(cpc, {"taken"}) - 1
      BY <2>4, ConsumerCounts DEF FifoInv, PopNotify, Taken
    <3>2. psem' = psem + 1 BY <2>4 DEF PopNotify
    <3>3. At(ppc, {"room", "write"}) \in Nat
      BY Counted, Numbers DEF FifoInv
    <3> QED BY <2>1, <3>1, <3>2, <3>3, FifoAssumption, Numbers DEF Held, Taken
  <2> QED BY <2>2, <2>3, <2>4
<1>3. FirstHeld' = FirstHeld
  <2>1. CASE PopClaim(c)
    <3>1. Reading = 0 /\ cidx' = After(cidx) /\ cpc'[c] = "read"
      BY <2>1, OneCopies DEF FifoInv, PopClaim, ConsumerGo, TypeOK
    <3>2. FirstHeld' = (cidx' + Size - 1) % Size
      BY <3>1 DEF FirstHeld
    <3>3. (cidx' + Size - 1) % Size = cidx
      <4>1. /\ cidx' \in Nat /\ cidx' + Size - 1 \in Nat /\ cidx' + Size - 1 < 2 * Size
            /\ cidx' = cidx + 1 \/ (cidx' = 0 /\ cidx + 1 = Size)
        BY <3>1, Numbers DEF After
      <4> QED BY <4>1, ModSize, Numbers
    <3> QED BY <3>1, <3>2, <3>3, QueueShape
  <2>2. CASE PopWait(c) \/ PopNotify(c)
    <3>1. cidx' = cidx /\ \A d \in Consumers : cpc'[d] = "read" <=> cpc[d] = "read"
      BY <2>2 DEF PopWait, PopNotify, ConsumerGo, FifoInv, TypeOK
    <3> QED BY <3>1 DEF FirstHeld
  <2> QED BY <2>1, <2>2
<1> QED BY <1>1, <1>2, <1>3, SameQueue

\* A value that is written is put at the end of the queue.
LEMMA WritePuts ==
    ASSUME FifoInv, NEW p \in Producers, PushWrite(p)
    PROVE  Len(Queue) < Size /\ Queue' = Append(Queue, val[p]) /\ got' = got
<1>1. ProducerGo(p, "write", "written") /\ ppc[p] = "write"
  BY DEF PushWrite, ProducerGo
<1>2. Writing = 1
  BY <1>1, OneCopies, FifoAssumption DEF FifoInv, EndsLocked
<1>3. /\ UNCHANGED <<cidx, psem, cpc, got>>
      /\ data' = [data EXCEPT ![ploc[p]] = val[p]]
      /\ ploc[p] \in Slots /\ val[p] \in Values /\ data \in [Slots -> Values]
  BY DEF PushWrite, consVars, FifoInv, TypeOK
<1>4. FirstHeld' = FirstHeld BY <1>3 DEF FirstHeld
<1>5. Held' = Held + 1
  <2>1. At(ppc, {"room", "write"}) = Rooms + Writing
    BY Counted DEF FifoInv
  <2>2. At(ppc', {"room", "write"}) = At(ppc, {"room", "write"}) - 1
    BY <1>1, <2>1, Numbers, ProducerMoves DEF FifoInv
  <2>3. At(cpc, {"taken"})' = At(cpc, {"taken"})
    BY <1>3
  <2> QED BY <1>3, <2>1, <2>2, <2>3, Numbers DEF Held, Taken
<1>6. Held \in Nat /\ Held < Size /\ FirstHeld \in Slots
  BY <1>2, QueueShape, Numbers
<1>7. Queue \in Seq(Values) /\ Len(Queue) = Held
  BY QueueType
\* The slot written is the first one behind the queue.
<1>8. (FirstHeld + (Held + 1) - 1) % Size = ploc[p]
  <2>1. pidx = After(ploc[p])
    BY <1>1 DEF FifoInv, IndicesAgree
  <2>2. ploc[p] \in Nat /\ ploc[p] < Size /\ (pidx = ploc[p] + 1 \/ pidx = ploc[p] + 1 - Size)
    <3>1. ploc[p] \in Slots BY <1>3
    <3> QED BY <2>1, <3>1, AfterSlot, Numbers DEF Slots
  <2>3. pidx = cidx + Between \/ pidx = cidx + Between - Size
    BY DEF FifoInv, IndicesAgree
  <2>4. Between = Held - Reading + 1
    BY <1>2, QueueShape, Numbers DEF Between
  <2>5. Held + 1 \in 1 .. Size BY <1>6, Numbers
  <2>6. (FirstHeld + (Held + 1) - 1) % Size \in Slots
        /\ \/ (FirstHeld + (Held + 1) - 1) % Size = FirstHeld + Held
           \/ (FirstHeld + (Held + 1) - 1) % Size = FirstHeld + Held - Size
    BY <1>6, <2>5, PlaceOf, Numbers DEF Slots
  <2>7. PICK v \in Nat : v = (FirstHeld + (Held + 1) - 1) % Size
    BY <2>6 DEF Slots
  <2>8. v < Size /\ (v = FirstHeld + Held \/ v = FirstHeld + Held - Size)
    BY <2>6, <2>7, <1>6, Numbers DEF Slots
  <2>9. FirstHeld = cidx - Reading \/ FirstHeld = cidx - Reading + Size
    BY QueueShape
  <2>10. cidx \in Int /\ Size \in Int /\ Reading \in Int /\ Held \in Int /\ FirstHeld \in Int
    BY <1>6, Numbers DEF Slots
  <2>11. v = ploc[p]
    BY <2>2, <2>3, <2>4, <2>7, <2>8, <2>9, <2>10, SameSlot
  <2> QED BY <2>7, <2>11
\* No slot of the queue is written.
<1>9. \A k \in 1 .. Held : (FirstHeld + k - 1) % Size # ploc[p]
                           /\ (FirstHeld + k - 1) % Size \in Slots
  <2>1. TAKE k \in 1 .. Held
  <2>2. k \in 1 .. Size /\ Held + 1 \in 1 .. Size /\ k \in Nat BY <1>6, Numbers
  <2>3. /\ (FirstHeld + k - 1) % Size \in Slots
        /\ (FirstHeld + k - 1) % Size =
             IF FirstHeld + k - 1 < Size THEN FirstHeld + k - 1 ELSE FirstHeld + k - 1 - Size
    BY <1>6, <2>2, PlaceOf
  <2>4. (FirstHeld + (Held + 1) - 1) % Size =
             IF FirstHeld + (Held + 1) - 1 < Size THEN FirstHeld + (Held + 1) - 1
             ELSE FirstHeld + (Held + 1) - 1 - Size
    BY <1>6, <2>2, PlaceOf
  <2> QED BY <1>6, <1>8, <2>1, <2>2, <2>3, <2>4, Numbers DEF Slots
<1>10. Queue' = Append(Queue, val[p])
  <2>1. Queue' = [k \in 1 .. Held + 1 |-> data'[(FirstHeld + k - 1) % Size]]
    BY <1>4, <1>5 DEF Queue
  <2>2. \A k \in 1 .. Held + 1 :
           data'[(FirstHeld + k - 1) % Size] = IF k = Held + 1 THEN val[p] ELSE Queue[k]
    <3>1. TAKE k \in 1 .. Held + 1
    <3>2. CASE k = Held + 1 BY <1>3, <1>8, <3>2
    <3>3. CASE k # Held + 1
      <4>1. k \in 1 .. Held BY <1>6, <3>1, <3>3
      <4>2. data'[(FirstHeld + k - 1) % Size] = data[(FirstHeld + k - 1) % Size]
        BY <1>3, <1>9, <4>1
      <4>3. Queue[k] = data[(FirstHeld + k - 1) % Size] BY <4>1 DEF Queue
      <4> QED BY <3>3, <4>2, <4>3
    <3> QED BY <3>2, <3>3
  <2>3. Queue' = [k \in 1 .. Held + 1 |-> IF k = Held + 1 THEN val[p] ELSE Queue[k]]
    BY <2>1, <2>2
  <2>4. Append(Queue, val[p]) = [k \in 1 .. Held + 1 |-> IF k = Held + 1 THEN val[p] ELSE Queue[k]]
    BY <1>3, <1>6, <1>7
  <2> QED BY <2>3, <2>4
<1> QED BY <1>3, <1>6, <1>7, <1>10

\* A value that is read is taken from its head.
LEMMA ReadTakes ==
    ASSUME FifoInv, NEW c \in Consumers, PopRead(c)
    PROVE  /\ Queue # <<>> /\ Queue' = Tail(Queue)
           /\ got' = [got EXCEPT ![c] = Head(Queue)]
<1>1. ConsumerGo(c, "read", "taken") /\ cpc[c] = "read" /\ cmutex = c
  BY DEF PopRead, ConsumerGo, FifoInv, EndsLocked
<1>2. Reading = 1
  BY <1>1, OneCopies, FifoAssumption DEF FifoInv
<1>3. /\ UNCHANGED <<data, cidx, psem, ppc>>
      /\ got' = [got EXCEPT ![c] = data[cloc[c]]]
      /\ cloc[c] \in Slots /\ cidx = After(cloc[c])
  BY <1>1 DEF PopRead, prodVars, FifoInv, TypeOK, IndicesAgree
<1>4. Held \in Nat /\ Held >= 1 /\ Held <= Size /\ FirstHeld \in Slots
  BY <1>2, QueueShape, Numbers
<1>5. Queue \in Seq(Values) /\ Len(Queue) = Held
  BY QueueType
<1>6. Held' = Held - 1
  <2>1. At(cpc', {"taken"}) = At(cpc, {"taken"}) + 1
    BY <1>1, Numbers, ConsumerCounts DEF FifoInv, Taken
  <2>2. At(ppc, {"room", "write"})' = At(ppc, {"room", "write"}) /\ At(ppc, {"room", "write"}) \in Nat
    BY <1>3, Counted, Numbers DEF FifoInv
  <2> QED BY <1>3, <2>1, <2>2, FifoAssumption, Numbers DEF Held, Taken
<1>7. FirstHeld' = cidx
  <2>1. \A d \in Consumers : cpc'[d] # "read"
    BY <1>1 DEF ConsumerGo, FifoInv, EndsLocked, TypeOK
  <2> QED BY <1>3, <2>1 DEF FirstHeld
<1>8. cidx = FirstHeld + 1 \/ (cidx = 0 /\ FirstHeld + 1 = Size)
  BY <1>2, QueueShape, Numbers DEF Slots
<1>9. FirstHeld = cloc[c]
  <2>1. cloc[c] \in Slots /\ cidx = After(cloc[c]) BY <1>3
  <2>2. cloc[c] \in Nat /\ cloc[c] < Size /\ (cidx = cloc[c] + 1 \/ (cidx = 0 /\ cloc[c] + 1 = Size))
    BY <2>1, Numbers DEF Slots, After
  <2> QED BY <1>4, <1>8, <2>2, Numbers DEF Slots
<1>10. got' = [got EXCEPT ![c] = Head(Queue)]
  <2>1. 1 \in 1 .. Held /\ 1 \in 1 .. Size BY <1>4, Numbers
  <2>2. (FirstHeld + 1 - 1) % Size = FirstHeld
    BY <1>4, <2>1, PlaceOf, Numbers DEF Slots
  <2>3. Queue[1] = data[FirstHeld] BY <2>1, <2>2 DEF Queue
  <2>4. Head(Queue) = Queue[1] BY <1>4, <1>5
  <2> QED BY <1>3, <1>9, <2>3, <2>4
<1>11. Queue' = Tail(Queue)
  <2>1. Queue' = [k \in 1 .. Held - 1 |-> data[(cidx + k - 1) % Size]]
    BY <1>3, <1>6, <1>7 DEF Queue
  <2>2. \A k \in 1 .. Held - 1 : data[(cidx + k - 1) % Size] = Queue[k + 1]
    <3>1. TAKE k \in 1 .. Held - 1
    <3>2. k \in 1 .. Size /\ k + 1 \in 1 .. Size /\ k + 1 \in 1 .. Held /\ k \in Nat BY <1>4, <3>1, Numbers
    <3>3. (cidx + k - 1) % Size = IF cidx + k - 1 < Size THEN cidx + k - 1 ELSE cidx + k - 1 - Size
      <4>1. cidx \in Slots BY Numbers DEF Slots
      <4> QED BY <3>2, <4>1, PlaceOf
    <3>4. (FirstHeld + (k + 1) - 1) % Size =
             IF FirstHeld + (k + 1) - 1 < Size THEN FirstHeld + (k + 1) - 1
             ELSE FirstHeld + (k + 1) - 1 - Size
      BY <1>4, <3>2, PlaceOf
    <3>5. (FirstHeld + (k + 1) - 1) % Size = (cidx + k - 1) % Size
      BY <1>4, <1>8, <3>2, <3>3, <3>4, Numbers DEF Slots
    <3>6. Queue[k + 1] = data[(FirstHeld + (k + 1) - 1) % Size]
      BY <3>2 DEF Queue
    <3> QED BY <3>5, <3>6
  <2>3. Tail(Queue) = [k \in 1 .. Held - 1 |-> Queue[k + 1]]
    <3>1. Len(Queue) # 0 BY <1>4, <1>5
    <3>2. Queue # <<>> BY <3>1
    <3>3. /\ Tail(Queue) \in Seq(Values) /\ Len(Tail(Queue)) = Len(Queue) - 1
          /\ \A k \in 1 .. Len(Tail(Queue)) : Tail(Queue)[k] = Queue[k + 1]
      BY <1>5, <3>2, HeadTailProperties
    <3>4. Tail(Queue) \in [1 .. Len(Tail(Queue)) -> Values]
      BY <3>3, LenProperties
    <3>5. Len(Tail(Queue)) = Held - 1 BY <3>3, <1>5
    <3>6. \A k \in 1 .. Held - 1 : Tail(Queue)[k] = Queue[k + 1]
      BY <3>3, <3>5
    <3>7. Tail(Queue) = [k \in 1 .. Held - 1 |-> Tail(Queue)[k]]
      BY <3>4, <3>5
    <3> QED BY <3>6, <3>7
  <2> QED BY <2>1, <2>2, <2>3
<1>12. Queue # <<>> BY <1>4, <1>5
<1> QED BY <1>10, <1>11, <1>12

-----------------------------------------------------------------------------
(* The ring buffer implements the bounded queue.                           *)

LEMMA FirstQueueEmpty == ASSUME Init PROVE Queue = <<>> /\ got \in [Consumers -> Values]
<1>1. Held \in Nat /\ Held = 0
  <2>1. At(ppc, {"room", "write"}) = 0 /\ At(cpc, {"taken"}) = 0
    BY CountNone DEF Init
  <2>2. psem = Size /\ Size \in Nat BY FifoAssumption DEF Init
  <2> QED BY <2>1, <2>2 DEF Held
<1>2. Queue = <<>> BY <1>1 DEF Queue
<1> QED BY <1>2 DEF Init

\* Every step puts one value, takes one, or leaves queue and results alone.
LEMMA StepImplements ==
    ASSUME FifoInv, [Next]_vars
    PROVE  \/ \E v \in Values : Len(Queue) < Size /\ Queue' = Append(Queue, v) /\ got' = got
           \/ \E c \in Consumers : /\ Queue # <<>> /\ Queue' = Tail(Queue)
                                   /\ got' = [got EXCEPT ![c] = Head(Queue)]
           \/ UNCHANGED <<Queue, got>>
<1>1. ASSUME NEW p \in Producers, PushWrite(p)
      PROVE  \E v \in Values : Len(Queue) < Size /\ Queue' = Append(Queue, v) /\ got' = got
  <2>1. val[p] \in Values BY DEF FifoInv, TypeOK
  <2> QED BY <1>1, <2>1, WritePuts
<1>2. ASSUME NEW p \in Producers,
             (\E v \in Values : PushWait(p, v)) \/ PushClaim(p) \/ PushNotify(p)
      PROVE  UNCHANGED <<Queue, got>>
  BY <1>2, ProducerKeepsQueue
<1>3. ASSUME NEW c \in Consumers, PopRead(c)
      PROVE  /\ Queue # <<>> /\ Queue' = Tail(Queue)
             /\ got' = [got EXCEPT ![c] = Head(Queue)]
  BY <1>3, ReadTakes
<1>4. ASSUME NEW c \in Consumers, PopWait(c) \/ PopClaim(c) \/ PopNotify(c)
      PROVE  UNCHANGED <<Queue, got>>
  BY <1>4, ConsumerKeepsQueue
<1>5. CASE UNCHANGED vars
  <2>1. UNCHANGED <<data, cidx, psem, ppc, cpc, got>>
    BY <1>5 DEF vars, prodVars, consVars
  <2>2. Held' = Held /\ FirstHeld' = FirstHeld
    BY <2>1 DEF Held, FirstHeld
  <2> QED BY <2>1, <2>2, SameQueue
<1>6. CASE Next
  BY <1>1, <1>2, <1>3, <1>4, <1>6 DEF Next, ProducerStep, ProducerWork, ConsumerStep
<1> QED BY <1>5, <1>6

LEMMA RingStarts == Init => Fifo!Init
  BY FirstQueueEmpty DEF Fifo!Init, Queue

LEMMA RingSteps == FifoInv /\ [Next]_vars => [Fifo!Next]_(Fifo!vars)
<1> SUFFICES ASSUME FifoInv, [Next]_vars PROVE [Fifo!Next]_(Fifo!vars)
  OBVIOUS
<1>1. CASE \E v \in Values : Len(Queue) < Size /\ Queue' = Append(Queue, v) /\ got' = got
  BY <1>1 DEF Fifo!Next, Fifo!Put, Queue
<1>2. CASE \E c \in Consumers : /\ Queue # <<>> /\ Queue' = Tail(Queue)
                                /\ got' = [got EXCEPT ![c] = Head(Queue)]
  BY <1>2 DEF Fifo!Next, Fifo!Take, Queue
<1>3. CASE UNCHANGED <<Queue, got>>
  BY <1>3 DEF Fifo!vars, Queue
<1> QED BY <1>1, <1>2, <1>3, StepImplements

\* Whatever the number of producers and consumers and the size of the buffer,
\* its users see a queue: values come out in the order in which they went in,
\* once each, and never more than Size are held (cpen333::thread::fifo).
THEOREM RingIsAQueue == Spec => ImplementsQueue
  BY RingStarts, RingSteps, FifoInitInv, FifoStepInv, PTL DEF Spec, ImplementsQueue, Fifo!Spec

-----------------------------------------------------------------------------
(* The fair shared mutex.                                                  *)

LEMMA CountBound ==
    ASSUME NEW S, IsFiniteSet(S), NEW P, NEW f \in [S -> P], NEW points
    PROVE  At(f, points) \in 0 .. Cardinality(S)
<1>1. {x \in DOMAIN f : f[x] \in points} \in SUBSET S
  OBVIOUS
<1> QED BY <1>1, FS_Subset, FS_CardinalityType DEF At

UserPoints == {"out", "queued", "reading", "peeking", "waiting", "writing"}
UserPlaces == UserPoints \X Batches
Readers == At(upc, {"reading"})
Writers == At(upc, {"writing"})
Comers == At(upc, {"waiting", "writing"})

\* Users by what they do and the batch they belong to
Where == [u \in Users |-> <<upc[u], batch[u]>>]

\* How many readers are queued for batch which
Coming(which) == At(Where, {<<"queued", which>>})

\* etotal counts the writers that are in or wait.
WritersCounted == etotal = Comers

\* exclusive counts the writers that are in, and the two counts of readers
\* those who are in or may go in, and those who have to wait.
ReadersCounted ==
    /\ Writers = exclusive
    /\ shared[this_batch] = Readers + Coming(this_batch)
    /\ shared[1 - this_batch] = Coming(1 - this_batch)

WriterAlone == exclusive = 1 => Readers = 0 /\ Coming(this_batch) = 0

\* Readers of the next batch have seen no writer go but the one that is in.
SeldomOvertaken ==
    \A u \in Users :
        IF upc[u] = "queued"
        THEN overtaken[u] =< IF batch[u] = this_batch THEN 1 ELSE exclusive
        ELSE overtaken[u] = 0

SharedInv ==
    /\ SharedTypeOK /\ WritersCounted
    /\ tries > 0 \/ /\ \A u \in Users : upc[u] # "peeking"
                    /\ ReadersCounted /\ WriterAlone /\ SeldomOvertaken

\* CountMove for whatever the users do
LEMMA UsersMove ==
    ASSUME IsFiniteSet(Users), NEW P, NEW now \in [Users -> P], NEW next \in [Users -> P],
           NEW u \in Users, \A x \in Users : x # u => next[x] = now[x]
    PROVE  \A points : At(next, points) = At(now, points)
              + (IF next[u] \in points THEN 1 ELSE 0) - (IF now[u] \in points THEN 1 ELSE 0)
  BY CountMove

\* What a step of one user does to the counts
LEMMA UserCounts ==
    ASSUME SharedTypeOK, NEW u \in Users,
           upc' \in [Users -> UserPoints], batch' \in [Users -> Batches],
           \A x \in Users : x # u => upc'[x] = upc[x] /\ batch'[x] = batch[x]
    PROVE  /\ Readers' = Readers + (IF upc'[u] = "reading" THEN 1 ELSE 0)
                                 - (IF upc[u] = "reading" THEN 1 ELSE 0)
           /\ Writers' = Writers + (IF upc'[u] = "writing" THEN 1 ELSE 0)
                                 - (IF upc[u] = "writing" THEN 1 ELSE 0)
           /\ Comers' = Comers + (IF upc'[u] \in {"waiting", "writing"} THEN 1 ELSE 0)
                               - (IF upc[u] \in {"waiting", "writing"} THEN 1 ELSE 0)
           /\ \A which \in Batches : Coming(which)' = Coming(which)
                 + (IF upc'[u] = "queued" /\ batch'[u] = which THEN 1 ELSE 0)
                 - (IF upc[u] = "queued" /\ batch[u] = which THEN 1 ELSE 0)
<1>1. upc \in [Users -> UserPoints] /\ batch \in [Users -> Batches] /\ IsFiniteSet(Users)
  BY SharedAssumption DEF SharedTypeOK, UserPoints
<1>2. \A points : At(upc', points) = At(upc, points)
          + (IF upc'[u] \in points THEN 1 ELSE 0) - (IF upc[u] \in points THEN 1 ELSE 0)
  BY <1>1, CountMove, SMTT(30)
<1>3. ASSUME NEW which \in Batches
      PROVE  Coming(which)' = Coming(which)
                 + (IF upc'[u] = "queued" /\ batch'[u] = which THEN 1 ELSE 0)
                 - (IF upc[u] = "queued" /\ batch[u] = which THEN 1 ELSE 0)
  <2>1. /\ Where \in [Users -> UserPlaces] /\ Where' \in [Users -> UserPlaces]
        /\ \A x \in Users : x # u => Where'[x] = Where[x]
        /\ Where[u] = <<upc[u], batch[u]>> /\ Where'[u] = <<upc'[u], batch'[u]>>
    BY <1>1 DEF Where, UserPlaces
  <2>2. \A points : At(Where', points) = At(Where, points)
          + (IF Where'[u] \in points THEN 1 ELSE 0) - (IF Where[u] \in points THEN 1 ELSE 0)
    <3> DEFINE now == Where
               next == Where'
    <3>1. /\ IsFiniteSet(Users) /\ now \in [Users -> UserPlaces] /\ next \in [Users -> UserPlaces]
          /\ \A x \in Users : x # u => next[x] = now[x]
      BY <1>1, <2>1
    <3> HIDE DEF now, next
    <3>2. \A points : At(next, points) = At(now, points)
              + (IF next[u] \in points THEN 1 ELSE 0) - (IF now[u] \in points THEN 1 ELSE 0)
      BY <3>1, UsersMove
    <3> QED BY <3>2 DEF now, next
  <2> DEFINE one == {<<"queued", which>>}
  <2>3. Where'[u] \in one <=> upc'[u] = "queued" /\ batch'[u] = which
    BY <2>1
  <2>4. Where[u] \in one <=> upc[u] = "queued" /\ batch[u] = which
    BY <2>1
  <2>5. Coming(which)' = At(Where', one)
    BY DEF Coming
  <2>6. Coming(which) = At(Where, one)
    BY DEF Coming
  <2> HIDE DEF one
  <2> QED BY <2>2, <2>3, <2>4, <2>5, <2>6
<1>4. /\ upc'[u] \in {"reading"} <=> upc'[u] = "reading"
      /\ upc[u] \in {"reading"} <=> upc[u] = "reading"
      /\ upc'[u] \in {"writing"} <=> upc'[u] = "writing"
      /\ upc[u] \in {"writing"} <=> upc[u] = "writing"
  OBVIOUS
<1>5. Readers' = Readers + (IF upc'[u] = "reading" THEN 1 ELSE 0)
                         - (IF upc[u] = "reading" THEN 1 ELSE 0)
  BY <1>2, <1>4 DEF Readers
<1>6. Writers' = Writers + (IF upc'[u] = "writing" THEN 1 ELSE 0)
                         - (IF upc[u] = "writing" THEN 1 ELSE 0)
  BY <1>2, <1>4 DEF Writers
<1>7. Comers' = Comers + (IF upc'[u] \in {"waiting", "writing"} THEN 1 ELSE 0)
                       - (IF upc[u] \in {"waiting", "writing"} THEN 1 ELSE 0)
  BY <1>2 DEF Comers
<1> QED BY <1>3, <1>5, <1>6, <1>7

\* The counts are numbers, and a user that is somewhere is counted there.
LEMMA UserNumbers ==
    ASSUME SharedTypeOK
    PROVE  /\ Readers \in Nat /\ Writers \in Nat /\ Comers \in 0 .. Cardinality(Users)
           /\ Cardinality(Users) \in Nat /\ Writers =< Comers
           /\ \A which \in Batches : Coming(which) \in Nat
           /\ \A u \in Users :
                 /\ upc[u] = "reading" => Readers >= 1
                 /\ upc[u] = "writing" => Writers >= 1
                 /\ upc[u] = "queued" => Coming(batch[u]) >= 1
                 /\ upc[u] \in {"waiting", "writing"} => Comers >= 1
<1>1. upc \in [Users -> UserPoints] /\ batch \in [Users -> Batches] /\ IsFiniteSet(Users)
  BY SharedAssumption DEF SharedTypeOK, UserPoints
<1>2. Where \in [Users -> UserPoints \X Batches]
  BY <1>1 DEF Where
<1>3. Readers \in Nat /\ Writers \in Nat /\ Comers \in Nat
  BY <1>1, CountNat DEF Readers, Writers, Comers
<1>4. \A which \in Batches : Coming(which) \in Nat
  BY <1>1, <1>2, CountNat DEF Coming
<1>5. Comers =< Cardinality(Users) /\ Cardinality(Users) \in Nat
  <2>1. {u \in DOMAIN upc : upc[u] \in {"waiting", "writing"}} \in SUBSET Users
    BY <1>1
  <2> QED BY <1>1, <2>1, FS_Subset, FS_CardinalityType DEF Comers, At
<1>6. ASSUME NEW u \in Users
      PROVE  /\ upc[u] = "reading" => Readers >= 1
             /\ upc[u] = "writing" => Writers >= 1
             /\ upc[u] = "queued" => Coming(batch[u]) >= 1
             /\ upc[u] \in {"waiting", "writing"} => Comers >= 1
  <2>1. \A points : upc[u] \in points => At(upc, points) >= 1
    BY <1>1, CountSome
  <2>2. upc[u] = "reading" => Readers >= 1
    BY <2>1 DEF Readers
  <2>3. upc[u] = "writing" => Writers >= 1
    BY <2>1 DEF Writers
  <2>4. upc[u] \in {"waiting", "writing"} => Comers >= 1
    BY <2>1 DEF Comers
  <2>5. upc[u] = "queued" => Coming(batch[u]) >= 1
    <3>1. Where[u] = <<upc[u], batch[u]>> BY DEF Where
    <3>2. \A points : Where[u] \in points => At(Where, points) >= 1
      BY <1>1, <1>2, CountSome
    <3> QED BY <3>1, <3>2 DEF Coming
  <2> QED BY <2>2, <2>3, <2>4, <2>5
<1>7. Writers =< Comers
  <2>1. Comers = At(upc, {"waiting"}) + Writers
    <3>1. {"waiting"} \cup {"writing"} = {"waiting", "writing"} OBVIOUS
    <3>2. At(upc, {"waiting"} \cup {"writing"}) = At(upc, {"waiting"}) + At(upc, {"writing"})
      BY <1>1, CountUnion
    <3> QED BY <3>1, <3>2 DEF Comers, Writers
  <2>2. At(upc, {"waiting"}) \in Nat BY <1>1, CountNat
  <2> QED BY <1>3, <2>1, <2>2
<1> QED BY <1>3, <1>4, <1>5, <1>6, <1>7

\* Every step moves one user.
LEMMA UserSteps ==
    ASSUME SharedTypeOK, NEW u \in Users, UserWork(u) \/ UserCall(u)
    PROVE  /\ upc' \in [Users -> UserPoints] /\ batch' \in [Users -> Batches]
           /\ \A x \in Users : x # u => upc'[x] = upc[x] /\ batch'[x] = batch[x]
<1> USE DEF SharedTypeOK, UserPoints, UserGo, Unqueue, Batches
<1>1. CASE LockShared(u) \/ TryLockShared(u) \/ Lock(u) \/ WaitExclusive(u)
  BY <1>1 DEF LockShared, TryLockShared, Lock, WaitExclusive
<1>2. CASE QueueShared(u) BY <1>2 DEF QueueShared
<1>3. CASE TestQueued(u) BY <1>3 DEF TestQueued, stateVars
<1>4. CASE GiveUpShared(u) BY <1>4 DEF GiveUpShared
<1>5. CASE UnlockShared(u) \/ Unlock(u) BY <1>5 DEF UnlockShared, Unlock
<1>6. CASE TestWaiting(u) \/ GiveUpExclusive(u) BY <1>6 DEF TestWaiting, GiveUpExclusive
<1> QED BY <1>1, <1>2, <1>3, <1>4, <1>5, <1>6 DEF UserWork, UserCall

\* etotal goes up and down with the writers.
LEMMA WritersStayCounted ==
    ASSUME SharedTypeOK, WritersCounted, NEW u \in Users, UserWork(u) \/ UserCall(u)
    PROVE  WritersCounted' /\ etotal' \in 0 .. Cardinality(Users)
<1>1. Comers' = Comers + (IF upc'[u] \in {"waiting", "writing"} THEN 1 ELSE 0)
                       - (IF upc[u] \in {"waiting", "writing"} THEN 1 ELSE 0)
  BY UserSteps, UserCounts
<1>2. Comers \in Nat /\ etotal = Comers /\ upc \in [Users -> UserPoints]
  BY UserNumbers DEF WritersCounted, SharedTypeOK, UserPoints
<1>3. etotal' = Comers'
  <2>1. CASE LockShared(u) \/ QueueShared(u) \/ TryLockShared(u)
    BY <1>1, <1>2, <2>1 DEF LockShared, QueueShared, TryLockShared, UserGo, stateVars
  <2>2. CASE TestQueued(u) \/ GiveUpShared(u)
    BY <1>1, <1>2, <2>2 DEF TestQueued, GiveUpShared, Unqueue, stateVars
  <2>3. CASE UnlockShared(u)
    BY <1>1, <1>2, <2>3 DEF UnlockShared
  <2>4. CASE Unlock(u)
    BY <1>1, <1>2, <2>4 DEF Unlock, UserGo
  <2>5. CASE Lock(u) \/ WaitExclusive(u)
    BY <1>1, <1>2, <2>5 DEF Lock, WaitExclusive, UserGo
  <2>6. CASE TestWaiting(u)
    BY <1>1, <1>2, <2>6 DEF TestWaiting
  <2>7. CASE GiveUpExclusive(u)
    BY <1>1, <1>2, <2>7 DEF GiveUpExclusive
  <2> QED BY <2>1, <2>2, <2>3, <2>4, <2>5, <2>6, <2>7 DEF UserWork, UserCall
<1>4. Comers' \in 0 .. Cardinality(Users)
  <2>1. upc' \in [Users -> UserPoints] /\ IsFiniteSet(Users)
    BY UserSteps, SharedAssumption
  <2> QED BY <2>1, CountBound DEF Comers
<1> QED BY <1>3, <1>4 DEF WritersCounted

LEMMA SharedTypes ==
    ASSUME SharedTypeOK, WritersCounted, NEW u \in Users, UserWork(u) \/ UserCall(u)
    PROVE  SharedTypeOK'
<1>1. etotal' \in 0 .. Cardinality(Users)
  BY WritersStayCounted
<1>2. upc' \in [Users -> UserPoints] /\ batch' \in [Users -> Batches]
  BY UserSteps
<1> USE <1>1, <1>2, SharedAssumption
    DEF SharedTypeOK, UserPoints, UserGo, Unqueue, Batches, Sleeping, UsersAt, stateVars
<1>3. CASE LockShared(u) BY <1>3 DEF LockShared
<1>4. CASE QueueShared(u) BY <1>4 DEF QueueShared
<1>5. CASE TryLockShared(u) BY <1>5 DEF TryLockShared
<1>6. CASE Lock(u) BY <1>6 DEF Lock, Overtake
<1>7. CASE WaitExclusive(u) BY <1>7 DEF WaitExclusive
<1>8. CASE TestQueued(u) BY <1>8 DEF TestQueued
<1>9. CASE GiveUpShared(u) BY <1>9 DEF GiveUpShared
<1>10. CASE UnlockShared(u) BY <1>10 DEF UnlockShared
<1>11. CASE TestWaiting(u) BY <1>11 DEF TestWaiting, Overtake
<1>12. CASE GiveUpExclusive(u) BY <1>12 DEF GiveUpExclusive, Overtake
<1>13. CASE Unlock(u) BY <1>13 DEF Unlock
<1> QED BY <1>3, <1>4, <1>5, <1>6, <1>7, <1>8, <1>9, <1>10, <1>11, <1>12, <1>13 DEF UserWork, UserCall

\* As long as try_lock_shared() has not let anyone in uncounted, every step
\* keeps the counts true, the writer alone, and the readers in turn.
LEMMA SharedStepInv ==
    ASSUME SharedInv, NEW u \in Users, UserWork(u) \/ UserCall(u)
    PROVE  SharedInv'
<1>1. SharedTypeOK' /\ WritersCounted'
  BY SharedTypes, WritersStayCounted DEF SharedInv
<1> SUFFICES ASSUME ~ tries' > 0
             PROVE  /\ \A x \in Users : upc'[x] # "peeking"
                    /\ ReadersCounted' /\ WriterAlone' /\ SeldomOvertaken'
  BY <1>1 DEF SharedInv
<1>2. tries = 0 /\ tries' = 0
  <2>1. tries \in Nat /\ tries' \in Nat BY <1>1, SharedAssumption DEF SharedInv, SharedTypeOK
  <2>2. tries' = tries \/ tries' = tries + 1
    BY DEF UserWork, UserCall, LockShared, QueueShared, TestQueued, GiveUpShared, TryLockShared,
           UnlockShared, Lock, WaitExclusive, TestWaiting, GiveUpExclusive, Unlock
  <2> QED BY <2>1, <2>2
<1>3. /\ SharedTypeOK /\ WritersCounted /\ \A x \in Users : upc[x] # "peeking"
      /\ ReadersCounted /\ WriterAlone /\ SeldomOvertaken
  BY <1>2 DEF SharedInv
<1>4. /\ Readers' = Readers + (IF upc'[u] = "reading" THEN 1 ELSE 0)
                            - (IF upc[u] = "reading" THEN 1 ELSE 0)
      /\ Writers' = Writers + (IF upc'[u] = "writing" THEN 1 ELSE 0)
                            - (IF upc[u] = "writing" THEN 1 ELSE 0)
      /\ \A which \in Batches : Coming(which)' = Coming(which)
            + (IF upc'[u] = "queued" /\ batch'[u] = which THEN 1 ELSE 0)
            - (IF upc[u] = "queued" /\ batch[u] = which THEN 1 ELSE 0)
  BY <1>3, UserSteps, UserCounts
<1>5. /\ Readers \in Nat /\ Writers \in Nat /\ Coming(0) \in Nat /\ Coming(1) \in Nat
      /\ upc[u] = "reading" => Readers >= 1
      /\ upc[u] = "writing" => Writers >= 1
      /\ upc[u] = "queued" => Coming(batch[u]) >= 1
      /\ upc[u] \in {"waiting", "writing"} => Comers >= 1
      /\ Comers \in Nat /\ Writers =< Comers
  BY <1>3, UserNumbers DEF Batches
\* exclusive, etotal and the batches are numbers.
<1>6. /\ shared \in [Batches -> Int] /\ this_batch \in {0, 1} /\ exclusive \in {0, 1}
      /\ upc \in [Users -> UserPoints] /\ batch \in [Users -> Batches]
      /\ overtaken \in [Users -> 0 .. 2] /\ Batches = {0, 1}
  BY <1>3 DEF SharedTypeOK, UserPoints, Batches
\* A queued reader of this batch keeps writers out, and so does one who reads.
<1>7. NobodyIn => exclusive = 0 /\ Readers = 0 /\ Coming(this_batch) = 0
  <2>1. Coming(this_batch) \in Nat BY <1>5, <1>6
  <2>2. shared[this_batch] = Readers + Coming(this_batch) BY <1>3 DEF ReadersCounted
  <2> QED BY <1>5, <1>6, <2>1, <2>2 DEF NobodyIn
<1>8. \A x \in Users : upc'[x] # "peeking"
  BY <1>2, <1>3, <1>6
     DEF UserWork, UserCall, LockShared, QueueShared, TestQueued, GiveUpShared, TryLockShared,
         UnlockShared, Lock, WaitExclusive, TestWaiting, GiveUpExclusive, Unlock,
         Unqueue, UserGo
<1>9. SeldomOvertaken'
  <2> USE <1>2, <1>3, <1>6 DEF SeldomOvertaken, UserGo, Unqueue, stateVars
  <2>1. CASE LockShared(u) BY <2>1 DEF LockShared
  <2>2. CASE QueueShared(u) BY <2>2 DEF QueueShared
  <2>3. CASE TestQueued(u) BY <2>3 DEF TestQueued
  <2>4. CASE GiveUpShared(u) BY <2>4 DEF GiveUpShared
  <2>5. CASE TryLockShared(u) BY <2>5 DEF TryLockShared
  <2>6. CASE UnlockShared(u) BY <2>6 DEF UnlockShared
  <2>7. ASSUME Overtake, NobodyIn, exclusive' = 1, UNCHANGED <<this_batch, batch>>,
               upc' = [upc EXCEPT ![u] = "writing"], upc[u] # "queued"
        PROVE  SeldomOvertaken'
    <3>1. exclusive = 0 BY <1>7, <2>7
    <3>2. ASSUME NEW x \in Users, upc[x] = "queued", batch[x] # this_batch
          PROVE  overtaken[x] = 0
      BY <3>1, <3>2
    <3>3. \A x \in Users : overtaken'[x] = IF upc[x] = "queued" /\ batch[x] # this_batch /\ overtaken[x] < 2
                                            THEN overtaken[x] + 1 ELSE overtaken[x]
      BY <2>7 DEF Overtake
    <3> QED BY <2>7, <3>1, <3>2, <3>3
  <2>8. CASE Lock(u) BY <2>7, <2>8 DEF Lock
  <2>9. CASE WaitExclusive(u) BY <2>9 DEF WaitExclusive
  <2>10. CASE TestWaiting(u) BY <2>7, <2>10 DEF TestWaiting
  <2>11. CASE GiveUpExclusive(u) BY <2>7, <2>11 DEF GiveUpExclusive
  <2>12. CASE Unlock(u)
    <3>1. Writers >= 1 /\ exclusive = 1 BY <1>5, <2>12 DEF Unlock, ReadersCounted
    <3>2. \A x \in Users : upc[x] = "queued" => batch[x] # this_batch
      BY <3>1, UserNumbers DEF WriterAlone
    <3> QED BY <2>12, <3>1, <3>2 DEF Unlock
  <2> QED BY <2>1, <2>2, <2>3, <2>4, <2>5, <2>6, <2>8, <2>9, <2>10, <2>11, <2>12
          DEF UserWork, UserCall
<1> USE <1>2, <1>3, <1>4, <1>5, <1>6, <1>7
    DEF ReadersCounted, WriterAlone, UserGo, Unqueue, stateVars
<1>10. CASE LockShared(u)
  <2>1. Comers = 0 /\ upc[u] = "out" /\ exclusive = 0
    BY <1>10 DEF LockShared, WritersCounted
  <2>2. ReadersCounted' /\ WriterAlone'
    BY <1>10, <2>1 DEF LockShared
  <2> QED BY <1>8, <1>9, <2>2
<1>11. CASE QueueShared(u)
  <2>1. ReadersCounted' /\ WriterAlone'
    BY <1>11 DEF QueueShared
  <2> QED BY <1>8, <1>9, <2>1
<1>12. CASE TestQueued(u)
  <2>1. ReadersCounted' /\ WriterAlone'
    BY <1>12 DEF TestQueued
  <2> QED BY <1>8, <1>9, <2>1
<1>13. CASE GiveUpShared(u)
  <2>1. ReadersCounted' /\ WriterAlone'
    BY <1>13 DEF GiveUpShared
  <2> QED BY <1>8, <1>9, <2>1
<1>14. CASE TryLockShared(u)
  BY <1>14 DEF TryLockShared
<1>15. CASE UnlockShared(u)
  <2>1. /\ upc[u] = "reading" /\ upc'[u] = "out" /\ UNCHANGED <<this_batch, exclusive, batch>>
        /\ shared' = [shared EXCEPT ![this_batch] = @ - 1]
    BY <1>15 DEF UnlockShared
  <2>2. exclusive = 0 BY <2>1
  <2>3. Readers' = Readers - 1 /\ Writers' = Writers BY <2>1
  <2>4. \A which \in Batches : Coming(which)' = Coming(which) BY <2>1
  <2>5. ReadersCounted'
    <3>1. Writers' = exclusive' BY <2>1, <2>3
    <3>2. shared'[this_batch'] = Readers' + Coming(this_batch)' BY <2>1, <2>3, <2>4
    <3>3. shared'[1 - this_batch'] = Coming(1 - this_batch)' BY <2>1, <2>4
    <3> QED BY <3>1, <3>2, <3>3
  <2>6. WriterAlone' BY <2>1, <2>2
  <2> QED BY <1>8, <1>9, <2>5, <2>6
<1>16. CASE Lock(u)
  <2>1. ReadersCounted' /\ WriterAlone'
    BY <1>16 DEF Lock
  <2> QED BY <1>8, <1>9, <2>1
<1>17. CASE WaitExclusive(u)
  <2>1. ReadersCounted' /\ WriterAlone'
    BY <1>17 DEF WaitExclusive
  <2> QED BY <1>8, <1>9, <2>1
<1>18. CASE TestWaiting(u)
  <2>1. ReadersCounted' /\ WriterAlone'
    BY <1>18 DEF TestWaiting
  <2> QED BY <1>8, <1>9, <2>1
<1>19. CASE GiveUpExclusive(u)
  <2>1. ReadersCounted' /\ WriterAlone'
    BY <1>19 DEF GiveUpExclusive
  <2> QED BY <1>8, <1>9, <2>1
<1>20. CASE Unlock(u)
  <2>1. ReadersCounted' /\ WriterAlone'
    BY <1>20 DEF Unlock
  <2> QED BY <1>8, <1>9, <2>1
<1> QED BY <1>10, <1>11, <1>12, <1>13, <1>14, <1>15, <1>16, <1>17, <1>18, <1>19, <1>20
        DEF UserWork, UserCall

LEMMA SharedInitInv == SharedInit => SharedInv
<1> SUFFICES ASSUME SharedInit PROVE SharedInv
  OBVIOUS
<1>1. Readers = 0 /\ Writers = 0 /\ Comers = 0 /\ \A which \in Batches : Coming(which) = 0
  <2>1. \A u \in Users : upc[u] = "out" /\ DOMAIN upc = Users
    BY DEF SharedInit
  <2>2. Readers = 0 /\ Writers = 0 /\ Comers = 0
    BY CountNone DEF SharedInit, Readers, Writers, Comers
  <2>3. ASSUME NEW which \in Batches PROVE Coming(which) = 0
    <3>1. \A u \in DOMAIN Where : Where[u] \notin {<<"queued", which>>}
      BY <2>1 DEF Where
    <3> QED BY <3>1, CountNone DEF Coming
  <2> QED BY <2>2, <2>3
<1>2. SharedTypeOK
  <2>1. Cardinality(Users) \in Nat BY SharedAssumption, FS_CardinalityType
  <2> QED BY <2>1, SharedAssumption DEF SharedInit, SharedTypeOK, Batches
<1>3. WritersCounted /\ ReadersCounted /\ WriterAlone /\ SeldomOvertaken
  BY <1>1 DEF SharedInit, WritersCounted, ReadersCounted, WriterAlone, SeldomOvertaken, Batches
<1>4. \A u \in Users : upc[u] # "peeking" BY DEF SharedInit
<1> QED BY <1>2, <1>3, <1>4 DEF SharedInv

LEMMA SharedNextInv == SharedInv /\ [SharedNext]_sharedVars => SharedInv'
<1> SUFFICES ASSUME SharedInv, [SharedNext]_sharedVars PROVE SharedInv'
  OBVIOUS
<1>1. CASE SharedNext BY <1>1, SharedStepInv DEF SharedNext
<1>2. CASE UNCHANGED sharedVars
  BY <1>2 DEF sharedVars, stateVars, SharedInv, SharedTypeOK, Sleeping, UsersAt, WritersCounted,
              ReadersCounted, WriterAlone, SeldomOvertaken, Readers, Writers, Comers, Coming, Where
<1> QED BY <1>1, <1>2

LEMMA SharedInvExcludes == SharedInv => SharedTypeOK /\ FairExclusion /\ PassedByOneWriter
<1> SUFFICES ASSUME SharedInv, ~ tries > 0
             PROVE  FairExclusion /\ PassedByOneWriter
  BY DEF SharedInv, FairExclusion, PassedByOneWriter
<1>1. SharedTypeOK /\ ReadersCounted /\ WriterAlone /\ SeldomOvertaken
  BY DEF SharedInv
<1>2. /\ Readers \in Nat /\ Writers \in Nat
      /\ \A which \in Batches : Coming(which) \in Nat
      /\ \A u \in Users : /\ upc[u] = "reading" => Readers >= 1
                          /\ upc[u] = "writing" => Writers >= 1
                          /\ upc[u] = "queued" => Coming(batch[u]) >= 1
  BY <1>1, UserNumbers
<1>3. this_batch \in Batches /\ exclusive \in {0, 1} /\ batch \in [Users -> Batches]
      /\ upc \in [Users -> UserPoints] /\ IsFiniteSet(Users)
  BY <1>1, SharedAssumption DEF SharedTypeOK, UserPoints
<1>4. Cardinality(UsersAt({"writing"})) = exclusive
  <2>1. UsersAt({"writing"}) = {u \in DOMAIN upc : upc[u] \in {"writing"}}
    BY <1>3 DEF UsersAt
  <2> QED BY <1>1, <2>1 DEF ReadersCounted, Writers, At
<1>5. UsersAt({"writing"}) # {} => UsersAt({"reading"}) = {}
  <2> SUFFICES ASSUME NEW w \in Users, upc[w] = "writing", NEW r \in Users, upc[r] = "reading"
               PROVE  FALSE
    BY DEF UsersAt
  <2>1. exclusive = 1 BY <1>1, <1>2, <1>3 DEF ReadersCounted
  <2> QED BY <1>1, <1>2, <2>1 DEF WriterAlone
<1>6. shared[this_batch] = Cardinality(UsersAt({"reading"}) \cup
                              {u \in UsersAt({"queued"}) : batch[u] = this_batch})
  <2> DEFINE reading == {u \in DOMAIN upc : upc[u] \in {"reading"}}
             coming == {u \in DOMAIN Where : Where[u] \in {<<"queued", this_batch>>}}
  <2>1. UsersAt({"reading"}) = reading
    BY <1>3 DEF UsersAt
  <2>2. {u \in UsersAt({"queued"}) : batch[u] = this_batch} = coming
    BY <1>3 DEF UsersAt, Where
  <2>3. reading \cap coming = {}
    BY <1>3 DEF Where
  <2>4. IsFiniteSet(reading) /\ IsFiniteSet(coming)
    <3>1. reading \in SUBSET Users /\ coming \in SUBSET Users
      BY <1>3 DEF Where
    <3> HIDE DEF reading, coming
    <3> QED BY <1>3, <3>1, FS_Subset
  <2>5. Cardinality(reading) = Readers /\ Cardinality(coming) = Coming(this_batch)
    BY DEF Readers, Coming, At
  <2> HIDE DEF reading, coming
  <2>6. Cardinality(reading \cup coming)
           = Cardinality(reading) + Cardinality(coming) - Cardinality(reading \cap coming)
    BY <2>4, FS_Union
  <2>7. Cardinality(reading \cap coming) = 0 BY <2>3, FS_EmptySet
  <2>8. Cardinality(reading \cup coming) = Readers + Coming(this_batch)
    BY <1>2, <1>3, <2>5, <2>6, <2>7
  <2> QED BY <1>1, <2>1, <2>2, <2>8 DEF ReadersCounted
<1>7. this_batch \in {batch[u] : u \in UsersAt({"queued"})} => exclusive = 0
  <2> SUFFICES ASSUME NEW u \in Users, upc[u] = "queued", batch[u] = this_batch
               PROVE  exclusive = 0
    BY DEF UsersAt
  <2>1. Coming(this_batch) >= 1 BY <1>2
  <2> QED BY <1>1, <1>2, <1>3, <2>1 DEF WriterAlone
<1>8. PassedByOneWriter
  <2> SUFFICES ASSUME NEW u \in Users, upc[u] = "queued" PROVE overtaken[u] =< 1
    BY DEF PassedByOneWriter
  <2>1. overtaken[u] \in 0 .. 2 BY <1>1 DEF SharedTypeOK
  <2> QED BY <1>1, <1>3, <2>1 DEF SeldomOvertaken
<1> QED BY <1>4, <1>5, <1>6, <1>7, <1>8 DEF FairExclusion

\* However many threads or processes share it, a writer has the mutex alone,
\* and its counts say who is in and who may go in (shared_mutex_fair), until
\* try_lock_shared() lets a reader in whom it does not count.
THEOREM FairMutex == SharedSpec => [](SharedTypeOK /\ FairExclusion)
  BY SharedInitInv, SharedNextInv, SharedInvExcludes, PTL DEF SharedSpec

\* However many users come and give up, a reader that has queued sees no more
\* than one writer go before it: the batch of the next readers is opened by
\* the writer that is in (shared_mutex_fair, unlock).
THEOREM OneWriterPasses == SharedSpec => []PassedByOneWriter
  BY SharedInitInv, SharedNextInv, SharedInvExcludes, PTL DEF SharedSpec

-----------------------------------------------------------------------------
(* The two rendezvous.                                                     *)

Away == At(mpc, {"away"})

\* Members that are not away have come once more than they have passed.
CallsCounted ==
    \A m \in Members : arrived[m] = passed[m] + IF mpc[m] = "away" THEN 0 ELSE 1

VersionsApart ==
    IF version = "thread"
    THEN permits = 0 /\ countup < GroupSize /\ (countdown > 0 => countup = 0)
    ELSE countup = 0 /\ countdown > 0 /\ \A m \in Members : mpc[m] # "notified"

\* After some number of complete groups, whoever has passed belongs to one of
\* them or to the one that is leaving, and the count tells who is missing.
WholeGroups ==
    \E g \in Nat :
        /\ Total(passed, Members) + permits = GroupSize * g + countup
        /\ Total(arrived, Members) >= GroupSize * g + GroupSize - countdown

\* All that are there have come, and not all have left.
Leaving == IF version = "thread" THEN countdown = 0 ELSE permits > 0

\* Members are of one round: they have all passed equally often while the
\* group gathers, and have all come equally often while it leaves.
OneRound ==
    IF Leaving
    THEN /\ \A m, n \in Members : arrived[m] = arrived[n]
         /\ version = "thread" => Away = countup /\ \A m \in Members : mpc[m] # "asleep"
         /\ version = "process" => Away + permits = GroupSize /\ countdown = GroupSize
    ELSE /\ \A m, n \in Members : passed[m] = passed[n]
         /\ Away = countdown /\ \A m \in Members : mpc[m] # "notified"

MeetInv ==
    /\ MeetTypeOK /\ CallsCounted /\ VersionsApart /\ WholeGroups
    /\ reentered \/ OneRound

MemberPoints == {"away", "asleep", "notified"}

\* The size of the group is a number, and so are the counts.
LEMMA MeetNumbers ==
    ASSUME MeetTypeOK
    PROVE  /\ GroupSize \in Nat \ {0} /\ IsFiniteSet(Members)
           /\ mpc \in [Members -> MemberPoints] /\ Away \in 0 .. GroupSize
           /\ arrived \in [Members -> Nat] /\ passed \in [Members -> Nat]
           /\ Total(arrived, Members) \in Nat /\ Total(passed, Members) \in Nat
           /\ countdown \in 0 .. GroupSize /\ countup \in 0 .. GroupSize /\ permits \in Nat
<1>1. IsFiniteSet(Members) /\ Members # {} BY RendezvousAssumption
<1>2. GroupSize \in Nat \ {0}
  BY <1>1, FS_CardinalityType, FS_EmptySet DEF GroupSize
<1>3. /\ mpc \in [Members -> MemberPoints]
      /\ arrived \in [Members -> Nat] /\ passed \in [Members -> Nat]
  BY RendezvousAssumption DEF MeetTypeOK, MemberPoints
<1>4. Away \in 0 .. GroupSize
  BY <1>1, <1>3, CountBound DEF Away, GroupSize
<1>5. Total(arrived, Members) \in Nat /\ Total(passed, Members) \in Nat
  BY <1>1, <1>3, TotalNat
<1> QED BY <1>1, <1>2, <1>3, <1>4, <1>5 DEF MeetTypeOK

\* One member counts one more.
LEMMA MembersSum ==
    ASSUME NEW f \in [Members -> Nat], NEW m \in Members, NEW g, g = [f EXCEPT ![m] = f[m] + 1]
    PROVE  Total(g, Members) = Total(f, Members) + 1
<1>1. g \in [Members -> Nat] /\ g[m] = f[m] + 1 /\ \A x \in Members : x # m => g[x] = f[x]
  OBVIOUS
<1>2. IsFiniteSet(Members) BY RendezvousAssumption
<1>3. Total(g, Members) = Total(f, Members) - f[m] + g[m]
  BY ONLY <1>1, <1>2, m \in Members, f \in [Members -> Nat], TotalMove
<1>4. Total(f, Members) \in Nat /\ f[m] \in Nat BY <1>2, TotalNat
<1> QED BY <1>1, <1>3, <1>4

\* A member that comes, one that passes
LEMMA Comes ==
    ASSUME MeetTypeOK, NEW m \in Members, Begin(m)
    PROVE  Total(arrived, Members)' = Total(arrived, Members) + 1
<1>1. arrived \in [Members -> Nat] /\ arrived' = [arrived EXCEPT ![m] = arrived[m] + 1]
  BY MeetNumbers DEF Begin
<1> QED BY <1>1, MembersSum

LEMMA Passes ==
    ASSUME MeetTypeOK, NEW m \in Members, Pass(m)
    PROVE  Total(passed, Members)' = Total(passed, Members) + 1
<1>1. passed \in [Members -> Nat] /\ passed' = [passed EXCEPT ![m] = passed[m] + 1]
  BY MeetNumbers DEF Pass
<1> QED BY <1>1, MembersSum

\* CountMove for whatever the members do
LEMMA MembersMove ==
    ASSUME IsFiniteSet(Members), NEW P, NEW now \in [Members -> P], NEW next \in [Members -> P],
           NEW m \in Members, \A x \in Members : x # m => next[x] = now[x]
    PROVE  \A points : At(next, points) = At(now, points)
              + (IF next[m] \in points THEN 1 ELSE 0) - (IF now[m] \in points THEN 1 ELSE 0)
  BY CountMove

\* One member goes to sleep or away.
LEMMA MemberMoves ==
    ASSUME MeetTypeOK, NEW m \in Members, mpc' \in [Members -> MemberPoints],
           \A x \in Members : x # m => mpc'[x] = mpc[x]
    PROVE  Away' = Away + (IF mpc'[m] = "away" THEN 1 ELSE 0) - (IF mpc[m] = "away" THEN 1 ELSE 0)
<1>1. mpc \in [Members -> MemberPoints] /\ IsFiniteSet(Members)
  BY MeetNumbers
<1>2. \A points : At(mpc', points) = At(mpc, points)
          + (IF mpc'[m] \in points THEN 1 ELSE 0) - (IF mpc[m] \in points THEN 1 ELSE 0)
  BY <1>1, MembersMove
<1> QED BY <1>1, <1>2 DEF Away

\* One member is away: all others are asleep or notified.
LEMMA OneAway ==
    ASSUME MeetTypeOK, NEW m \in Members, mpc[m] = "away", Away = 1
    PROVE  \A n \in Members : mpc[n] = "away" => n = m
<1> DEFINE away == {n \in DOMAIN mpc : mpc[n] \in {"away"}}
<1>1. mpc \in [Members -> MemberPoints] /\ IsFiniteSet(Members) BY MeetNumbers
<1>2. IsFiniteSet(away) /\ Cardinality(away) = 1
  <2>1. Cardinality(away) = 1 BY DEF Away, At
  <2>2. away \in SUBSET Members BY <1>1
  <2> QED BY <1>1, <2>1, <2>2, FS_Subset
<1>3. PICK x : away = {x} BY <1>2, FS_Singleton
<1> QED BY <1>1, <1>3

\* As many as there are members: all are away.
LEMMA AllAway ==
    ASSUME MeetTypeOK, mpc' \in [Members -> MemberPoints], Away' = GroupSize
    PROVE  \A n \in Members : mpc'[n] = "away"
<1> DEFINE away == {n \in DOMAIN mpc' : mpc'[n] \in {"away"}}
<1>1. IsFiniteSet(Members) /\ away \in SUBSET Members BY MeetNumbers
<1>2. Cardinality(away) = Cardinality(Members)
  BY DEF Away, At, GroupSize
<1>3. away = Members
  <2> HIDE DEF away
  <2> QED BY <1>1, <1>2, FS_Subset
<1> QED BY <1>3

LEMMA EveryoneAway ==
    ASSUME MeetTypeOK, \A n \in Members : mpc[n] = "away"
    PROVE  Away = GroupSize
<1>1. {n \in DOMAIN mpc : mpc[n] \in {"away"}} = Members
  BY MeetNumbers
<1> QED BY <1>1 DEF Away, At, GroupSize

\* After g groups comes group g + 1.
LEMMA NextGroup ==
    ASSUME NEW n \in Nat, NEW g \in Nat
    PROVE  n * g \in Nat /\ n * (g + 1) = n * g + n
  OBVIOUS

\* The largest multiple of n in a
LEMMA WholeTimes ==
    ASSUME NEW n \in Nat \ {0}, NEW a \in Nat, NEW k \in Nat, n * k =< a
    PROVE  n * k =< n * (a \div n)
<1>1. PICK q \in Nat : q = a \div n
  OBVIOUS
<1>2. a < n * (q + 1)
  BY <1>1
<1>3. CASE k =< q
  <2>1. PICK d \in Nat : q = k + d
    <3>1. q - k \in Nat /\ q = k + (q - k) BY <1>3
    <3> QED BY <3>1
  <2>2. n * q = n * k + n * d /\ n * d \in Nat /\ n * k \in Nat BY <2>1
  <2> QED BY <1>1, <2>2
<1>4. CASE k > q
  <2>1. PICK d \in Nat : k = (q + 1) + d
    <3>1. k - (q + 1) \in Nat /\ k = (q + 1) + (k - (q + 1)) BY <1>4
    <3> QED BY <3>1
  <2>2. n * k = n * (q + 1) + n * d /\ n * d \in Nat /\ n * (q + 1) \in Nat BY <2>1
  <2> QED BY <1>2, <2>2
<1> QED BY <1>3, <1>4

\* The last one to leave sets the counts, and a group is complete.
LEMMA CountsGoOn ==
    ASSUME MeetTypeOK, version = "thread", VersionsApart, countdown' = Reset(0), CountUp
    PROVE  \/ countup' = countup + 1 /\ countdown' = 0 /\ countup' < GroupSize
           \/ countup + 1 = GroupSize /\ countup' = 0 /\ countdown' = GroupSize
  BY MeetNumbers DEF Reset, CountUp, VersionsApart

LEMMA ComesInv ==
    ASSUME MeetInv, NEW m \in Members, ThreadComes(m) \/ ProcessComes(m)
    PROVE  MeetInv'
<1>1. /\ MeetTypeOK /\ CallsCounted /\ VersionsApart /\ WholeGroups
      /\ countdown > 1 /\ countdown' = countdown - 1 /\ mpc[m] = "away" /\ Begin(m)
      /\ mpc' = [mpc EXCEPT ![m] = "asleep"]
      /\ UNCHANGED <<version, countup, permits, passed>>
  BY DEF MeetInv, ThreadComes, ProcessComes, Begin
<1>2. MeetTypeOK'
  <2>1. arrived' \in [Members -> 0 .. MaxRounds]
    BY <1>1, RendezvousAssumption DEF Begin, MeetTypeOK
  <2> QED BY <1>1, <2>1, MeetNumbers DEF MeetTypeOK, Begin
<1>3. CallsCounted'
  BY <1>1, MeetNumbers DEF CallsCounted, Begin, MeetTypeOK
<1>4. VersionsApart'
  BY <1>1, MeetNumbers DEF VersionsApart, MeetTypeOK
<1>5. WholeGroups'
  <2>1. PICK g \in Nat : /\ Total(passed, Members) + permits = GroupSize * g + countup
                         /\ Total(arrived, Members) >= GroupSize * g + GroupSize - countdown
    BY <1>1 DEF WholeGroups
  <2>2. GroupSize * g \in Nat BY <1>1, NextGroup, MeetNumbers
  <2>3. Total(arrived, Members)' = Total(arrived, Members) + 1
    BY <1>1, Comes
  <2>4. Total(passed, Members)' + permits' = GroupSize * g + countup'
    BY <1>1, <2>1
  <2>5. Total(arrived, Members)' >= GroupSize * g + GroupSize - countdown'
    BY <1>1, <2>1, <2>2, <2>3, MeetNumbers
  <2> QED BY <2>4, <2>5 DEF WholeGroups
<1>6. ASSUME ~ reentered' PROVE OneRound'
  <2>1. OneRound /\ \A n \in Members : ~ passed[n] < passed[m]
    BY <1>1, <1>6 DEF MeetInv, Begin
  <2>2. Away' = Away - 1
    <3>1. /\ mpc'[m] = "asleep" /\ mpc[m] = "away" /\ mpc' \in [Members -> MemberPoints]
          /\ \A x \in Members : x # m => mpc'[x] = mpc[x]
      BY <1>1, MeetNumbers DEF MemberPoints
    <3> HIDE <1>1
    <3>2. MeetTypeOK BY DEF MeetInv
    <3> QED BY <3>1, <3>2, MemberMoves, MeetNumbers
  <2>3. ~ Leaving
    <3> SUFFICES ASSUME Leaving PROVE FALSE OBVIOUS
    <3>1. version = "process" /\ permits > 0 /\ Away + permits = GroupSize
          /\ \A x, n \in Members : arrived[x] = arrived[n]
      BY <1>1, <2>1 DEF Leaving, OneRound, MeetTypeOK
    <3>2. PICK n \in Members : mpc[n] # "away"
      <4>1. Away # GroupSize BY <1>1, <3>1, MeetNumbers
      <4> QED BY <1>1, <4>1, EveryoneAway
    <3>3. passed[n] < passed[m]
      BY <1>1, <3>1, <3>2, MeetNumbers DEF CallsCounted
    <3> QED BY <2>1, <3>3
  <2>4. ~ Leaving'
    BY <1>1, <2>3, MeetNumbers DEF Leaving
  <2>5. Away' = countdown' BY <1>1, <2>1, <2>2, <2>3, MeetNumbers DEF OneRound
  <2>6. \A n \in Members : mpc'[n] # "notified"
    BY <1>1, <2>1, <2>3, MeetNumbers DEF OneRound
  <2> QED BY <1>1, <2>1, <2>3, <2>4, <2>5, <2>6 DEF OneRound
<1> QED BY <1>2, <1>3, <1>4, <1>5, <1>6 DEF MeetInv

LEMMA LastThreadInv ==
    ASSUME MeetInv, NEW m \in Members, LastThreadComes(m)
    PROVE  MeetInv'
<1>1. /\ MeetTypeOK /\ CallsCounted /\ VersionsApart /\ WholeGroups
      /\ version = "thread" /\ countdown =< 1 /\ mpc[m] = "away" /\ Begin(m) /\ Pass(m)
      /\ countdown' = Reset(0) /\ CountUp /\ permits = 0
      /\ mpc' = [n \in Members |-> IF mpc[n] = "asleep" THEN "notified" ELSE mpc[n]]
      /\ UNCHANGED <<version, permits>>
  BY DEF MeetInv, LastThreadComes, Begin, VersionsApart
<1>2. \/ countup' = countup + 1 /\ countdown' = 0 /\ countup' < GroupSize
      \/ countup + 1 = GroupSize /\ countup' = 0 /\ countdown' = GroupSize
  BY <1>1, CountsGoOn
<1>3. /\ mpc' \in [Members -> MemberPoints] /\ arrived' \in [Members -> 0 .. MaxRounds]
      /\ passed' \in [Members -> 0 .. MaxRounds]
  <2>1. passed[m] < MaxRounds BY <1>1, MeetNumbers, RendezvousAssumption DEF CallsCounted, Begin
  <2> QED BY <1>1, <2>1, MeetNumbers, RendezvousAssumption DEF Begin, Pass, MeetTypeOK, MemberPoints
<1>4. MeetTypeOK'
  BY <1>1, <1>2, <1>3, MeetNumbers DEF MeetTypeOK, MemberPoints, Begin
<1>5. CallsCounted'
  BY <1>1, MeetNumbers DEF CallsCounted, Begin, Pass, MemberPoints
<1>6. VersionsApart'
  BY <1>1, <1>2, MeetNumbers DEF VersionsApart
<1>7. WholeGroups'
  <2>1. PICK g \in Nat : /\ Total(passed, Members) + permits = GroupSize * g + countup
                         /\ Total(arrived, Members) >= GroupSize * g + GroupSize - countdown
    BY <1>1 DEF WholeGroups
  <2>2. GroupSize * g \in Nat /\ GroupSize * (g + 1) = GroupSize * g + GroupSize
    BY <1>1, NextGroup, MeetNumbers
  <2>3. /\ Total(arrived, Members)' = Total(arrived, Members) + 1
        /\ Total(passed, Members)' = Total(passed, Members) + 1
    BY <1>1, Comes, Passes
  <2>4. CASE countup' = countup + 1 /\ countdown' = 0
    <3>1. /\ Total(passed, Members)' + permits' = GroupSize * g + countup'
          /\ Total(arrived, Members)' >= GroupSize * g + GroupSize - countdown'
      BY <1>1, <2>1, <2>2, <2>3, <2>4, MeetNumbers
    <3> QED BY <3>1 DEF WholeGroups
  <2>5. CASE countup + 1 = GroupSize /\ countup' = 0 /\ countdown' = GroupSize
    <3>1. /\ Total(passed, Members)' + permits' = GroupSize * (g + 1) + countup'
          /\ Total(arrived, Members)' >= GroupSize * (g + 1) + GroupSize - countdown'
      BY <1>1, <2>1, <2>2, <2>3, <2>5, MeetNumbers
    <3>2. g + 1 \in Nat OBVIOUS
    <3> QED BY <3>1, <3>2 DEF WholeGroups
  <2> QED BY <1>2, <2>4, <2>5
<1>8. ASSUME ~ reentered' PROVE OneRound'
  <2>1. OneRound /\ \A n \in Members : ~ passed[n] < passed[m]
    BY <1>1, <1>8 DEF MeetInv, Begin
  <2>2. ~ Leaving
    <3> SUFFICES ASSUME Leaving PROVE FALSE OBVIOUS
    <3>1. Away = countup /\ \A x, n \in Members : arrived[x] = arrived[n]
      BY <1>1, <2>1 DEF Leaving, OneRound
    <3>2. PICK n \in Members : mpc[n] # "away"
      <4>1. Away # GroupSize BY <1>1, <3>1, MeetNumbers DEF VersionsApart
      <4> QED BY <1>1, <4>1, EveryoneAway
    <3>3. passed[n] < passed[m]
      BY <1>1, <3>1, <3>2, MeetNumbers DEF CallsCounted
    <3> QED BY <2>1, <3>3
  <2>3. /\ \A x, n \in Members : passed[x] = passed[n]
        /\ Away = countdown /\ \A n \in Members : mpc[n] # "notified"
        /\ countdown = 1 /\ countup = 0
    BY <1>1, <2>1, <2>2, MeetNumbers DEF OneRound, Leaving, VersionsApart
  <2>4. \A n \in Members : mpc[n] = "away" => n = m
    BY <1>1, <2>3, OneAway
  <2>5. \A n \in Members : mpc'[n] = IF n = m THEN "away" ELSE "notified"
    BY <1>1, <2>3, <2>4, MeetNumbers DEF MemberPoints
  <2>6. Away' = 1
    <3>1. DOMAIN mpc' = Members /\ m \in DOMAIN mpc' BY <1>3
    <3>2. \A n \in DOMAIN mpc' : mpc'[n] \in {"away"} <=> n = m BY <2>5, <3>1
    <3> QED BY <3>1, <3>2, CountOne DEF Away
  <2>7. CASE countup' = 1 /\ countdown' = 0
    <3>1. Leaving' BY <1>1, <2>7 DEF Leaving
    <3>2. \A x, n \in Members : arrived'[x] = arrived'[n]
      BY <1>1, <2>3, <2>4, MeetNumbers DEF CallsCounted, Begin
    <3>3. Away' = countup' /\ \A n \in Members : mpc'[n] # "asleep"
      BY <2>5, <2>6, <2>7
    <3>4. version' = "thread" BY <1>1
    <3> QED BY <3>1, <3>2, <3>3, <3>4 DEF OneRound
  <2>8. CASE GroupSize = 1 /\ countdown' = 1
    <3>1. ~ Leaving' BY <1>1, <2>8 DEF Leaving
    <3>2. \A n \in Members : n = m
      <4>1. IsFiniteSet(Members) /\ Cardinality(Members) = 1 BY <1>1, <2>8, MeetNumbers DEF GroupSize
      <4> QED BY <4>1, FS_Singleton
    <3> QED BY <2>5, <2>6, <2>8, <3>1, <3>2 DEF OneRound
  <2> QED BY <1>2, <2>3, <2>7, <2>8
<1> QED BY <1>4, <1>5, <1>6, <1>7, <1>8 DEF MeetInv

LEMMA ThreadTestsInv ==
    ASSUME MeetInv, NEW m \in Members, ThreadTests(m)
    PROVE  MeetInv'
<1>1. /\ MeetTypeOK /\ CallsCounted /\ VersionsApart /\ WholeGroups
      /\ version = "thread" /\ mpc[m] = "notified" /\ permits = 0
      /\ UNCHANGED <<version, permits, arrived, reentered>>
  BY DEF MeetInv, ThreadTests, VersionsApart, MeetTypeOK
<1>2. CASE countdown # 0
  <2>1. UNCHANGED <<countdown, countup, passed>> /\ mpc' = [mpc EXCEPT ![m] = "asleep"]
    BY <1>2 DEF ThreadTests
  <2>2. MeetTypeOK' BY <1>1, <2>1, MeetNumbers DEF MeetTypeOK
  <2>3. CallsCounted' BY <1>1, <2>1, MeetNumbers DEF CallsCounted
  <2>4. VersionsApart' BY <1>1, <2>1 DEF VersionsApart
  <2>5. WholeGroups' BY <1>1, <2>1 DEF WholeGroups
  <2>6. reentered
    <3> SUFFICES ASSUME ~ reentered PROVE FALSE OBVIOUS
    <3>1. OneRound /\ ~ Leaving BY <1>1, <1>2 DEF MeetInv, Leaving
    <3> QED BY <1>1, <3>1 DEF OneRound
  <2> QED BY <1>1, <2>2, <2>3, <2>4, <2>5, <2>6 DEF MeetInv
<1>3. CASE countdown = 0
  <2>1. mpc' = [mpc EXCEPT ![m] = "away"] /\ countdown' = Reset(0) /\ CountUp /\ Pass(m)
    BY <1>3 DEF ThreadTests
  <2>2. \/ countup' = countup + 1 /\ countdown' = 0 /\ countup' < GroupSize
        \/ countup + 1 = GroupSize /\ countup' = 0 /\ countdown' = GroupSize
    BY <1>1, <2>1, CountsGoOn
  <2>3. mpc' \in [Members -> MemberPoints] /\ passed' \in [Members -> 0 .. MaxRounds]
    <3>1. passed[m] < MaxRounds
      <4>1. arrived[m] = passed[m] + 1 BY <1>1 DEF CallsCounted
      <4>2. arrived[m] \in 0 .. MaxRounds BY <1>1 DEF MeetTypeOK
      <4> QED BY <1>1, <4>1, <4>2, MeetNumbers, RendezvousAssumption
    <3> QED BY <1>1, <2>1, <3>1, MeetNumbers, RendezvousAssumption DEF Pass, MeetTypeOK, MemberPoints
  <2>4. MeetTypeOK'
    BY <1>1, <2>2, <2>3, MeetNumbers DEF MeetTypeOK, MemberPoints
  <2>5. CallsCounted'
    BY <1>1, <2>1, MeetNumbers DEF CallsCounted, Pass
  <2>6. VersionsApart'
    BY <1>1, <2>2, MeetNumbers DEF VersionsApart
  <2>7. WholeGroups'
    <3>1. PICK g \in Nat : /\ Total(passed, Members) + permits = GroupSize * g + countup
                           /\ Total(arrived, Members) >= GroupSize * g + GroupSize - countdown
      BY <1>1 DEF WholeGroups
    <3>2. GroupSize * g \in Nat /\ GroupSize * (g + 1) = GroupSize * g + GroupSize
      BY <1>1, NextGroup, MeetNumbers
    <3>3. /\ Total(arrived, Members)' = Total(arrived, Members)
          /\ Total(passed, Members)' = Total(passed, Members) + 1
      BY <1>1, <2>1, Passes
    <3>4. CASE countup' = countup + 1 /\ countdown' = 0
      <4>1. /\ Total(passed, Members)' + permits' = GroupSize * g + countup'
            /\ Total(arrived, Members)' >= GroupSize * g + GroupSize - countdown'
        BY <1>1, <1>3, <3>1, <3>2, <3>3, <3>4, MeetNumbers
      <4> QED BY <4>1 DEF WholeGroups
    <3>5. CASE countup + 1 = GroupSize /\ countup' = 0 /\ countdown' = GroupSize
      <4>1. /\ Total(passed, Members)' + permits' = GroupSize * (g + 1) + countup'
            /\ Total(arrived, Members)' >= GroupSize * (g + 1) + GroupSize - countdown'
        BY <1>1, <1>3, <3>1, <3>2, <3>3, <3>5, MeetNumbers
      <4>2. g + 1 \in Nat OBVIOUS
      <4> QED BY <4>1, <4>2 DEF WholeGroups
    <3> QED BY <2>2, <3>4, <3>5
  <2>8. ASSUME ~ reentered' PROVE OneRound'
    <3>1. /\ \A x, n \in Members : arrived[x] = arrived[n]
          /\ Away = countup /\ \A n \in Members : mpc[n] # "asleep"
      BY <1>1, <1>3, <2>8 DEF MeetInv, OneRound, Leaving
    <3>2. Away' = Away + 1
      <4>1. /\ mpc'[m] = "away" /\ mpc[m] # "away"
            /\ \A x \in Members : x # m => mpc'[x] = mpc[x]
        BY <1>1, <2>1, MeetNumbers
      <4> QED BY ONLY <1>1, <2>3, <4>1, m \in Members, MemberMoves, MeetNumbers
    <3>3. CASE countup' = countup + 1 /\ countdown' = 0
      <4>1. Leaving' BY <1>1, <3>3 DEF Leaving
      <4>2. \A n \in Members : mpc'[n] # "asleep" BY <2>1, <3>1, <1>1, MeetNumbers
      <4> QED BY <1>1, <3>1, <3>2, <3>3, <4>1, <4>2 DEF OneRound
    <3>4. CASE countup + 1 = GroupSize /\ countup' = 0 /\ countdown' = GroupSize
      <4>1. ~ Leaving' BY <1>1, <3>4, MeetNumbers DEF Leaving
      <4>2. Away' = GroupSize BY <3>1, <3>2, <3>4
      <4>3. \A n \in Members : mpc'[n] = "away" BY <1>1, <2>3, <4>2, AllAway
      <4>4. \A n \in Members : passed'[n] = arrived'[n]
        <5>1. passed' \in [Members -> 0 .. MaxRounds] BY <2>3
        <5> QED BY <2>5, <4>3, <5>1, RendezvousAssumption DEF CallsCounted
      <4> QED BY <1>1, <3>1, <3>4, <4>1, <4>2, <4>3, <4>4 DEF OneRound
    <3> QED BY <2>2, <3>3, <3>4
  <2> QED BY <2>4, <2>5, <2>6, <2>7, <2>8 DEF MeetInv
<1> QED BY <1>2, <1>3

LEMMA LastProcessInv ==
    ASSUME MeetInv, NEW m \in Members, LastProcessComes(m)
    PROVE  MeetInv'
<1>1. /\ MeetTypeOK /\ CallsCounted /\ VersionsApart /\ WholeGroups
      /\ version = "process" /\ countdown = 1 /\ mpc[m] = "away" /\ Begin(m) /\ Pass(m)
      /\ countdown' = GroupSize /\ permits' = permits + GroupSize - 1
      /\ UNCHANGED <<version, countup, mpc>>
  BY DEF MeetInv, LastProcessComes, Begin
<1>2. arrived' \in [Members -> 0 .. MaxRounds] /\ passed' \in [Members -> 0 .. MaxRounds]
  <2>1. passed[m] < MaxRounds BY <1>1, MeetNumbers, RendezvousAssumption DEF CallsCounted, Begin
  <2> QED BY <1>1, <2>1, MeetNumbers, RendezvousAssumption DEF Begin, Pass, MeetTypeOK
<1>3. MeetTypeOK'
  BY <1>1, <1>2, MeetNumbers DEF MeetTypeOK, Begin
<1>4. CallsCounted'
  BY <1>1, MeetNumbers DEF CallsCounted, Begin, Pass
<1>5. VersionsApart'
  BY <1>1, MeetNumbers DEF VersionsApart
<1>6. WholeGroups'
  <2>1. PICK g \in Nat : /\ Total(passed, Members) + permits = GroupSize * g + countup
                         /\ Total(arrived, Members) >= GroupSize * g + GroupSize - countdown
    BY <1>1 DEF WholeGroups
  <2>2. GroupSize * g \in Nat /\ GroupSize * (g + 1) = GroupSize * g + GroupSize
    BY <1>1, NextGroup, MeetNumbers
  <2>3. /\ Total(arrived, Members)' = Total(arrived, Members) + 1
        /\ Total(passed, Members)' = Total(passed, Members) + 1
    BY <1>1, Comes, Passes
  <2>4. /\ Total(passed, Members)' + permits' = GroupSize * (g + 1) + countup'
        /\ Total(arrived, Members)' >= GroupSize * (g + 1) + GroupSize - countdown'
    BY <1>1, <2>1, <2>2, <2>3, MeetNumbers
  <2>5. g + 1 \in Nat OBVIOUS
  <2> QED BY <2>4, <2>5 DEF WholeGroups
<1>7. ASSUME ~ reentered' PROVE OneRound'
  <2>1. OneRound /\ ~ reentered
    BY <1>1, <1>7 DEF MeetInv, Begin
  <2>2. permits = 0 /\ ~ Leaving
    <3> SUFFICES ASSUME permits # 0 PROVE FALSE BY <1>1 DEF Leaving
    <3>1. Leaving BY <1>1, MeetNumbers DEF Leaving
    <3>2. countdown = GroupSize /\ Away + permits = GroupSize BY <1>1, <2>1, <3>1 DEF OneRound
    <3>3. Away >= 1
      <4>1. m \in Members /\ mpc[m] \in {"away"} /\ mpc \in [Members -> MemberPoints] /\ IsFiniteSet(Members)
        BY <1>1, MeetNumbers
      <4> QED BY ONLY <4>1, CountSome DEF Away
    <3> QED BY <1>1, <3>2, <3>3, MeetNumbers
  <2>3. /\ \A x, n \in Members : passed[x] = passed[n] /\ Away = 1
        /\ \A n \in Members : mpc[n] = "away" => n = m
    <3>1. /\ \A x, n \in Members : passed[x] = passed[n]
          /\ Away = 1
      BY <1>1, <2>1, <2>2 DEF OneRound
    <3> QED BY <1>1, <3>1, OneAway
  <2>4. Away' = 1 BY <1>1, <2>3 DEF Away
  <2>5. CASE GroupSize # 1
    <3>1. Leaving' BY <1>1, <2>2, <2>5, MeetNumbers DEF Leaving
    <3>2. \A x, n \in Members : arrived'[x] = arrived'[n]
      BY <1>1, <2>3, MeetNumbers DEF CallsCounted, Begin
    <3>3. Away' + permits' = GroupSize' /\ countdown' = GroupSize'
      BY <1>1, <2>2, <2>4, MeetNumbers DEF GroupSize
    <3> QED BY <1>1, <3>1, <3>2, <3>3 DEF OneRound
  <2>6. CASE GroupSize = 1
    <3>1. ~ Leaving' BY <1>1, <2>2, <2>6, MeetNumbers DEF Leaving
    <3>2. \A n \in Members : n = m
      <4>1. IsFiniteSet(Members) /\ Cardinality(Members) = 1 BY <1>1, <2>6, MeetNumbers DEF GroupSize
      <4> QED BY <4>1, FS_Singleton
    <3> QED BY <1>1, <2>4, <2>6, <3>1, <3>2 DEF OneRound
  <2> QED BY <2>5, <2>6
<1> QED BY <1>3, <1>4, <1>5, <1>6, <1>7 DEF MeetInv

LEMMA ProcessTakesInv ==
    ASSUME MeetInv, NEW m \in Members, ProcessTakes(m)
    PROVE  MeetInv'
<1>1. /\ MeetTypeOK /\ CallsCounted /\ VersionsApart /\ WholeGroups
      /\ version = "process" /\ mpc[m] = "asleep" /\ permits > 0 /\ Pass(m)
      /\ permits' = permits - 1 /\ mpc' = [mpc EXCEPT ![m] = "away"]
      /\ UNCHANGED <<version, countdown, countup, arrived, reentered>>
  BY DEF MeetInv, ProcessTakes
<1>2. mpc' \in [Members -> MemberPoints] /\ passed' \in [Members -> 0 .. MaxRounds]
  <2>1. passed[m] < MaxRounds
    <3>1. arrived[m] = passed[m] + 1 BY <1>1 DEF CallsCounted
    <3>2. arrived[m] \in 0 .. MaxRounds BY <1>1 DEF MeetTypeOK
    <3> QED BY <1>1, <3>1, <3>2, MeetNumbers, RendezvousAssumption
  <2> QED BY <1>1, <2>1, MeetNumbers, RendezvousAssumption DEF Pass, MeetTypeOK, MemberPoints
<1>3. MeetTypeOK'
  BY <1>1, <1>2, MeetNumbers DEF MeetTypeOK, MemberPoints
<1>4. CallsCounted'
  BY <1>1, MeetNumbers DEF CallsCounted, Pass
<1>5. VersionsApart'
  BY <1>1, MeetNumbers DEF VersionsApart
<1>6. WholeGroups'
  <2>1. PICK g \in Nat : /\ Total(passed, Members) + permits = GroupSize * g + countup
                         /\ Total(arrived, Members) >= GroupSize * g + GroupSize - countdown
    BY <1>1 DEF WholeGroups
  <2>2. GroupSize * g \in Nat BY <1>1, NextGroup, MeetNumbers
  <2>3. Total(passed, Members)' = Total(passed, Members) + 1
    BY <1>1, Passes
  <2>4. /\ Total(passed, Members)' + permits' = GroupSize * g + countup'
        /\ Total(arrived, Members)' >= GroupSize * g + GroupSize - countdown'
    BY <1>1, <2>1, <2>2, <2>3, MeetNumbers
  <2> QED BY <2>4 DEF WholeGroups
<1>7. ASSUME ~ reentered' PROVE OneRound'
  <2>1. /\ \A x, n \in Members : arrived[x] = arrived[n]
        /\ Away + permits = GroupSize /\ countdown = GroupSize
    BY <1>1, <1>7 DEF MeetInv, OneRound, Leaving
  <2>2. Away' = Away + 1
    <3>1. /\ mpc'[m] = "away" /\ mpc[m] # "away"
          /\ \A x \in Members : x # m => mpc'[x] = mpc[x]
      BY <1>1, MeetNumbers
    <3> QED BY ONLY <1>1, <1>2, <3>1, m \in Members, MemberMoves, MeetNumbers
  <2>3. CASE permits' > 0
    <3>1. Leaving' BY <1>1, <2>3 DEF Leaving
    <3>2. Away' + permits' = GroupSize' /\ countdown' = GroupSize'
      BY <1>1, <2>1, <2>2, MeetNumbers DEF GroupSize
    <3> QED BY <1>1, <2>1, <3>1, <3>2 DEF OneRound
  <2>4. CASE permits' = 0
    <3>1. ~ Leaving' BY <1>1, <2>4 DEF Leaving
    <3>2. Away' = GroupSize BY <1>1, <2>1, <2>2, <2>4, MeetNumbers
    <3>3. \A n \in Members : mpc'[n] = "away" BY <1>1, <1>2, <3>2, AllAway
    <3>4. \A n \in Members : passed'[n] = arrived'[n]
      BY <1>2, <1>4, <3>3, RendezvousAssumption DEF CallsCounted
    <3> QED BY <1>1, <2>1, <3>1, <3>2, <3>3, <3>4 DEF OneRound
  <2> QED BY <1>1, <2>3, <2>4, MeetNumbers
<1> QED BY <1>3, <1>4, <1>5, <1>6, <1>7 DEF MeetInv

LEMMA MeetInitInv == MeetInit => MeetInv
<1> SUFFICES ASSUME MeetInit PROVE MeetInv
  OBVIOUS
<1>1. GroupSize \in Nat \ {0} /\ IsFiniteSet(Members)
  BY RendezvousAssumption, FS_CardinalityType, FS_EmptySet DEF GroupSize
<1>2. MeetTypeOK
  <2>1. 0 \in 0 .. MaxRounds BY RendezvousAssumption
  <2>2. countdown \in 0 .. GroupSize /\ countup \in 0 .. GroupSize /\ permits \in Nat
    BY <1>1 DEF MeetInit
  <2>3. /\ arrived \in [Members -> 0 .. MaxRounds] /\ passed \in [Members -> 0 .. MaxRounds]
        /\ mpc \in [Members -> {"away", "asleep", "notified"}]
    BY <2>1 DEF MeetInit
  <2> QED BY <2>2, <2>3 DEF MeetInit, MeetTypeOK
<1>3. CallsCounted BY DEF MeetInit, CallsCounted
<1>4. VersionsApart BY <1>1 DEF MeetInit, VersionsApart
<1>5. Total(arrived, Members) = 0 /\ Total(passed, Members) = 0
  BY TotalZero DEF MeetInit
<1>6. WholeGroups
  <2>1. GroupSize * 0 = 0 BY <1>1
  <2>2. /\ Total(passed, Members) + permits = GroupSize * 0 + countup
        /\ Total(arrived, Members) >= GroupSize * 0 + GroupSize - countdown
    BY <1>1, <1>5, <2>1 DEF MeetInit
  <2> QED BY <2>2 DEF WholeGroups
<1>7. OneRound
  <2>1. Away = GroupSize BY <1>2, EveryoneAway DEF MeetInit
  <2>2. ~ Leaving BY <1>1 DEF MeetInit, Leaving
  <2> QED BY <2>1, <2>2 DEF MeetInit, OneRound
<1> QED BY <1>2, <1>3, <1>4, <1>6, <1>7 DEF MeetInv

LEMMA MeetNextInv == MeetInv /\ [MeetNext]_meetVars => MeetInv'
<1> SUFFICES ASSUME MeetInv, [MeetNext]_meetVars PROVE MeetInv'
  OBVIOUS
<1>1. CASE MeetNext
  BY <1>1, ComesInv, LastThreadInv, ThreadTestsInv, LastProcessInv, ProcessTakesInv DEF MeetNext
<1>2. CASE UNCHANGED meetVars
  BY <1>2 DEF meetVars, MeetInv, MeetTypeOK, CallsCounted, VersionsApart, WholeGroups, OneRound,
              Leaving, Away
<1> QED BY <1>1, <1>2

LEMMA MeetInvInGroups == MeetInv => MeetTypeOK /\ PassedInGroups
<1> SUFFICES ASSUME MeetInv PROVE PassedInGroups
  BY DEF MeetInv
<1>1. /\ MeetTypeOK /\ CallsCounted /\ VersionsApart /\ WholeGroups
      /\ reentered \/ OneRound
  BY DEF MeetInv
<1>2. SumFunction(passed) = Total(passed, Members) /\ SumFunction(arrived) = Total(arrived, Members)
  BY <1>1, MeetNumbers, FunctionSum
<1>3. Total(passed, Members) =< GroupSize * (Total(arrived, Members) \div GroupSize)
  <2>1. PICK g \in Nat : /\ Total(passed, Members) + permits = GroupSize * g + countup
                         /\ Total(arrived, Members) >= GroupSize * g + GroupSize - countdown
    BY <1>1 DEF WholeGroups
  <2>2. GroupSize * g \in Nat /\ GroupSize * (g + 1) = GroupSize * g + GroupSize
    BY <1>1, NextGroup, MeetNumbers
  <2>3. PICK k \in Nat : Total(passed, Members) =< GroupSize * k /\ GroupSize * k =< Total(arrived, Members)
    <3>1. CASE countdown = 0
      <4>1. /\ Total(passed, Members) =< GroupSize * (g + 1)
            /\ GroupSize * (g + 1) =< Total(arrived, Members)
        BY <1>1, <2>1, <2>2, <3>1, MeetNumbers DEF VersionsApart
      <4>2. g + 1 \in Nat OBVIOUS
      <4> QED BY <4>1, <4>2
    <3>2. CASE countdown # 0
      <4>1. /\ Total(passed, Members) =< GroupSize * g
            /\ GroupSize * g =< Total(arrived, Members)
        BY <1>1, <2>1, <2>2, <3>2, MeetNumbers DEF VersionsApart
      <4> QED BY <4>1
    <3> QED BY <3>1, <3>2
  <2>4. GroupSize * k =< GroupSize * (Total(arrived, Members) \div GroupSize)
    BY <1>1, <2>3, MeetNumbers, WholeTimes
  <2>5. GroupSize * (Total(arrived, Members) \div GroupSize) \in Int /\ GroupSize * k \in Int
    BY <1>1, MeetNumbers
  <2> QED BY <1>1, <2>3, <2>4, <2>5, MeetNumbers
<1>4. ASSUME ~ reentered, NEW m \in Members, NEW n \in Members PROVE passed[m] =< arrived[n]
  <2>1. OneRound BY <1>1, <1>4
  <2>2. passed[m] =< arrived[m] /\ passed[n] =< arrived[n]
    BY <1>1, MeetNumbers DEF CallsCounted
  <2>3. arrived[m] = arrived[n] \/ passed[m] = passed[n]
    BY <2>1 DEF OneRound
  <2> QED BY <2>2, <2>3
<1> QED BY <1>2, <1>3, <1>4 DEF PassedInGroups

\* However large the group and whoever comes back early, no more calls of
\* wait() return than there are in the groups that are complete; and nobody
\* passes before all have come, unless a member came back before another left
\* (thread::rendezvous, process::rendezvous).
THEOREM PassingInGroups == MeetSpec => [](MeetTypeOK /\ PassedInGroups)
  BY MeetInitInv, MeetNextInv, MeetInvInGroups, PTL DEF MeetSpec


-----------------------------------------------------------------------------
(* The event.                                                              *)

WaiterPoints == {"idle", "gate", "asleep", "awake", "drain", "return"}
Places == WaiterPoints \cup {"woken"}
Place == [t \in Waiters |-> IF wpc[t] = "awake" /\ ~ late[t] THEN "woken" ELSE wpc[t]]
Sleepers == At(wpc, {"asleep", "awake"})
Drainers == At(wpc, {"drain"})
Woken == At(Place, {"woken"})
Posted == Total(signals, Notifiers)
Strays == Total(stray, Waiters)

\* The gate is closed as long as waiters are let through, or the last of them
\* takes the signals off the queue that nobody will come for.
GateClosed == gate + (IF unblock # 0 THEN 1 ELSE 0) + Drainers = 1

\* Nobody is left when the queue is drained, and nobody has gone early from a
\* batch as long as some are still blocked.
BatchEnds ==
    /\ Drainers # 0 => blocked = 0 /\ gone = 0
    /\ unblock # 0 /\ blocked # 0 => gone = 0

\* Locals mean something at their points only, and a notifier that waits for
\* the gate has unblock_lock_, so that what it has seen is still true.
WaiterLocals ==
    \A t \in Waiters : (late[t] => wpc[t] = "awake") /\ (stray[t] # 0 => wpc[t] = "drain")
NotifierLocals ==
    \A n \in Notifiers : (signals[n] # 0 <=> npc[n] = "post") /\ (npc[n] = "close" <=> inner = n)
Seen == inner # Free => unblock = 0 /\ blocked > gone

\* CountersAccount, with the counts that are reasoned about
Accounts ==
    IF unblock # 0
    THEN Sleepers = blocked + unblock /\ tokens + Posted + Woken = unblock + gone
    ELSE Sleepers = blocked - gone /\ tokens + Posted + Woken = Strays

\* While a batch is let through, whoever sleeps was there when it began.
BatchRoused ==
    /\ unblock # 0 => Asleep \subseteq roused
    /\ usurped \/ \A t \in Waiters : wpc[t] = "awake" /\ ~ late[t] => t \in roused

EventInv ==
    /\ EventTypeOK /\ WaiterLocals /\ NotifierLocals /\ Seen
    /\ GateClosed /\ BatchRoused
    /\ usurped \/ (BatchEnds /\ Accounts)

LEMMA EventNumbers ==
    ASSUME EventTypeOK
    PROVE  /\ IsFiniteSet(Waiters) /\ IsFiniteSet(Notifiers)
           /\ wpc \in [Waiters -> WaiterPoints] /\ late \in [Waiters -> BOOLEAN]
           /\ stray \in [Waiters -> Nat] /\ signals \in [Notifiers -> Nat]
           /\ Place \in [Waiters -> Places]
           /\ Sleepers \in Nat /\ Drainers \in Nat /\ Woken \in Nat
           /\ Posted \in Nat /\ Strays \in Nat
           /\ gate \in 0 .. 1 /\ tokens \in Nat
           /\ blocked \in Nat /\ unblock \in Nat /\ gone \in Nat
<1>1. /\ IsFiniteSet(Waiters) /\ IsFiniteSet(Notifiers)
      /\ wpc \in [Waiters -> WaiterPoints] /\ late \in [Waiters -> BOOLEAN]
      /\ stray \in [Waiters -> Nat] /\ signals \in [Notifiers -> Nat]
      /\ gate \in 0 .. 1 /\ tokens \in Nat
      /\ blocked \in Nat /\ unblock \in Nat /\ gone \in Nat
  BY EventAssumption DEF EventTypeOK, WaiterPoints
<1>2. Place \in [Waiters -> Places]
  BY <1>1 DEF Place, Places
<1>3. Sleepers \in Nat /\ Drainers \in Nat
  BY <1>1, CountNat DEF Sleepers, Drainers
<1>4. Woken \in Nat
  BY <1>1, <1>2, CountNat DEF Woken
<1>5. Posted \in Nat /\ Strays \in Nat
  BY <1>1, TotalNat DEF Posted, Strays
<1> QED BY <1>1, <1>2, <1>3, <1>4, <1>5

\* Whoever is somewhere is counted there.
LEMMA WaiterCounted ==
    ASSUME EventTypeOK, NEW t \in Waiters
    PROVE  /\ wpc[t] \in {"asleep", "awake"} => Sleepers >= 1
           /\ wpc[t] = "drain" => Drainers >= 1
           /\ wpc[t] = "awake" /\ ~ late[t] => Woken >= 1
<1>1. /\ IsFiniteSet(Waiters) /\ wpc \in [Waiters -> WaiterPoints]
      /\ Place \in [Waiters -> Places] /\ late \in [Waiters -> BOOLEAN]
  BY EventNumbers
<1>2. \A points : wpc[t] \in points => At(wpc, points) >= 1
  BY <1>1, CountSome
<1>3. \A points : Place[t] \in points => At(Place, points) >= 1
  BY <1>1, CountSome
<1>4. wpc[t] = "awake" /\ ~ late[t] => Place[t] \in {"woken"}
  BY <1>1 DEF Place
<1>5. wpc[t] = "drain" => wpc[t] \in {"drain"} OBVIOUS
<1> QED BY <1>2, <1>3, <1>4, <1>5 DEF Sleepers, Drainers, Woken

\* CountMove for whatever the waiters do
LEMMA WaitersMove ==
    ASSUME IsFiniteSet(Waiters), NEW P, NEW now \in [Waiters -> P], NEW next \in [Waiters -> P],
           NEW t \in Waiters, \A x \in Waiters : x # t => next[x] = now[x]
    PROVE  \A points : At(next, points) = At(now, points)
              + (IF next[t] \in points THEN 1 ELSE 0) - (IF now[t] \in points THEN 1 ELSE 0)
  BY CountMove

\* What a step of one waiter does to the counts
LEMMA WaiterMoves ==
    ASSUME EventTypeOK, NEW t \in Waiters,
           wpc' \in [Waiters -> WaiterPoints], late' \in [Waiters -> BOOLEAN],
           \A x \in Waiters : x # t => wpc'[x] = wpc[x] /\ late'[x] = late[x]
    PROVE  /\ Sleepers' = Sleepers + (IF wpc'[t] \in {"asleep", "awake"} THEN 1 ELSE 0)
                                   - (IF wpc[t] \in {"asleep", "awake"} THEN 1 ELSE 0)
           /\ Drainers' = Drainers + (IF wpc'[t] = "drain" THEN 1 ELSE 0)
                                   - (IF wpc[t] = "drain" THEN 1 ELSE 0)
           /\ Woken' = Woken + (IF wpc'[t] = "awake" /\ ~ late'[t] THEN 1 ELSE 0)
                             - (IF wpc[t] = "awake" /\ ~ late[t] THEN 1 ELSE 0)
<1>1. /\ IsFiniteSet(Waiters) /\ wpc \in [Waiters -> WaiterPoints]
      /\ Place \in [Waiters -> Places] /\ late \in [Waiters -> BOOLEAN]
      /\ wpc' \in [Waiters -> WaiterPoints] /\ \A x \in Waiters : x # t => wpc'[x] = wpc[x]
  BY EventNumbers
<1>2. \A points : At(wpc', points) = At(wpc, points)
          + (IF wpc'[t] \in points THEN 1 ELSE 0) - (IF wpc[t] \in points THEN 1 ELSE 0)
  BY <1>1, WaitersMove
<1>3. /\ Place' \in [Waiters -> Places] /\ \A x \in Waiters : x # t => Place'[x] = Place[x]
      /\ Place'[t] \in {"woken"} <=> wpc'[t] = "awake" /\ ~ late'[t]
      /\ Place[t] \in {"woken"} <=> wpc[t] = "awake" /\ ~ late[t]
  BY <1>1 DEF Place, Places, WaiterPoints
<1>4. \A points : At(Place', points) = At(Place, points)
          + (IF Place'[t] \in points THEN 1 ELSE 0) - (IF Place[t] \in points THEN 1 ELSE 0)
  BY <1>1, <1>3, WaitersMove, ZenonT(60)
<1>8. /\ wpc'[t] \in {"drain"} <=> wpc'[t] = "drain"
      /\ wpc[t] \in {"drain"} <=> wpc[t] = "drain"
  OBVIOUS
<1>9. Woken' = Woken + (IF wpc'[t] = "awake" /\ ~ late'[t] THEN 1 ELSE 0)
                     - (IF wpc[t] = "awake" /\ ~ late[t] THEN 1 ELSE 0)
  BY <1>3, <1>4 DEF Woken
<1>10. Drainers' = Drainers + (IF wpc'[t] = "drain" THEN 1 ELSE 0)
                            - (IF wpc[t] = "drain" THEN 1 ELSE 0)
  BY <1>2, <1>8 DEF Drainers
<1>11. Sleepers' = Sleepers + (IF wpc'[t] \in {"asleep", "awake"} THEN 1 ELSE 0)
                            - (IF wpc[t] \in {"asleep", "awake"} THEN 1 ELSE 0)
  BY <1>2 DEF Sleepers
<1> QED BY <1>9, <1>10, <1>11

\* What it, or a notifier, does to the sums
LEMMA StraysMove ==
    ASSUME EventTypeOK, NEW t \in Waiters, stray' \in [Waiters -> Nat],
           \A x \in Waiters : x # t => stray'[x] = stray[x]
    PROVE  Strays' = Strays - stray[t] + stray'[t]
<1>1. IsFiniteSet(Waiters) /\ stray \in [Waiters -> Nat] BY EventNumbers
<1>2. Total(stray', Waiters) = Total(stray, Waiters) - stray[t] + stray'[t]
  BY <1>1, TotalMove
<1> QED BY <1>2 DEF Strays

LEMMA PostedMove ==
    ASSUME EventTypeOK, NEW n \in Notifiers, signals' \in [Notifiers -> Nat],
           \A x \in Notifiers : x # n => signals'[x] = signals[x]
    PROVE  Posted' = Posted - signals[n] + signals'[n]
<1>1. IsFiniteSet(Notifiers) /\ signals \in [Notifiers -> Nat] BY EventNumbers
<1>2. Total(signals', Notifiers) = Total(signals, Notifiers) - signals[n] + signals'[n]
  BY <1>1, TotalMove
<1> QED BY <1>2 DEF Posted

\* Signals are left for the last of a batch only.
LEMMA NobodyDrains ==
    ASSUME EventTypeOK, WaiterLocals, Drainers = 0
    PROVE  Strays = 0
<1>1. \A t \in Waiters : wpc[t] # "drain" BY WaiterCounted
<1>2. \A t \in Waiters : stray[t] = 0 BY <1>1, EventNumbers DEF WaiterLocals
<1> QED BY <1>2, TotalZero DEF Strays

\* As long as somebody sleeps, a signal is there only while a batch is let through.
LEMMA SignalInBatch ==
    ASSUME EventInv, ~ usurped, NEW t \in Waiters, wpc[t] \in {"asleep", "awake"}
    PROVE  Drainers = 0 /\ (unblock = 0 => tokens = 0 /\ Posted = 0 /\ Woken = 0)
<1>1. EventTypeOK /\ WaiterLocals /\ BatchEnds /\ Accounts /\ GateClosed BY DEF EventInv
<1>2. Sleepers >= 1 BY <1>1, WaiterCounted
<1>3. Drainers = 0
  BY <1>1, <1>2, EventNumbers DEF Accounts, BatchEnds, GateClosed
<1>4. Strays = 0 BY <1>1, <1>3, NobodyDrains
<1> QED BY <1>1, <1>3, <1>4, EventNumbers DEF Accounts

-----------------------------------------------------------------------------
(* The steps of the event, one by one.                                     *)

LEMMA BlockInv ==
    ASSUME EventInv, NEW t \in Waiters, Block(t)
    PROVE  EventInv'
<1>1. /\ EventTypeOK /\ WaiterLocals /\ NotifierLocals /\ Seen /\ GateClosed /\ BatchRoused
      /\ wpc[t] = "gate" /\ gate = 1 /\ wpc' = [wpc EXCEPT ![t] = "asleep"]
      /\ blocked' = blocked + 1 /\ outer' \in BOOLEAN
      /\ UNCHANGED <<gate, tokens, inner, unblock, gone, late, stray, npc, all, signals,
                     due, roused, usurped>>
  BY DEF EventInv, Block, WaiterGo, notifierVars
<1>2. EventTypeOK'
  BY <1>1, EventNumbers DEF EventTypeOK
<1>3. Sleepers' = Sleepers + 1 /\ Drainers' = Drainers /\ Woken' = Woken
  <2>1. /\ wpc' \in [Waiters -> WaiterPoints] /\ late' \in [Waiters -> BOOLEAN]
        /\ wpc'[t] = "asleep" /\ \A x \in Waiters : x # t => wpc'[x] = wpc[x] /\ late'[x] = late[x]
    BY <1>1, EventNumbers DEF WaiterPoints
  <2> QED BY ONLY <1>1, <2>1, WaiterMoves, EventNumbers, t \in Waiters
<1>4. Posted' = Posted /\ Strays' = Strays BY <1>1 DEF Posted, Strays
<1>5. unblock = 0 /\ Drainers = 0 BY <1>1, EventNumbers DEF GateClosed
<1>6. WaiterLocals' BY <1>1, EventNumbers DEF WaiterLocals
<1>7. NotifierLocals' BY <1>1 DEF NotifierLocals
<1>8. Seen' BY <1>1, EventNumbers DEF Seen
<1>9. GateClosed' BY <1>1, <1>3 DEF GateClosed
<1>10. BatchRoused' BY <1>1, <1>5, EventNumbers DEF BatchRoused
<1>11. usurped' \/ (BatchEnds' /\ Accounts')
  BY <1>1, <1>3, <1>4, <1>5, EventNumbers DEF EventInv, BatchEnds, Accounts
<1> QED BY <1>2, <1>6, <1>7, <1>8, <1>9, <1>10, <1>11 DEF EventInv

LEMMA TakeSignalInv ==
    ASSUME EventInv, NEW t \in Waiters, TakeSignal(t)
    PROVE  EventInv'
<1>1. /\ EventTypeOK /\ WaiterLocals /\ NotifierLocals /\ Seen /\ GateClosed /\ BatchRoused
      /\ wpc[t] = "asleep" /\ wpc' = [wpc EXCEPT ![t] = "awake"]
      /\ tokens > 0 /\ tokens' = tokens - 1
      /\ UNCHANGED <<gate, inner, blocked, unblock, gone, outer, late, stray, npc, all, signals,
                     due, roused, usurped>>
  BY DEF EventInv, TakeSignal, WaiterGo, notifierVars
<1>2. EventTypeOK'
  BY <1>1, EventNumbers DEF EventTypeOK
<1>3. ~ late[t] BY <1>1 DEF WaiterLocals
<1>4. Sleepers' = Sleepers /\ Drainers' = Drainers /\ Woken' = Woken + 1
  <2>1. /\ wpc' \in [Waiters -> WaiterPoints] /\ late' \in [Waiters -> BOOLEAN]
        /\ wpc'[t] = "awake" /\ \A x \in Waiters : x # t => wpc'[x] = wpc[x] /\ late'[x] = late[x]
        /\ ~ late'[t]
    BY <1>1, <1>3, EventNumbers DEF WaiterPoints
  <2> QED BY ONLY <1>1, <2>1, WaiterMoves, EventNumbers, t \in Waiters
<1>5. Posted' = Posted /\ Strays' = Strays BY <1>1 DEF Posted, Strays
<1>6. WaiterLocals' BY <1>1, EventNumbers DEF WaiterLocals
<1>7. NotifierLocals' BY <1>1 DEF NotifierLocals
<1>8. Seen' BY <1>1 DEF Seen
<1>9. GateClosed' BY <1>1, <1>4 DEF GateClosed
<1>10. BatchRoused'
  <2>1. usurped \/ t \in roused
    <3>1. usurped \/ unblock # 0 BY <1>1, SignalInBatch, EventNumbers
    <3>2. t \in Asleep BY <1>1 DEF Asleep
    <3> QED BY <1>1, <3>1, <3>2 DEF BatchRoused
  <2>2. Asleep' = Asleep BY <1>1, EventNumbers DEF Asleep
  <2> QED BY <1>1, <2>1, <2>2, EventNumbers DEF BatchRoused
<1>11. usurped' \/ (BatchEnds' /\ Accounts')
  BY <1>1, <1>4, <1>5, EventNumbers DEF EventInv, BatchEnds, Accounts
<1> QED BY <1>2, <1>6, <1>7, <1>8, <1>9, <1>10, <1>11 DEF EventInv

LEMMA TimeOutInv ==
    ASSUME EventInv, NEW t \in Waiters, TimeOut(t)
    PROVE  EventInv'
<1>1. /\ EventTypeOK /\ WaiterLocals /\ NotifierLocals /\ Seen /\ GateClosed /\ BatchRoused
      /\ wpc[t] = "asleep" /\ wpc' = [wpc EXCEPT ![t] = "awake"]
      /\ late' = [late EXCEPT ![t] = TRUE]
      /\ UNCHANGED <<gate, tokens, inner, blocked, unblock, gone, outer, stray, npc, all, signals,
                     due, roused, usurped>>
  BY DEF EventInv, TimeOut, WaiterGo, notifierVars, counterVars
<1>2. EventTypeOK'
  BY <1>1, EventNumbers DEF EventTypeOK
<1>4. Sleepers' = Sleepers /\ Drainers' = Drainers /\ Woken' = Woken
  <2>1. /\ wpc' \in [Waiters -> WaiterPoints] /\ late' \in [Waiters -> BOOLEAN]
        /\ wpc[t] = "asleep" /\ wpc'[t] = "awake" /\ late'[t] /\ EventTypeOK
        /\ \A x \in Waiters : x # t => wpc'[x] = wpc[x] /\ late'[x] = late[x]
    BY <1>1, EventNumbers DEF WaiterPoints
  <2> QED BY ONLY <2>1, WaiterMoves, EventNumbers, t \in Waiters
<1>5. Posted' = Posted /\ Strays' = Strays BY <1>1 DEF Posted, Strays
<1>6. WaiterLocals' BY <1>1, EventNumbers DEF WaiterLocals
<1>7. NotifierLocals' BY <1>1 DEF NotifierLocals
<1>8. Seen' BY <1>1 DEF Seen
<1>9. GateClosed' BY <1>1, <1>4 DEF GateClosed
<1>10. BatchRoused'
  <2>1. Asleep' = Asleep BY <1>1, EventNumbers DEF Asleep
  <2> QED BY <1>1, <2>1, EventNumbers DEF BatchRoused
<1>11. usurped' \/ (BatchEnds' /\ Accounts')
  BY <1>1, <1>4, <1>5, EventNumbers DEF EventInv, BatchEnds, Accounts
<1> QED BY <1>2, <1>6, <1>7, <1>8, <1>9, <1>10, <1>11 DEF EventInv

LEMMA DrainInv ==
    ASSUME EventInv, NEW t \in Waiters, Drain(t)
    PROVE  EventInv'
<1>1. /\ EventTypeOK /\ WaiterLocals /\ NotifierLocals /\ Seen /\ GateClosed /\ BatchRoused
      /\ wpc[t] = "drain" /\ stray[t] > 0 /\ stray' = [stray EXCEPT ![t] = stray[t] - 1]
      /\ tokens > 0 /\ tokens' = tokens - 1
      /\ UNCHANGED <<gate, inner, blocked, unblock, gone, outer, wpc, late, npc, all, signals,
                     due, roused, usurped>>
  BY DEF EventInv, Drain, notifierVars
<1>2. stray' \in [Waiters -> Nat] /\ stray'[t] = stray[t] - 1 /\ stray[t] \in Nat
      /\ \A x \in Waiters : x # t => stray'[x] = stray[x]
  BY <1>1, EventNumbers
<1>3. EventTypeOK'
  BY <1>1, <1>2, EventNumbers DEF EventTypeOK
<1>4. Strays' = Strays - 1
  <2>1. Strays' = Strays - stray[t] + stray'[t]
    BY ONLY <1>1, <1>2, StraysMove, t \in Waiters
  <2> QED BY <1>1, <1>2, <2>1, EventNumbers
<1>5. UNCHANGED <<Sleepers, Drainers, Woken, Posted, Asleep>>
  BY <1>1 DEF Sleepers, Drainers, Woken, Place, Posted, Asleep
<1>6. WaiterLocals' BY <1>1, <1>2, EventNumbers DEF WaiterLocals
<1>7. NotifierLocals' BY <1>1 DEF NotifierLocals
<1>8. Seen' BY <1>1 DEF Seen
<1>9. GateClosed' BY <1>1, <1>5 DEF GateClosed
<1>10. BatchRoused' BY <1>1, <1>5 DEF BatchRoused
<1>11. Drainers >= 1 BY <1>1, WaiterCounted
<1>12. usurped' \/ (BatchEnds' /\ Accounts')
  BY <1>1, <1>4, <1>5, <1>11, EventNumbers DEF EventInv, BatchEnds, Accounts, GateClosed
<1> QED BY <1>3, <1>6, <1>7, <1>8, <1>9, <1>10, <1>12 DEF EventInv

LEMMA OpenGateInv ==
    ASSUME EventInv, NEW t \in Waiters, OpenGate(t)
    PROVE  EventInv'
<1>1. /\ EventTypeOK /\ WaiterLocals /\ NotifierLocals /\ Seen /\ GateClosed /\ BatchRoused
      /\ wpc[t] = "drain" /\ stray[t] = 0 /\ wpc' = [wpc EXCEPT ![t] = "return"]
      /\ gate' = gate + 1
      /\ UNCHANGED <<tokens, inner, blocked, unblock, gone, outer, late, stray, npc, all, signals,
                     due, roused, usurped>>
  BY DEF EventInv, OpenGate, WaiterGo, notifierVars
<1>2. Drainers >= 1 BY <1>1, WaiterCounted
<1>3. gate = 0 /\ Drainers = 1 /\ unblock = 0 BY <1>1, <1>2, EventNumbers DEF GateClosed
<1>4. EventTypeOK'
  BY <1>1, <1>3, EventNumbers DEF EventTypeOK
<1>5. Sleepers' = Sleepers /\ Drainers' = Drainers - 1 /\ Woken' = Woken
  <2>1. /\ wpc' \in [Waiters -> WaiterPoints] /\ late' \in [Waiters -> BOOLEAN]
        /\ wpc'[t] = "return" /\ \A x \in Waiters : x # t => wpc'[x] = wpc[x] /\ late'[x] = late[x]
    BY <1>1, EventNumbers DEF WaiterPoints
  <2> QED BY ONLY <1>1, <2>1, WaiterMoves, EventNumbers, t \in Waiters
<1>6. Posted' = Posted /\ Strays' = Strays BY <1>1 DEF Posted, Strays
<1>7. WaiterLocals' BY <1>1, EventNumbers DEF WaiterLocals
<1>8. NotifierLocals' BY <1>1 DEF NotifierLocals
<1>9. Seen' BY <1>1 DEF Seen
<1>10. GateClosed' BY <1>1, <1>3, <1>5 DEF GateClosed
<1>11. BatchRoused' BY <1>1, <1>3, EventNumbers DEF BatchRoused
<1>12. usurped' \/ (BatchEnds' /\ Accounts')
  BY <1>1, <1>3, <1>5, <1>6, EventNumbers DEF EventInv, BatchEnds, Accounts
<1> QED BY <1>4, <1>7, <1>8, <1>9, <1>10, <1>11, <1>12 DEF EventInv

\* Coming to the gate, and returning
LEMMA OutsideInv ==
    ASSUME EventInv, NEW t \in Waiters, BeginWait(t) \/ Return(t)
    PROVE  EventInv'
<1>1. /\ EventTypeOK /\ WaiterLocals /\ NotifierLocals /\ Seen /\ GateClosed /\ BatchRoused
      /\ outer' \in BOOLEAN
      /\ \/ wpc[t] = "idle" /\ wpc' = [wpc EXCEPT ![t] = "gate"]
         \/ wpc[t] = "return" /\ wpc' = [wpc EXCEPT ![t] = "idle"]
      /\ UNCHANGED <<gate, tokens, inner, blocked, unblock, gone, late, stray, npc, all, signals,
                     due, roused, usurped>>
  BY DEF EventInv, BeginWait, Return, WaiterGo, notifierVars, counterVars, EventTypeOK
<1>2. EventTypeOK'
  BY <1>1, EventNumbers DEF EventTypeOK
<1>3. Sleepers' = Sleepers /\ Drainers' = Drainers /\ Woken' = Woken
  <2>1. /\ wpc' \in [Waiters -> WaiterPoints] /\ late' \in [Waiters -> BOOLEAN]
        /\ wpc[t] \in {"idle", "return"} /\ wpc'[t] \in {"idle", "gate"} /\ EventTypeOK
        /\ \A x \in Waiters : x # t => wpc'[x] = wpc[x] /\ late'[x] = late[x]
    BY <1>1, EventNumbers DEF WaiterPoints
  <2> QED BY ONLY <2>1, WaiterMoves, EventNumbers, t \in Waiters
<1>4. Posted' = Posted /\ Strays' = Strays BY <1>1 DEF Posted, Strays
<1>5. WaiterLocals' BY <1>1, EventNumbers DEF WaiterLocals
<1>6. NotifierLocals' BY <1>1 DEF NotifierLocals
<1>7. Seen' BY <1>1 DEF Seen
<1>8. GateClosed' BY <1>1, <1>3 DEF GateClosed
<1>9. BatchRoused'
  <2>1. Asleep' = Asleep BY <1>1, EventNumbers DEF Asleep
  <2> QED BY <1>1, <2>1, EventNumbers DEF BatchRoused
<1>10. usurped' \/ (BatchEnds' /\ Accounts')
  BY <1>1, <1>3, <1>4, EventNumbers DEF EventInv, BatchEnds, Accounts
<1> QED BY <1>2, <1>5, <1>6, <1>7, <1>8, <1>9, <1>10 DEF EventInv

\* Whoever leaves is counted out, by one of five ways through the counters.
LEMMA LeaveInv ==
    ASSUME EventInv, NEW t \in Waiters, Leave(t)
    PROVE  EventInv'
<1> DEFINE usurps == unblock # 0 /\ late[t] /\ blocked # 0
           left == IF unblock = 0 \/ (late[t] /\ blocked = 0) THEN gone + 1 ELSE gone
           last == unblock = 1 /\ blocked' = 0
<1>1. /\ EventTypeOK /\ WaiterLocals /\ NotifierLocals /\ Seen /\ GateClosed /\ BatchRoused
      /\ wpc[t] = "awake" /\ inner = Free
      /\ wpc' = [wpc EXCEPT ![t] = IF last THEN "drain" ELSE "return"]
      /\ late' = [late EXCEPT ![t] = FALSE]
      /\ stray' = [stray EXCEPT ![t] = IF last THEN left ELSE 0]
      /\ due' = due \ {t} /\ roused' = roused \ {t}
      /\ UNCHANGED <<tokens, inner, outer, npc, all, signals>>
  BY DEF EventInv, Leave, CountOut, notifierVars
<1>2. /\ blocked' = IF usurps THEN blocked - 1 ELSE blocked
      /\ unblock' = IF unblock # 0 THEN unblock - 1 ELSE 0
      /\ usurped' = (usurped \/ usurps)
      /\ gone' = IF last THEN 0 ELSE left
      /\ gate' = IF unblock = 1 /\ blocked' # 0 THEN 1 ELSE gate
  BY DEF Leave, CountOut
<1>3. /\ gate \in 0 .. 1 /\ tokens \in Nat /\ blocked \in Nat /\ unblock \in Nat /\ gone \in Nat
      /\ Sleepers \in Nat /\ Drainers \in Nat /\ Woken \in Nat /\ Posted \in Nat /\ Strays \in Nat
      /\ stray[t] = 0
  BY <1>1, EventNumbers DEF WaiterLocals
<1>4. blocked' \in Nat /\ unblock' \in Nat /\ gone' \in Nat /\ left \in Nat /\ gate' \in 0 .. 1
  BY <1>2, <1>3
<1> HIDE DEF usurps, left, last
<1>5. /\ wpc' \in [Waiters -> WaiterPoints] /\ late' \in [Waiters -> BOOLEAN]
      /\ stray' \in [Waiters -> Nat]
      /\ \A x \in Waiters : x # t => wpc'[x] = wpc[x] /\ late'[x] = late[x] /\ stray'[x] = stray[x]
      /\ wpc'[t] = (IF last THEN "drain" ELSE "return") /\ ~ late'[t]
      /\ stray'[t] = (IF last THEN left ELSE 0)
  BY <1>1, <1>4, EventNumbers DEF WaiterPoints
<1>6. EventTypeOK'
  <2>1. usurped' \in BOOLEAN BY <1>1, <1>2 DEF EventTypeOK, usurps
  <2>2. due' \subseteq Waiters /\ roused' \subseteq Waiters BY <1>1 DEF EventTypeOK
  <2>3. tokens' \in Nat /\ outer' \in BOOLEAN /\ inner' \in Notifiers \cup {Free}
    BY <1>1 DEF EventTypeOK
  <2>4. /\ npc' \in [Notifiers -> {"idle", "close", "post"}]
        /\ all' \in [Notifiers -> BOOLEAN] /\ signals' \in [Notifiers -> Nat]
    BY <1>1 DEF EventTypeOK
  <2> QED BY <1>4, <1>5, <2>1, <2>2, <2>3, <2>4 DEF EventTypeOK, WaiterPoints
<1>7. /\ Sleepers' = Sleepers - 1 /\ Drainers' = Drainers + (IF last THEN 1 ELSE 0)
      /\ Woken' = Woken - (IF late[t] THEN 0 ELSE 1)
  <2>1. wpc[t] = "awake" /\ EventTypeOK BY <1>1
  <2> QED BY ONLY <1>3, <1>5, <2>1, WaiterMoves, t \in Waiters
<1>8. Strays' = Strays + (IF last THEN left ELSE 0) /\ Posted' = Posted
  <2>1. EventTypeOK BY <1>1
  <2>2. Strays' = Strays - stray[t] + stray'[t]
    BY ONLY <1>5, <2>1, StraysMove, t \in Waiters
  <2>3. Posted' = Posted BY <1>1 DEF Posted
  <2> QED BY <1>3, <1>4, <1>5, <2>2, <2>3
<1>9. Sleepers >= 1 /\ (~ late[t] => Woken >= 1) /\ (unblock # 0 => Drainers = 0)
  <2>1. Sleepers >= 1 /\ (~ late[t] => Woken >= 1) BY <1>1, WaiterCounted
  <2> QED BY <1>1, <1>3, <2>1 DEF GateClosed
<1>10. GateClosed'
  BY <1>1, <1>2, <1>3, <1>4, <1>7, <1>9 DEF GateClosed, last
<1>11. WaiterLocals' BY <1>1, <1>5, EventNumbers DEF WaiterLocals
<1>12. NotifierLocals' BY <1>1 DEF NotifierLocals
<1>13. Seen' BY <1>1 DEF Seen
<1>14. BatchRoused'
  <2>1. Asleep' \subseteq Asleep \ {t}
    BY <1>5 DEF Asleep
  <2>2. unblock' # 0 => unblock # 0 BY <1>2, <1>3
  <2>3. unblock' # 0 => Asleep' \subseteq roused'
    BY <1>1, <2>1, <2>2 DEF BatchRoused
  <2>4. ASSUME ~ usurped', NEW x \in Waiters, wpc'[x] = "awake", ~ late'[x] PROVE x \in roused'
    <3>1. x # t BY <1>5, <2>4
    <3>2. x \in roused BY <1>1, <1>2, <1>5, <2>4, <3>1 DEF BatchRoused
    <3> QED BY <1>1, <3>1, <3>2
  <2> QED BY <2>3, <2>4 DEF BatchRoused
<1>15. ASSUME ~ usurped' PROVE BatchEnds' /\ Accounts'
  <2>1. ~ usurped /\ ~ usurps /\ BatchEnds /\ Accounts BY <1>2, <1>15 DEF EventInv
  <2>2. Drainers = 0 /\ (unblock = 0 => tokens = 0 /\ Posted = 0 /\ Woken = 0)
    BY <1>1, <2>1, SignalInBatch
  <2>3. Strays = 0 BY <1>1, <2>2, NobodyDrains
  <2>4. unblock = 0 => late[t] BY <1>3, <1>9, <2>2
  <2>5. blocked' = blocked /\ tokens' = tokens BY <1>1, <1>2, <2>1
  <2>6. CASE unblock = 0
    BY <1>2, <1>3, <1>4, <1>7, <1>8, <2>1, <2>2, <2>3, <2>4, <2>5, <2>6
       DEF BatchEnds, Accounts, left, last
  <2>7. CASE unblock # 0 /\ last
    BY <1>2, <1>3, <1>4, <1>7, <1>8, <2>1, <2>2, <2>3, <2>5, <2>7
       DEF BatchEnds, Accounts, left, last
  <2>8. CASE unblock # 0 /\ ~ last
    BY <1>2, <1>3, <1>4, <1>7, <1>8, <2>1, <2>2, <2>3, <2>5, <2>8
       DEF BatchEnds, Accounts, left, last, usurps
  <2> QED BY <2>6, <2>7, <2>8
<1> QED BY <1>6, <1>10, <1>11, <1>12, <1>13, <1>14, <1>15 DEF EventInv

\* Whoever is released goes from blocked to unblock, with a signal for each.
LEMMA Releases ==
    ASSUME EventTypeOK, NEW n \in Notifiers, NEW broadcast \in BOOLEAN, NEW waiting \in Nat,
           waiting # 0, Release(n, broadcast, waiting), signals[n] = 0
    PROVE  \E count \in 1 .. waiting :
              /\ blocked' = waiting - count /\ unblock' = unblock + count
              /\ signals' \in [Notifiers -> Nat] /\ signals'[n] = count
              /\ \A x \in Notifiers : x # n => signals'[x] = signals[x]
              /\ Posted' = Posted + count
              /\ due' \subseteq Waiters /\ roused' \subseteq Waiters
              /\ Asleep \subseteq roused' /\ roused \subseteq roused'
<1> DEFINE count == IF broadcast THEN waiting ELSE 1
<1>1. count \in 1 .. waiting OBVIOUS
<1>2. /\ blocked' = waiting - count /\ unblock' = unblock + count
      /\ signals' = [signals EXCEPT ![n] = count]
      /\ due' = IF broadcast THEN due \cup Asleep ELSE due
      /\ roused' = roused \cup Asleep
  BY DEF Release
<1> HIDE DEF count
<1>3. /\ signals' \in [Notifiers -> Nat] /\ signals'[n] = count /\ signals[n] = 0
      /\ \A x \in Notifiers : x # n => signals'[x] = signals[x]
  BY <1>1, <1>2, EventNumbers
<1>4. Posted' = Posted + count
  <2>1. Posted' = Posted - signals[n] + signals'[n]
    BY ONLY <1>3, PostedMove, EventTypeOK, n \in Notifiers
  <2> QED BY <1>1, <1>3, <2>1, EventNumbers
<1>5. Asleep \subseteq Waiters /\ due \subseteq Waiters /\ roused \subseteq Waiters
  BY DEF Asleep, EventTypeOK
<1>6. due' \subseteq Waiters /\ roused' \subseteq Waiters BY <1>2, <1>5
<1> QED BY <1>1, <1>2, <1>3, <1>4, <1>6

LEMMA NotifyNobodyInv ==
    ASSUME EventInv, NEW n \in Notifiers, NEW broadcast \in BOOLEAN, NotifyNobody(n, broadcast)
    PROVE  EventInv'
<1>1. /\ EventTypeOK /\ WaiterLocals /\ NotifierLocals /\ Seen /\ GateClosed /\ BatchRoused
      /\ due' \subseteq Waiters /\ roused' = roused \cup Asleep
      /\ UNCHANGED <<gate, tokens, inner, blocked, unblock, gone, outer, wpc, late, stray,
                     npc, all, signals, usurped>>
  BY DEF EventInv, NotifyNobody, notifierVars, counterVars, waiterVars, EventTypeOK, Asleep
<1>2. EventTypeOK' BY <1>1 DEF EventTypeOK, Asleep
<1>3. UNCHANGED <<Sleepers, Drainers, Woken, Posted, Strays, Asleep>>
  BY <1>1 DEF Sleepers, Drainers, Woken, Place, Posted, Strays, Asleep
<1>4. WaiterLocals' /\ NotifierLocals' /\ Seen'
  BY <1>1 DEF WaiterLocals, NotifierLocals, Seen
<1>5. GateClosed' BY <1>1, <1>3 DEF GateClosed
<1>6. BatchRoused' BY <1>1, <1>3 DEF BatchRoused
<1>7. usurped' \/ (BatchEnds' /\ Accounts')
  BY <1>1, <1>3 DEF EventInv, BatchEnds, Accounts
<1> QED BY <1>2, <1>4, <1>5, <1>6, <1>7 DEF EventInv

LEMMA NotifyMoreInv ==
    ASSUME EventInv, NEW n \in Notifiers, NEW broadcast \in BOOLEAN, NotifyMore(n, broadcast)
    PROVE  EventInv'
<1>1. /\ EventTypeOK /\ WaiterLocals /\ NotifierLocals /\ Seen /\ GateClosed /\ BatchRoused
      /\ npc[n] = "idle" /\ npc' = [npc EXCEPT ![n] = "post"] /\ inner = Free
      /\ unblock # 0 /\ blocked # 0 /\ blocked \in Nat /\ Release(n, broadcast, blocked)
      /\ all' = [all EXCEPT ![n] = broadcast] /\ signals[n] = 0
      /\ UNCHANGED <<gate, tokens, inner, gone, outer, wpc, late, stray, usurped>>
  BY DEF EventInv, NotifyMore, NotifierGo, waiterVars, NotifierLocals, EventTypeOK
<1>2. PICK count \in 1 .. blocked :
          /\ blocked' = blocked - count /\ unblock' = unblock + count
          /\ signals' \in [Notifiers -> Nat] /\ signals'[n] = count
          /\ \A x \in Notifiers : x # n => signals'[x] = signals[x]
          /\ Posted' = Posted + count
          /\ due' \subseteq Waiters /\ roused' \subseteq Waiters
          /\ Asleep \subseteq roused' /\ roused \subseteq roused'
  BY <1>1, Releases
<1>3. blocked' \in Nat /\ unblock' \in Nat /\ unblock' # 0 BY <1>1, <1>2, EventNumbers
<1>4. EventTypeOK' BY <1>1, <1>2, <1>3 DEF EventTypeOK
<1>5. UNCHANGED <<Sleepers, Drainers, Woken, Strays, Asleep>>
  BY <1>1 DEF Sleepers, Drainers, Woken, Place, Strays, Asleep
<1>6. WaiterLocals' BY <1>1 DEF WaiterLocals
<1>7. NotifierLocals'
  <2>1. npc \in [Notifiers -> {"idle", "close", "post"}] BY <1>1 DEF EventTypeOK
  <2> QED BY <1>1, <1>2, <2>1 DEF NotifierLocals
<1>8. Seen' BY <1>1 DEF Seen
<1>9. GateClosed' BY <1>1, <1>3, <1>5 DEF GateClosed
<1>10. BatchRoused' BY <1>1, <1>2, <1>5 DEF BatchRoused
<1>11. usurped' \/ (BatchEnds' /\ Accounts')
  BY <1>1, <1>2, <1>3, <1>5, EventNumbers DEF EventInv, BatchEnds, Accounts
<1> QED BY <1>4, <1>6, <1>7, <1>8, <1>9, <1>10, <1>11 DEF EventInv

LEMMA NotifyFirstInv ==
    ASSUME EventInv, NEW n \in Notifiers, NEW broadcast \in BOOLEAN, NotifyFirst(n, broadcast)
    PROVE  EventInv'
<1>1. /\ EventTypeOK /\ WaiterLocals /\ NotifierLocals /\ GateClosed /\ BatchRoused
      /\ npc[n] = "idle" /\ npc' = [npc EXCEPT ![n] = "close"] /\ inner = Free /\ inner' = n
      /\ unblock = 0 /\ blocked > gone
      /\ all' = [all EXCEPT ![n] = broadcast]
      /\ UNCHANGED <<gate, tokens, blocked, unblock, gone, outer, wpc, late, stray, signals,
                     due, roused, usurped>>
  BY DEF EventInv, NotifyFirst, NotifierGo, waiterVars
<1>2. EventTypeOK' BY <1>1 DEF EventTypeOK
<1>3. UNCHANGED <<Sleepers, Drainers, Woken, Posted, Strays, Asleep>>
  BY <1>1 DEF Sleepers, Drainers, Woken, Place, Posted, Strays, Asleep
<1>4. WaiterLocals' BY <1>1 DEF WaiterLocals
<1>5. NotifierLocals'
  <2>1. npc \in [Notifiers -> {"idle", "close", "post"}] BY <1>1 DEF EventTypeOK
  <2> QED BY <1>1, <2>1, EventAssumption DEF NotifierLocals
<1>6. Seen' BY <1>1 DEF Seen
<1>7. GateClosed' BY <1>1, <1>3 DEF GateClosed
<1>8. BatchRoused' BY <1>1, <1>3 DEF BatchRoused
<1>9. usurped' \/ (BatchEnds' /\ Accounts')
  BY <1>1, <1>3 DEF EventInv, BatchEnds, Accounts
<1> QED BY <1>2, <1>4, <1>5, <1>6, <1>7, <1>8, <1>9 DEF EventInv

LEMMA CloseGateInv ==
    ASSUME EventInv, NEW n \in Notifiers, CloseGate(n)
    PROVE  EventInv'
<1>1. /\ EventTypeOK /\ WaiterLocals /\ NotifierLocals /\ Seen /\ GateClosed /\ BatchRoused
      /\ npc[n] = "close" /\ npc' = [npc EXCEPT ![n] = "post"]
      /\ gate = 1 /\ gate' = 0 /\ gone' = 0 /\ inner' = Free
      /\ Release(n, all[n], blocked - gone)
      /\ UNCHANGED <<tokens, outer, wpc, late, stray, all, usurped>>
  BY DEF EventInv, CloseGate, NotifierGo, waiterVars
<1>2. /\ unblock = 0 /\ blocked > gone /\ inner = n /\ signals[n] = 0 /\ all[n] \in BOOLEAN
      /\ blocked \in Nat /\ gone \in Nat
  BY <1>1, EventAssumption DEF NotifierLocals, Seen, EventTypeOK
<1>3. blocked - gone \in Nat /\ blocked - gone # 0 BY <1>2
<1>4. PICK count \in 1 .. (blocked - gone) :
          /\ blocked' = (blocked - gone) - count /\ unblock' = unblock + count
          /\ signals' \in [Notifiers -> Nat] /\ signals'[n] = count
          /\ \A x \in Notifiers : x # n => signals'[x] = signals[x]
          /\ Posted' = Posted + count
          /\ due' \subseteq Waiters /\ roused' \subseteq Waiters
          /\ Asleep \subseteq roused' /\ roused \subseteq roused'
  BY <1>1, <1>2, <1>3, Releases
<1>5. blocked' \in Nat /\ unblock' = count /\ count \in Nat /\ count # 0 BY <1>2, <1>3, <1>4
<1>6. EventTypeOK'
  <2>1. /\ npc' \in [Notifiers -> {"idle", "close", "post"}]
        /\ all' \in [Notifiers -> BOOLEAN] /\ inner' \in Notifiers \cup {Free}
    BY <1>1 DEF EventTypeOK
  <2>2. /\ wpc' = wpc /\ late' = late /\ stray' = stray /\ tokens' = tokens /\ outer' = outer
        /\ usurped' = usurped /\ gate' = 0 /\ gone' = 0 /\ EventTypeOK
    BY <1>1
  <2> QED BY ONLY <1>4, <1>5, <2>1, <2>2 DEF EventTypeOK
<1>7. UNCHANGED <<Sleepers, Drainers, Woken, Strays, Asleep>>
  BY <1>1 DEF Sleepers, Drainers, Woken, Place, Strays, Asleep
<1>8. Drainers = 0 BY <1>1, <1>2, EventNumbers DEF GateClosed
<1>9. WaiterLocals' BY <1>1 DEF WaiterLocals
<1>10. NotifierLocals'
  <2>1. npc \in [Notifiers -> {"idle", "close", "post"}] BY <1>1 DEF EventTypeOK
  <2> QED BY <1>1, <1>2, <1>4, <2>1, EventAssumption DEF NotifierLocals
<1>11. Seen' BY <1>1 DEF Seen
<1>12. GateClosed' BY <1>1, <1>5, <1>7, <1>8 DEF GateClosed
<1>13. BatchRoused' BY <1>1, <1>4, <1>7 DEF BatchRoused
<1>14. usurped' \/ (BatchEnds' /\ Accounts')
  <2>1. Strays = 0 BY <1>1, <1>8, NobodyDrains
  <2> QED BY <1>1, <1>2, <1>4, <1>5, <1>7, <1>8, <2>1, EventNumbers DEF EventInv, BatchEnds, Accounts
<1> QED BY <1>6, <1>9, <1>10, <1>11, <1>12, <1>13, <1>14 DEF EventInv

LEMMA PostInv ==
    ASSUME EventInv, NEW n \in Notifiers, Post(n)
    PROVE  EventInv'
<1>1. /\ EventTypeOK /\ WaiterLocals /\ NotifierLocals /\ Seen /\ GateClosed /\ BatchRoused
      /\ npc[n] = "post" /\ npc' = [npc EXCEPT ![n] = IF signals[n] = 1 THEN "idle" ELSE "post"]
      /\ tokens' = tokens + 1 /\ signals' = [signals EXCEPT ![n] = signals[n] - 1]
      /\ UNCHANGED <<gate, inner, blocked, unblock, gone, outer, wpc, late, stray, all,
                     due, roused, usurped>>
  BY DEF EventInv, Post, waiterVars
<1>2. /\ signals[n] \in Nat /\ signals[n] # 0 /\ signals' \in [Notifiers -> Nat]
      /\ signals'[n] = signals[n] - 1
      /\ \A x \in Notifiers : x # n => signals'[x] = signals[x]
  BY <1>1, EventNumbers DEF NotifierLocals
<1>3. Posted' = Posted - 1
  <2>1. EventTypeOK BY <1>1
  <2>2. Posted' = Posted - signals[n] + signals'[n]
    BY ONLY <1>2, <2>1, PostedMove, n \in Notifiers
  <2> QED BY <1>1, <1>2, <2>2, EventNumbers
<1>4. EventTypeOK' BY <1>1, <1>2, EventNumbers DEF EventTypeOK
<1>5. UNCHANGED <<Sleepers, Drainers, Woken, Strays, Asleep>>
  BY <1>1 DEF Sleepers, Drainers, Woken, Place, Strays, Asleep
<1>6. WaiterLocals' BY <1>1 DEF WaiterLocals
<1>7. NotifierLocals'
  <2>1. npc \in [Notifiers -> {"idle", "close", "post"}] BY <1>1 DEF EventTypeOK
  <2> QED BY <1>1, <1>2, <2>1 DEF NotifierLocals
<1>8. Seen' BY <1>1 DEF Seen
<1>9. GateClosed' BY <1>1, <1>5 DEF GateClosed
<1>10. BatchRoused' BY <1>1, <1>5 DEF BatchRoused
<1>11. usurped' \/ (BatchEnds' /\ Accounts')
  BY <1>1, <1>3, <1>5, EventNumbers DEF EventInv, BatchEnds, Accounts
<1> QED BY <1>4, <1>6, <1>7, <1>8, <1>9, <1>10, <1>11 DEF EventInv

LEMMA EventInitInv == EventInit => EventInv
<1> SUFFICES ASSUME EventInit PROVE EventInv
  OBVIOUS
<1>1. EventTypeOK
  <2>1. gate \in 0 .. 1 /\ tokens \in Nat /\ blocked \in Nat /\ unblock \in Nat /\ gone \in Nat
    BY DEF EventInit
  <2>2. /\ wpc \in [Waiters -> {"idle", "gate", "asleep", "awake", "drain", "return"}]
        /\ late \in [Waiters -> BOOLEAN] /\ stray \in [Waiters -> Nat]
        /\ npc \in [Notifiers -> {"idle", "close", "post"}]
        /\ all \in [Notifiers -> BOOLEAN] /\ signals \in [Notifiers -> Nat]
    BY DEF EventInit
  <2> QED BY <2>1, <2>2 DEF EventInit, EventTypeOK
<1>2. Sleepers = 0 /\ Drainers = 0
  <2>1. \A t \in DOMAIN wpc : wpc[t] = "idle" BY DEF EventInit
  <2> QED BY <2>1, CountNone DEF Sleepers, Drainers
<1>3. Woken = 0
  <2>1. \A t \in DOMAIN Place : Place[t] = "idle" BY DEF EventInit, Place
  <2> QED BY <2>1, CountNone DEF Woken
<1>4. Posted = 0 /\ Strays = 0 BY TotalZero DEF EventInit, Posted, Strays
<1>5. WaiterLocals /\ Seen BY DEF EventInit, WaiterLocals, Seen
<1>6. NotifierLocals BY EventAssumption DEF EventInit, NotifierLocals
<1>7. GateClosed /\ BatchRoused BY <1>2 DEF EventInit, GateClosed, BatchRoused
<1>8. BatchEnds /\ Accounts
  BY <1>2, <1>3, <1>4 DEF EventInit, BatchEnds, Accounts
<1> QED BY <1>1, <1>5, <1>6, <1>7, <1>8 DEF EventInv

LEMMA EventNextInv == EventInv /\ [EventNext]_eventVars => EventInv'
<1> SUFFICES ASSUME EventInv, [EventNext]_eventVars PROVE EventInv'
  OBVIOUS
<1>1. ASSUME NEW t \in Waiters, BeginWait(t) \/ TimeOut(t) \/ WaiterWork(t) PROVE EventInv'
  BY <1>1, OutsideInv, TimeOutInv, BlockInv, TakeSignalInv, LeaveInv, DrainInv, OpenGateInv
     DEF WaiterWork
<1>2. ASSUME NEW n \in Notifiers, NotifierWork(n) PROVE EventInv'
  BY <1>2, CloseGateInv, PostInv DEF NotifierWork
<1>3. ASSUME NEW n \in Notifiers, NEW broadcast \in BOOLEAN,
             NotifyNobody(n, broadcast) \/ NotifyMore(n, broadcast) \/ NotifyFirst(n, broadcast)
      PROVE  EventInv'
  BY <1>3, NotifyNobodyInv, NotifyMoreInv, NotifyFirstInv
<1>4. CASE UNCHANGED eventVars
  <2>1. UNCHANGED <<gate, tokens, inner, blocked, unblock, gone, outer, wpc, late, stray,
                    npc, all, signals, due, roused, usurped>>
    BY <1>4 DEF eventVars, counterVars, waiterVars, notifierVars
  <2> QED BY <2>1 DEF EventInv, EventTypeOK, WaiterLocals, NotifierLocals, Seen, GateClosed,
        BatchEnds, Accounts, BatchRoused, Sleepers, Drainers, Woken, Place, Posted, Strays, Asleep
<1> QED BY <1>1, <1>2, <1>3, <1>4 DEF EventNext

\* The counts that were reasoned about are the ones of the properties.
LEMMA EventInvAccounts == EventInv => EventTypeOK /\ CountersAccount /\ NoSpuriousWake
<1> SUFFICES ASSUME EventInv PROVE CountersAccount /\ NoSpuriousWake
  BY DEF EventInv
<1>1. EventTypeOK BY DEF EventInv
<1>2. NoSpuriousWake BY DEF EventInv, BatchRoused, NoSpuriousWake
<1>3. Cardinality(Asleep) = Sleepers
  <2>1. Asleep = {t \in DOMAIN wpc : wpc[t] \in {"asleep", "awake"}}
    BY <1>1, EventNumbers DEF Asleep
  <2> QED BY <2>1 DEF Sleepers, At
<1>4. Cardinality({t \in Waiters : wpc[t] = "awake" /\ ~ late[t]}) = Woken
  <2>1. {t \in Waiters : wpc[t] = "awake" /\ ~ late[t]} = {t \in DOMAIN Place : Place[t] \in {"woken"}}
    BY <1>1, EventNumbers DEF Place, WaiterPoints
  <2> QED BY <2>1 DEF Woken, At
<1>5. MapThenSumSet(LAMBDA n : signals[n], Notifiers) = Posted
  BY <1>1, EventNumbers, MapSum DEF Posted
<1>6. MapThenSumSet(LAMBDA t : stray[t], Waiters) = Strays
  BY <1>1, EventNumbers, MapSum DEF Strays
<1>7. SignalsUnderWay = tokens + Posted + Woken
  BY <1>4, <1>5 DEF SignalsUnderWay
<1>8. CountersAccount
  BY <1>3, <1>6, <1>7 DEF CountersAccount, EventInv, Accounts
<1> QED BY <1>2, <1>8

\* However many threads wait and notify, the event's counters tell who waits
\* and which signals are under way (event, condition_base), until a wait that
\* has timed out uses up the signal of another.
THEOREM EventCounts == EventSpec => [](EventTypeOK /\ CountersAccount)
  BY EventInitInv, EventNextInv, EventInvAccounts, PTL DEF EventSpec

\* Nobody is let through whom no notification found waiting: a signal that is
\* left over is drained before the gate opens for those who came later.
THEOREM WokenByNotification == EventSpec => []NoSpuriousWake
  BY EventInitInv, EventNextInv, EventInvAccounts, PTL DEF EventSpec

-----------------------------------------------------------------------------
(* All of them side by side: a step of one leaves the others alone.        *)

LibraryInv ==
    /\ subject \in {"fifo", "event", "shared_mutex", "rendezvous"}
    /\ FifoInv /\ EventInv /\ SharedInv /\ MeetInv

\* Whatever step is taken, each primitive sees one of its own or none.
LEMMA LibraryStep ==
    ASSUME [LibraryNext]_libraryVars
    PROVE  /\ UNCHANGED subject
           /\ [Next]_vars /\ [EventNext]_eventVars /\ [SharedNext]_sharedVars /\ [MeetNext]_meetVars
<1>1. CASE FifoSide BY <1>1 DEF FifoSide
<1>2. CASE EventSide BY <1>2 DEF EventSide
<1>3. CASE SharedSide BY <1>3 DEF SharedSide
<1>4. CASE MeetSide BY <1>4 DEF MeetSide
<1>5. CASE UNCHANGED libraryVars BY <1>5 DEF libraryVars
<1> QED BY <1>1, <1>2, <1>3, <1>4, <1>5 DEF LibraryNext

LEMMA LibraryStepInv == LibraryInv /\ [LibraryNext]_libraryVars => LibraryInv'
<1> SUFFICES ASSUME LibraryInv, [LibraryNext]_libraryVars PROVE LibraryInv'
  OBVIOUS
<1>1. UNCHANGED subject BY LibraryStep
<1>2. FifoInv' BY LibraryStep, FifoStepInv DEF LibraryInv
<1>3. EventInv' BY LibraryStep, EventNextInv DEF LibraryInv
<1>4. SharedInv' BY LibraryStep, SharedNextInv DEF LibraryInv
<1>5. MeetInv' BY LibraryStep, MeetNextInv DEF LibraryInv
<1> QED BY <1>1, <1>2, <1>3, <1>4, <1>5 DEF LibraryInv

LEMMA LibraryInitInv == LibraryInit => LibraryInv /\ Init
  BY FifoInitInv, EventInitInv, SharedInitInv, MeetInitInv DEF LibraryInit, LibraryInv

LEMMA LibraryInvSafe ==
    LibraryInv => /\ LibraryTypeOK /\ SlotsExclusive
                  /\ CountersAccount /\ NoSpuriousWake
                  /\ FairExclusion /\ PassedByOneWriter
                  /\ PassedInGroups
<1> SUFFICES ASSUME LibraryInv
             PROVE  /\ LibraryTypeOK /\ SlotsExclusive
                    /\ CountersAccount /\ NoSpuriousWake
                    /\ FairExclusion /\ PassedByOneWriter
                    /\ PassedInGroups
  OBVIOUS
<1>1. TypeOK /\ SlotsExclusive BY FifoInvExclusive DEF LibraryInv, FifoInv
<1>2. EventTypeOK /\ CountersAccount /\ NoSpuriousWake BY EventInvAccounts DEF LibraryInv
<1>3. SharedTypeOK /\ FairExclusion /\ PassedByOneWriter BY SharedInvExcludes DEF LibraryInv
<1>4. MeetTypeOK /\ PassedInGroups BY MeetInvInGroups DEF LibraryInv
<1> QED BY <1>1, <1>2, <1>3, <1>4 DEF LibraryTypeOK, LibraryInv

\* What holds of each primitive holds of all of them side by side, which is
\* the specification that the run checks.
THEOREM LibrarySafe ==
    LibrarySpec => [](/\ LibraryTypeOK /\ SlotsExclusive
                      /\ CountersAccount /\ NoSpuriousWake
                      /\ FairExclusion /\ PassedByOneWriter
                      /\ PassedInGroups)
  BY LibraryInitInv, LibraryStepInv, LibraryInvSafe, PTL DEF LibrarySpec

\* Among them the ring buffer still is a bounded queue.
THEOREM LibraryHasAQueue == LibrarySpec => ImplementsQueue
<1>1. LibraryInv /\ [LibraryNext]_libraryVars => [Fifo!Next]_(Fifo!vars)
  BY LibraryStep, RingSteps DEF LibraryInv
<1> QED BY <1>1, LibraryInitInv, LibraryStepInv, RingStarts, PTL
           DEF LibrarySpec, ImplementsQueue, Fifo!Spec
=============================================================================
