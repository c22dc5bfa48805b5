------------------------- MODULE CommandQueueProofs --------------------------
(***************************************************************************)
(* Proofs about the command ring for any number of workers and any         *)
(* capacity: type correctness, the agreement of head, tail and counter,    *)
(* that free slots are clear, that the ring is a bounded FIFO until it is  *)
(* overrun, and that a single client without spurious wakeups never        *)
(* overruns it.                                                            *)
(***************************************************************************)
EXTENDS CommandQueue, TLAPS

------------------------------------------------------------------------------
(* Arithmetic of the ring. *)

\* A remainder is a slot.
LEMMA ModRange ==
  ASSUME NEW M \in Nat, M >= 2, NEW x \in Int
  PROVE  x % M \in 0 .. M - 1
OBVIOUS

\* Quotient and remainder decompose a number ...
LEMMA ModDecompose ==
  ASSUME NEW M \in Nat, M >= 2, NEW x \in Int
  PROVE  \E q \in Int : x = q * M + (x % M)
<1>1. x = M * (x \div M) + (x % M) /\ x \div M \in Int
  OBVIOUS
<1>2. M * (x \div M) = (x \div M) * M
  BY <1>1
<1> QED BY <1>1, <1>2

\* ... and are the only ones that do.
LEMMA ModUnique ==
  ASSUME NEW M \in Nat, M >= 2, NEW x \in Int,
         NEW q \in Int, NEW c \in 0 .. M - 1, x = q * M + c
  PROVE  x % M = c
OBVIOUS

\* Reducing early makes no difference.
LEMMA ModAdd ==
  ASSUME NEW M \in Nat, M >= 2, NEW x \in Int, NEW y \in Int
  PROVE  ((x % M) + y) % M = (x + y) % M
<1>1. PICK q \in Int : x = q * M + (x % M)
  BY ModDecompose
<1>2. x % M \in Int /\ (x % M) + y \in Int
  BY ModRange
<1>3. PICK p \in Int : (x % M) + y = p * M + (((x % M) + y) % M)
  BY <1>2, ModDecompose
<1>4. ((x % M) + y) % M \in 0 .. M - 1
  BY <1>2, ModRange
<1>5. x + y = (q + p) * M + (((x % M) + y) % M)
  <2>1. x + y = q * M + (p * M + (((x % M) + y) % M))
    BY <1>1, <1>2, <1>3, <1>4
  <2>2. (q + p) * M = q * M + p * M
    OBVIOUS
  <2> QED BY <2>1, <2>2, <1>4
<1>6. q + p \in Int /\ x + y \in Int
  OBVIOUS
<1> QED BY <1>4, <1>5, <1>6, ModUnique

\* Two numbers less than M apart are in different slots.
LEMMA ModDistinct ==
  ASSUME NEW M \in Nat, M >= 2, NEW a \in Nat, NEW b \in Nat,
         a < b, b - a < M
  PROVE  a % M # b % M
<1> SUFFICES ASSUME a % M = b % M PROVE FALSE
  OBVIOUS
<1>0. a \in Int /\ b \in Int
  OBVIOUS
<1>1. PICK p \in Int : a = p * M + (a % M)
  BY <1>0, ModDecompose
<1>2. PICK q \in Int : b = q * M + (b % M)
  BY <1>0, ModDecompose
<1>3. a % M \in Int
  BY <1>0, ModRange
<1>4. b - a = (q - p) * M
  <2>1. b - a = q * M - p * M
    BY <1>1, <1>2, <1>3
  <2>2. (q - p) * M = q * M - p * M
    OBVIOUS
  <2> QED BY <2>1, <2>2
<1>5. CASE q - p <= 0
  <2>1. (q - p) * M <= 0
    BY <1>5
  <2> QED BY <1>4, <2>1
<1>6. CASE q - p >= 1
  <2>1. (q - p) * M >= M
    BY <1>6
  <2> QED BY <1>4, <2>1
<1> QED BY <1>5, <1>6

\* The same for the slots of this ring.
LEMMA Rotate ==
  \A x, y \in Int : ((x % MAXCOMMAND) + y) % MAXCOMMAND = (x + y) % MAXCOMMAND
BY CapacityAssumption, ModAdd

LEMMA SlotMod == ASSUME NEW i \in Slots PROVE i % MAXCOMMAND = i
BY CapacityAssumption DEF Slots

LEMMA FollowingType == ASSUME NEW i \in Slots PROVE Following(i) \in Slots
BY CapacityAssumption, ModRange DEF Following, Slots

------------------------------------------------------------------------------
(* Type correctness. *)

\* A worker inside the wait still holds the line it could not store: the
\* strengthening that makes TypeOK inductive.
WorkerOK ==
  \A w \in Workers :
    /\ sent[w] <= received[w]
    /\ pc[w] \in {"waiting", "notified"} => sent[w] < received[w]

PCs == {"running", "waiting", "notified", "gone"}

LEMMA TypeInit == Init => TypeOK /\ WorkerOK
BY CapacityAssumption, BoundAssumption
   DEF Init, InitialHead, TypeOK, WorkerOK, Slots

LEMMA StoreType ==
  ASSUME TypeOK, WorkerOK, NEW w \in Workers, Store(w),
         sent[w] < received[w], pc' = [pc EXCEPT ![w] = "running"]
  PROVE  TypeOK' /\ WorkerOK'
<1> USE DEF TypeOK
<1>1. sent[w] \in Nat /\ sent[w] + 1 \in 1 .. MaxLines
  BY BoundAssumption
<1>2. <<w, sent[w] + 1>> \in Lines
  BY <1>1 DEF Lines
<1>3. Append(stored, <<w, sent[w] + 1>>) \in Seq(Lines)
  BY <1>2
<1>4. /\ coda' \in Slots
      /\ command' \in [Slots -> Lines \cup {NoCommand}]
  BY <1>2, FollowingType DEF Store
<1>5. sent' \in [Workers -> 0 .. MaxLines]
  BY <1>1, BoundAssumption DEF Store
<1>6. TypeOK'
  BY <1>3, <1>4, <1>5 DEF Store
<1>7. WorkerOK'
  BY <1>1, BoundAssumption DEF Store, WorkerOK
<1> QED BY <1>6, <1>7

LEMMA TypeStep == TypeOK /\ WorkerOK /\ [Next]_vars => TypeOK' /\ WorkerOK'
<1> SUFFICES ASSUME TypeOK, WorkerOK, [Next]_vars PROVE TypeOK' /\ WorkerOK'
  OBVIOUS
<1>1. CASE GetCommand
  <2> USE <1>1 DEF TypeOK
  <2>1. /\ num_mex' \in Nat /\ testa' \in Slots
        /\ Append(taken, command[testa]) \in Seq(Lines \cup {NoCommand})
    BY FollowingType DEF GetCommand
  <2>2. command' \in [Slots -> Lines \cup {NoCommand}]
    BY DEF GetCommand, Cleared
  <2>3. pc' \in [Workers -> PCs]
    BY DEF GetCommand, NotifyProducer, PCs
  <2>4. WorkerOK'
    BY DEF GetCommand, NotifyProducer, WorkerOK
  <2> QED BY <2>1, <2>2, <2>3, <2>4 DEF GetCommand, Front, PCs
<1>2. ASSUME NEW w \in Workers, Receive(w) PROVE TypeOK' /\ WorkerOK'
  BY <1>2, BoundAssumption DEF Receive, buffer, history, TypeOK, WorkerOK
<1>3. ASSUME NEW w \in Workers, Disconnect(w) \/ Block(w) \/ SpuriousWakeup(w)
      PROVE  TypeOK' /\ WorkerOK'
  BY <1>3 DEF Disconnect, Block, SpuriousWakeup, buffer, history, TypeOK, WorkerOK
<1>4. ASSUME NEW w \in Workers, Insert(w) PROVE TypeOK' /\ WorkerOK'
  <2>1. pc' = [pc EXCEPT ![w] = "running"]
    BY <1>4 DEF Insert, TypeOK
  <2> QED BY <1>4, <2>1, StoreType DEF Insert
<1>5. ASSUME NEW w \in Workers, Resume(w) PROVE TypeOK' /\ WorkerOK'
  BY <1>5, StoreType DEF Resume, WorkerOK
<1>6. CASE UNCHANGED vars
  BY <1>6 DEF vars, buffer, history, TypeOK, WorkerOK
<1> QED BY <1>1, <1>2, <1>3, <1>4, <1>5, <1>6 DEF Next

\* Every variable of the ring and of its threads keeps its type, for any
\* number of workers and any capacity.
THEOREM TypeCorrect == Spec => []TypeOK
<1>1. Spec => [](TypeOK /\ WorkerOK)
  BY TypeInit, TypeStep, PTL DEF Spec
<1> QED BY <1>1, PTL

------------------------------------------------------------------------------
(* Head, tail and counter agree, and the slots outside the window are clear. *)

\* One more message at the tail: the window gains the slot after coda.
LEMMA StoreWindow ==
  ASSUME TypeOK, IndicesAgree, FreeSlotsClear, NEW w \in Workers, Store(w)
  PROVE  IndicesAgree' /\ FreeSlotsClear'
<1> USE CapacityAssumption DEF TypeOK
<1>1. Following(coda) = (testa + num_mex) % MAXCOMMAND
  <2> DEFINE x == testa + num_mex - 1
  <2>1. coda = x % MAXCOMMAND
    BY DEF IndicesAgree
  <2>2. x \in Int /\ x + 1 = testa + num_mex
    BY DEF Slots
  <2> HIDE DEF x
  <2>3. ((x % MAXCOMMAND) + 1) % MAXCOMMAND = (x + 1) % MAXCOMMAND
    BY <2>2, Rotate
  <2> QED BY <2>1, <2>2, <2>3 DEF Following
<1>2. testa' = testa /\ num_mex' = num_mex + 1 /\ num_mex' - 1 = num_mex
  BY DEF Store
<1>3. IndicesAgree'
  <2>1. testa' + num_mex' - 1 = testa + num_mex
    BY <1>2 DEF Slots
  <2> QED BY <1>1, <2>1 DEF Store, IndicesAgree
<1>4. Window \subseteq Window'
  <2> SUFFICES ASSUME NEW i \in 0 .. num_mex - 1
               PROVE  (testa + i) % MAXCOMMAND \in Window'
    BY DEF Window
  <2>1. i \in 0 .. num_mex' - 1 /\ testa' + i = testa + i
    BY <1>2
  <2> QED BY <2>1 DEF Window
<1>5. Following(coda) \in Window'
  <2>1. num_mex \in 0 .. num_mex' - 1
    BY <1>2
  <2> QED BY <1>1, <1>2, <2>1 DEF Window
<1>6. FreeSlotsClear'
  <2> SUFFICES ASSUME NEW i \in Slots, i \notin Window' PROVE command'[i] = NoCommand
    BY DEF FreeSlotsClear
  <2>1. i # Following(coda) /\ i \notin Window
    BY <1>4, <1>5
  <2> QED BY <2>1 DEF FreeSlotsClear, Store
<1> QED BY <1>3, <1>6

\* One message less at the head: the window loses at most slot testa.
LEMMA TakeWindow ==
  ASSUME TypeOK, IndicesAgree, FreeSlotsClear, GetCommand
  PROVE  IndicesAgree' /\ FreeSlotsClear'
<1> USE CapacityAssumption DEF TypeOK
<1>1. /\ testa' = (testa + 1) % MAXCOMMAND /\ testa' \in Slots
      /\ num_mex' = num_mex - 1 /\ num_mex' \in Nat
      /\ testa \in Int
  BY FollowingType DEF GetCommand, Following, Slots
<1>2. ASSUME NEW j \in Int PROVE (testa' + j) % MAXCOMMAND = (testa + (j + 1)) % MAXCOMMAND
  <2>1. testa + 1 \in Int /\ (testa + 1) + j = testa + (j + 1)
    BY <1>1
  <2>2. (((testa + 1) % MAXCOMMAND) + j) % MAXCOMMAND = ((testa + 1) + j) % MAXCOMMAND
    BY <2>1, Rotate
  <2> QED BY <1>1, <2>1, <2>2
<1>3. IndicesAgree'
  <2> DEFINE d == num_mex' - 1
  <2>0. d \in Int
    BY <1>1
  <2> HIDE DEF d
  <2>1. (testa' + d) % MAXCOMMAND = (testa + (d + 1)) % MAXCOMMAND
    BY <2>0, <1>2
  <2> USE DEF d
  <2>2. /\ testa' + d = testa' + num_mex' - 1
        /\ testa + (d + 1) = testa + num_mex - 1
    BY <1>1 DEF Slots
  <2> QED BY <2>1, <2>2 DEF IndicesAgree, GetCommand
<1>4. FreeSlotsClear'
  <2> SUFFICES ASSUME NEW s \in Slots, s \notin Window', s # testa
               PROVE  s \notin Window
    BY DEF FreeSlotsClear, GetCommand, Cleared
  <2> SUFFICES ASSUME NEW i \in 0 .. num_mex - 1, s = (testa + i) % MAXCOMMAND
               PROVE  FALSE
    BY DEF Window
  <2>1. CASE i = 0
    <3>1. testa + i = testa
      BY <1>1, <2>1
    <3> QED BY <3>1, SlotMod
  <2>2. CASE i # 0
    <3>1. i - 1 \in 0 .. num_mex' - 1 /\ (i - 1) + 1 = i
      BY <1>1, <2>2
    <3>2. s = (testa' + (i - 1)) % MAXCOMMAND
      BY <1>2, <3>1
    <3> QED BY <3>1, <3>2 DEF Window
  <2> QED BY <2>1, <2>2
<1> QED BY <1>3, <1>4

\* The ring heals: whatever the producers do, overrun included, head, tail
\* and counter agree and every slot the counter does not cover is clear.
THEOREM RingConsistent == Spec => [](IndicesAgree /\ FreeSlotsClear)
<1>1. Init => IndicesAgree /\ FreeSlotsClear
  <2> SUFFICES ASSUME Init PROVE IndicesAgree /\ FreeSlotsClear
    OBVIOUS
  <2>1. coda = 0 /\ testa + num_mex - 1 = 0 /\ 0 % MAXCOMMAND = 0
    BY CapacityAssumption DEF Init, InitialHead
  <2> QED BY <2>1 DEF IndicesAgree, FreeSlotsClear, Init
<1>2. ASSUME TypeOK, WorkerOK, IndicesAgree, FreeSlotsClear, [Next]_vars
      PROVE  IndicesAgree' /\ FreeSlotsClear'
  <2>1. CASE GetCommand
    BY <1>2, <2>1, TakeWindow
  <2>2. ASSUME NEW w \in Workers, Insert(w) \/ Resume(w)
        PROVE  IndicesAgree' /\ FreeSlotsClear'
    BY <1>2, <2>2, StoreWindow DEF Insert, Resume
  <2>3. CASE UNCHANGED buffer
    BY <1>2, <2>3 DEF buffer, IndicesAgree, FreeSlotsClear, Window
  <2>4. ASSUME NEW w \in Workers,
               Receive(w) \/ Disconnect(w) \/ Block(w) \/ SpuriousWakeup(w)
        PROVE  UNCHANGED buffer
    BY <2>4 DEF Receive, Disconnect, Block, SpuriousWakeup
  <2>5. CASE UNCHANGED vars
    BY <2>3, <2>5 DEF vars
  <2> QED BY <1>2, <2>1, <2>2, <2>3, <2>4, <2>5 DEF Next
<1> QED BY <1>1, <1>2, TypeInit, TypeStep, PTL DEF Spec

------------------------------------------------------------------------------
(* Until it is overrun, the ring is a bounded FIFO. *)

\* Where the k-th line put in lies while it is not yet taken: slot k modulo
\* the capacity.  testa = 1 and coda = 0 of the constructor are the case of
\* two empty histories.
RingHoldsFifo ==
  ~overrun =>
    /\ num_mex <= MAXCOMMAND
    /\ Len(stored) = Len(taken) + num_mex
    /\ testa = (Len(taken) + 1) % MAXCOMMAND
    /\ coda = Len(stored) % MAXCOMMAND
    /\ \A k \in Len(taken) + 1 .. Len(stored) : command[k % MAXCOMMAND] = stored[k]

\* Advancing an index that is n modulo the capacity.
LEMMA FollowingMod ==
  ASSUME NEW n \in Nat PROVE Following(n % MAXCOMMAND) = (n + 1) % MAXCOMMAND
<1>1. n \in Int
  OBVIOUS
<1> QED BY <1>1, Rotate DEF Following

LEMMA SlotsDistinct ==
  ASSUME NEW a \in Nat, NEW b \in Nat, a < b, b - a < MAXCOMMAND
  PROVE  a % MAXCOMMAND # b % MAXCOMMAND
BY CapacityAssumption, ModDistinct

LEMMA ModSlot == ASSUME NEW n \in Nat PROVE n % MAXCOMMAND \in Slots
<1>1. n \in Int
  OBVIOUS
<1> QED BY <1>1, CapacityAssumption, ModRange DEF Slots

LEMMA StoreNoOverrun ==
  ASSUME TypeOK, NEW w \in Workers, Store(w), ~overrun'
  PROVE  ~overrun /\ num_mex' = num_mex + 1 /\ num_mex + 1 <= MAXCOMMAND
<1>1. ~overrun /\ ~(num_mex' > MAXCOMMAND) /\ num_mex' = num_mex + 1
  BY Zenon DEF Store
<1>2. num_mex + 1 <= MAXCOMMAND
  BY <1>1, CapacityAssumption DEF TypeOK
<1> QED BY <1>1, <1>2

LEMMA StoreFifo ==
  ASSUME TypeOK, TypeOK', RingHoldsFifo, NEW w \in Workers, Store(w)
  PROVE  RingHoldsFifo'
<1> SUFFICES ASSUME ~overrun' PROVE RingHoldsFifo'
  BY DEF RingHoldsFifo
<1> USE CapacityAssumption DEF TypeOK
<1> DEFINE line == <<w, sent[w] + 1>>
           n    == Len(stored)
           t    == Len(taken)
<1>1. /\ ~overrun /\ num_mex' = num_mex + 1 /\ num_mex' <= MAXCOMMAND
      /\ taken' = taken /\ testa' = testa
  BY StoreNoOverrun DEF Store
<1>2. /\ n = t + num_mex /\ testa = (t + 1) % MAXCOMMAND /\ coda = n % MAXCOMMAND
      /\ \A k \in t + 1 .. n : command[k % MAXCOMMAND] = stored[k]
  BY <1>1 DEF RingHoldsFifo
<1>3. n \in Nat /\ t \in Nat
  OBVIOUS
<1>4. stored' = Append(stored, line) /\ stored' \in Seq(Lines)
  BY DEF Store
<1>5. /\ Len(stored') = n + 1
      /\ stored'[n + 1] = line
      /\ \A k \in 1 .. n : stored'[k] = stored[k]
  BY <1>4
<1>6. Following(coda) = (n + 1) % MAXCOMMAND
  BY <1>2, <1>3, FollowingMod
<1>7. /\ coda' = (n + 1) % MAXCOMMAND
      /\ command' = [command EXCEPT ![(n + 1) % MAXCOMMAND] = line]
  BY <1>6 DEF Store
<1>8. ASSUME NEW k \in t + 1 .. n + 1 PROVE command'[k % MAXCOMMAND] = stored'[k]
  <2>1. k \in Nat /\ n + 1 \in Nat
    BY <1>3
  <2>2. k % MAXCOMMAND \in Slots /\ (n + 1) % MAXCOMMAND \in Slots
    BY <2>1, ModSlot
  <2>3. CASE k = n + 1
    BY <1>5, <1>7, <2>2, <2>3
  <2>4. CASE k # n + 1
    <3>1. k \in t + 1 .. n /\ k \in 1 .. n /\ k < n + 1
      BY <1>3, <2>4
    <3>2. n = t + num_mex /\ num_mex + 1 <= MAXCOMMAND
      BY <1>1, <1>2
    <3>3. (n + 1) - k < MAXCOMMAND
      BY <1>3, <3>1, <3>2
    <3>4. k % MAXCOMMAND # (n + 1) % MAXCOMMAND
      BY <2>1, <3>1, <3>3, SlotsDistinct
    <3> QED BY <1>2, <1>5, <1>7, <2>2, <3>1, <3>4
  <2> QED BY <2>3, <2>4
<1>9. n + 1 = t + num_mex'
  BY <1>1, <1>2, <1>3
<1> QED BY <1>1, <1>2, <1>5, <1>7, <1>8, <1>9 DEF RingHoldsFifo

LEMMA TakeFifo ==
  ASSUME TypeOK, TypeOK', RingHoldsFifo, GetCommand
  PROVE  /\ RingHoldsFifo'
         /\ ~overrun => Front = stored[Len(taken) + 1] /\ Len(taken) < Len(stored)
<1> SUFFICES ASSUME ~overrun
             PROVE  /\ RingHoldsFifo'
                    /\ Front = stored[Len(taken) + 1] /\ Len(taken) < Len(stored)
  BY DEF RingHoldsFifo, GetCommand
<1> USE CapacityAssumption DEF TypeOK
<1> DEFINE n == Len(stored)
           t == Len(taken)
<1>1. /\ num_mex # 0 /\ num_mex' = num_mex - 1 /\ stored' = stored /\ coda' = coda
      /\ taken' = Append(taken, Front) /\ command' = [command EXCEPT ![testa] = NoCommand]
      /\ testa' = Following(testa)
  BY DEF GetCommand, Cleared
<1>2. /\ num_mex <= MAXCOMMAND /\ n = t + num_mex
      /\ testa = (t + 1) % MAXCOMMAND /\ coda = n % MAXCOMMAND
      /\ \A k \in t + 1 .. n : command[k % MAXCOMMAND] = stored[k]
  BY DEF RingHoldsFifo
<1>3. n \in Nat /\ t \in Nat /\ t < n
  BY <1>1, <1>2
<1>4. Front = stored[t + 1]
  <2>1. t + 1 \in t + 1 .. n
    BY <1>3
  <2> QED BY <1>2, <2>1 DEF Front
<1>5. Len(taken') = t + 1
  <2>1. Front \in Lines \cup {NoCommand}
    BY DEF Front
  <2> QED BY <1>1, <2>1
<1>6. testa' = (t + 2) % MAXCOMMAND
  <2>1. t + 1 \in Nat /\ (t + 1) + 1 = t + 2
    BY <1>3
  <2> QED BY <1>1, <1>2, <2>1, FollowingMod
<1>7. ASSUME NEW k \in t + 2 .. n PROVE command'[k % MAXCOMMAND] = stored'[k]
  <2>1. k \in Nat /\ t + 1 \in Nat /\ t + 1 < k /\ k - (t + 1) < MAXCOMMAND
    BY <1>2, <1>3
  <2>2. k % MAXCOMMAND # testa /\ k % MAXCOMMAND \in Slots
    BY <1>2, <2>1, SlotsDistinct, ModSlot
  <2>3. k \in t + 1 .. n
    BY <1>3
  <2> QED BY <1>1, <1>2, <2>2, <2>3
<1>8. /\ n = (t + 1) + num_mex' /\ num_mex' <= MAXCOMMAND
      /\ (t + 1) + 1 = t + 2
  BY <1>1, <1>2, <1>3
<1>9. RingHoldsFifo'
  BY <1>1, <1>2, <1>5, <1>6, <1>7, <1>8 DEF RingHoldsFifo
<1> QED BY <1>3, <1>4, <1>9

\* Until num_mex first exceeds MAXCOMMAND every step of the ring is a step
\* of the bounded FIFO of CommandFifo: commands reach the command thread once
\* each, in the order in which the workers put them in.
THEOREM RingIsFifo == Spec => FifoUntilOverrun
<1>1. Init => RingHoldsFifo /\ Fifo!Init
  <2> SUFFICES ASSUME Init PROVE RingHoldsFifo /\ Fifo!Init
    OBVIOUS
  <2>1. 0 % MAXCOMMAND = 0 /\ 1 % MAXCOMMAND = 1 /\ Len(<<>>) = 0
    BY CapacityAssumption
  <2>2. RingHoldsFifo
    BY <2>1, CapacityAssumption DEF Init, InitialHead, RingHoldsFifo
  <2> QED BY <2>2 DEF Init, Fifo!Init
<1>2. ASSUME TypeOK, WorkerOK, RingHoldsFifo, [Next]_vars
      PROVE  RingHoldsFifo' /\ [~overrun' => Fifo!Next]_<<stored, taken>>
  <2>0. TypeOK'
    BY <1>2, TypeStep
  <2>1. CASE GetCommand
    <3>1. RingHoldsFifo' /\ (~overrun => Front = stored[Len(taken) + 1]
                                         /\ Len(taken) < Len(stored))
      BY <1>2, <2>0, <2>1, TakeFifo
    <3>2. ~overrun => Fifo!Take
      BY <2>1, <3>1 DEF GetCommand, Fifo!Take
    <3> QED BY <2>1, <3>1, <3>2 DEF GetCommand, Fifo!Next
  <2>2. ASSUME NEW w \in Workers, Store(w), sent[w] < received[w]
        PROVE  RingHoldsFifo' /\ (~overrun' => Fifo!Next)
    <3>1. RingHoldsFifo'
      BY <1>2, <2>0, <2>2, StoreFifo
    <3>2. ASSUME ~overrun' PROVE Fifo!Put(<<w, sent[w] + 1>>)
      <4>1. ~overrun /\ num_mex + 1 <= MAXCOMMAND
        BY <1>2, <2>2, <3>2, StoreNoOverrun
      <4>2. Len(stored) - Len(taken) < MAXCOMMAND
        BY <1>2, <4>1, CapacityAssumption DEF RingHoldsFifo, TypeOK
      <4> QED BY <2>2, <4>2 DEF Store, Fifo!Put
    <3>3. <<w, sent[w] + 1>> \in Lines
      BY <1>2, <2>2, BoundAssumption DEF TypeOK, Lines
    <3> QED BY <3>1, <3>2, <3>3 DEF Fifo!Next
  <2>3. ASSUME NEW w \in Workers, Insert(w) \/ Resume(w)
        PROVE  RingHoldsFifo' /\ (~overrun' => Fifo!Next)
    BY <1>2, <2>2, <2>3 DEF Insert, Resume, WorkerOK
  <2>4. CASE UNCHANGED <<buffer, history>>
    BY <1>2, <2>4 DEF buffer, history, RingHoldsFifo
  <2>5. ASSUME NEW w \in Workers,
               Receive(w) \/ Disconnect(w) \/ Block(w) \/ SpuriousWakeup(w)
        PROVE  UNCHANGED <<buffer, history>>
    BY <2>5 DEF Receive, Disconnect, Block, SpuriousWakeup
  <2>6. CASE UNCHANGED vars
    BY <2>4, <2>6 DEF vars
  <2> QED BY <1>2, <2>1, <2>3, <2>4, <2>5, <2>6 DEF Next
<1> QED
  BY <1>1, <1>2, TypeInit, TypeStep, PTL DEF Spec, FifoUntilOverrun

------------------------------------------------------------------------------
(* One client. *)

\* With one client and no spurious wakeup the waiting worker is the only one
\* that could fill the slot GetCommand freed for it.
SoloOK ==
  /\ ~overrun
  /\ num_mex <= MAXCOMMAND
  /\ \A w \in Workers : pc[w] = "notified" => num_mex < MAXCOMMAND

\* The "if" around the wait is safe exactly as long as one client is served:
\* then the ring is never overrun, so RingIsFifo holds for ever.
THEOREM SingleClientNeverOverruns ==
  ASSUME NEW v, Workers = {v}, ~SpuriousWakeups
  PROVE  Spec => [](~overrun)
<1>1. Init => SoloOK
  BY CapacityAssumption DEF Init, SoloOK
<1>2. TypeOK /\ SoloOK /\ [Next]_vars => SoloOK'
  <2> SUFFICES ASSUME TypeOK, SoloOK, [Next]_vars PROVE SoloOK'
    OBVIOUS
  <2> USE CapacityAssumption DEF TypeOK, SoloOK
  <2>1. CASE GetCommand
    BY <2>1 DEF GetCommand
  <2>2. CASE Insert(v)
    BY <2>2 DEF Insert, Store
  <2>3. CASE Resume(v)
    BY <2>3 DEF Resume, Store
  <2>4. CASE Receive(v) \/ Disconnect(v) \/ Block(v)
    BY <2>4 DEF Receive, Disconnect, Block, buffer, history
  <2>5. CASE UNCHANGED vars
    BY <2>5 DEF vars, buffer, history
  <2> QED BY <2>1, <2>2, <2>3, <2>4, <2>5 DEF Next, SpuriousWakeup
<1>3. SoloOK => ~overrun
  BY DEF SoloOK
<1> QED BY <1>1, <1>2, <1>3, TypeInit, TypeStep, PTL DEF Spec

------------------------------------------------------------------------------
(* Nothing is taken twice. *)

\* A line that was taken, or waits in a slot, has been put in; a line in a
\* slot is in no other, and has not been taken.
OncePut ==
  /\ \A i \in Slots : command[i] # NoCommand =>
       /\ command[i][2] <= sent[command[i][1]]
       /\ \A j \in Slots : i # j => command[i] # command[j]
       /\ \A k \in 1 .. Len(taken) : command[i] # taken[k]
  /\ \A k \in 1 .. Len(taken) : taken[k] # NoCommand => taken[k][2] <= sent[taken[k][1]]
  /\ TakenOnce

\* A line that has been put in is not the one a worker puts in next.
LEMMA NextIsNew ==
  ASSUME TypeOK, NEW w \in Workers, NEW line \in Lines, line[2] <= sent[line[1]]
  PROVE  line # <<w, sent[w] + 1>>
<1>1. line = <<w, sent[w] + 1>> => line[2] = sent[line[1]] + 1
  OBVIOUS
<1>2. sent[line[1]] \in Int
  BY BoundAssumption DEF TypeOK, Lines
<1> QED BY <1>1, <1>2

\* Storing a line, even over one that waits, puts in a new one.
LEMMA StoreOnce ==
  ASSUME TypeOK, OncePut, NEW w \in Workers, Store(w), sent[w] < received[w]
  PROVE  OncePut'
<1> DEFINE line == <<w, sent[w] + 1>>
<1>1. /\ coda' \in Slots /\ taken' = taken /\ sent' = [sent EXCEPT ![w] = @ + 1]
      /\ command' = [command EXCEPT ![coda'] = line]
  BY FollowingType DEF Store, TypeOK
<1>2. sent \in [Workers -> Nat] /\ received[w] \in Int
  BY BoundAssumption DEF TypeOK
<1>3. line \in Lines
  <2>1. sent[w] + 1 \in 1 .. MaxLines
    BY <1>2, BoundAssumption DEF TypeOK
  <2> QED BY <2>1 DEF Lines
<1>4. line # NoCommand
  BY <1>3, NoCommandAssumption, Zenon
<1>5. ASSUME NEW old \in Lines, old[2] <= sent[old[1]] PROVE old[2] <= sent'[old[1]]
  BY <1>1, <1>2, <1>5, BoundAssumption DEF Lines
<1>6. line[2] <= sent'[line[1]]
  BY <1>1, <1>2
<1>7. ASSUME NEW i \in Slots, i # coda', command[i] # NoCommand
      PROVE  /\ command[i] \in Lines /\ command[i][2] <= sent'[command[i][1]]
             /\ command[i] # line
  <2>1. command[i] \in Lines /\ command[i][2] <= sent[command[i][1]]
    BY <1>7 DEF TypeOK, OncePut
  <2> QED BY <1>5, <2>1, NextIsNew
<1>8. ASSUME NEW k \in 1 .. Len(taken), taken[k] # NoCommand
      PROVE  taken[k][2] <= sent'[taken[k][1]] /\ taken[k] # line
  <2>1. taken[k] \in Lines /\ taken[k][2] <= sent[taken[k][1]]
    BY <1>8 DEF TypeOK, OncePut
  <2> QED BY <1>5, <2>1, NextIsNew
<1> HIDE DEF line
<1>9. /\ command'[coda'] = line
      /\ \A i \in Slots : i # coda' => command'[i] = command[i]
  BY <1>1 DEF TypeOK
<1>10. ASSUME NEW i \in Slots, command'[i] # NoCommand
       PROVE  /\ command'[i][2] <= sent'[command'[i][1]]
              /\ \A j \in Slots : i # j => command'[i] # command'[j]
              /\ \A k \in 1 .. Len(taken) : command'[i] # taken[k]
  <2>1. CASE i = coda'
    BY <1>4, <1>6, <1>7, <1>8, <1>9, <2>1, Zenon
  <2>2. CASE i # coda'
    <3>1. command'[i] = command[i] /\ command[i] # NoCommand
      BY <1>9, <1>10, <2>2
    <3> QED BY <1>7, <1>9, <2>2, <3>1, Zenon DEF OncePut
  <2> QED BY <2>1, <2>2
<1> QED BY <1>1, <1>8, <1>10, Zenon DEF OncePut, TakenOnce

\* Taking a line empties its slot.
LEMMA TakeOnce ==
  ASSUME TypeOK, OncePut, GetCommand
  PROVE  OncePut'
<1>1. /\ sent' = sent /\ taken' = Append(taken, command[testa])
      /\ command' = [command EXCEPT ![testa] = NoCommand]
  BY DEF GetCommand, Front, Cleared
<1>2. testa \in Slots /\ taken \in Seq(Lines \cup {NoCommand})
  BY DEF TypeOK
<1>3. /\ command'[testa] = NoCommand
      /\ \A i \in Slots : i # testa => command'[i] = command[i]
  BY <1>1, <1>2 DEF TypeOK
<1>4. /\ Len(taken') = Len(taken) + 1 /\ Len(taken) \in Nat
      /\ taken'[Len(taken) + 1] = command[testa]
      /\ \A k \in 1 .. Len(taken) : taken'[k] = taken[k]
  BY <1>1, <1>2
<1>5. \A k \in 1 .. Len(taken') : k \in 1 .. Len(taken) \/ taken'[k] = command[testa]
  BY <1>4
<1>6. ASSUME NEW i \in Slots, command'[i] # NoCommand
      PROVE  /\ command'[i][2] <= sent'[command'[i][1]]
             /\ \A j \in Slots : i # j => command'[i] # command'[j]
             /\ \A k \in 1 .. Len(taken') : command'[i] # taken'[k]
  <2>1. i # testa /\ command'[i] = command[i] /\ command[i] # NoCommand
    BY <1>3, <1>6
  <2>2. \A j \in Slots : i # j => command'[i] # command'[j]
    BY <1>3, <1>6, <2>1, Zenon DEF OncePut
  <2>3. \A k \in 1 .. Len(taken') : command'[i] # taken'[k]
    BY <1>2, <1>4, <1>5, <2>1, Zenon DEF OncePut
  <2>4. command'[i][2] <= sent'[command'[i][1]]
    BY <1>1, <2>1, Zenon DEF OncePut
  <2> QED BY <2>2, <2>3, <2>4
<1>7. ASSUME NEW k \in 1 .. Len(taken'), taken'[k] # NoCommand
      PROVE  taken'[k][2] <= sent'[taken'[k][1]]
  BY <1>1, <1>2, <1>4, <1>5, <1>7, Zenon DEF OncePut
<1>8. ASSUME NEW j \in 1 .. Len(taken'), NEW k \in 1 .. Len(taken'),
             j # k, taken'[j] # NoCommand
      PROVE  taken'[j] # taken'[k]
  <2>1. CASE j \in 1 .. Len(taken) /\ k \in 1 .. Len(taken)
    BY <1>4, <1>8, <2>1, Zenon DEF OncePut, TakenOnce
  <2>2. CASE j \in 1 .. Len(taken) /\ k \notin 1 .. Len(taken)
    BY <1>2, <1>4, <1>5, <1>8, <2>2, Zenon DEF OncePut
  <2>3. CASE j \notin 1 .. Len(taken)
    <3>1. k \in 1 .. Len(taken)
      <4>1. j = Len(taken) + 1
        BY <1>4, <2>3
      <4> QED BY <1>4, <1>8, <4>1
    <3> QED BY <1>2, <1>4, <1>5, <1>8, <2>3, <3>1, Zenon DEF OncePut
  <2> QED BY <2>1, <2>2, <2>3
<1> QED BY <1>6, <1>7, <1>8, Zenon DEF OncePut, TakenOnce

\* No line of a client is executed twice: neither after an overrun, when a
\* line was stored over one that waits, nor after the indices have wrapped
\* (Worker, GetCommand).
THEOREM NothingTakenTwice == Spec => []TakenOnce
<1>1. Init => OncePut
  <2> SUFFICES ASSUME Init PROVE OncePut
    OBVIOUS
  <2>1. taken = <<>> /\ \A i \in Slots : command[i] = NoCommand
    BY DEF Init
  <2>2. \A k \in 1 .. Len(taken) : FALSE
    BY <2>1
  <2> QED BY <2>1, <2>2, Zenon DEF OncePut, TakenOnce
<1>2. ASSUME TypeOK, WorkerOK, OncePut, [Next]_vars PROVE OncePut'
  <2>1. CASE GetCommand
    BY <1>2, <2>1, TakeOnce
  <2>2. ASSUME NEW w \in Workers, Insert(w) \/ Resume(w) PROVE OncePut'
    BY <1>2, <2>2, StoreOnce DEF Insert, Resume, WorkerOK
  <2>3. CASE UNCHANGED <<command, sent, taken>>
    BY <1>2, <2>3 DEF OncePut, TakenOnce
  <2>4. ASSUME NEW w \in Workers,
               Receive(w) \/ Disconnect(w) \/ Block(w) \/ SpuriousWakeup(w)
        PROVE  UNCHANGED <<command, sent, taken>>
    BY <2>4 DEF Receive, Disconnect, Block, SpuriousWakeup, buffer, history
  <2>5. CASE UNCHANGED vars
    BY <2>3, <2>5 DEF vars, buffer, history
  <2> QED BY <1>2, <2>1, <2>2, <2>3, <2>4, <2>5 DEF Next
<1>3. OncePut => TakenOnce
  BY DEF OncePut
<1> QED BY <1>1, <1>2, <1>3, TypeInit, TypeStep, PTL DEF Spec
==============================================================================
