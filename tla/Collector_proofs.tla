-------------------------- MODULE Collector_proofs --------------------------
(***************************************************************************)
(* Proofs about Collector, for every capacity, every set of channel        *)
(* workers and every use of collector_set_blocking.                        *)
(***************************************************************************)
EXTENDS Collector, SequenceTheorems, TLAPS

USE DEF ringVars, producerVars, consumerVars, controlVars, Full

LEMMA SlotFacts ==
  /\ 0 \in Slots
  /\ \A i \in Slots : NextSlot(i) \in Slots
BY CollectorAssumption DEF Slots, NextSlot

\* What the two ways to wake threads do to them: nobody goes to sleep.
LEMMA WakeAllTypes ==
  ASSUME CollectorTypeOK, WakeAll
  PROVE  /\ ppc' \in [Producers -> {"working", "waiting", "awake", "done"}]
         /\ \A p \in Producers : ppc'[p] \in {"waiting", "awake"} => sent[p] > 0
         /\ \A p \in Producers : ppc'[p] # "waiting"
         /\ cpc' \in {"popping", "waiting", "awake", "handling", "done"}
         /\ cpc' # "waiting"
BY DEF CollectorTypeOK, WakeAll

LEMMA WakeOneTypes ==
  ASSUME CollectorTypeOK, NEW p \in Producers, ppc[p] \in {"working", "awake"},
         WakeOne([ppc EXCEPT ![p] = "working"])
  PROVE  /\ ppc' \in [Producers -> {"working", "waiting", "awake", "done"}]
         /\ \A q \in Producers : ppc'[q] = "waiting" => ppc[q] = "waiting"
         /\ \A q \in Producers :
              ppc'[q] = "awake" => ppc[q] \in {"waiting", "awake"}
         /\ cpc' \in {"popping", "waiting", "awake", "handling", "done"}
         /\ cpc' = "waiting" => cpc = "waiting"
BY DEF CollectorTypeOK, WakeOne, Waiters

\* When nobody at all was waiting for room, the one woken is the consumer.
LEMMA WakeOneConsumer ==
  ASSUME NEW p \in Producers, Waiters = {},
         WakeOne([ppc EXCEPT ![p] = "working"])
  PROVE  cpc' # "waiting"
BY DEF WakeOne, Waiters

-----------------------------------------------------------------------------
(* Positions in the ring.  tail + i stays below twice the capacity, where the  *)
(* remainder is one subtraction.                                              *)

LEMMA Wrapped ==
  ASSUME NEW x \in 0 .. 2 * Capacity - 1
  PROVE  x % Capacity = IF x < Capacity THEN x ELSE x - Capacity
<1>1. Capacity \in Nat \ {0} /\ x \in Nat
  BY CollectorAssumption
<1>2. QED BY <1>1, Z3

-----------------------------------------------------------------------------
(* Types *)

\* An entry written at the head leaves a ring of the right type.
LEMMA StoreTypes ==
  ASSUME CollectorTypeOK, NEW p \in Producers, ppc[p] \in {"working", "awake"},
         sent' \in [Producers -> 0 .. MaxEvents], sent'[p] > 0, Store(p),
         \A q \in Producers : sent'[q] >= sent[q]
  PROVE  /\ buf' \in [Slots -> CollectorEvents \cup {NoEvent}]
         /\ head' \in Slots
         /\ stored' \in Nat
         /\ ppc' \in [Producers -> {"working", "waiting", "awake", "done"}]
         /\ cpc' \in {"popping", "waiting", "awake", "handling", "done"}
         /\ \A q \in Producers : ppc'[q] \in {"waiting", "awake"} => sent'[q] > 0
<1>1. <<p, sent'[p]>> \in CollectorEvents
  <2>1. sent'[p] \in 1 .. MaxEvents
    BY CollectorAssumption
  <2>2. QED BY <2>1 DEF CollectorEvents
<1>2. buf' \in [Slots -> CollectorEvents \cup {NoEvent}]
  BY <1>1 DEF CollectorTypeOK, Store
<1>3. head' \in Slots /\ stored' \in Nat
  BY SlotFacts DEF CollectorTypeOK, Store
<1>4. WakeOne([ppc EXCEPT ![p] = "working"])
  BY DEF Store
<1>5. \A q \in Producers : ppc'[q] \in {"waiting", "awake"} => sent'[q] > 0
  <2> SUFFICES ASSUME NEW q \in Producers, ppc'[q] \in {"waiting", "awake"}
               PROVE sent'[q] > 0
    OBVIOUS
  <2>1. sent[q] > 0
    BY <1>4, WakeOneTypes DEF CollectorTypeOK
  <2>2. QED BY <2>1, CollectorAssumption DEF CollectorTypeOK
<1>6. QED BY <1>2, <1>3, <1>4, <1>5, WakeOneTypes

LEMMA StepTypeOK == CollectorTypeOK /\ [CollectorNext]_collectorVars => CollectorTypeOK'
<1> SUFFICES ASSUME CollectorTypeOK, [CollectorNext]_collectorVars PROVE CollectorTypeOK'
  OBVIOUS
<1>1. ASSUME NEW p \in Producers, SubmitRoom(p) \/ SubmitOverOldest(p)
      PROVE CollectorTypeOK'
  <2>1. /\ ppc[p] = "working"
        /\ sent' \in [Producers -> 0 .. MaxEvents]
        /\ sent'[p] > 0
        /\ \A q \in Producers : sent'[q] >= sent[q]
        /\ Store(p)
    BY <1>1, CollectorAssumption DEF SubmitRoom, SubmitOverOldest, CollectorTypeOK
  <2>2. tail' \in Slots /\ count' \in 0 .. Capacity /\ dropped' \in Nat
    BY <1>1, SlotFacts, CollectorAssumption
       DEF SubmitRoom, SubmitOverOldest, CollectorTypeOK
  <2>3. UNCHANGED <<refused, popped, blocking, shutdown, spc>>
    BY <1>1 DEF SubmitRoom, SubmitOverOldest
  <2>4. QED BY <2>1, <2>2, <2>3, StoreTypes DEF CollectorTypeOK
<1>2. ASSUME NEW p \in Producers, SubmitAfterWait(p)
      PROVE CollectorTypeOK'
  <2>1. /\ ppc[p] = "awake"
        /\ sent' = sent
        /\ sent'[p] > 0
        /\ \A q \in Producers : sent'[q] >= sent[q]
        /\ Store(p)
    BY <1>2, CollectorAssumption DEF SubmitAfterWait, CollectorTypeOK
  <2>2. tail' = tail /\ count' \in 0 .. Capacity /\ dropped' = dropped
    BY <1>2, CollectorAssumption DEF SubmitAfterWait, CollectorTypeOK
  <2>3. UNCHANGED <<refused, popped, blocking, shutdown, spc>>
    BY <1>2 DEF SubmitAfterWait
  <2>4. QED BY <2>1, <2>2, <2>3, StoreTypes DEF CollectorTypeOK
<1>3. ASSUME NEW p \in Producers, SubmitWait(p)
      PROVE CollectorTypeOK'
  BY <1>3, CollectorAssumption DEF SubmitWait, CollectorTypeOK
<1>4. ASSUME NEW p \in Producers,
             GiveUp(p) \/ WaitOn(p) \/ Leave(p) \/ Timeout(p)
      PROVE CollectorTypeOK'
  BY <1>4 DEF GiveUp, WaitOn, Leave, Timeout, CollectorTypeOK
<1>5. CASE Pop
  BY <1>5, SlotFacts, CollectorAssumption DEF Pop, PopWakes, CollectorTypeOK
<1>6. CASE PopEnd \/ PopWait \/ Process \/ SpuriousWakeup
  BY <1>6 DEF PopEnd, PopWait, Process, SpuriousWakeup, CollectorTypeOK
<1>7. ASSUME NEW b \in Modes, SetBlocking(b)
      PROVE CollectorTypeOK'
  BY <1>7, WakeAllTypes, CollectorAssumption DEF SetBlocking, CollectorTypeOK
<1>8. CASE RequestStop
  BY <1>8 DEF RequestStop, CollectorTypeOK
<1>9. CASE Wake
  BY <1>9, WakeAllTypes DEF Wake, CollectorTypeOK
<1>10. CASE UNCHANGED collectorVars
  BY <1>10 DEF collectorVars, CollectorTypeOK
<1>11. QED
  BY <1>1, <1>2, <1>3, <1>4, <1>5, <1>6, <1>7, <1>8, <1>9, <1>10
     DEF CollectorNext, CollectorSubmit, Consumer

\* Every variable keeps its type; the ring's indices stay inside the buffer.
THEOREM TypeCorrect == CollectorSpec => []CollectorTypeOK
<1>1. ASSUME CollectorInit PROVE CollectorTypeOK
  <2>1. buf \in [Slots -> CollectorEvents \cup {NoEvent}] /\ head \in Slots /\ tail \in Slots
    BY <1>1, SlotFacts DEF CollectorInit
  <2>2. 0 \in 0 .. Capacity /\ 0 \in 0 .. MaxEvents
    BY CollectorAssumption
  <2>3. sent \in [Producers -> 0 .. MaxEvents]
    BY <1>1, <2>2 DEF CollectorInit
  <2>4. count \in 0 .. Capacity /\ spc \in 0 .. 2
    BY <1>1, <2>2 DEF CollectorInit
  <2>5. \A p \in Producers : ppc[p] = "working"
    BY <1>1 DEF CollectorInit
  <2>6. /\ ppc \in [Producers -> {"working", "waiting", "awake", "done"}]
        /\ refused \in [Producers -> Nat]
        /\ dropped \in Nat /\ popped \in Nat /\ stored \in Nat
        /\ cpc \in {"popping", "waiting", "awake", "handling", "done"}
    BY <1>1 DEF CollectorInit
  <2>7. blocking \in BOOLEAN /\ shutdown \in BOOLEAN
    BY <1>1 DEF CollectorInit
  <2>8. QED BY <2>1, <2>3, <2>4, <2>5, <2>6, <2>7 DEF CollectorTypeOK
<1>2. QED BY <1>1, StepTypeOK, PTL DEF CollectorSpec

-----------------------------------------------------------------------------
(* No lost wakeup *)

\* While the consumer waits the ring is empty, so no producer waits; while a
\* producer waits the ring is full, so the consumer does not.
LEMMA OneKindWaits ==
  CollectorTypeOK /\ NoLostWakeup /\ cpc = "waiting" => Waiters = {}
BY CollectorAssumption DEF CollectorTypeOK, NoLostWakeup, Waiters

LEMMA StepNoLostWakeup ==
  CollectorTypeOK /\ NoLostWakeup /\ [CollectorNext]_collectorVars => NoLostWakeup'
<1> SUFFICES ASSUME CollectorTypeOK, NoLostWakeup, [CollectorNext]_collectorVars
             PROVE  NoLostWakeup'
  OBVIOUS
<1>a. count \in 0 .. Capacity /\ Capacity \in Nat \ {0}
  BY CollectorAssumption DEF CollectorTypeOK
<1>1. ASSUME NEW p \in Producers,
             SubmitRoom(p) \/ SubmitOverOldest(p) \/ SubmitAfterWait(p)
      PROVE NoLostWakeup'
  <2>1. ppc[p] \in {"working", "awake"} /\ WakeOne([ppc EXCEPT ![p] = "working"])
    BY <1>1 DEF SubmitRoom, SubmitOverOldest, SubmitAfterWait, Store
  \* A consumer that waited has the signal, for nobody else could get it.
  <2>2. cpc' # "waiting"
    BY <2>1, WakeOneTypes, WakeOneConsumer, OneKindWaits
  \* A producer that still waits waited before: the ring was full, and is.
  <2>3. ASSUME NEW q \in Producers, ppc'[q] = "waiting"
        PROVE count' = Capacity
    <3>1. ppc[q] = "waiting" /\ count = Capacity
      BY <2>1, <2>3, WakeOneTypes DEF NoLostWakeup
    <3>2. QED
      BY <1>1, <3>1 DEF SubmitRoom, SubmitOverOldest, SubmitAfterWait
  <2>4. QED BY <2>2, <2>3 DEF NoLostWakeup
<1>2. ASSUME NEW p \in Producers,
             \/ SubmitWait(p) \/ Timeout(p) \/ GiveUp(p) \/ WaitOn(p) \/ Leave(p)
      PROVE NoLostWakeup'
  BY <1>2 DEF SubmitWait, Timeout, GiveUp, WaitOn, Leave, NoLostWakeup, CollectorTypeOK
<1>3. CASE Pop
  BY <1>3 DEF Pop, PopWakes, NoLostWakeup
<1>4. CASE PopEnd \/ PopWait \/ Process \/ SpuriousWakeup
  BY <1>4 DEF PopEnd, PopWait, Process, SpuriousWakeup, NoLostWakeup
<1>5. CASE Wake \/ \E b \in Modes : SetBlocking(b)
  <2>1. WakeAll
    BY <1>5 DEF Wake, SetBlocking
  <2>2. QED BY <2>1, WakeAllTypes DEF NoLostWakeup
<1>6. CASE RequestStop \/ UNCHANGED collectorVars
  BY <1>6 DEF RequestStop, collectorVars, NoLostWakeup
<1>7. QED
  BY <1>1, <1>2, <1>3, <1>4, <1>5, <1>6 DEF CollectorNext, CollectorSubmit, Consumer

\* A thread that waits unsignalled has nothing to do, for any number of
\* producers, although a submit signals only one of the threads that wait.
THEOREM NoWakeupIsLost == CollectorSpec => []NoLostWakeup
<1>1. CollectorInit => NoLostWakeup
  BY DEF CollectorInit, NoLostWakeup
<1>2. QED BY <1>1, StepNoLostWakeup, TypeCorrect, PTL DEF CollectorSpec

-----------------------------------------------------------------------------
(* Accounting *)

LEMMA StepLedger == CollectorTypeOK /\ Ledger /\ [CollectorNext]_collectorVars => Ledger'
<1> SUFFICES ASSUME CollectorTypeOK, Ledger, [CollectorNext]_collectorVars PROVE Ledger'
  OBVIOUS
<1>a. count \in Nat /\ dropped \in Nat /\ popped \in Nat /\ stored \in Nat
  BY CollectorAssumption DEF CollectorTypeOK
<1>1. ASSUME NEW p \in Producers, CollectorSubmit(p) \/ Timeout(p)
      PROVE Ledger'
  BY <1>1, <1>a DEF CollectorSubmit, SubmitRoom, SubmitOverOldest, SubmitWait, GiveUp,
     WaitOn, SubmitAfterWait, Leave, Timeout, Store, Ledger
<1>2. CASE Consumer \/ SpuriousWakeup
  BY <1>2, <1>a DEF Consumer, Pop, PopEnd, PopWait, Process, SpuriousWakeup, Ledger
<1>3. CASE \/ \E b \in Modes : SetBlocking(b)
           \/ RequestStop \/ Wake \/ UNCHANGED collectorVars
  BY <1>3 DEF SetBlocking, RequestStop, Wake, collectorVars, Ledger
<1>4. QED BY <1>1, <1>2, <1>3 DEF CollectorNext

\* No event that got into the ring disappears without being counted.
THEOREM LedgerBalances == CollectorSpec => []Ledger
<1>1. CollectorInit => Ledger
  BY DEF CollectorInit, Ledger
<1>2. QED BY <1>1, StepLedger, TypeCorrect, PTL DEF CollectorSpec

-----------------------------------------------------------------------------
(* The ring implements the queue *)

RingIsSeq ==
  /\ Ring \in Seq(CollectorEvents \cup {NoEvent})
  /\ Len(Ring) = count
  /\ \A i \in 1 .. count : Ring[i] = buf[(tail + i - 1) % Capacity]

LEMMA RingShape == CollectorTypeOK => RingIsSeq
<1> SUFFICES ASSUME CollectorTypeOK PROVE RingIsSeq
  OBVIOUS
<1>1. count \in Nat /\ tail \in Nat /\ Capacity \in Nat \ {0}
  BY CollectorAssumption DEF CollectorTypeOK, Slots
<1>2. \A i \in 1 .. count : (tail + i - 1) % Capacity \in Slots
  BY <1>1, Z3 DEF Slots
<1>3. Ring \in [1 .. count -> CollectorEvents \cup {NoEvent}]
  BY <1>2 DEF Ring, CollectorTypeOK
<1>4. Ring \in Seq(CollectorEvents \cup {NoEvent})
  BY <1>1, <1>3
<1>5. 1 .. Len(Ring) = 1 .. count /\ Len(Ring) \in Nat
  BY <1>3, <1>4, LenProperties
<1>6. Len(Ring) = count
  BY <1>1, <1>5
<1>7. QED
  BY <1>4, <1>6 DEF Ring, RingIsSeq

\* Where the ring continues, and that no queued entry is there yet.
LEMMA RingPositions ==
  ASSUME CollectorTypeOK, CollectorRingInv
  PROVE  /\ count < Capacity => NextSlot(head) = (tail + count + 1) % Capacity
         /\ \A i \in 1 .. count : count < Capacity =>
              (tail + i - 1) % Capacity # head
         /\ count = Capacity => head = tail
         /\ NextSlot(tail) = (tail + 1) % Capacity
         /\ \A i \in 1 .. Capacity :
              (NextSlot(tail) + i - 1) % Capacity = (tail + i) % Capacity
         /\ count > 0 => head = (NextSlot(tail) + count - 1) % Capacity
<1>1. /\ count \in 0 .. Capacity /\ tail \in 0 .. Capacity - 1
      /\ Capacity \in Nat \ {0}
  BY CollectorAssumption DEF CollectorTypeOK, Slots
<1>2. head = IF tail + count < Capacity THEN tail + count ELSE tail + count - Capacity
  <2>1. tail + count \in 0 .. 2 * Capacity - 1
    BY <1>1
  <2>2. QED BY <1>1, <2>1, Wrapped DEF CollectorRingInv
<1>3. ASSUME NEW i \in 1 .. Capacity + 1
      PROVE (tail + i - 1) % Capacity
              = IF tail + i - 1 < Capacity THEN tail + i - 1 ELSE tail + i - 1 - Capacity
  <2>1. PICK x \in 0 .. 2 * Capacity - 1 : x = tail + i - 1
    BY <1>1
  <2>2. x % Capacity = IF x < Capacity THEN x ELSE x - Capacity
    BY Wrapped
  <2>3. QED BY <1>1, <2>1, <2>2
<1>4. NextSlot(head) = IF head + 1 < Capacity THEN head + 1 ELSE head + 1 - Capacity
  <2>a. head + 1 \in 0 .. 2 * Capacity - 1
    BY <1>1, <1>2
  <2>1. PICK x \in 0 .. 2 * Capacity - 1 : x = head + 1
    BY <2>a
  <2>2. x % Capacity = IF x < Capacity THEN x ELSE x - Capacity
    BY Wrapped
  <2>3. QED BY <1>1, <1>2, <2>1, <2>2 DEF NextSlot
<1>5. NextSlot(tail) = IF tail + 1 < Capacity THEN tail + 1 ELSE tail + 1 - Capacity
  <2>1. PICK x \in 0 .. 2 * Capacity - 1 : x = tail + 1
    BY <1>1
  <2>2. x % Capacity = IF x < Capacity THEN x ELSE x - Capacity
    BY Wrapped
  <2>3. QED BY <1>1, <1>2, <2>1, <2>2 DEF NextSlot
<1>6. NextSlot(tail) = (tail + 1) % Capacity
  BY DEF NextSlot
<1>7. ASSUME count < Capacity
      PROVE NextSlot(head) = (tail + count + 1) % Capacity
  <2>1. PICK x \in 0 .. 2 * Capacity - 1 : x = tail + count + 1
    BY <1>1, <1>7
  <2>2. x % Capacity = IF x < Capacity THEN x ELSE x - Capacity
    BY Wrapped
  <2>3. QED BY <1>1, <1>2, <1>4, <1>7, <2>1, <2>2
<1>8. ASSUME NEW i \in 1 .. Capacity
      PROVE (NextSlot(tail) + i - 1) % Capacity = (tail + i) % Capacity
  <2>1. PICK x \in 0 .. 2 * Capacity - 1 : x = NextSlot(tail) + i - 1
    BY <1>1, <1>5
  <2>2. PICK y \in 0 .. 2 * Capacity - 1 : y = tail + i
    BY <1>1
  <2>3. /\ x % Capacity = IF x < Capacity THEN x ELSE x - Capacity
        /\ y % Capacity = IF y < Capacity THEN y ELSE y - Capacity
    BY Wrapped
  <2>4. QED BY <1>1, <1>5, <2>1, <2>2, <2>3
<1>9. ASSUME count > 0
      PROVE head = (NextSlot(tail) + count - 1) % Capacity
  BY <1>1, <1>8, <1>9 DEF CollectorRingInv
<1>10. ASSUME NEW i \in 1 .. count, count < Capacity
       PROVE (tail + i - 1) % Capacity # head
  <2>1. i \in 1 .. Capacity + 1
    BY <1>1
  <2>2. QED BY <1>1, <1>2, <1>3, <1>10, <2>1
<1>11. count = Capacity => head = tail
  BY <1>1, <1>2
<1>12. QED BY <1>6, <1>7, <1>8, <1>9, <1>10, <1>11

LEMMA StepRingInv ==
  CollectorTypeOK /\ CollectorRingInv /\ [CollectorNext]_collectorVars
    => CollectorRingInv'
<1> SUFFICES ASSUME CollectorTypeOK, CollectorRingInv, [CollectorNext]_collectorVars
             PROVE  CollectorRingInv'
  OBVIOUS
<1>a. count \in 0 .. Capacity /\ tail \in Nat /\ Capacity \in Nat \ {0}
  BY CollectorAssumption DEF CollectorTypeOK, Slots
<1>1. ASSUME NEW p \in Producers, SubmitRoom(p) \/ SubmitAfterWait(p)
      PROVE CollectorRingInv'
  <2>1. head' = NextSlot(head) /\ count' = count + 1 /\ tail' = tail /\ count < Capacity
    BY <1>1, <1>a DEF SubmitRoom, SubmitAfterWait, Store
  <2>2. QED BY <1>a, <2>1, RingPositions DEF CollectorRingInv
<1>2. ASSUME NEW p \in Producers, SubmitOverOldest(p)
      PROVE CollectorRingInv'
  <2>1. head' = NextSlot(head) /\ count' = count /\ tail' = NextSlot(tail) /\ count = Capacity
    BY <1>2 DEF SubmitOverOldest, Store
  <2>2. (NextSlot(tail) + Capacity - 1) % Capacity = head
    BY <1>a, <2>1, RingPositions
  <2>3. NextSlot(head) \in Slots
    BY SlotFacts DEF CollectorTypeOK
  <2>4. (NextSlot(head) + Capacity) \in 0 .. 2 * Capacity - 1
    BY <1>a, <2>3 DEF Slots
  <2>5. (NextSlot(head) + Capacity) % Capacity = NextSlot(head)
    BY <1>a, <2>3, <2>4, Wrapped DEF Slots
  <2>6. QED BY <2>1, <2>5, RingPositions DEF CollectorRingInv
<1>3. ASSUME NEW p \in Producers,
             \/ SubmitWait(p) \/ Timeout(p) \/ GiveUp(p) \/ WaitOn(p) \/ Leave(p)
      PROVE CollectorRingInv'
  BY <1>3 DEF SubmitWait, Timeout, GiveUp, WaitOn, Leave, CollectorRingInv
<1>4. CASE Pop
  <2>1. tail' = NextSlot(tail) /\ count' = count - 1 /\ head' = head /\ count > 0
    BY <1>4 DEF Pop
  <2>2. tail' + count' = NextSlot(tail) + count - 1
    BY <1>a, <2>1, SlotFacts DEF CollectorTypeOK, Slots
  <2>3. QED BY <2>1, <2>2, RingPositions DEF CollectorRingInv
<1>5. CASE PopEnd \/ PopWait \/ Process \/ SpuriousWakeup
  BY <1>5 DEF PopEnd, PopWait, Process, SpuriousWakeup, CollectorRingInv
<1>6. CASE \/ \E b \in Modes : SetBlocking(b)
           \/ RequestStop \/ Wake \/ UNCHANGED collectorVars
  BY <1>6 DEF SetBlocking, RequestStop, Wake, collectorVars, CollectorRingInv
<1>7. QED
  BY <1>1, <1>2, <1>3, <1>4, <1>5, <1>6 DEF CollectorNext, CollectorSubmit, Consumer

\* An entry stored at the head is the newest of the queue; over a full ring it
\* takes the place of the oldest.
LEMMA StoredIsPut ==
  ASSUME CollectorTypeOK, CollectorRingInv, CollectorTypeOK', NEW e \in CollectorEvents,
         buf' = [buf EXCEPT ![head] = e], count' = count + 1, tail' = tail
  PROVE  Len(Ring) < Capacity /\ Ring' = Append(Ring, e)
<1> DEFINE S == CollectorEvents \cup {NoEvent}
<1>r. RingIsSeq
  BY RingShape
<1>s. RingIsSeq'
  BY RingShape, PTL
<1>1. /\ count \in 0 .. Capacity /\ count' \in 0 .. Capacity
      /\ count' = count + 1 /\ Capacity \in Nat \ {0}
  BY CollectorAssumption DEF CollectorTypeOK
<1>2. Ring \in Seq(S) /\ Len(Ring) = count
  BY <1>r DEF RingIsSeq
<1>3. /\ Ring' \in Seq(S) /\ Len(Ring') = count'
      /\ \A i \in 1 .. count' : Ring'[i] = buf'[(tail + i - 1) % Capacity]
  BY <1>s DEF RingIsSeq
<1>4. Append(Ring, e) \in Seq(S) /\ Len(Append(Ring, e)) = count + 1
  BY <1>2, AppendProperties
<1>5. ASSUME NEW i \in 1 .. count + 1
      PROVE  Ring'[i] = Append(Ring, e)[i]
  <2>1. CASE i = count + 1
    <3>1. tail \in Nat /\ tail + i - 1 = tail + count
      BY <1>1, <2>1 DEF CollectorTypeOK, Slots
    <3>2. (tail + i - 1) % Capacity = head
      BY <3>1 DEF CollectorRingInv
    <3>3. QED BY <1>1, <1>2, <1>3, <2>1, <3>2, AppendProperties DEF CollectorTypeOK
  <2>2. CASE i # count + 1
    <3>1. i \in 1 .. count /\ count < Capacity
      BY <1>1, <2>2
    <3>2. (tail + i - 1) % Capacity # head
      BY <3>1, RingPositions
    <3>3. Ring'[i] = buf[(tail + i - 1) % Capacity]
      <4>1. Ring[i] = buf[(tail + i - 1) % Capacity]
        BY <3>1, <1>r DEF RingIsSeq
      <4>2. (tail + i - 1) % Capacity \in Slots
        BY <1>1, <3>1, Z3 DEF CollectorTypeOK, Slots
      <4>3. QED BY <1>1, <1>3, <3>2, <4>2 DEF CollectorTypeOK
    <3>4. Ring[i] = buf[(tail + i - 1) % Capacity]
      BY <3>1, <1>r DEF RingIsSeq
    <3>5. QED BY <1>2, <3>1, <3>3, <3>4, AppendProperties
  <2>3. QED BY <2>1, <2>2
<1>6. QED
  <2>1. Len(Ring') = Len(Append(Ring, e))
    BY <1>1, <1>3, <1>4
  <2>2. \A i \in 1 .. Len(Ring') : Ring'[i] = Append(Ring, e)[i]
    BY <1>1, <1>3, <1>5
  <2>3. Ring' = Append(Ring, e)
    BY <1>3, <1>4, <2>1, <2>2, SeqEqual
  <2>4. QED BY <1>1, <1>2, <2>3

LEMMA PoppedIsTaken ==
  ASSUME CollectorTypeOK, CollectorRingInv, CollectorTypeOK', count > 0,
         buf' = buf, count' = count - 1, tail' = NextSlot(tail)
  PROVE  Ring # <<>> /\ Ring' = Tail(Ring)
<1> DEFINE S == CollectorEvents \cup {NoEvent}
<1>r. RingIsSeq
  BY RingShape
<1>s. RingIsSeq'
  BY RingShape, PTL
<1>1. count \in 1 .. Capacity /\ Capacity \in Nat \ {0}
  BY CollectorAssumption DEF CollectorTypeOK
<1>2. Ring \in Seq(S) /\ Len(Ring) = count
  BY <1>r DEF RingIsSeq
<1>3. Ring # <<>>
  BY <1>1, <1>2, EmptySeq
<1>4. /\ Ring' \in Seq(S) /\ Len(Ring') = count - 1
      /\ \A i \in 1 .. count - 1 : Ring'[i] = buf[(NextSlot(tail) + i - 1) % Capacity]
  BY <1>s DEF RingIsSeq
<1>5. Tail(Ring) \in Seq(S) /\ Len(Tail(Ring)) = count - 1
      /\ \A i \in 1 .. count - 1 : Tail(Ring)[i] = Ring[i + 1]
  BY <1>2, <1>3, HeadTailProperties
<1>6. ASSUME NEW i \in 1 .. count - 1
      PROVE  Ring'[i] = Tail(Ring)[i]
  <2>1. i \in 1 .. Capacity /\ i + 1 \in 1 .. count
    BY <1>1
  <2>2. Ring'[i] = buf[(tail + i) % Capacity]
    BY <1>4, <2>1, RingPositions
  <2>3. Ring[i + 1] = buf[(tail + (i + 1) - 1) % Capacity]
    BY <2>1, <1>r DEF RingIsSeq
  <2>4. tail + (i + 1) - 1 = tail + i
    BY <2>1 DEF CollectorTypeOK, Slots
  <2>5. QED BY <1>5, <2>2, <2>3, <2>4
<1>7. QED
  <2>1. Ring' = Tail(Ring)
    BY <1>4, <1>5, <1>6, SeqEqual
  <2>2. QED BY <1>3, <2>1

LEMMA StoredIsPutOverOldest ==
  ASSUME CollectorTypeOK, CollectorRingInv, CollectorTypeOK', NEW e \in CollectorEvents,
         buf' = [buf EXCEPT ![head] = e], count' = count, count = Capacity,
         tail' = NextSlot(tail)
  PROVE  Len(Ring) = Capacity /\ Ring' = Append(Tail(Ring), e)
<1> DEFINE S == CollectorEvents \cup {NoEvent}
<1>r. RingIsSeq
  BY RingShape
<1>s. RingIsSeq'
  BY RingShape, PTL
<1>1. count = Capacity /\ Capacity \in Nat \ {0} /\ tail \in 0 .. Capacity - 1
  BY CollectorAssumption DEF CollectorTypeOK, Slots
<1>2. Ring \in Seq(S) /\ Len(Ring) = count
  BY <1>r DEF RingIsSeq
<1>3. Ring # <<>>
  BY <1>1, <1>2, EmptySeq
<1>4. /\ Ring' \in Seq(S) /\ Len(Ring') = Capacity
      /\ \A i \in 1 .. Capacity : Ring'[i] = buf'[(NextSlot(tail) + i - 1) % Capacity]
  BY <1>1, <1>s DEF RingIsSeq
<1>5. Tail(Ring) \in Seq(S) /\ Len(Tail(Ring)) = Capacity - 1
      /\ \A i \in 1 .. Capacity - 1 : Tail(Ring)[i] = Ring[i + 1]
  BY <1>1, <1>2, <1>3, HeadTailProperties
<1>6. /\ Append(Tail(Ring), e) \in Seq(S)
      /\ Len(Append(Tail(Ring), e)) = Capacity
      /\ \A i \in 1 .. Capacity - 1 : Append(Tail(Ring), e)[i] = Tail(Ring)[i]
      /\ Append(Tail(Ring), e)[Capacity] = e
  BY <1>1, <1>5, AppendProperties
<1>7. ASSUME NEW i \in 1 .. Capacity
      PROVE  Ring'[i] = Append(Tail(Ring), e)[i]
  <2>1. Ring'[i] = buf'[(tail + i) % Capacity]
    BY <1>4, RingPositions
  <2>2. PICK x \in 0 .. 2 * Capacity - 1 : x = tail + i
    BY <1>1
  <2>3. x % Capacity = IF x < Capacity THEN x ELSE x - Capacity
    BY Wrapped
  <2>4. head = tail
    BY <1>1, RingPositions
  <2>5. CASE i = Capacity
    <3>1. (tail + i) % Capacity = head
      BY <1>1, <2>2, <2>3, <2>4, <2>5
    <3>2. QED BY <1>6, <2>1, <2>5, <3>1 DEF CollectorTypeOK
  <2>6. CASE i # Capacity
    <3>1. i \in 1 .. Capacity - 1 /\ i + 1 \in 1 .. count
      BY <1>1, <2>6
    <3>2. (tail + i) % Capacity # head /\ (tail + i) % Capacity \in Slots
      BY <1>1, <2>2, <2>3, <2>4, <3>1 DEF Slots
    <3>3. Ring[i + 1] = buf[(tail + (i + 1) - 1) % Capacity]
      BY <3>1, <1>r DEF RingIsSeq
    <3>4. tail + (i + 1) - 1 = tail + i
      BY <1>1, <3>1
    <3>5. QED BY <1>5, <1>6, <2>1, <3>1, <3>2, <3>3, <3>4 DEF CollectorTypeOK
  <2>7. QED BY <2>5, <2>6
<1>8. QED
  <2>1. Ring' = Append(Tail(Ring), e)
    BY <1>1, <1>4, <1>6, <1>7, SeqEqual
  <2>2. QED BY <1>1, <1>2, <2>1

\* One step of the collector is one step of the queue, or none.
LEMMA StepImplements ==
  CollectorTypeOK /\ CollectorRingInv /\ CollectorTypeOK' /\ [CollectorNext]_collectorVars
    => [Queue!Next]_(Queue!vars)
<1> SUFFICES ASSUME CollectorTypeOK, CollectorRingInv, CollectorTypeOK', [CollectorNext]_collectorVars
             PROVE [Queue!Next]_(Queue!vars)
  OBVIOUS
<1>1. ASSUME NEW p \in Producers, SubmitRoom(p) \/ SubmitAfterWait(p)
      PROVE Queue!Next
  <2>1. <<p, sent'[p]>> \in CollectorEvents
    <3>1. sent'[p] \in 1 .. MaxEvents
      BY <1>1, CollectorAssumption DEF SubmitRoom, SubmitAfterWait, CollectorTypeOK
    <3>2. QED BY <3>1 DEF CollectorEvents
  <2>2. /\ buf' = [buf EXCEPT ![head] = <<p, sent'[p]>>]
        /\ count' = count + 1 /\ tail' = tail
        /\ UNCHANGED <<dropped, popped>>
    BY <1>1 DEF SubmitRoom, SubmitAfterWait, Store
  <2>3. Queue!Put(<<p, sent'[p]>>)
    BY <2>1, <2>2, StoredIsPut DEF Queue!Put
  <2>4. QED BY <2>1, <2>3 DEF Queue!Next
<1>2. ASSUME NEW p \in Producers, SubmitOverOldest(p)
      PROVE Queue!Next
  <2>1. <<p, sent'[p]>> \in CollectorEvents
    <3>1. sent'[p] \in 1 .. MaxEvents
      BY <1>2, CollectorAssumption DEF SubmitOverOldest, CollectorTypeOK
    <3>2. QED BY <3>1 DEF CollectorEvents
  <2>2. /\ buf' = [buf EXCEPT ![head] = <<p, sent'[p]>>]
        /\ count' = count /\ count = Capacity /\ tail' = NextSlot(tail)
        /\ dropped' = dropped + 1 /\ UNCHANGED popped
    BY <1>2 DEF SubmitOverOldest, Store
  <2>3. Queue!PutOverOldest(<<p, sent'[p]>>)
    BY <2>1, <2>2, StoredIsPutOverOldest DEF Queue!PutOverOldest
  <2>4. QED BY <2>1, <2>3 DEF Queue!Next
<1>3. CASE Pop
  <2>1. /\ buf' = buf /\ count' = count - 1 /\ count > 0
        /\ tail' = NextSlot(tail) /\ popped' = popped + 1 /\ UNCHANGED dropped
    BY <1>3 DEF Pop
  <2>2. Queue!Take
    BY <2>1, PoppedIsTaken DEF Queue!Take
  <2>3. QED BY <2>2 DEF Queue!Next
<1>4. ASSUME UNCHANGED <<buf, tail, count, dropped, popped>>
      PROVE UNCHANGED Queue!vars
  BY <1>4 DEF Queue!vars, Ring
<1>5. ASSUME NEW p \in Producers,
             \/ SubmitWait(p) \/ Timeout(p) \/ GiveUp(p) \/ WaitOn(p) \/ Leave(p)
      PROVE UNCHANGED Queue!vars
  BY <1>4, <1>5 DEF SubmitWait, Timeout, GiveUp, WaitOn, Leave
<1>6. CASE \/ PopEnd \/ PopWait \/ Process \/ SpuriousWakeup
           \/ \E b \in Modes : SetBlocking(b)
           \/ RequestStop \/ Wake \/ UNCHANGED collectorVars
  <2>1. UNCHANGED <<buf, tail, count, dropped, popped>>
    BY <1>6 DEF PopEnd, PopWait, Process, SpuriousWakeup, SetBlocking,
       RequestStop, Wake, collectorVars
  <2>2. UNCHANGED Queue!vars
    BY <1>4, <2>1
  <2>3. QED BY <2>2
<1>7. QED
  BY <1>1, <1>2, <1>3, <1>5, <1>6 DEF CollectorNext, CollectorSubmit, Consumer

\* collector.c keeps what EventQueue promises, for any number of workers and in
\* both modes: first in first out, the newest survive, losses are counted.
THEOREM CollectorIsQueue == CollectorSpec => ImplementsQueue
<1>1. CollectorInit => CollectorRingInv
  <2>1. 0 % Capacity = 0
    BY CollectorAssumption, Wrapped
  <2>2. QED BY <2>1 DEF CollectorInit, CollectorRingInv
<1>2. CollectorInit => Queue!Init
  BY DEF CollectorInit, Queue!Init, Ring
<1>3. QED
  BY <1>1, <1>2, StepRingInv, StepImplements, TypeCorrect, PTL
     DEF CollectorSpec, ImplementsQueue, Queue!Spec
=============================================================================
