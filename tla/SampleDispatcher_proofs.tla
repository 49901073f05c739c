----------------------- MODULE SampleDispatcher_proofs -----------------------
(***************************************************************************)
(* Proofs about SampleDispatcher, for every pool size, queue capacity,     *)
(* number of readers and length of the capture, in both modes.             *)
(***************************************************************************)
EXTENDS SampleDispatcher, FiniteSetTheorems, SequenceTheorems, TLAPS

USE DEF readerVars, IsFree, IndexAfter, Acquired, Released, SeenFull,
        Enqueued, FirstReader, CaptureRead

LEMMA BlockFacts ==
  /\ NoBlock \notin Blocks
  /\ Blocks \subseteq Nat
  /\ \A n \in Nat : n % NBlocks \in Blocks
  /\ 0 \in Blocks
BY DispatcherAssumption DEF Blocks, NoBlock

\* Every variable keeps its type.
LEMMA InitTypeOK == Init => TypeOK
<1> SUFFICES ASSUME Init PROVE TypeOK
  OBVIOUS
<1>1. PoolTypeOK BY BlockFacts DEF Init, PoolTypeOK
<1>2. ReaderTypeOK BY DEF Init, ReaderTypeOK
<1>3. ProducerTypeOK
  BY BlockFacts, DispatcherAssumption DEF Init, ProducerTypeOK
<1>4. ControlTypeOK
  <2>1. spc \in 0 .. NReaders + 1 /\ dpc \in 0 .. NBlocks
    BY DispatcherAssumption DEF Init
  <2>2. QED BY <2>1 DEF Init, ControlTypeOK
<1>5. QED BY <1>1, <1>2, <1>3, <1>4 DEF TypeOK

LEMMA StepTypeOK == TypeOK /\ [Next]_vars => TypeOK'
<1> SUFFICES ASSUME TypeOK, [Next]_vars PROVE TypeOK'
  OBVIOUS
<1>a. PoolTypeOK /\ ReaderTypeOK /\ ProducerTypeOK /\ ControlTypeOK
  BY DEF TypeOK
<1>1. CASE NextChunk
  <2>1. PoolTypeOK'
    BY <1>a, <1>1 DEF NextChunk, controlVars, PoolTypeOK
  <2>2. ReaderTypeOK'
    BY <1>a, <1>1 DEF NextChunk, controlVars, ReaderTypeOK
  <2>3. ProducerTypeOK'
    BY <1>a, <1>1, DispatcherAssumption DEF NextChunk, controlVars, ProducerTypeOK
  <2>4. ControlTypeOK'
    BY <1>a, <1>1 DEF NextChunk, controlVars, ControlTypeOK
  <2>5. QED BY <2>1, <2>2, <2>3, <2>4 DEF TypeOK
<1>2. CASE Finish
  <2>1. PoolTypeOK'
    BY <1>a, <1>2 DEF Finish, controlVars, PoolTypeOK
  <2>2. ReaderTypeOK'
    BY <1>a, <1>2 DEF Finish, controlVars, ReaderTypeOK
  <2>3. ProducerTypeOK'
    BY <1>a, <1>2 DEF Finish, controlVars, ProducerTypeOK
  <2>4. ControlTypeOK'
    BY <1>a, <1>2 DEF Finish, controlVars, ControlTypeOK
  <2>5. QED BY <2>1, <2>2, <2>3, <2>4 DEF TypeOK
<1>3. CASE ScanBlock
  <2>1. PoolTypeOK'
    BY <1>a, <1>3 DEF ScanBlock, controlVars, PoolTypeOK
  <2>2. ReaderTypeOK'
    BY <1>a, <1>3 DEF ScanBlock, controlVars, ReaderTypeOK
  <2>3. ProducerTypeOK'
    <3>1. Candidate \in Blocks
      <4>1. nextIdx + scan \in Nat
        BY <1>a, BlockFacts DEF PoolTypeOK, ProducerTypeOK
      <4>2. QED BY <4>1, BlockFacts DEF Candidate
    <3>2. scan' \in 0 .. NBlocks
      BY <1>a, <1>3, DispatcherAssumption DEF ScanBlock, ProducerTypeOK
    <3>3. QED
      BY <1>a, <1>3, <3>1, <3>2, BlockFacts
         DEF ScanBlock, controlVars, ProducerTypeOK
  <2>4. ControlTypeOK'
    BY <1>a, <1>3 DEF ScanBlock, controlVars, ControlTypeOK
  <2>5. QED BY <2>1, <2>2, <2>3, <2>4 DEF TypeOK
<1>4. CASE ClaimBlock
  <2>1. PoolTypeOK'
    BY <1>a, <1>4, BlockFacts DEF ClaimBlock, controlVars, PoolTypeOK, ProducerTypeOK
  <2>2. ReaderTypeOK'
    BY <1>a, <1>4 DEF ClaimBlock, controlVars, ReaderTypeOK
  <2>3. ProducerTypeOK'
    BY <1>a, <1>4 DEF ClaimBlock, controlVars, ProducerTypeOK
  <2>4. ControlTypeOK'
    BY <1>a, <1>4 DEF ClaimBlock, controlVars, ControlTypeOK
  <2>5. QED BY <2>1, <2>2, <2>3, <2>4 DEF TypeOK
<1>5. CASE PoolExhaustedLive
  <2>1. PoolTypeOK'
    BY <1>a, <1>5 DEF PoolExhaustedLive, controlVars, PoolTypeOK
  <2>2. ReaderTypeOK'
    BY <1>a, <1>5 DEF PoolExhaustedLive, controlVars, ReaderTypeOK
  <2>3. ProducerTypeOK'
    BY <1>a, <1>5, DispatcherAssumption DEF PoolExhaustedLive, controlVars, ProducerTypeOK
  <2>4. ControlTypeOK'
    BY <1>a, <1>5 DEF PoolExhaustedLive, controlVars, ControlTypeOK
  <2>5. QED BY <2>1, <2>2, <2>3, <2>4 DEF TypeOK
<1>6. CASE PoolExhaustedBlocking
  <2>1. PoolTypeOK'
    BY <1>a, <1>6 DEF PoolExhaustedBlocking, controlVars, PoolTypeOK
  <2>2. ReaderTypeOK'
    BY <1>a, <1>6 DEF PoolExhaustedBlocking, controlVars, ReaderTypeOK
  <2>3. ProducerTypeOK'
    BY <1>a, <1>6, DispatcherAssumption DEF PoolExhaustedBlocking, controlVars, ProducerTypeOK
  <2>4. ControlTypeOK'
    BY <1>a, <1>6 DEF PoolExhaustedBlocking, controlVars, ControlTypeOK
  <2>5. QED BY <2>1, <2>2, <2>3, <2>4 DEF TypeOK
<1>7. CASE Fill
  <2>1. PoolTypeOK'
    BY <1>a, <1>7, BlockFacts DEF Fill, controlVars, PoolTypeOK, ProducerTypeOK
  <2>2. ReaderTypeOK'
    BY <1>a, <1>7 DEF Fill, controlVars, ReaderTypeOK
  <2>3. ProducerTypeOK'
    BY <1>a, <1>7 DEF Fill, controlVars, ProducerTypeOK
  <2>4. ControlTypeOK'
    BY <1>a, <1>7 DEF Fill, controlVars, ControlTypeOK
  <2>5. QED BY <2>1, <2>2, <2>3, <2>4 DEF TypeOK
<1>8. CASE CanPush
  <2>1. PoolTypeOK'
    BY <1>a, <1>8 DEF CanPush, controlVars, PoolTypeOK
  <2>2. ReaderTypeOK'
    BY <1>a, <1>8 DEF CanPush, controlVars, ReaderTypeOK
  <2>3. ProducerTypeOK'
    BY <1>a, <1>8, DispatcherAssumption DEF CanPush, controlVars, ProducerTypeOK, Readers
  <2>4. ControlTypeOK'
    BY <1>a, <1>8 DEF CanPush, controlVars, ControlTypeOK
  <2>5. QED BY <2>1, <2>2, <2>3, <2>4 DEF TypeOK
<1>9. CASE Backoff
  <2>1. PoolTypeOK'
    BY <1>a, <1>9 DEF Backoff, controlVars, PoolTypeOK
  <2>2. ReaderTypeOK'
    BY <1>a, <1>9 DEF Backoff, controlVars, ReaderTypeOK
  <2>3. ProducerTypeOK'
    BY <1>a, <1>9 DEF Backoff, controlVars, ProducerTypeOK
  <2>4. ControlTypeOK'
    BY <1>a, <1>9 DEF Backoff, controlVars, ControlTypeOK
  <2>5. QED BY <2>1, <2>2, <2>3, <2>4 DEF TypeOK
<1>10. CASE PushAcquire
  <2>1. PoolTypeOK'
    BY <1>a, <1>10, BlockFacts DEF PushAcquire, controlVars, PoolTypeOK, ProducerTypeOK
  <2>2. ReaderTypeOK'
    BY <1>a, <1>10 DEF PushAcquire, controlVars, ReaderTypeOK
  <2>3. ProducerTypeOK'
    BY <1>a, <1>10 DEF PushAcquire, controlVars, ProducerTypeOK, Readers
  <2>4. ControlTypeOK'
    BY <1>a, <1>10 DEF PushAcquire, controlVars, ControlTypeOK
  <2>5. QED BY <2>1, <2>2, <2>3, <2>4 DEF TypeOK
<1>11. CASE TryPush
  <2>1. PoolTypeOK'
    BY <1>a, <1>11 DEF TryPush, controlVars, Woken, PoolTypeOK
  <2>2. ReaderTypeOK'
    <3>1. own \in Blocks /\ pos \in Readers
      BY <1>a, <1>11, BlockFacts DEF TryPush, ProducerTypeOK
    <3>2. Append(queue[pos], own) \in Seq(Blocks)
      BY <1>a, <3>1 DEF ReaderTypeOK
    <3>3. queue' \in [Readers -> Seq(Blocks)]
      BY <1>a, <1>11, <3>1, <3>2 DEF TryPush, ReaderTypeOK
    <3>4. rpc' \in [Readers -> {"working", "popping", "waiting", "done"}]
      BY <1>a, <1>11, <3>1 DEF TryPush, Woken, ReaderTypeOK
    <3>5. QED BY <1>a, <1>11, <3>3, <3>4 DEF TryPush, ReaderTypeOK
  <2>3. ProducerTypeOK'
    BY <1>a, <1>11, DispatcherAssumption DEF TryPush, controlVars, Woken, ProducerTypeOK, Readers
  <2>4. ControlTypeOK'
    BY <1>a, <1>11 DEF TryPush, controlVars, Woken, ControlTypeOK
  <2>5. QED BY <2>1, <2>2, <2>3, <2>4 DEF TypeOK
<1>12. CASE PushRefused
  <2>1. PoolTypeOK'
    BY <1>a, <1>12, BlockFacts DEF PushRefused, controlVars, PoolTypeOK, ProducerTypeOK
  <2>2. ReaderTypeOK'
    BY <1>a, <1>12 DEF PushRefused, controlVars, ReaderTypeOK, ProducerTypeOK
  <2>3. ProducerTypeOK'
    BY <1>a, <1>12, DispatcherAssumption DEF PushRefused, controlVars, ProducerTypeOK, Readers
  <2>4. ControlTypeOK'
    BY <1>a, <1>12 DEF PushRefused, controlVars, ControlTypeOK
  <2>5. QED BY <2>1, <2>2, <2>3, <2>4 DEF TypeOK
<1>13. CASE PushDone
  <2>1. PoolTypeOK'
    BY <1>a, <1>13 DEF PushDone, controlVars, PoolTypeOK
  <2>2. ReaderTypeOK'
    BY <1>a, <1>13 DEF PushDone, controlVars, ReaderTypeOK
  <2>3. ProducerTypeOK'
    BY <1>a, <1>13 DEF PushDone, controlVars, ProducerTypeOK
  <2>4. ControlTypeOK'
    BY <1>a, <1>13 DEF PushDone, controlVars, ControlTypeOK
  <2>5. QED BY <2>1, <2>2, <2>3, <2>4 DEF TypeOK
<1>14. CASE Release
  <2>1. PoolTypeOK'
    BY <1>a, <1>14, BlockFacts DEF Release, controlVars, PoolTypeOK, ProducerTypeOK
  <2>2. ReaderTypeOK'
    BY <1>a, <1>14 DEF Release, controlVars, ReaderTypeOK
  <2>3. ProducerTypeOK'
    BY <1>a, <1>14 DEF Release, controlVars, ProducerTypeOK
  <2>4. ControlTypeOK'
    BY <1>a, <1>14 DEF Release, controlVars, ControlTypeOK
  <2>5. QED BY <2>1, <2>2, <2>3, <2>4 DEF TypeOK
<1>15. ASSUME NEW r \in Readers, Reader(r) \/ SpuriousWakeup(r)
       PROVE TypeOK'
  <2>1. PoolTypeOK'
    BY <1>a, <1>15 DEF Reader, ReleaseHeld, PopShutdown,
       Wait, Pop, LeaveHolding, SpuriousWakeup, producerVars, controlVars, PoolTypeOK, ReaderTypeOK
  <2>2. ReaderTypeOK'
    <3>1. CASE ReleaseHeld(r)
      BY <1>a, <3>1 DEF ReleaseHeld, ReaderTypeOK
    <3>2. CASE PopShutdown(r) \/ Wait(r) \/ LeaveHolding(r) \/ SpuriousWakeup(r)
      BY <1>a, <3>2
         DEF PopShutdown, Wait, LeaveHolding, SpuriousWakeup, ReaderTypeOK
    <3>3. CASE Pop(r)
      <4>1. queue[r] \in Seq(Blocks) /\ queue[r] # <<>>
        BY <1>a, <3>3 DEF Pop, ReaderTypeOK
      <4>2. Head(queue[r]) \in Blocks /\ Tail(queue[r]) \in Seq(Blocks)
        BY <4>1
      <4>3. content[Head(queue[r])] \in Nat
        BY <1>a, <4>2 DEF PoolTypeOK
      <4>4. QED BY <1>a, <3>3, <4>2, <4>3 DEF Pop, ReaderTypeOK
    <3>4. QED BY <1>15, <3>1, <3>2, <3>3 DEF Reader
  <2>3. ProducerTypeOK'
    BY <1>a, <1>15 DEF Reader, ReleaseHeld, PopShutdown,
       Wait, Pop, LeaveHolding, SpuriousWakeup, producerVars, controlVars, ProducerTypeOK
  <2>4. ControlTypeOK'
    BY <1>a, <1>15 DEF Reader, ReleaseHeld, PopShutdown,
       Wait, Pop, LeaveHolding, SpuriousWakeup, producerVars, controlVars, ControlTypeOK
  <2>5. QED BY <2>1, <2>2, <2>3, <2>4 DEF TypeOK
<1>16. CASE RequestStop
  <2>1. PoolTypeOK'
    BY <1>a, <1>16 DEF RequestStop, producerVars, PoolTypeOK
  <2>2. ReaderTypeOK'
    BY <1>a, <1>16 DEF RequestStop, producerVars, ReaderTypeOK
  <2>3. ProducerTypeOK'
    BY <1>a, <1>16 DEF RequestStop, producerVars, ProducerTypeOK
  <2>4. ControlTypeOK'
    BY <1>a, <1>16, DispatcherAssumption DEF RequestStop, producerVars, ControlTypeOK, Readers
  <2>5. QED BY <2>1, <2>2, <2>3, <2>4 DEF TypeOK
<1>17. CASE Signal
  <2>1. PoolTypeOK'
    BY <1>a, <1>17 DEF Signal, producerVars, Woken, PoolTypeOK
  <2>2. ReaderTypeOK'
    BY <1>a, <1>17 DEF Signal, producerVars, Woken, ReaderTypeOK
  <2>3. ProducerTypeOK'
    BY <1>a, <1>17 DEF Signal, producerVars, Woken, ProducerTypeOK
  <2>4. ControlTypeOK'
    BY <1>a, <1>17, DispatcherAssumption DEF Signal, producerVars, Woken, ControlTypeOK, Readers
  <2>5. QED BY <2>1, <2>2, <2>3, <2>4 DEF TypeOK
<1>18. CASE StopProducer
  <2>1. PoolTypeOK'
    BY <1>a, <1>18 DEF StopProducer, producerVars, PoolTypeOK
  <2>2. ReaderTypeOK'
    BY <1>a, <1>18 DEF StopProducer, producerVars, ReaderTypeOK
  <2>3. ProducerTypeOK'
    BY <1>a, <1>18 DEF StopProducer, producerVars, ProducerTypeOK
  <2>4. ControlTypeOK'
    BY <1>a, <1>18, DispatcherAssumption DEF StopProducer, producerVars, ControlTypeOK, Readers
  <2>5. QED BY <2>1, <2>2, <2>3, <2>4 DEF TypeOK
<1>19. CASE DrainLook
  <2>1. PoolTypeOK'
    BY <1>a, <1>19 DEF DrainLook, producerVars, PoolTypeOK
  <2>2. ReaderTypeOK'
    BY <1>a, <1>19 DEF DrainLook, producerVars, ReaderTypeOK
  <2>3. ProducerTypeOK'
    BY <1>a, <1>19 DEF DrainLook, producerVars, ProducerTypeOK
  <2>4. ControlTypeOK'
    <3>1. dpc' \in 0 .. NBlocks
      BY <1>a, <1>19, DispatcherAssumption DEF DrainLook, ControlTypeOK
    <3>2. QED BY <1>a, <1>19, <3>1 DEF DrainLook, ControlTypeOK
  <2>5. QED BY <2>1, <2>2, <2>3, <2>4 DEF TypeOK
<1>20. CASE UNCHANGED vars
  <2>1. PoolTypeOK'
    BY <1>a, <1>20 DEF vars, producerVars, controlVars, PoolTypeOK
  <2>2. ReaderTypeOK'
    BY <1>a, <1>20 DEF vars, producerVars, controlVars, ReaderTypeOK
  <2>3. ProducerTypeOK'
    BY <1>a, <1>20 DEF vars, producerVars, controlVars, ProducerTypeOK
  <2>4. ControlTypeOK'
    BY <1>a, <1>20 DEF vars, producerVars, controlVars, ControlTypeOK
  <2>5. QED BY <2>1, <2>2, <2>3, <2>4 DEF TypeOK
<1>q. QED
  BY <1>1, <1>2, <1>3, <1>4, <1>5, <1>6, <1>7, <1>8, <1>9, <1>10, <1>11, <1>12, <1>13, <1>14, <1>15, <1>16, <1>17, <1>18, <1>19, <1>20
     DEF Next, Producer

THEOREM TypeCorrect == Spec => []TypeOK
BY InitTypeOK, StepTypeOK, PTL DEF Spec

-----------------------------------------------------------------------------
(* Sets of readers and queues of distinct blocks *)

LEMMA ReaderSetFinite ==
  ASSUME NEW S \in SUBSET Readers
  PROVE  IsFiniteSet(S) /\ Cardinality(S) \in Nat /\ (Cardinality(S) = 0 <=> S = {})
<1>1. IsFiniteSet(Readers)
  BY FS_Interval, DispatcherAssumption DEF Readers
<1>2. IsFiniteSet(S)
  BY <1>1, FS_Subset
<1>3. QED
  BY <1>2, FS_CardinalityType, FS_EmptySet

LEMMA ReaderSetAdd ==
  ASSUME NEW S \in SUBSET Readers, NEW r \in Readers, r \notin S
  PROVE  Cardinality(S \cup {r}) = Cardinality(S) + 1
BY ReaderSetFinite, FS_AddElement

LEMMA ReaderSetRemove ==
  ASSUME NEW S \in SUBSET Readers, NEW r \in S
  PROVE  Cardinality(S \ {r}) = Cardinality(S) - 1
BY ReaderSetFinite, FS_RemoveElement

LEMMA AppendDistinct ==
  ASSUME NEW s \in Seq(Blocks), NEW b \in Blocks
  PROVE  /\ Range(Append(s, b)) = Range(s) \cup {b}
         /\ IsInjective(s) /\ b \notin Range(s) => IsInjective(Append(s, b))
<1>1. /\ Append(s, b) \in Seq(Blocks)
      /\ Len(Append(s, b)) = Len(s) + 1
      /\ Append(s, b)[Len(s) + 1] = b
      /\ \A i \in 1 .. Len(s) : Append(s, b)[i] = s[i]
      /\ DOMAIN s = 1 .. Len(s)
      /\ DOMAIN Append(s, b) = 1 .. Len(s) + 1
      /\ Len(s) \in Nat
  OBVIOUS
<1>2. Range(Append(s, b)) = Range(s) \cup {b}
  BY <1>1 DEF Range
<1>3. ASSUME IsInjective(s), b \notin Range(s)
      PROVE  IsInjective(Append(s, b))
  BY <1>1, <1>3 DEF Range, IsInjective
<1>4. QED BY <1>2, <1>3

LEMMA TailDistinct ==
  ASSUME NEW s \in Seq(Blocks), s # <<>>
  PROVE  /\ Head(s) \in Range(s)
         /\ IsInjective(s) => /\ Range(Tail(s)) = Range(s) \ {Head(s)}
                              /\ IsInjective(Tail(s))
<1>1. /\ Tail(s) \in Seq(Blocks)
      /\ Len(s) \in Nat \ {0}
      /\ Len(Tail(s)) = Len(s) - 1
      /\ Head(s) = s[1]
      /\ \A i \in 1 .. Len(s) - 1 : Tail(s)[i] = s[i + 1]
      /\ DOMAIN s = 1 .. Len(s)
      /\ DOMAIN Tail(s) = 1 .. Len(s) - 1
  OBVIOUS
<1>2. Head(s) \in Range(s)
  BY <1>1 DEF Range
<1>3. ASSUME IsInjective(s)
      PROVE  Range(Tail(s)) = Range(s) \ {Head(s)} /\ IsInjective(Tail(s))
  <2>1. IsInjective(Tail(s))
    BY <1>1, <1>3 DEF IsInjective
  <2>2. Range(Tail(s)) \subseteq Range(s) \ {Head(s)}
    BY <1>1, <1>3 DEF Range, IsInjective
  <2>3. ASSUME NEW x \in Range(s), x # Head(s) PROVE x \in Range(Tail(s))
    <3>1. PICK i \in 1 .. Len(s) : x = s[i]
      BY <1>1 DEF Range
    <3>2. i - 1 \in 1 .. Len(s) - 1 /\ Tail(s)[i - 1] = x
      BY <1>1, <2>3, <3>1
    <3>3. QED BY <1>1, <3>2 DEF Range
  <2>4. QED BY <2>1, <2>2, <2>3
<1>4. QED BY <1>2, <1>3

-----------------------------------------------------------------------------
(* Reference counts are exact *)

Ownership == OwnershipInv /\ RefcountExact

LEMMA InitOwnership == Init => Ownership
<1> SUFFICES ASSUME Init PROVE Ownership
  OBVIOUS
<1>1. \A r \in Readers : Queued(r) = {} /\ held[r] = NoBlock /\ IsInjective(queue[r])
  BY DEF Init, Queued, Range, IsInjective
<1>2. OwnershipInv
  BY <1>1, BlockFacts DEF Init, OwnershipInv, ToBeOffered
<1>3. \A b \in Blocks : QueuedBy(b) = {} /\ HeldBy(b) = {}
  BY <1>1, BlockFacts DEF QueuedBy, HeldBy
<1>4. RefcountExact
  <2>1. \A b \in Blocks : refcount[b] = 0 /\ ProducerRefs(b) = 0
    BY BlockFacts DEF Init, ProducerRefs
  <2>2. QED BY <2>1, <1>3, FS_EmptySet DEF RefcountExact
<1>5. QED BY <1>2, <1>4 DEF Ownership

\* An unreferenced block is in nobody's hands; a held one is counted.
LEMMA CountsDecide ==
  ASSUME TypeOK, RefcountExact
  PROVE  /\ \A b \in Blocks :
              /\ refcount[b] \in Nat
              /\ refcount[b] = 0 =>
                   \A r \in Readers : b # held[r] /\ b \notin Queued(r)
<1> SUFFICES ASSUME NEW b \in Blocks
    PROVE  /\ refcount[b] \in Nat
           /\ refcount[b] = 0 => QueuedBy(b) = {} /\ HeldBy(b) = {}
  BY DEF QueuedBy, HeldBy
<1>1. QueuedBy(b) \subseteq Readers /\ HeldBy(b) \subseteq Readers
  BY DEF QueuedBy, HeldBy
<1>2. ProducerRefs(b) \in 0 .. 2
  BY DEF ProducerRefs
<1>3. QED BY <1>1, <1>2, ReaderSetFinite DEF RefcountExact

\* Steps that leave queues and holds alone and move each count with the
\* producer's references.
LEMMA ProducerCounts ==
  ASSUME TypeOK, TypeOK', RefcountExact, UNCHANGED <<queue, held>>,
         \A b \in Blocks :
           refcount'[b] - refcount[b] = ProducerRefs(b)' - ProducerRefs(b)
  PROVE  RefcountExact'
<1>1. ASSUME NEW b \in Blocks
      PROVE  refcount'[b] = Cardinality(QueuedBy(b)') + Cardinality(HeldBy(b)')
                            + ProducerRefs(b)'
  <2>1. QueuedBy(b)' = QueuedBy(b) /\ HeldBy(b)' = HeldBy(b)
    BY DEF QueuedBy, HeldBy, Queued
  <2>2. QueuedBy(b) \subseteq Readers /\ HeldBy(b) \subseteq Readers
    BY DEF QueuedBy, HeldBy
  <2>3. Cardinality(QueuedBy(b)) \in Nat /\ Cardinality(HeldBy(b)) \in Nat
    BY <2>2, ReaderSetFinite
  <2>4. ProducerRefs(b) \in 0 .. 2 /\ ProducerRefs(b)' \in 0 .. 2
    BY DEF ProducerRefs
  <2>5. refcount'[b] - refcount[b] = ProducerRefs(b)' - ProducerRefs(b)
    OBVIOUS
  <2>6. refcount[b] \in Nat
    BY CountsDecide
  <2>7. refcount[b] = Cardinality(QueuedBy(b)) + Cardinality(HeldBy(b))
                      + ProducerRefs(b)
    BY DEF RefcountExact
  <2>8. refcount'[b] \in Int
    BY DEF TypeOK, PoolTypeOK
  <2>9. QED BY <2>1, <2>3, <2>4, <2>5, <2>6, <2>7, <2>8
<1>2. QED BY <1>1 DEF RefcountExact

\* A producer step that leaves the readers alone keeps Ownership when its
\* counts follow its references and a block it turns to is in nobody's hands.
LEMMA ProducerStep ==
  ASSUME TypeOK, TypeOK', Ownership, UNCHANGED <<queue, held, rpc>>,
         \A b \in Blocks :
           refcount'[b] - refcount[b] = ProducerRefs(b)' - ProducerRefs(b),
         ppc' = "claim" => refcount'[own'] = 0,
         \A r \in Readers :
           ToBeOffered(r)' => \/ ToBeOffered(r) /\ own' = own
                              \/ own' # held[r] /\ own' \notin Queued(r)
  PROVE  Ownership'
<1>1. RefcountExact'
  BY ProducerCounts DEF Ownership
<1>2. OwnershipInv'
  BY DEF Ownership, OwnershipInv, Queued
<1>3. QED BY <1>1, <1>2 DEF Ownership

LEMMA StepOwnership == TypeOK /\ Ownership /\ [Next]_vars => Ownership'
<1> SUFFICES ASSUME TypeOK, Ownership, [Next]_vars PROVE Ownership'
  OBVIOUS
<1>a. TypeOK'
  BY StepTypeOK
<1>b. /\ PoolTypeOK /\ ReaderTypeOK /\ ProducerTypeOK
      /\ OwnershipInv /\ RefcountExact
  BY DEF TypeOK, Ownership
<1>c. \A b \in Blocks :
        /\ refcount[b] \in Nat
        /\ refcount[b] = 0 => \A r \in Readers : b # held[r] /\ b \notin Queued(r)
  BY <1>b, CountsDecide
<1>1. CASE NextChunk
  <2>1. \A b \in Blocks :
          refcount'[b] - refcount[b] = ProducerRefs(b)' - ProducerRefs(b)
    BY <1>b, <1>c, <1>1, BlockFacts DEF NextChunk, ProducerTypeOK, ProducerRefs
  <2>2. QED
    BY <1>a, <1>b, <1>c, <1>1, <2>1, ProducerStep, BlockFacts
       DEF NextChunk, ProducerTypeOK, OwnershipInv, ToBeOffered, controlVars
<1>2. CASE Finish
  <2>1. \A b \in Blocks :
          refcount'[b] - refcount[b] = ProducerRefs(b)' - ProducerRefs(b)
    BY <1>b, <1>c, <1>2, BlockFacts DEF Finish, ProducerTypeOK, ProducerRefs
  <2>2. QED
    BY <1>a, <1>b, <1>c, <1>2, <2>1, ProducerStep, BlockFacts
       DEF Finish, ProducerTypeOK, OwnershipInv, ToBeOffered, controlVars
<1>3. CASE PoolExhaustedLive
  <2>1. \A b \in Blocks :
          refcount'[b] - refcount[b] = ProducerRefs(b)' - ProducerRefs(b)
    BY <1>b, <1>c, <1>3, BlockFacts DEF PoolExhaustedLive, ProducerTypeOK, ProducerRefs
  <2>2. QED
    BY <1>a, <1>b, <1>c, <1>3, <2>1, ProducerStep, BlockFacts
       DEF PoolExhaustedLive, ProducerTypeOK, OwnershipInv, ToBeOffered, controlVars
<1>4. CASE PoolExhaustedBlocking
  <2>1. \A b \in Blocks :
          refcount'[b] - refcount[b] = ProducerRefs(b)' - ProducerRefs(b)
    BY <1>b, <1>c, <1>4, BlockFacts DEF PoolExhaustedBlocking, ProducerTypeOK, ProducerRefs
  <2>2. QED
    BY <1>a, <1>b, <1>c, <1>4, <2>1, ProducerStep, BlockFacts
       DEF PoolExhaustedBlocking, ProducerTypeOK, OwnershipInv, ToBeOffered, controlVars
<1>5. CASE Fill
  <2>1. \A b \in Blocks :
          refcount'[b] - refcount[b] = ProducerRefs(b)' - ProducerRefs(b)
    BY <1>b, <1>c, <1>5, BlockFacts DEF Fill, ProducerTypeOK, ProducerRefs
  <2>2. QED
    BY <1>a, <1>b, <1>c, <1>5, <2>1, ProducerStep, BlockFacts
       DEF Fill, ProducerTypeOK, OwnershipInv, ToBeOffered, controlVars
<1>6. CASE CanPush
  <2>1. \A b \in Blocks :
          refcount'[b] - refcount[b] = ProducerRefs(b)' - ProducerRefs(b)
    BY <1>b, <1>c, <1>6, BlockFacts DEF CanPush, ProducerTypeOK, ProducerRefs
  <2>2. QED
    BY <1>a, <1>b, <1>c, <1>6, <2>1, ProducerStep, BlockFacts
       DEF CanPush, ProducerTypeOK, OwnershipInv, ToBeOffered, controlVars
<1>7. CASE Backoff
  <2>1. \A b \in Blocks :
          refcount'[b] - refcount[b] = ProducerRefs(b)' - ProducerRefs(b)
    BY <1>b, <1>c, <1>7, BlockFacts DEF Backoff, ProducerTypeOK, ProducerRefs
  <2>2. QED
    BY <1>a, <1>b, <1>c, <1>7, <2>1, ProducerStep, BlockFacts
       DEF Backoff, ProducerTypeOK, OwnershipInv, ToBeOffered, controlVars
<1>8. CASE PushDone
  <2>1. \A b \in Blocks :
          refcount'[b] - refcount[b] = ProducerRefs(b)' - ProducerRefs(b)
    BY <1>b, <1>c, <1>8, BlockFacts DEF PushDone, ProducerTypeOK, ProducerRefs
  <2>2. QED
    BY <1>a, <1>b, <1>c, <1>8, <2>1, ProducerStep, BlockFacts
       DEF PushDone, ProducerTypeOK, OwnershipInv, ToBeOffered, controlVars
<1>9. CASE ClaimBlock
  <2>1. \A b \in Blocks :
          refcount'[b] - refcount[b] = ProducerRefs(b)' - ProducerRefs(b)
    BY <1>b, <1>c, <1>9, BlockFacts 
       DEF ClaimBlock, PoolTypeOK, ProducerTypeOK, ProducerRefs
  <2>2. QED
    BY <1>a, <1>b, <1>c, <1>9, <2>1, ProducerStep, BlockFacts
       DEF ClaimBlock, ProducerTypeOK, OwnershipInv, ToBeOffered, controlVars
<1>10. CASE PushAcquire
  <2>1. \A b \in Blocks :
          refcount'[b] - refcount[b] = ProducerRefs(b)' - ProducerRefs(b)
    BY <1>b, <1>c, <1>10, BlockFacts 
       DEF PushAcquire, PoolTypeOK, ProducerTypeOK, ProducerRefs
  <2>2. QED
    BY <1>a, <1>b, <1>c, <1>10, <2>1, ProducerStep, BlockFacts
       DEF PushAcquire, ProducerTypeOK, OwnershipInv, ToBeOffered, controlVars
<1>11. CASE Release
  <2>1. \A b \in Blocks :
          refcount'[b] - refcount[b] = ProducerRefs(b)' - ProducerRefs(b)
    BY <1>b, <1>c, <1>11, BlockFacts 
       DEF Release, PoolTypeOK, ProducerTypeOK, ProducerRefs
  <2>2. QED
    BY <1>a, <1>b, <1>c, <1>11, <2>1, ProducerStep, BlockFacts
       DEF Release, ProducerTypeOK, OwnershipInv, ToBeOffered, controlVars
<1>12. CASE PushRefused
  <2>1. \A b \in Blocks :
          refcount'[b] - refcount[b] = ProducerRefs(b)' - ProducerRefs(b)
    BY <1>b, <1>c, <1>12, BlockFacts 
       DEF PushRefused, PoolTypeOK, ProducerTypeOK, ProducerRefs
  <2>2. QED
    BY <1>a, <1>b, <1>c, <1>12, <2>1, ProducerStep, BlockFacts
       DEF PushRefused, ProducerTypeOK, OwnershipInv, ToBeOffered, Readers,
           controlVars
<1>13. CASE ScanBlock
  <2>1. \A b \in Blocks :
          refcount'[b] - refcount[b] = ProducerRefs(b)' - ProducerRefs(b)
    BY <1>b, <1>c, <1>13, BlockFacts DEF ScanBlock, ProducerTypeOK, ProducerRefs
  <2>2. ppc' = "claim" => own' \in Blocks /\ refcount[own'] = 0
    BY <1>a, <1>13, BlockFacts DEF ScanBlock, TypeOK, ProducerTypeOK
  <2>3. QED
    BY <1>a, <1>b, <1>c, <1>13, <2>1, <2>2, ProducerStep
       DEF ScanBlock, ToBeOffered
<1>14. CASE TryPush
  <2>1. pos \in Readers /\ own \in Blocks /\ queue[pos] \in Seq(Blocks)
    BY <1>b, <1>14, BlockFacts DEF TryPush, ProducerTypeOK, ReaderTypeOK
  <2>2. own # held[pos] /\ own \notin Queued(pos)
    BY <1>b, <1>14, <2>1 DEF TryPush, OwnershipInv, ToBeOffered, ProducerTypeOK, Readers
  <2>3. CASE Len(queue[pos]) = QueueCap
    <3>1. \A b \in Blocks :
            refcount'[b] - refcount[b] = ProducerRefs(b)' - ProducerRefs(b)
      BY <1>b, <1>c, <1>14, <2>3 DEF TryPush, ProducerRefs
    <3>2. ppc' = "undo" /\ UNCHANGED <<queue, held, rpc, own, pos>>
      BY <1>14, <2>3 DEF TryPush
    <3>3. RefcountExact'
      BY <1>a, <1>b, <3>1, <3>2, ProducerCounts
    <3>4. OwnershipInv'
      BY <1>b, <1>14, <3>2 DEF TryPush, OwnershipInv, ToBeOffered, Queued
    <3>5. QED BY <3>3, <3>4 DEF Ownership
  <2>4. CASE Len(queue[pos]) # QueueCap
    <3>0. PICK p \in Readers, w \in Blocks : p = pos /\ w = own
      BY <2>1
    <3>1. /\ Queued(p)' = Queued(p) \cup {w}
          /\ IsInjective(queue'[p])
      <4>1. queue'[p] = Append(queue[p], w)
        BY <1>b, <1>14, <2>1, <3>0, <2>4 DEF TryPush, ReaderTypeOK
      <4>2. IsInjective(queue[p]) /\ w \notin Range(queue[p])
        BY <1>b, <2>1, <3>0, <2>2, <3>0 DEF OwnershipInv, Queued
      <4>3. QED BY <2>1, <3>0, <4>1, <4>2, AppendDistinct DEF Queued
    <3>2. \A r \in Readers : r # p => queue'[r] = queue[r]
      BY <1>b, <1>14, <2>4, <3>0 DEF TryPush, ReaderTypeOK
    <3>3. QueuedBy(w)' = QueuedBy(w) \cup {p}
      <4>1. \A r \in Readers :
              w \in Range(queue'[r]) <=> w \in Range(queue[r]) \/ r = p
        BY <2>1, <3>0, <3>1, <3>2 DEF Queued
      <4>2. QED BY <2>1, <3>0, <4>1 DEF QueuedBy, Queued
    <3>4. \A b \in Blocks \ {w} : QueuedBy(b)' = QueuedBy(b)
      <4>1. \A b \in Blocks \ {w}, r \in Readers :
              b \in Range(queue'[r]) <=> b \in Range(queue[r])
        BY <2>1, <3>0, <3>1, <3>2 DEF Queued
      <4>2. QED BY <4>1 DEF QueuedBy, Queued
    <3>5. \A b \in Blocks : HeldBy(b)' = HeldBy(b)
      BY <1>14 DEF TryPush, HeldBy
    <3>6. Cardinality(QueuedBy(w)') = Cardinality(QueuedBy(w)) + 1
      <4>1. QueuedBy(w) \subseteq Readers /\ p \notin QueuedBy(w)
        BY <2>2, <3>0 DEF QueuedBy
      <4>2. QED BY <2>1, <3>0, <3>3, <4>1, ReaderSetAdd
    <3>7. RefcountExact'
      <4>1. ASSUME NEW b \in Blocks
            PROVE  refcount'[b] = Cardinality(QueuedBy(b)')
                       + Cardinality(HeldBy(b)') + ProducerRefs(b)'
        <5>1. refcount'[b] = Cardinality(QueuedBy(b)) + Cardinality(HeldBy(b))
                             + ProducerRefs(b)
          BY <1>b, <1>14 DEF TryPush, RefcountExact
        <5>2. CASE b = w
          <6>1. ProducerRefs(b) = 2 /\ ProducerRefs(b)' = 1
            BY <1>14, <2>4, <3>0, <5>2 DEF TryPush, ProducerRefs
          <6>2. Cardinality(QueuedBy(b)) \in Nat /\ Cardinality(HeldBy(b)) \in Nat
            BY ReaderSetFinite DEF QueuedBy, HeldBy
          <6>3. /\ Cardinality(QueuedBy(b)') = Cardinality(QueuedBy(b)) + 1
                /\ Cardinality(HeldBy(b)') = Cardinality(HeldBy(b))
            BY <3>5, <3>6, <5>2 DEF QueuedBy, HeldBy, Queued
          <6>4. QED BY <5>1, <6>1, <6>2, <6>3
        <5>3. CASE b # w
          <6>1. ProducerRefs(b) = 0 /\ ProducerRefs(b)' = 0
            BY <1>14, <3>0, <5>3 DEF TryPush, ProducerRefs
          <6>2. QED BY <3>4, <3>5, <5>1, <5>3, <6>1
        <5>4. QED BY <5>2, <5>3
      <4>2. QED BY <4>1 DEF RefcountExact
    <3>8. OwnershipInv'
      <4>1. ppc' = "push" /\ own' = own /\ held' = held /\ pos' = pos + 1
        BY <1>14, <2>4 DEF TryPush
      <4>2. ASSUME NEW r \in Readers
            PROVE  /\ rpc'[r] \in {"popping", "waiting"} => held'[r] = NoBlock
                   /\ IsInjective(queue'[r])
                   /\ held'[r] \notin Queued(r)'
                   /\ ToBeOffered(r)' => own' # held'[r] /\ own' \notin Queued(r)'
        <5>1. rpc'[r] \in {"popping", "waiting"} => rpc[r] \in {"popping", "waiting"}
          BY <1>b, <1>14, <2>1, <2>4 DEF TryPush, Woken, ReaderTypeOK
        <5>2. CASE r = p
          <6>1. ~ToBeOffered(r)'
            BY <2>1, <3>0, <4>1, <5>2 DEF ToBeOffered, Readers
          <6>2. QED
            BY <1>b, <2>2, <3>0, <3>1, <4>1, <5>1, <5>2, <6>1
               DEF OwnershipInv, Queued, ToBeOffered
        <5>3. CASE r # p
          <6>1. Queued(r)' = Queued(r)
            BY <3>2, <5>3 DEF Queued
          <6>2. ToBeOffered(r)' => ToBeOffered(r)
            BY <1>14, <2>1, <4>1 DEF TryPush, ToBeOffered, Readers
          <6>3. QED
            BY <1>b, <3>2, <4>1, <5>1, <5>3, <6>1, <6>2 DEF OwnershipInv
        <5>4. QED BY <5>2, <5>3
      <4>3. QED BY <4>1, <4>2 DEF OwnershipInv
    <3>9. QED BY <3>7, <3>8 DEF Ownership
  <2>5. QED BY <2>3, <2>4
<1>15. ASSUME NEW r \in Readers, Reader(r) \/ SpuriousWakeup(r)
       PROVE Ownership'
  <2>a. UNCHANGED <<ppc, own, pos>>
    BY <1>15 DEF Reader, ReleaseHeld, PopShutdown, Wait, Pop, LeaveHolding,
                 SpuriousWakeup, producerVars
  <2>1. CASE PopShutdown(r) \/ Wait(r) \/ LeaveHolding(r) \/ SpuriousWakeup(r)
    <3>1. UNCHANGED <<refcount, queue, held>>
      BY <2>1 DEF PopShutdown, Wait, LeaveHolding, SpuriousWakeup
    <3>2. \A x \in Readers : rpc'[x] \in {"popping", "waiting"} =>
                               rpc[x] \in {"popping", "waiting"}
      BY <1>b, <2>1
         DEF PopShutdown, Wait, LeaveHolding, SpuriousWakeup, ReaderTypeOK
    <3>3. RefcountExact'
      BY <1>a, <1>b, <1>c, <2>a, <3>1, ProducerCounts DEF ProducerRefs
    <3>4. OwnershipInv'
      BY <1>b, <2>a, <3>1, <3>2 DEF OwnershipInv, ToBeOffered, Queued
    <3>5. QED BY <3>3, <3>4 DEF Ownership
  <2>2. CASE ReleaseHeld(r)
    <3>1. /\ queue' = queue
          /\ held' = [held EXCEPT ![r] = NoBlock]
          /\ rpc' = [rpc EXCEPT ![r] = "popping"]
      BY <2>2 DEF ReleaseHeld
    <3>2. OwnershipInv'
      <4>1. ppc' = "claim" => refcount'[own'] = 0
        <5>1. ppc = "claim" => held[r] # own
          BY <1>b DEF OwnershipInv, ToBeOffered
        <5>2. own # held[r] => refcount'[own] = refcount[own]
          BY <1>b, <2>2 DEF ReleaseHeld, PoolTypeOK
        <5>3. QED BY <1>b, <2>a, <5>1, <5>2 DEF OwnershipInv
      <4>2. \A x \in Readers : held'[x] = IF x = r THEN NoBlock ELSE held[x]
        BY <1>b, <3>1 DEF ReaderTypeOK
      <4>3. \A x \in Readers : NoBlock \notin Queued(x)
        <5>1. \A x \in Readers : queue[x] \in Seq(Blocks)
          BY <1>b DEF ReaderTypeOK
        <5>2. \A x \in Readers : \A i \in DOMAIN queue[x] : queue[x][i] \in Blocks
          BY <5>1
        <5>3. QED BY <5>2, BlockFacts DEF Queued, Range
      <4>4. \A x \in Readers : rpc'[x] \in {"popping", "waiting"} =>
                                 x = r \/ rpc[x] \in {"popping", "waiting"}
        BY <1>b, <3>1 DEF ReaderTypeOK
      <4>5. ToBeOffered(r) => own # NoBlock
        BY <1>b DEF ToBeOffered, ProducerTypeOK
      <4>6. QED
        BY <1>b, <2>a, <3>1, <4>1, <4>2, <4>3, <4>4, <4>5
           DEF OwnershipInv, ToBeOffered, Queued
    <3>3. RefcountExact'
      <4>1. ASSUME NEW b \in Blocks
            PROVE  refcount'[b] = Cardinality(QueuedBy(b)')
                       + Cardinality(HeldBy(b)') + ProducerRefs(b)'
        <5>1. QueuedBy(b)' = QueuedBy(b) /\ ProducerRefs(b)' = ProducerRefs(b)
          BY <2>a, <3>1 DEF QueuedBy, Queued, ProducerRefs
        <5>2. /\ Cardinality(QueuedBy(b)) \in Nat /\ ProducerRefs(b) \in 0 .. 2
              /\ Cardinality(HeldBy(b)) \in Nat
          BY ReaderSetFinite DEF QueuedBy, HeldBy, ProducerRefs
        <5>3. refcount[b] = Cardinality(QueuedBy(b)) + Cardinality(HeldBy(b))
                            + ProducerRefs(b)
          BY <1>b DEF RefcountExact
        <5>4. CASE held[r] = b
          <6>1. HeldBy(b)' = HeldBy(b) \ {r} /\ r \in HeldBy(b)
            BY <1>b, <3>1, <5>4, BlockFacts DEF HeldBy, ReaderTypeOK
          <6>2. Cardinality(HeldBy(b)') = Cardinality(HeldBy(b)) - 1
            <7>1. HeldBy(b) \in SUBSET Readers
              BY DEF HeldBy
            <7>2. QED BY <6>1, <7>1, ReaderSetRemove
          <6>3. refcount'[b] = refcount[b] - 1
            BY <1>b, <2>2, <5>4, BlockFacts DEF ReleaseHeld, PoolTypeOK
          <6>4. QED BY <5>1, <5>2, <5>3, <6>2, <6>3
        <5>5. CASE held[r] # b
          <6>1. HeldBy(b)' = HeldBy(b)
            BY <1>b, <3>1, <5>5, BlockFacts DEF HeldBy, ReaderTypeOK
          <6>2. refcount'[b] = refcount[b]
            BY <1>b, <2>2, <5>5 DEF ReleaseHeld, PoolTypeOK
          <6>3. QED BY <5>1, <5>2, <5>3, <6>1, <6>2
        <5>6. QED BY <5>4, <5>5
      <4>2. QED BY <4>1 DEF RefcountExact
    <3>4. QED BY <3>2, <3>3 DEF Ownership
  <2>3. CASE Pop(r)
    <3>1. PICK b \in Blocks : b = Head(queue[r])
      BY <1>b, <2>3 DEF Pop, ReaderTypeOK
    <3>2. /\ refcount' = refcount /\ held[r] = NoBlock
          /\ \A x \in Readers : held'[x] = IF x = r THEN b ELSE held[x]
          /\ \A x \in Readers : queue'[x] = IF x = r THEN Tail(queue[r]) ELSE queue[x]
          /\ \A x \in Readers : rpc'[x] = IF x = r THEN "working" ELSE rpc[x]
      BY <1>b, <2>3, <3>1 DEF Pop, ReaderTypeOK, OwnershipInv
    <3>3. /\ b \in Queued(r) /\ Range(queue'[r]) = Queued(r) \ {b}
          /\ IsInjective(queue'[r])
      <4>1. queue[r] \in Seq(Blocks) /\ queue[r] # <<>> /\ IsInjective(queue[r])
        BY <1>b, <2>3 DEF Pop, ReaderTypeOK, OwnershipInv
      <4>2. QED BY <3>1, <3>2, <4>1, TailDistinct DEF Queued
    <3>4. OwnershipInv'
      BY <1>b, <2>a, <3>2, <3>3 DEF OwnershipInv, ToBeOffered, Queued
    <3>5. RefcountExact'
      <4>1. ASSUME NEW c \in Blocks
            PROVE  refcount'[c] = Cardinality(QueuedBy(c)')
                       + Cardinality(HeldBy(c)') + ProducerRefs(c)'
        <5>1. ProducerRefs(c)' = ProducerRefs(c)
          BY <2>a DEF ProducerRefs
        <5>2. /\ Cardinality(QueuedBy(c)) \in Nat /\ ProducerRefs(c) \in 0 .. 2
              /\ Cardinality(HeldBy(c)) \in Nat
          BY ReaderSetFinite DEF QueuedBy, HeldBy, ProducerRefs
        <5>3. refcount[c] = Cardinality(QueuedBy(c)) + Cardinality(HeldBy(c))
                            + ProducerRefs(c)
          BY <1>b DEF RefcountExact
        <5>4. QueuedBy(c) \in SUBSET Readers /\ HeldBy(c) \in SUBSET Readers
          BY DEF QueuedBy, HeldBy
        <5>5. CASE c = b
          <6>1. QueuedBy(c)' = QueuedBy(c) \ {r} /\ r \in QueuedBy(c)
            BY <3>2, <3>3, <5>5 DEF QueuedBy, Queued
          <6>2. HeldBy(c)' = HeldBy(c) \cup {r} /\ r \notin HeldBy(c)
            BY <3>2, <5>5, BlockFacts DEF HeldBy
          <6>3. /\ Cardinality(QueuedBy(c)') = Cardinality(QueuedBy(c)) - 1
                /\ Cardinality(HeldBy(c)') = Cardinality(HeldBy(c)) + 1
            BY <5>4, <6>1, <6>2, ReaderSetAdd, ReaderSetRemove
          <6>4. QED BY <3>2, <5>1, <5>2, <5>3, <6>3
        <5>6. CASE c # b
          <6>1. QueuedBy(c)' = QueuedBy(c)
            BY <3>2, <3>3, <5>6 DEF QueuedBy, Queued
          <6>2. HeldBy(c)' = HeldBy(c)
            BY <3>2, <5>6, BlockFacts DEF HeldBy
          <6>3. QED BY <3>2, <5>1, <5>3, <6>1, <6>2
        <5>7. QED BY <5>5, <5>6
      <4>2. QED BY <4>1 DEF RefcountExact
    <3>6. QED BY <3>4, <3>5 DEF Ownership
  <2>4. QED BY <1>15, <2>1, <2>2, <2>3 DEF Reader
<1>16. CASE RequestStop \/ StopProducer \/ DrainLook \/ Signal \/ UNCHANGED vars
  <2>1. /\ UNCHANGED <<refcount, queue, held, ppc, own, pos>>
        /\ \A x \in Readers : rpc'[x] \in {"popping", "waiting"} =>
                                 rpc[x] \in {"popping", "waiting"}
    BY <1>b, <1>16 DEF RequestStop, StopProducer, DrainLook, Signal, Woken,
                       ReaderTypeOK, vars, producerVars
  <2>2. RefcountExact'
    BY <1>a, <1>b, <1>c, <2>1, ProducerCounts DEF ProducerRefs
  <2>3. OwnershipInv'
    BY <1>b, <2>1 DEF OwnershipInv, ToBeOffered, Queued
  <2>4. QED BY <2>2, <2>3 DEF Ownership
<1>17. QED
  BY <1>1, <1>2, <1>3, <1>4, <1>5, <1>6, <1>7, <1>8, <1>9, <1>10, <1>11,
     <1>12, <1>13, <1>14, <1>15, <1>16 DEF Next, Producer

LEMMA OwnershipAlways == Spec => [](TypeOK /\ Ownership)
<1>1. Init => TypeOK /\ Ownership
  BY InitTypeOK, InitOwnership
<1>2. TypeOK /\ Ownership /\ [Next]_vars => (TypeOK /\ Ownership)'
  BY StepTypeOK, StepOwnership
<1>3. QED BY <1>1, <1>2, PTL DEF Spec

\* Reference counts are exact at every step of every interleaving.
THEOREM RefcountCorrect == Spec => []RefcountExact
BY OwnershipAlways, PTL DEF Ownership

\* A block that is being recycled is in no reader's hands or queue.
THEOREM FillIsExclusive == Spec => []ExclusiveFill
<1>1. TypeOK /\ Ownership => ExclusiveFill
  BY DEF Ownership, OwnershipInv, ToBeOffered, ExclusiveFill
<1>2. QED BY <1>1, OwnershipAlways, PTL

\* No reader sees the samples it holds or has queued change.
THEOREM SamplesAreStable == Spec => NoOverwrite
<1> DEFINE Stable ==
      \A r \in Readers :
        /\ held[r] # NoBlock => content'[held[r]] = content[held[r]]
        /\ \A b \in Queued(r) : content'[b] = content[b]
<1>1. ASSUME TypeOK, Ownership, [Next]_vars PROVE [Stable]_vars
  <2>1. CASE Fill
    <3>1. \A r \in Readers : own # held[r] /\ own \notin Queued(r)
      BY <1>1, <2>1 DEF Fill, Ownership, OwnershipInv, ToBeOffered
    <3>2. \A b : b # own => content'[b] = content[b]
      BY <1>1, <2>1 DEF Fill, TypeOK, PoolTypeOK
    <3>3. QED BY <3>1, <3>2
  <2>2. CASE ~Fill
    <3>1. content' = content
      BY <1>1, <2>2 DEF Next, Producer, NextChunk, Finish, ScanBlock, ClaimBlock,
         PoolExhaustedLive, PoolExhaustedBlocking, CanPush, Backoff, PushAcquire,
         TryPush, PushRefused, PushDone, Release, Reader, ReleaseHeld,
         PopShutdown, Wait, Pop, LeaveHolding, SpuriousWakeup, RequestStop,
         Signal, StopProducer, DrainLook, producerVars, vars
    <3>2. QED BY <3>1
  <2>3. QED BY <2>1, <2>2
<1>2. QED BY <1>1, OwnershipAlways, PTL DEF Spec, NoOverwrite

-----------------------------------------------------------------------------
(* Drops *)

\* A pop shortens one queue, a push that finds room lengthens one.
LEMMA QueueLengths ==
  ASSUME TypeOK
  PROVE  /\ \A r \in Readers : Len(queue[r]) \in Nat
         /\ \A r \in Readers : Pop(r) =>
              \A x \in Readers :
                Len(queue'[x]) = IF x = r THEN Len(queue[x]) - 1 ELSE Len(queue[x])
         /\ TryPush /\ Len(queue[pos]) # QueueCap =>
              \A x \in Readers :
                Len(queue'[x]) = IF x = pos THEN Len(queue[x]) + 1 ELSE Len(queue[x])
<1>1. \A r \in Readers : queue[r] \in Seq(Blocks)
  BY DEF TypeOK, ReaderTypeOK
<1>2. ASSUME NEW r \in Readers, Pop(r), NEW x \in Readers
      PROVE  Len(queue'[x]) = IF x = r THEN Len(queue[x]) - 1 ELSE Len(queue[x])
  <2>1. queue'[x] = IF x = r THEN Tail(queue[x]) ELSE queue[x]
    BY <1>2 DEF Pop, TypeOK, ReaderTypeOK
  <2>2. Len(Tail(queue[r])) = Len(queue[r]) - 1
    BY <1>1, <1>2 DEF Pop
  <2>3. QED BY <2>1, <2>2
<1>3. ASSUME TryPush, Len(queue[pos]) # QueueCap, NEW x \in Readers
      PROVE  Len(queue'[x]) = IF x = pos THEN Len(queue[x]) + 1 ELSE Len(queue[x])
  <2>1. own \in Blocks
    BY <1>3, BlockFacts DEF TryPush, TypeOK, ProducerTypeOK
  <2>2. queue'[x] = IF x = pos THEN Append(queue[x], own) ELSE queue[x]
    BY <1>3 DEF TryPush, TypeOK, ReaderTypeOK
  <2>3. Len(Append(queue[x], own)) = Len(queue[x]) + 1
    BY <1>1, <2>1
  <2>4. QED BY <2>2, <2>3
<1>4. QED BY <1>1, <1>2, <1>3

LEMMA StepBounded == TypeOK /\ QueueBounded /\ [Next]_vars => QueueBounded'
<1> SUFFICES ASSUME TypeOK, QueueBounded, [Next]_vars PROVE QueueBounded'
  OBVIOUS
<1>a. \A r \in Readers : Len(queue[r]) \in Nat /\ Len(queue[r]) <= QueueCap
  BY QueueLengths DEF QueueBounded
<1>1. CASE TryPush /\ Len(queue[pos]) # QueueCap
  BY <1>1, <1>a, QueueLengths, DispatcherAssumption DEF QueueBounded
<1>2. ASSUME NEW r \in Readers, Pop(r) PROVE QueueBounded'
  BY <1>2, <1>a, QueueLengths, DispatcherAssumption DEF QueueBounded
<1>3. CASE UNCHANGED queue
  BY <1>3 DEF QueueBounded
<1>4. QED
  BY <1>1, <1>2, <1>3
     DEF Next, Producer, NextChunk, Finish, ScanBlock, ClaimBlock,
         PoolExhaustedLive, PoolExhaustedBlocking, Fill, CanPush, Backoff,
         PushAcquire, TryPush, PushRefused, PushDone, Release, Reader,
         ReleaseHeld, PopShutdown, Wait, LeaveHolding, SpuriousWakeup,
         RequestStop, Signal, StopProducer, DrainLook, producerVars, vars

LEMMA StepRoom ==
  TypeOK /\ QueueBounded /\ RoomInv /\ ExhaustiveDropsNothing /\ [Next]_vars
    => RoomInv' /\ ExhaustiveDropsNothing'
<1> SUFFICES ASSUME TypeOK, QueueBounded, RoomInv, ExhaustiveDropsNothing,
                    [Next]_vars, Exhaustive
             PROVE  RoomInv' /\ ExhaustiveDropsNothing'
  BY DEF RoomInv, ExhaustiveDropsNothing
<1>a. /\ \A r \in Readers : Len(queue[r]) \in Nat
      /\ pos \in 1 .. NReaders + 1 /\ Readers = 1 .. NReaders
  BY QueueLengths DEF TypeOK, ProducerTypeOK, Readers
<1>b. /\ ppc # "undo"
      /\ ppc \in {"scan", "claim", "fill", "backoff"} => pos = 1
      /\ ppc = "canpush" => \A r \in Readers : r < pos => Len(queue[r]) < QueueCap
      /\ ppc \in {"push", "trypush"} =>
           \A r \in Readers : r >= pos => Len(queue[r]) < QueueCap
  BY DEF RoomInv, TypeOK, ProducerTypeOK
<1>1. CASE TryPush
  <2>1. pos \in Readers /\ Len(queue[pos]) # QueueCap
    BY <1>1, <1>a, <1>b, DispatcherAssumption DEF TryPush, TypeOK, ProducerTypeOK
  <2>2. \A x \in Readers : x # pos => Len(queue'[x]) = Len(queue[x])
    BY <1>1, <2>1, QueueLengths
  <2>3. QED
    BY <1>1, <1>a, <1>b, <2>1, <2>2
       DEF TryPush, RoomInv, ExhaustiveDropsNothing
<1>2. CASE CanPush
  <2>1. UNCHANGED <<queue, dropped, poolDropped>> /\ ppc = "canpush"
    BY <1>2 DEF CanPush
  <2>2. CASE pos > NReaders
    <3>1. \A r \in Readers : Len(queue[r]) < QueueCap
      BY <1>a, <1>b, <2>1, <2>2, DispatcherAssumption
    <3>2. QED
      BY <1>2, <2>1, <2>2, <3>1 DEF CanPush, RoomInv, ExhaustiveDropsNothing
  <2>3. CASE ~(pos > NReaders) /\ Len(queue[pos]) = QueueCap
    BY <1>2, <1>a, <2>1, <2>3 DEF CanPush, RoomInv, ExhaustiveDropsNothing
  <2>4. CASE ~(pos > NReaders) /\ Len(queue[pos]) # QueueCap
    <3>1. ppc' = "canpush" /\ pos' = pos + 1
      BY <1>2, <2>4 DEF CanPush
    <3>2. pos \in Readers /\ Len(queue[pos]) < QueueCap
      <4>1. pos \in Readers
        BY <1>a, <2>4, DispatcherAssumption
      <4>2. Len(queue[pos]) <= QueueCap
        BY <4>1 DEF QueueBounded
      <4>3. QED BY <1>a, <2>4, <4>1, <4>2, DispatcherAssumption
    <3>3. \A r \in Readers : r < pos' => Len(queue[r]) < QueueCap
      BY <1>a, <1>b, <2>1, <3>1, <3>2
    <3>4. QED BY <2>1, <3>1, <3>3 DEF RoomInv, ExhaustiveDropsNothing
  <2>5. QED BY <2>2, <2>3, <2>4
<1>3. CASE \/ NextChunk \/ Finish \/ ScanBlock \/ ClaimBlock \/ PoolExhaustedLive
           \/ PoolExhaustedBlocking \/ Backoff \/ PushAcquire \/ PushRefused
           \/ PushDone \/ Release
  BY <1>3, <1>a, <1>b
     DEF RoomInv, ExhaustiveDropsNothing, NextChunk, Finish, ScanBlock, ClaimBlock,
         PoolExhaustedLive, PoolExhaustedBlocking, Backoff, PushAcquire,
         PushRefused, PushDone, Release
<1>4. CASE Fill
  BY <1>4, <1>a, <1>b DEF Fill, RoomInv, ExhaustiveDropsNothing
<1>5. ASSUME NEW r \in Readers, Reader(r) \/ SpuriousWakeup(r)
      PROVE RoomInv' /\ ExhaustiveDropsNothing'
  <2>1. UNCHANGED <<ppc, pos, dropped, poolDropped>>
    BY <1>5 DEF Reader, ReleaseHeld, PopShutdown, Wait, Pop, LeaveHolding,
                SpuriousWakeup, producerVars
  <2>2. \A x \in Readers : Len(queue'[x]) <= Len(queue[x]) /\ Len(queue'[x]) \in Int
    <3>1. CASE Pop(r) BY <1>a, <3>1, QueueLengths
    <3>2. CASE ~Pop(r)
      BY <1>5, <1>a, <3>2 DEF Reader, ReleaseHeld, PopShutdown, Wait, LeaveHolding,
                         SpuriousWakeup
    <3>3. QED BY <3>1, <3>2
  <2>3. QED
    BY <1>a, <1>b, <2>1, <2>2, DispatcherAssumption
       DEF RoomInv, ExhaustiveDropsNothing
<1>6. CASE RequestStop \/ StopProducer \/ DrainLook \/ Signal \/ UNCHANGED vars
  BY <1>6, <1>b DEF RoomInv, ExhaustiveDropsNothing, RequestStop, StopProducer,
              DrainLook, Signal, vars, producerVars
<1>7. QED
  BY <1>1, <1>2, <1>3, <1>4, <1>5, <1>6 DEF Next, Producer

LEMMA RoomAlways == Spec => [](QueueBounded /\ RoomInv /\ ExhaustiveDropsNothing)
<1>1. Init => QueueBounded /\ RoomInv /\ ExhaustiveDropsNothing
  BY DispatcherAssumption
     DEF Init, QueueBounded, RoomInv, ExhaustiveDropsNothing
<1>2. QED BY <1>1, StepBounded, StepRoom, TypeCorrect, PTL DEF Spec

\* With the blocking helpers nothing is dropped: check-then-push has no race.
THEOREM BlockingNeverDrops == Spec => []ExhaustiveDropsNothing
BY RoomAlways, PTL

\* Dropped or not: how a step moves the terms of LossIsCounted.
LossInv == OfferedInv /\ LossIsCounted

LEMMA StepLoss == TypeOK /\ LossInv /\ [Next]_vars => LossInv'
<1> SUFFICES ASSUME TypeOK, LossInv, [Next]_vars PROVE LossInv'
  OBVIOUS
<1>a. /\ \A r \in Readers : /\ Len(queue[r]) \in Nat
                             /\ taken[r] \in Nat
                             /\ dropped[r] \in Nat
      /\ \A r \in Readers : r \in Int /\ 1 <= r /\ r <= NReaders
      /\ pos \in Int /\ NReaders \in Nat
      /\ poolDropped \in Nat /\ clock \in Nat
      /\ ppc \in {"trypush", "undo"} => pos \in Readers
      /\ ppc \in {"scan", "claim", "fill", "backoff"} => pos = 1
  <2>1. \A r \in Readers : r \in Int /\ 1 <= r /\ r <= NReaders
    BY DispatcherAssumption DEF Readers
  <2>2. pos \in Int /\ NReaders \in Nat
    BY DispatcherAssumption DEF TypeOK, ProducerTypeOK
  <2>3. QED
    BY <2>1, <2>2, QueueLengths
       DEF TypeOK, PoolTypeOK, ReaderTypeOK, ProducerTypeOK
<1>b. /\ ppc \in {"next", "release", "finished"} => pos = NReaders + 1 \/ producerStop
      /\ \A r \in Readers :
           clock = taken[r] + Len(queue[r]) + dropped[r] + poolDropped
                   + (IF r \in Offered THEN 0 ELSE 1)
  BY DEF LossInv, OfferedInv, LossIsCounted
<1>c. \A r \in Readers :
        /\ r \in Offered <=> /\ ppc \notin {"scan", "claim", "fill", "canpush", "backoff"}
                             /\ r < pos
        /\ r \in Offered' <=> /\ ppc' \notin {"scan", "claim", "fill", "canpush", "backoff"}
                              /\ r < pos'
  <2>1. pos' \in Int
    BY StepTypeOK, DispatcherAssumption DEF TypeOK, ProducerTypeOK
  <2>2. TAKE r \in Readers
  <2>3. r \in 1 .. pos - 1 <=> r < pos
    BY <1>a
  <2>4. r \in 1 .. pos' - 1 <=> r < pos'
    BY <1>a, <2>1
  <2>5. QED BY <2>3, <2>4 DEF Offered
<1>1. CASE TryPush
  <2>1. OfferedInv'
    BY <1>1 DEF TryPush, OfferedInv
  <2>2. CASE Len(queue[pos]) = QueueCap
    BY <1>1, <1>b, <1>c, <2>1, <2>2 DEF TryPush, LossInv, LossIsCounted
  <2>3. CASE Len(queue[pos]) # QueueCap
    <3>1. \A x \in Readers :
            Len(queue'[x]) = IF x = pos THEN Len(queue[x]) + 1 ELSE Len(queue[x])
      BY <1>1, <2>3, QueueLengths
    <3>2. ppc = "trypush" /\ ppc' = "push" /\ pos' = pos + 1
          /\ UNCHANGED <<clock, taken, dropped, poolDropped>>
      BY <1>1, <2>3 DEF TryPush
    <3>3. \A r \in Readers : r \in Offered' <=> r \in Offered \/ r = pos
      BY <1>a, <1>c, <3>2
    <3>4. pos \notin Offered
      BY <1>a, <1>c, <3>2
    <3>5. ASSUME NEW r \in Readers
          PROVE  clock' = taken'[r] + Len(queue'[r]) + dropped'[r] + poolDropped'
                          + (IF r \in Offered' THEN 0 ELSE 1)
      <4>1. CASE r = pos
        <5>1. clock = taken[r] + Len(queue[r]) + dropped[r] + poolDropped + 1
          BY <1>b, <3>4, <4>1
        <5>2. r \in Offered' /\ Len(queue'[r]) = Len(queue[r]) + 1
          BY <3>1, <3>3, <4>1
        <5>3. /\ taken[r] \in Nat /\ Len(queue[r]) \in Nat
              /\ dropped[r] \in Nat /\ poolDropped \in Nat
          BY <1>a
        <5>4. /\ clock' = clock /\ taken'[r] = taken[r]
              /\ dropped'[r] = dropped[r] /\ poolDropped' = poolDropped
          BY <3>2
        <5>5. QED BY <5>1, <5>2, <5>3, <5>4
      <4>2. CASE r # pos BY <1>a, <1>b, <3>1, <3>2, <3>3, <4>2
      <4>3. QED BY <4>1, <4>2
    <3>6. QED BY <2>1, <3>5 DEF LossInv, LossIsCounted
  <2>4. QED BY <2>2, <2>3
<1>2. CASE PushRefused
  <2>1. ppc = "undo" /\ ppc' = "push" /\ pos' = pos + 1 /\ pos \in Readers
        /\ UNCHANGED <<clock, taken, queue, poolDropped>>
    BY <1>2, <1>a DEF PushRefused
  <2>2. \A r \in Readers : dropped'[r] = IF r = pos THEN dropped[r] + 1 ELSE dropped[r]
    BY <1>2 DEF PushRefused, TypeOK, ReaderTypeOK
  <2>3. \A r \in Readers : r \in Offered' <=> r \in Offered \/ r = pos
    BY <1>a, <1>c, <2>1
  <2>4. pos \notin Offered
    BY <1>a, <1>c, <2>1
  <2>5. ASSUME NEW r \in Readers
        PROVE  clock' = taken'[r] + Len(queue'[r]) + dropped'[r] + poolDropped'
                        + (IF r \in Offered' THEN 0 ELSE 1)
    <3>1. CASE r = pos
      <4>1. r \notin Offered /\ r \in Offered' /\ dropped'[r] = dropped[r] + 1
        BY <2>2, <2>3, <2>4, <3>1
      <4>2. clock = taken[r] + Len(queue[r]) + dropped[r] + poolDropped + 1
        BY <1>b, <4>1
      <4>3. /\ taken[r] \in Nat /\ Len(queue[r]) \in Nat
            /\ dropped[r] \in Nat /\ poolDropped \in Nat
        BY <1>a
      <4>4. /\ clock' = clock /\ taken'[r] = taken[r]
            /\ queue'[r] = queue[r] /\ poolDropped' = poolDropped
        BY <2>1
      <4>5. QED BY <4>1, <4>2, <4>3, <4>4
    <3>2. CASE r # pos BY <1>a, <1>b, <2>1, <2>2, <2>3, <3>2
    <3>3. QED BY <3>1, <3>2
  <2>6. QED BY <2>1, <2>5 DEF LossInv, LossIsCounted, OfferedInv
<1>3. CASE NextChunk
  <2>1. \A r \in Readers : r \in Offered /\ r \notin Offered'
    <3>1. pos = NReaders + 1 /\ ppc = "next" /\ ppc' = "scan"
      BY <1>3, <1>b DEF NextChunk
    <3>2. \A r \in Readers : r < pos
      BY <3>1, <1>a
    <3>3. QED BY <1>c, <3>1, <3>2
  <2>2. ppc' = "scan" /\ clock' = clock + 1
        /\ UNCHANGED <<taken, queue, dropped, poolDropped>>
    BY <1>3 DEF NextChunk
  <2>3. ASSUME NEW r \in Readers
        PROVE  clock' = taken'[r] + Len(queue'[r]) + dropped'[r] + poolDropped'
                        + (IF r \in Offered' THEN 0 ELSE 1)
    <3>1. clock = taken[r] + Len(queue[r]) + dropped[r] + poolDropped
      BY <1>a, <1>b, <2>1
    <3>2. /\ taken[r] \in Nat /\ Len(queue[r]) \in Nat
          /\ dropped[r] \in Nat /\ poolDropped \in Nat /\ clock \in Nat
      BY <1>a
    <3>3. /\ clock' = clock + 1 /\ taken'[r] = taken[r] /\ queue'[r] = queue[r]
          /\ dropped'[r] = dropped[r] /\ poolDropped' = poolDropped
      BY <2>2
    <3>4. (IF r \in Offered' THEN 0 ELSE 1) = 1
      BY <2>1
    <3> DEFINE n == Len(queue[r])  u == IF r \in Offered' THEN 0 ELSE 1
    <3>5. clock = taken[r] + n + dropped[r] + poolDropped /\ n \in Nat
      BY <3>1, <3>2
    <3>6. Len(queue'[r]) = n /\ u = 1
      BY <3>3, <3>4
    <3> HIDE DEF n, u
    <3>7. clock' = taken'[r] + n + dropped'[r] + poolDropped' + u
      BY <3>2, <3>3, <3>5, <3>6
    <3>8. QED BY <3>6, <3>7 DEF u
  <2>4. QED BY <2>2, <2>3 DEF LossInv, OfferedInv, LossIsCounted
<1>4. CASE PoolExhaustedLive
  <2>1. \A r \in Readers : r \notin Offered /\ r \in Offered'
    BY <1>4, <1>a, <1>c DEF PoolExhaustedLive
  <2>2. pos' = NReaders + 1 /\ poolDropped' = poolDropped + 1
        /\ UNCHANGED <<taken, queue, dropped, clock>>
    BY <1>4 DEF PoolExhaustedLive
  <2>3. ASSUME NEW r \in Readers
        PROVE  clock' = taken'[r] + Len(queue'[r]) + dropped'[r] + poolDropped'
                        + (IF r \in Offered' THEN 0 ELSE 1)
    <3>1. clock = taken[r] + Len(queue[r]) + dropped[r] + poolDropped + 1
      BY <1>a, <1>b, <2>1
    <3>2. /\ taken[r] \in Nat /\ Len(queue[r]) \in Nat
          /\ dropped[r] \in Nat /\ poolDropped \in Nat /\ clock \in Nat
      BY <1>a
    <3>3. /\ clock' = clock /\ taken'[r] = taken[r] /\ queue'[r] = queue[r]
          /\ dropped'[r] = dropped[r] /\ poolDropped' = poolDropped + 1
      BY <2>2
    <3>4. (IF r \in Offered' THEN 0 ELSE 1) = 0
      BY <2>1
    <3> DEFINE n == Len(queue[r])  u == IF r \in Offered' THEN 0 ELSE 1
    <3>5. clock = taken[r] + n + dropped[r] + poolDropped + 1 /\ n \in Nat
      BY <3>1, <3>2
    <3>6. Len(queue'[r]) = n /\ u = 0
      BY <3>3, <3>4
    <3> HIDE DEF n, u
    <3>7. clock' = taken'[r] + n + dropped'[r] + poolDropped' + u
      BY <3>2, <3>3, <3>5, <3>6
    <3>8. QED BY <3>6, <3>7 DEF u
  <2>4. QED BY <2>2, <2>3 DEF LossInv, OfferedInv, LossIsCounted
<1>5. CASE \/ Finish \/ ScanBlock \/ ClaimBlock \/ PoolExhaustedBlocking
           \/ Fill \/ CanPush \/ Backoff \/ PushAcquire \/ PushDone \/ Release
  <2>1. UNCHANGED <<clock, taken, queue, dropped, poolDropped>>
    BY <1>5 DEF Finish, ScanBlock, ClaimBlock, PoolExhaustedBlocking, Fill,
                CanPush, Backoff, PushAcquire, PushDone, Release
  <2>2. \A r \in Readers : r \in Offered' <=> r \in Offered
    BY <1>5, <1>a, <1>c
       DEF Finish, ScanBlock, ClaimBlock, PoolExhaustedBlocking, Fill,
           CanPush, Backoff, PushAcquire, PushDone, Release
  <2>3. OfferedInv'
    <3>1. producerStop' = producerStop
      BY <1>5 DEF Finish, ScanBlock, ClaimBlock, PoolExhaustedBlocking, Fill,
                  CanPush, Backoff, PushAcquire, PushDone, Release, controlVars
    <3>2. CASE PushDone
      BY <1>a, <1>b, <3>1, <3>2, QueueLengths
         DEF PushDone, OfferedInv, TypeOK, ProducerTypeOK
    <3>3. CASE ~PushDone
      BY <1>5, <1>a, <1>b, <3>1, <3>3
         DEF OfferedInv, Finish, ScanBlock, ClaimBlock, PoolExhaustedBlocking,
             Fill, CanPush, Backoff, PushAcquire, Release
    <3>4. QED BY <3>2, <3>3
  <2>4. QED BY <1>b, <2>1, <2>2, <2>3 DEF LossInv, LossIsCounted
<1>6. ASSUME NEW r \in Readers, Reader(r) \/ SpuriousWakeup(r)
      PROVE LossInv'
  <2>1. UNCHANGED <<ppc, pos, dropped, poolDropped, clock, producerStop>>
    BY <1>6 DEF Reader, ReleaseHeld, PopShutdown, Wait, Pop, LeaveHolding,
                SpuriousWakeup, producerVars, controlVars
  <2>2. \A x \in Readers : taken'[x] + Len(queue'[x]) = taken[x] + Len(queue[x])
    <3>1. CASE Pop(r)
      <4>1. \A x \in Readers : taken'[x] = IF x = r THEN taken[x] + 1 ELSE taken[x]
        BY <3>1 DEF Pop, TypeOK, ReaderTypeOK
      <4>2. \A x \in Readers :
              Len(queue'[x]) = IF x = r THEN Len(queue[x]) - 1 ELSE Len(queue[x])
        BY <3>1, QueueLengths
      <4>3. TAKE x \in Readers
      <4>4. taken[x] \in Nat /\ Len(queue[x]) \in Nat
        BY <1>a
      <4>5. QED BY <4>1, <4>2, <4>4
    <3>2. CASE ~Pop(r)
      BY <1>6, <3>2 DEF Reader, ReleaseHeld, PopShutdown, Wait, LeaveHolding,
                        SpuriousWakeup
    <3>3. QED BY <3>1, <3>2
  <2>3. \A x \in Readers : Len(queue'[x]) \in Nat /\ taken'[x] \in Nat
    BY StepTypeOK DEF TypeOK, ReaderTypeOK
  <2>4. \A x \in Readers : x \in Offered' <=> x \in Offered
    BY <1>c, <2>1
  <2>5. LossIsCounted'
    BY <1>a, <1>b, <2>1, <2>2, <2>3, <2>4 DEF LossIsCounted
  <2>6. QED BY <1>b, <2>1, <2>5 DEF LossInv, OfferedInv
<1>7. CASE RequestStop \/ StopProducer \/ DrainLook \/ Signal \/ UNCHANGED vars
  <2>1. UNCHANGED <<clock, taken, queue, dropped, poolDropped, ppc, pos>>
        /\ (producerStop => producerStop')
    BY <1>7 DEF RequestStop, StopProducer, DrainLook, Signal, vars, producerVars,
                controlVars
  <2>2. QED
    BY <1>b, <1>c, <2>1 DEF LossInv, LossIsCounted, OfferedInv
<1>8. QED
  BY <1>1, <1>2, <1>3, <1>4, <1>5, <1>6, <1>7 DEF Next, Producer

LEMMA LossAlways == Spec => []LossInv
<1>1. Init => LossInv
  <2> SUFFICES ASSUME Init PROVE LossInv
    OBVIOUS
  <2>1. \A r \in Readers : taken[r] = 0 /\ Len(queue[r]) = 0 /\ dropped[r] = 0
    BY DEF Init
  <2>2. Offered = Readers /\ clock = 0 /\ poolDropped = 0 /\ OfferedInv
    BY DispatcherAssumption DEF Init, Offered, Readers, OfferedInv
  <2>3. QED BY <2>1, <2>2 DEF LossInv, LossIsCounted
<1>2. QED BY <1>1, StepLoss, TypeCorrect, PTL DEF Spec

\* Every chunk is, for every reader, taken, queued, or counted as dropped.
THEOREM NoSilentLoss == Spec => []LossIsCounted
BY LossAlways, PTL DEF LossInv

\* All of it together: the inductive invariant the runs check holds.
THEOREM InvariantHolds == Spec => []IInv
<1>1. TypeOK /\ Ownership /\ QueueBounded /\ RoomInv /\ ExhaustiveDropsNothing
        /\ LossInv => IInv
  BY DEF IInv, Ownership, LossInv
<1>2. QED BY <1>1, OwnershipAlways, RoomAlways, LossAlways, PTL

-----------------------------------------------------------------------------
(* What the queued blocks contain *)

\* A pop takes the head of one queue, a push that finds room appends to one.
LEMMA QueueSteps ==
  ASSUME TypeOK
  PROVE  /\ \A r \in Readers : queue[r] \in Seq(Blocks)
         /\ \A r \in Readers : Pop(r) =>
              /\ queue[r] # <<>>
              /\ \A x \in Readers :
                   queue'[x] = IF x = r THEN Tail(queue[x]) ELSE queue[x]
         /\ TryPush /\ Len(queue[pos]) # QueueCap =>
              /\ pos \in Readers /\ own \in Blocks
              /\ \A x \in Readers :
                   queue'[x] = IF x = pos THEN Append(queue[x], own) ELSE queue[x]
<1>1. \A r \in Readers : queue[r] \in Seq(Blocks)
  BY DEF TypeOK, ReaderTypeOK
<1>2. ASSUME NEW r \in Readers, Pop(r)
      PROVE  /\ queue[r] # <<>>
             /\ \A x \in Readers :
                  queue'[x] = IF x = r THEN Tail(queue[x]) ELSE queue[x]
  BY <1>2 DEF Pop, TypeOK, ReaderTypeOK
<1>3. ASSUME TryPush, Len(queue[pos]) # QueueCap
      PROVE  /\ pos \in Readers /\ own \in Blocks
             /\ \A x \in Readers :
                  queue'[x] = IF x = pos THEN Append(queue[x], own) ELSE queue[x]
  <2>1. pos \in Readers /\ own \in Blocks
    BY <1>3, BlockFacts DEF TryPush, TypeOK, ProducerTypeOK
  <2>2. queue' = [queue EXCEPT ![pos] = Append(@, own)]
    BY <1>3 DEF TryPush
  <2>3. QED BY <2>1, <2>2 DEF TypeOK, ReaderTypeOK
<1>4. QED BY <1>1, <1>2, <1>3

\* Only Fill changes a block, and it is one that nobody has in his hands.
LEMMA ContentSteps ==
  ASSUME TypeOK, Ownership, [Next]_vars
  PROVE  /\ \A r \in Readers : \A b \in Queued(r) : content'[b] = content[b]
         /\ \A r \in Readers : held[r] # NoBlock => content'[held[r]] = content[held[r]]
         /\ ~Fill => content' = content
<1>1. CASE Fill
  <2>1. \A r \in Readers : own # held[r] /\ own \notin Queued(r)
    BY <1>1 DEF Fill, Ownership, OwnershipInv, ToBeOffered
  <2>2. \A b : b # own => content'[b] = content[b]
    BY <1>1 DEF Fill, TypeOK, PoolTypeOK
  <2>3. QED BY <1>1, <2>1, <2>2
<1>2. CASE ~Fill
  BY <1>2 DEF Next, Producer, NextChunk, Finish, ScanBlock, ClaimBlock,
     PoolExhaustedLive, PoolExhaustedBlocking, CanPush, Backoff, PushAcquire,
     TryPush, PushRefused, PushDone, Release, Reader, ReleaseHeld,
     PopShutdown, Wait, Pop, LeaveHolding, SpuriousWakeup, RequestStop,
     Signal, StopProducer, DrainLook, producerVars, vars
<1>3. QED BY <1>1, <1>2

LEMMA QueuedElements ==
  ASSUME TypeOK, NEW r \in Readers, NEW i \in 1 .. Len(queue[r])
  PROVE  queue[r][i] \in Queued(r) /\ queue[r][i] \in Blocks
<1>1. queue[r] \in Seq(Blocks)
  BY QueueSteps
<1>2. DOMAIN queue[r] = 1 .. Len(queue[r])
  BY <1>1
<1>3. QED BY <1>1, <1>2 DEF Queued, Range

\* The steps that touch no queue keep what is queued in order.
LEMMA SameQueues ==
  ASSUME TypeOK, Ownership, [Next]_vars, OrderInv, UNCHANGED <<queue, last, taken>>
  PROVE  Exhaustive => \A r \in Readers :
           /\ last'[r] = taken'[r]
           /\ \A i \in 1 .. Len(queue'[r]) : content'[queue'[r][i]] = taken'[r] + i
<1>1. ASSUME Exhaustive, NEW r \in Readers, NEW i \in 1 .. Len(queue[r])
      PROVE  content'[queue[r][i]] = taken[r] + i
  <2>1. content'[queue[r][i]] = content[queue[r][i]]
    BY <1>1, ContentSteps, QueuedElements
  <2>2. QED BY <1>1, <2>1 DEF OrderInv
<1>2. QED BY <1>1 DEF OrderInv

LEMMA StepOrder ==
  TypeOK /\ Ownership /\ LossInv /\ ExhaustiveDropsNothing /\ OrderInv /\ [Next]_vars
    => OrderInv'
<1> SUFFICES ASSUME TypeOK, Ownership, LossInv, ExhaustiveDropsNothing, OrderInv,
                    [Next]_vars
             PROVE  OrderInv'
  OBVIOUS
<1> DEFINE Pushing(p) == p \in {"canpush", "backoff", "push", "trypush", "undo"}
<1>1. CASE TryPush /\ Len(queue[pos]) # QueueCap
  <2>1. /\ pos \in Readers /\ own \in Blocks
        /\ \A x \in Readers :
             queue'[x] = IF x = pos THEN Append(queue[x], own) ELSE queue[x]
        /\ \A x \in Readers : queue[x] \in Seq(Blocks)
    BY <1>1, QueueSteps
  <2>2. /\ ppc = "trypush" /\ own' = own /\ clock' = clock
        /\ UNCHANGED <<content, last, taken>>
    BY <1>1 DEF TryPush
  <2>3. content[own] = clock
    BY <2>2 DEF OrderInv
  <2>4. ASSUME Exhaustive
        PROVE  clock = taken[pos] + Len(queue[pos]) + 1
    <3>1. pos \notin Offered
      BY <2>1, <2>2, DispatcherAssumption DEF Offered, Readers
    <3>2. clock = taken[pos] + Len(queue[pos]) + dropped[pos] + poolDropped + 1
      BY <2>1, <3>1 DEF LossInv, LossIsCounted
    <3>3. dropped[pos] = 0 /\ poolDropped = 0
      BY <2>1, <2>4 DEF ExhaustiveDropsNothing
    <3>4. taken[pos] \in Nat /\ Len(queue[pos]) \in Nat
      BY <2>1, QueueLengths DEF TypeOK, ReaderTypeOK
    <3>5. QED BY <3>2, <3>3, <3>4
  <2>5. ASSUME Exhaustive, NEW x \in Readers, NEW i \in 1 .. Len(queue'[x])
        PROVE  content[queue'[x][i]] = taken[x] + i
    <3>1. CASE x = pos
      <4>1. /\ Len(queue'[x]) = Len(queue[x]) + 1
            /\ queue'[x][Len(queue[x]) + 1] = own
            /\ \A j \in 1 .. Len(queue[x]) : queue'[x][j] = queue[x][j]
            /\ Len(queue[x]) \in Nat
        <5>1. queue'[x] = Append(queue[x], own) /\ queue[x] \in Seq(Blocks)
          BY <2>1, <3>1
        <5>2. QED BY <2>1, <5>1, AppendProperties, LenProperties
      <4>2. CASE i = Len(queue[x]) + 1
        <5>1. taken[x] \in Nat
          BY DEF TypeOK, ReaderTypeOK
        <5>2. QED BY <2>3, <2>4, <2>5, <3>1, <4>1, <4>2, <5>1
      <4>3. CASE i # Len(queue[x]) + 1
        BY <2>5, <4>1, <4>3 DEF OrderInv
      <4>4. QED BY <4>2, <4>3
    <3>2. CASE x # pos
      BY <2>1, <2>5, <3>2 DEF OrderInv
    <3>3. QED BY <3>1, <3>2
  <2>6. QED BY <2>2, <2>3, <2>5 DEF OrderInv
<1>2. ASSUME NEW r \in Readers, Pop(r)
      PROVE  OrderInv'
  <2>1. /\ queue[r] # <<>>
        /\ \A x \in Readers : queue'[x] = IF x = r THEN Tail(queue[x]) ELSE queue[x]
        /\ \A x \in Readers : queue[x] \in Seq(Blocks)
    BY <1>2, QueueSteps
  <2>2. /\ \A x \in Readers : taken'[x] = IF x = r THEN taken[x] + 1 ELSE taken[x]
        /\ \A x \in Readers : last'[x] = IF x = r THEN content[Head(queue[x])] ELSE last[x]
        /\ UNCHANGED <<ppc, own, clock, content>>
    BY <1>2 DEF Pop, producerVars, TypeOK, ReaderTypeOK
  <2>3. /\ Len(queue[r]) \in Nat \ {0} /\ Len(queue'[r]) = Len(queue[r]) - 1
        /\ Head(queue[r]) = queue[r][1]
        /\ \A i \in 1 .. Len(queue[r]) - 1 : queue'[r][i] = queue[r][i + 1]
    <3>1. queue'[r] = Tail(queue[r]) /\ queue[r] \in Seq(Blocks)
      BY <2>1
    <3>2. QED BY <2>1, <3>1, HeadTailProperties, EmptySeq
  <2>4. \A x \in Readers : taken[x] \in Nat
    BY DEF TypeOK, ReaderTypeOK
  <2>5. ASSUME Exhaustive, NEW x \in Readers
        PROVE  /\ last'[x] = taken'[x]
               /\ \A i \in 1 .. Len(queue'[x]) : content[queue'[x][i]] = taken'[x] + i
    <3>1. CASE x = r
      <4>1. content[queue[r][1]] = taken[r] + 1
        BY <2>3, <2>5 DEF OrderInv
      <4>2. ASSUME NEW i \in 1 .. Len(queue'[r])
            PROVE  content[queue'[r][i]] = taken'[r] + i
        <5>1. i + 1 \in 1 .. Len(queue[r]) /\ queue'[r][i] = queue[r][i + 1]
          BY <2>3
        <5>2. content[queue[r][i + 1]] = taken[r] + (i + 1)
          BY <2>5, <5>1 DEF OrderInv
        <5>3. i \in Nat /\ taken[r] \in Nat /\ taken'[r] = taken[r] + 1
          BY <2>2, <2>3, <2>4
        <5>4. QED BY <5>1, <5>2, <5>3
      <4>3. QED BY <2>2, <2>3, <3>1, <4>1, <4>2
    <3>2. CASE x # r
      BY <2>1, <2>2, <2>5, <3>2 DEF OrderInv
    <3>3. QED BY <3>1, <3>2
  <2>6. QED BY <2>2, <2>5 DEF OrderInv
<1>3. CASE Fill
  <2>1. own \in Blocks /\ content' = [content EXCEPT ![own] = clock]
    BY <1>3, BlockFacts DEF Fill, TypeOK, ProducerTypeOK
  <2>2. content'[own'] = clock'
    BY <1>3, <2>1 DEF Fill, TypeOK, PoolTypeOK
  <2>3. UNCHANGED <<queue, last, taken>>
    BY <1>3 DEF Fill
  <2>4. QED BY <2>2, <2>3, SameQueues DEF OrderInv
<1>4. CASE /\ ~(TryPush /\ Len(queue[pos]) # QueueCap)
           /\ ~Fill /\ ~\E r \in Readers : Pop(r)
  <2>1. UNCHANGED <<queue, last, taken>>
    BY <1>4 DEF Next, Producer, NextChunk, Finish, ScanBlock, ClaimBlock,
       PoolExhaustedLive, PoolExhaustedBlocking, CanPush, Backoff, PushAcquire,
       TryPush, PushRefused, PushDone, Release, Reader, ReleaseHeld,
       PopShutdown, Wait, LeaveHolding, SpuriousWakeup, RequestStop,
       Signal, StopProducer, DrainLook, producerVars, vars
  <2>2. Pushing(ppc') => Pushing(ppc) /\ own' = own /\ clock' = clock
    BY <1>4 DEF Next, Producer, NextChunk, Finish, ScanBlock, ClaimBlock,
       PoolExhaustedLive, PoolExhaustedBlocking, CanPush, Backoff, PushAcquire,
       TryPush, PushRefused, PushDone, Release, Reader, ReleaseHeld,
       PopShutdown, Wait, LeaveHolding, SpuriousWakeup, RequestStop,
       Signal, StopProducer, DrainLook, producerVars, vars
  <2>3. content' = content
    BY <1>4, ContentSteps
  <2>4. QED BY <2>1, <2>2, <2>3, SameQueues DEF OrderInv
<1>5. QED BY <1>1, <1>2, <1>3, <1>4

LEMMA OrderAlways == Spec => []OrderInv
<1>1. Init => OrderInv
  BY DEF Init, OrderInv
<1>2. QED
  BY <1>1, StepOrder, OwnershipAlways, LossAlways, RoomAlways, PTL DEF Spec

-----------------------------------------------------------------------------
(* A drained dispatcher has delivered everything *)

LEMMA StepDrain ==
  TypeOK /\ Ownership /\ LossInv /\ DrainInv /\ [Next]_vars => DrainInv'
<1> SUFFICES ASSUME TypeOK, Ownership, LossInv, DrainInv, [Next]_vars
             PROVE  DrainInv'
  OBVIOUS
<1>a. /\ dpc \in 0 .. NBlocks /\ NBlocks \in Nat \ {0} /\ Blocks \subseteq Nat
      /\ refcount \in [Blocks -> Int]
      /\ \A r \in Readers : held[r] \in Blocks \cup {NoBlock}
  BY BlockFacts, DispatcherAssumption
     DEF TypeOK, ControlTypeOK, PoolTypeOK, ReaderTypeOK
<1>1. CASE Producer
  <2>1. UNCHANGED <<shutdown, producerStop, dpc, drained>> /\ ppc # "finished"
    BY <1>1 DEF Producer, NextChunk, Finish, ScanBlock, ClaimBlock,
       PoolExhaustedLive, PoolExhaustedBlocking, Fill, CanPush, Backoff,
       PushAcquire, TryPush, PushRefused, PushDone, Release, controlVars
  <2>2. ~(dpc > 0 \/ drained)
    BY <2>1 DEF DrainInv
  <2>3. ppc' = "finished" => clock' = MaxChunks \/ producerStop
    BY <1>1, <2>1 DEF Producer, NextChunk, Finish, ScanBlock, ClaimBlock,
       PoolExhaustedLive, PoolExhaustedBlocking, Fill, CanPush, Backoff,
       PushAcquire, TryPush, PushRefused, PushDone, Release
  <2>4. QED BY <2>1, <2>2, <2>3 DEF DrainInv
<1>2. ASSUME NEW r \in Readers, ReleaseHeld(r)
      PROVE  DrainInv'
  <2>1. UNCHANGED <<ppc, pos, clock, shutdown, producerStop, dpc, drained>>
    BY <1>2 DEF ReleaseHeld, producerVars, controlVars
  <2>2. ASSUME NEW b \in Blocks, refcount[b] = 0
        PROVE  refcount'[b] = 0
    <3>1. b # held[r]
      BY <2>2, CountsDecide DEF Ownership
    <3>2. QED BY <1>2, <1>a, <2>2, <3>1 DEF ReleaseHeld
  <2>3. QED BY <2>1, <2>2 DEF DrainInv
<1>3. CASE StopProducer \/ RequestStop
  BY <1>3 DEF StopProducer, RequestStop, producerVars, DrainInv
<1>4. CASE DrainLook
  <2>1. /\ Exhaustive /\ ppc = "finished" /\ ~shutdown /\ ~drained
        /\ UNCHANGED <<ppc, pos, clock, refcount, shutdown, producerStop>>
    BY <1>4 DEF DrainLook, producerVars
  <2>2. clock = MaxChunks /\ pos = NReaders + 1 /\ ~producerStop
    BY <2>1 DEF DrainInv, LossInv, OfferedInv
  <2>3. \A b \in Blocks : b < dpc => refcount[b] = 0
    BY <1>a DEF DrainInv
  <2>4. CASE dpc = NBlocks
    BY <1>4, <2>1, <2>2, <2>3, <2>4 DEF DrainLook, DrainInv
  <2>5. CASE dpc # NBlocks /\ refcount[dpc] = 0
    <3>1. dpc' = dpc + 1 /\ drained' = drained
      BY <1>4, <2>5 DEF DrainLook
    <3>2. \A b \in Blocks : b < dpc' => refcount[b] = 0
      BY <1>a, <2>3, <2>5, <3>1
    <3>3. QED BY <2>1, <2>2, <3>1, <3>2 DEF DrainInv
  <2>6. CASE dpc # NBlocks /\ refcount[dpc] # 0
    <3>1. dpc' = 0 /\ drained' = drained
      BY <1>4, <2>6 DEF DrainLook
    <3>2. \A b \in Blocks : ~(b < 0)
      BY <1>a
    <3>3. QED BY <2>1, <2>2, <3>1, <3>2 DEF DrainInv
  <2>7. QED BY <2>4, <2>5, <2>6
<1>5. ASSUME NEW r \in Readers,
             \/ PopShutdown(r) \/ Wait(r) \/ Pop(r) \/ LeaveHolding(r)
             \/ SpuriousWakeup(r)
      PROVE  DrainInv'
  BY <1>5 DEF PopShutdown, Wait, Pop, LeaveHolding, SpuriousWakeup, producerVars,
     controlVars, DrainInv
<1>6. CASE Signal \/ UNCHANGED vars
  BY <1>6 DEF Signal, vars, producerVars, controlVars, DrainInv
<1>7. QED
  BY <1>1, <1>2, <1>3, <1>4, <1>5, <1>6 DEF Next, Reader

\* The scan of all_free is not a snapshot, yet when it has found every block
\* free after the end of the capture, every reader has worked through all of it.
THEOREM AllFreeMeansAllDone == Spec => []DrainedIsComplete
<1>1. Init => DrainInv
  BY DEF Init, DrainInv
<1>2. ASSUME TypeOK, Ownership, LossInv, ExhaustiveDropsNothing, OrderInv, DrainInv
      PROVE  DrainedIsComplete
  <2> SUFFICES ASSUME drained, NEW r \in Readers
               PROVE  /\ queue[r] = <<>> /\ held[r] = NoBlock
                      /\ taken[r] = MaxChunks /\ last[r] = MaxChunks
    BY DEF DrainedIsComplete
  <2>1. /\ Exhaustive /\ ppc = "finished" /\ clock = MaxChunks
        /\ pos = NReaders + 1
        /\ \A b \in Blocks : refcount[b] = 0
    BY <1>2, DispatcherAssumption DEF DrainInv, Blocks
  <2>2. \A b \in Blocks : b # held[r] /\ b \notin Queued(r)
    BY <1>2, <2>1, CountsDecide DEF Ownership
  <2>3. held[r] = NoBlock
    BY <1>2, <2>2 DEF TypeOK, ReaderTypeOK
  <2>4. queue[r] = <<>>
    <3>1. queue[r] \in Seq(Blocks)
      BY <1>2, QueueSteps
    <3>2. Len(queue[r]) \in Nat /\ ~(1 \in 1 .. Len(queue[r]))
      BY <1>2, <2>2, <3>1, QueuedElements, LenProperties
    <3>3. QED BY <3>1, <3>2, EmptySeq
  <2>5. r \in Offered
    BY <2>1, DispatcherAssumption DEF Offered, Readers
  <2>6. clock = taken[r] + Len(queue[r]) + dropped[r] + poolDropped + 0
    BY <1>2, <2>5 DEF LossInv, LossIsCounted
  <2>7. taken[r] \in Nat /\ Len(queue[r]) = 0 /\ dropped[r] = 0 /\ poolDropped = 0
    BY <1>2, <2>1, <2>4, EmptySeq
       DEF ExhaustiveDropsNothing, TypeOK, ReaderTypeOK
  <2>8. taken[r] = MaxChunks
    BY <2>1, <2>6, <2>7
  <2>9. last[r] = MaxChunks
    BY <1>2, <2>1, <2>8 DEF OrderInv
  <2>10. QED BY <2>3, <2>4, <2>8, <2>9
<1>3. QED
  BY <1>1, <1>2, StepDrain, OwnershipAlways, LossAlways, RoomAlways, OrderAlways,
     PTL DEF Spec

-----------------------------------------------------------------------------
(* The dispatcher implements the stream of chunks *)

LEMMA ChunksAreSeq ==
  ASSUME TypeOK, NEW r \in Readers
  PROVE  /\ Chunks(r) \in Seq(Nat)
         /\ Len(Chunks(r)) = Len(queue[r])
         /\ \A i \in 1 .. Len(queue[r]) : Chunks(r)[i] = content[queue[r][i]]
<1>1. queue[r] \in Seq(Blocks) /\ Len(queue[r]) \in Nat
  BY QueueSteps, LenProperties
<1>2. \A i \in 1 .. Len(queue[r]) : content[queue[r][i]] \in Nat
  BY QueuedElements DEF TypeOK, PoolTypeOK
<1>3. Chunks(r) \in [1 .. Len(queue[r]) -> Nat]
  BY <1>2 DEF Chunks
<1>4. Chunks(r) \in Seq(Nat)
  BY <1>1, <1>3
<1>5. 1 .. Len(Chunks(r)) = 1 .. Len(queue[r]) /\ Len(Chunks(r)) \in Nat
  BY <1>3, <1>4, LenProperties
<1>6. Len(Chunks(r)) = Len(queue[r])
  BY <1>1, <1>5
<1>7. QED BY <1>4, <1>6 DEF Chunks

\* A block appended to a queue appends its chunk, a block taken from its head
\* takes the chunk at the head, and nothing else changes what is queued.
LEMMA ChunksOfAppend ==
  ASSUME TypeOK, NEW r \in Readers, NEW b \in Blocks,
         queue'[r] = Append(queue[r], b), content' = content
  PROVE  Chunks(r)' = Append(Chunks(r), content[b])
<1> DEFINE q == queue[r]
           n == Len(q)
<1>1. q \in Seq(Blocks) /\ n \in Nat
  BY QueueSteps, LenProperties
<1>2. /\ Len(Append(q, b)) = n + 1 /\ Append(q, b)[n + 1] = b
      /\ \A i \in 1 .. n : Append(q, b)[i] = q[i]
  BY <1>1, AppendProperties
<1>3. Chunks(r)' = [i \in 1 .. n + 1 |-> content[Append(q, b)[i]]]
  BY <1>2 DEF Chunks
<1>4. content[b] \in Nat
  BY DEF TypeOK, PoolTypeOK
<1>5. /\ Append(Chunks(r), content[b]) \in Seq(Nat)
      /\ Len(Append(Chunks(r), content[b])) = n + 1
      /\ \A i \in 1 .. n : Append(Chunks(r), content[b])[i] = content[q[i]]
      /\ Append(Chunks(r), content[b])[n + 1] = content[b]
  BY <1>1, <1>4, ChunksAreSeq, AppendProperties
<1>6. Append(Chunks(r), content[b])
        = [i \in 1 .. n + 1 |-> Append(Chunks(r), content[b])[i]]
  BY <1>5, LenProperties
<1>7. ASSUME NEW i \in 1 .. n + 1
      PROVE  content[Append(q, b)[i]] = Append(Chunks(r), content[b])[i]
  <2>1. CASE i = n + 1 BY <1>2, <1>5, <2>1
  <2>2. CASE i # n + 1
    <3>1. i \in 1 .. n BY <1>1, <2>2
    <3>2. QED BY <1>2, <1>5, <3>1
  <2>3. QED BY <2>1, <2>2
<1>8. QED BY <1>3, <1>6, <1>7

LEMMA ChunksOfTail ==
  ASSUME TypeOK, NEW r \in Readers, queue[r] # <<>>,
         queue'[r] = Tail(queue[r]), content' = content
  PROVE  /\ Chunks(r) # <<>> /\ Head(Chunks(r)) = content[Head(queue[r])]
         /\ Chunks(r)' = Tail(Chunks(r))
<1> DEFINE q == queue[r]
           n == Len(q)
<1>1. q \in Seq(Blocks) /\ n \in Nat \ {0} /\ Head(q) = q[1]
  BY QueueSteps, LenProperties, EmptySeq
<1>2. Len(Tail(q)) = n - 1 /\ \A i \in 1 .. n - 1 : Tail(q)[i] = q[i + 1]
  BY <1>1, HeadTailProperties
<1>3. Chunks(r)' = [i \in 1 .. n - 1 |-> content[Tail(q)[i]]]
  BY <1>2 DEF Chunks
<1>4. /\ Chunks(r) \in Seq(Nat) /\ Len(Chunks(r)) = n /\ Chunks(r) # <<>>
      /\ \A i \in 1 .. n : Chunks(r)[i] = content[q[i]]
  BY <1>1, ChunksAreSeq, EmptySeq
<1>5. Head(Chunks(r)) = content[Head(q)]
  BY <1>1, <1>4
<1>6. /\ Tail(Chunks(r)) \in Seq(Nat) /\ Len(Tail(Chunks(r))) = n - 1
      /\ \A i \in 1 .. n - 1 : Tail(Chunks(r))[i] = Chunks(r)[i + 1]
  BY <1>4, HeadTailProperties
<1>7. Tail(Chunks(r)) = [i \in 1 .. n - 1 |-> Tail(Chunks(r))[i]]
  BY <1>6, LenProperties
<1>8. ASSUME NEW i \in 1 .. n - 1
      PROVE  content[Tail(q)[i]] = Tail(Chunks(r))[i]
  <2>1. i + 1 \in 1 .. n BY <1>1
  <2>2. QED BY <1>2, <1>4, <1>6, <2>1
<1>9. QED BY <1>3, <1>4, <1>5, <1>7, <1>8

LEMMA ChunksStay ==
  ASSUME TypeOK, NEW r \in Readers, queue'[r] = queue[r],
         \A b \in Queued(r) : content'[b] = content[b]
  PROVE  Chunks(r)' = Chunks(r)
BY QueuedElements DEF Chunks

\* The readers a step of the producer is done with.
LEMMA OfferedSteps ==
  ASSUME TypeOK, LossInv
  PROVE  /\ NextChunk => Offered = Readers /\ Offered' = {}
         /\ PoolExhaustedLive => Offered = {} /\ Offered' = Readers
         /\ (TryPush /\ Len(queue[pos]) # QueueCap) \/ PushRefused =>
              pos \in Readers /\ pos \notin Offered /\ Offered' = Offered \cup {pos}
         /\ (\/ Finish \/ ScanBlock \/ ClaimBlock \/ PoolExhaustedBlocking
             \/ Fill \/ CanPush \/ Backoff \/ PushAcquire \/ PushDone \/ Release
             \/ TryPush /\ Len(queue[pos]) = QueueCap)
              => Offered' = Offered
<1>a. /\ pos \in 1 .. NReaders + 1 /\ NReaders \in Nat /\ Readers = 1 .. NReaders
      /\ ppc \in {"trypush", "undo"} => pos \in Readers
      /\ ppc \in {"scan", "claim", "fill", "backoff"} => pos = 1
  BY DispatcherAssumption DEF TypeOK, ProducerTypeOK, Readers
<1>1. ASSUME NextChunk PROVE Offered = Readers /\ Offered' = {}
  <2>1. ppc = "next" /\ pos = NReaders + 1 /\ ppc' = "scan"
    BY <1>1 DEF NextChunk, LossInv, OfferedInv
  <2>2. QED BY <1>a, <2>1 DEF Offered
<1>2. ASSUME PoolExhaustedLive PROVE Offered = {} /\ Offered' = Readers
  BY <1>2, <1>a DEF PoolExhaustedLive, Offered
<1>3. ASSUME (TryPush /\ Len(queue[pos]) # QueueCap) \/ PushRefused
      PROVE  pos \in Readers /\ pos \notin Offered /\ Offered' = Offered \cup {pos}
  <2>1. ppc \in {"trypush", "undo"} /\ ppc' = "push" /\ pos' = pos + 1
    BY <1>3 DEF TryPush, PushRefused
  <2>2. Offered = 1 .. pos - 1 /\ Offered' = 1 .. pos
    BY <1>a, <2>1 DEF Offered
  <2>3. QED BY <1>a, <2>1, <2>2
<1>4. ASSUME \/ Finish \/ ScanBlock \/ ClaimBlock \/ PoolExhaustedBlocking
             \/ Fill \/ CanPush \/ Backoff \/ PushAcquire \/ PushDone \/ Release
             \/ TryPush /\ Len(queue[pos]) = QueueCap
      PROVE  Offered' = Offered
  <2>1. 1 .. 1 - 1 = {}
    OBVIOUS
  <2>2. CASE Finish \/ PushAcquire \/ PushDone \/ Release
    BY <2>2 DEF Finish, PushAcquire, PushDone, Release, Offered
  <2>3. CASE ScanBlock \/ ClaimBlock \/ PoolExhaustedBlocking \/ Backoff
    BY <1>a, <2>1, <2>3
       DEF ScanBlock, ClaimBlock, PoolExhaustedBlocking, Backoff, Offered
  <2>4. CASE Fill \/ CanPush
    BY <1>a, <2>1, <2>4 DEF Fill, CanPush, Offered
  <2>5. CASE TryPush /\ Len(queue[pos]) = QueueCap
    BY <2>5 DEF TryPush, Offered
  <2>6. QED BY <1>4, <2>2, <2>3, <2>4, <2>5
<1>5. QED BY <1>1, <1>2, <1>3, <1>4

\* A step of the dispatcher is a step of the stream, or none.
LEMMA StepStream ==
  /\ TypeOK /\ Ownership /\ LossInv /\ OrderInv
  /\ QueueBounded /\ RoomInv /\ ExhaustiveDropsNothing
  /\ [Next]_vars
  => [Stream!Next]_(Stream!vars)
<1> SUFFICES ASSUME TypeOK, Ownership, LossInv, OrderInv, QueueBounded, RoomInv,
                    [Next]_vars
             PROVE  [Stream!Next]_(Stream!vars)
  OBVIOUS
<1> DEFINE stream == [r \in Readers |-> Chunks(r)]
           InHand(r) == IF held[r] = NoBlock THEN 0 ELSE content[held[r]]
           inHand == [r \in Readers |-> InHand(r)]
           Lost(r) == dropped[r] + poolDropped
           lost == [r \in Readers |-> Lost(r)]
<1>a. /\ \A r \in Readers : dropped[r] \in Nat
      /\ poolDropped \in Nat /\ clock \in Nat /\ NReaders \in Nat
      /\ DOMAIN dropped = Readers
  BY DispatcherAssumption DEF TypeOK, ReaderTypeOK, PoolTypeOK, ProducerTypeOK
<1>b. \A r \in Readers :
        /\ queue'[r] = queue[r] => Chunks(r)' = Chunks(r)
        /\ held'[r] = held[r] => InHand(r)' = InHand(r)
  BY ContentSteps, ChunksStay
<1>c. ASSUME UNCHANGED <<clock, queue, held, last, taken, dropped, poolDropped>>,
             Offered' = Offered
      PROVE  UNCHANGED Stream!vars
  <2>1. UNCHANGED <<stream, inHand, lost>>
    BY <1>b, <1>c
  <2>2. QED BY <1>c, <2>1 DEF Stream!vars
<1>1. CASE NextChunk
  <2>1. /\ Offered = Readers /\ Offered' = {} /\ clock' = clock + 1
        /\ UNCHANGED <<queue, held, last, taken, dropped, poolDropped>>
    BY <1>1, OfferedSteps DEF NextChunk
  <2>2. UNCHANGED <<stream, inHand, lost>>
    BY <1>b, <2>1
  <2>3. Stream!Begin
    BY <2>1, <2>2 DEF Stream!Begin
  <2>4. QED BY <2>3 DEF Stream!Next
<1>2. CASE PoolExhaustedLive
  <2>1. /\ Offered = {} /\ Offered' = Readers /\ ~Exhaustive
        /\ poolDropped' = poolDropped + 1
        /\ UNCHANGED <<clock, queue, held, last, taken, dropped>>
    BY <1>2, OfferedSteps DEF PoolExhaustedLive
  <2>2. UNCHANGED <<stream, inHand>>
    BY <1>b, <2>1
  <2>3. lost' = [r \in Readers |-> IF r \in Readers THEN lost[r] + 1 ELSE lost[r]]
    BY <1>a, <2>1
  <2>4. Stream!Lose(Readers)
    BY <2>1, <2>2, <2>3 DEF Stream!Lose
  <2>5. QED BY <2>4 DEF Stream!Next
<1>3. CASE TryPush /\ Len(queue[pos]) # QueueCap
  <2>1. /\ pos \in Readers /\ pos \notin Offered /\ Offered' = Offered \cup {pos}
        /\ UNCHANGED <<clock, content, held, last, taken, dropped, poolDropped>>
        /\ ppc = "trypush"
    BY <1>3, OfferedSteps DEF TryPush
  <2>2. /\ own \in Blocks
        /\ \A x \in Readers :
             queue'[x] = IF x = pos THEN Append(queue[x], own) ELSE queue[x]
    BY <1>3, QueueSteps
  <2>3. content[own] = clock
    BY <2>1 DEF OrderInv
  <2>4. stream' = [stream EXCEPT ![pos] = Append(@, clock)]
    <3>1. ASSUME NEW x \in Readers
          PROVE  Chunks(x)' = IF x = pos THEN Append(Chunks(x), clock) ELSE Chunks(x)
      <4>1. CASE x = pos
        <5>1. queue'[x] = Append(queue[x], own) /\ content' = content
          BY <2>1, <2>2, <4>1
        <5>2. Chunks(x)' = Append(Chunks(x), content[own])
          BY <2>2, <5>1, ChunksOfAppend
        <5>3. QED BY <2>3, <4>1, <5>2
      <4>2. CASE x # pos
        BY <1>b, <2>2, <4>2
      <4>3. QED BY <4>1, <4>2
    <3>2. QED BY <2>1, <3>1
  <2>5. Len(stream[pos]) < QueueCap
    <3>1. Len(queue[pos]) <= QueueCap /\ Len(queue[pos]) \in Nat
      BY <2>1, QueueLengths DEF QueueBounded
    <3>2. Len(Chunks(pos)) = Len(queue[pos])
      BY <2>1, ChunksAreSeq
    <3>3. QED BY <1>3, <2>1, <3>1, <3>2, DispatcherAssumption
  <2>6. UNCHANGED <<inHand, lost>>
    BY <2>1
  <2>7. Stream!Deliver(pos)
    BY <2>1, <2>4, <2>5, <2>6 DEF Stream!Deliver
  <2>8. QED BY <2>1, <2>7 DEF Stream!Next
<1>4. CASE PushRefused
  <2>1. /\ pos \in Readers /\ pos \notin Offered /\ Offered' = Offered \cup {pos}
        /\ dropped' = [dropped EXCEPT ![pos] = @ + 1]
        /\ UNCHANGED <<clock, queue, held, last, taken, poolDropped>>
        /\ ppc = "undo"
    BY <1>4, OfferedSteps DEF PushRefused
  <2>2. ~Exhaustive
    BY <2>1 DEF RoomInv
  <2>3. UNCHANGED <<stream, inHand>>
    BY <1>b, <2>1
  <2>4. lost' = [r \in Readers |-> IF r \in {pos} THEN lost[r] + 1 ELSE lost[r]]
    <3>1. \A r \in Readers :
            dropped'[r] = IF r = pos THEN dropped[r] + 1 ELSE dropped[r]
      BY <1>a, <2>1
    <3>2. \A r \in Readers : Lost(r)' = IF r \in {pos} THEN Lost(r) + 1 ELSE Lost(r)
      BY <1>a, <2>1, <3>1
    <3>3. QED BY <3>2
  <2>5. PICK R \in SUBSET Readers : R = {pos}
    BY <2>1
  <2>6. Stream!Lose(R)
    BY <2>1, <2>2, <2>3, <2>4, <2>5 DEF Stream!Lose
  <2>7. QED BY <2>6 DEF Stream!Next
<1>5. CASE \/ Finish \/ ScanBlock \/ ClaimBlock \/ PoolExhaustedBlocking
           \/ Fill \/ CanPush \/ Backoff \/ PushAcquire \/ PushDone \/ Release
           \/ TryPush /\ Len(queue[pos]) = QueueCap
  <2>1. Offered' = Offered
    BY <1>5, OfferedSteps
  <2>2. UNCHANGED <<clock, queue, held, last, taken, dropped, poolDropped>>
    BY <1>5 DEF Finish, ScanBlock, ClaimBlock, PoolExhaustedBlocking, Fill,
       CanPush, Backoff, PushAcquire, PushDone, Release, TryPush
  <2>3. QED BY <1>c, <2>1, <2>2
<1>6. ASSUME NEW r \in Readers, ReleaseHeld(r)
      PROVE  Stream!Next
  <2>1. /\ held' = [held EXCEPT ![r] = NoBlock]
        /\ UNCHANGED <<clock, ppc, pos, queue, last, taken, dropped, poolDropped>>
    BY <1>6 DEF ReleaseHeld, producerVars
  <2>2. inHand' = [inHand EXCEPT ![r] = 0]
    <3>1. \A x \in Readers : held'[x] = IF x = r THEN NoBlock ELSE held[x]
      BY <2>1 DEF TypeOK, ReaderTypeOK
    <3>2. InHand(r)' = 0 /\ \A x \in Readers : x # r => InHand(x)' = InHand(x)
      BY <1>b, <3>1
    <3>3. QED BY <3>2
  <2>3. UNCHANGED <<stream, lost, Offered>>
    BY <1>b, <2>1 DEF Offered
  <2>4. Stream!Finish(r)
    BY <2>1, <2>2, <2>3 DEF Stream!Finish
  <2>5. QED BY <2>4 DEF Stream!Next
<1>7. ASSUME NEW r \in Readers, Pop(r)
      PROVE  Stream!Next
  <2>1. /\ rpc[r] = "popping"
        /\ held' = [held EXCEPT ![r] = Head(queue[r])]
        /\ last' = [last EXCEPT ![r] = content[Head(queue[r])]]
        /\ taken' = [taken EXCEPT ![r] = @ + 1]
        /\ UNCHANGED <<clock, ppc, pos, content, dropped, poolDropped>>
    BY <1>7 DEF Pop, producerVars
  <2>2. /\ queue[r] # <<>> /\ queue[r] \in Seq(Blocks)
        /\ \A x \in Readers : queue'[x] = IF x = r THEN Tail(queue[x]) ELSE queue[x]
    BY <1>7, QueueSteps
  <2>3. /\ Chunks(r) # <<>> /\ Head(Chunks(r)) = content[Head(queue[r])]
        /\ Chunks(r)' = Tail(Chunks(r))
    BY <2>1, <2>2, ChunksOfTail
  <2>4. stream' = [stream EXCEPT ![r] = Tail(@)]
    <3>1. \A x \in Readers : x # r => Chunks(x)' = Chunks(x)
      BY <1>b, <2>2
    <3>2. QED BY <2>3, <3>1
  <2>5. inHand[r] = 0
    BY <2>1 DEF Ownership, OwnershipInv
  <2>6. inHand' = [inHand EXCEPT ![r] = Head(stream[r])]
    <3>1. Head(queue[r]) \in Blocks
      BY <2>2, HeadTailProperties
    <3>2. \A x \in Readers : held'[x] = IF x = r THEN Head(queue[r]) ELSE held[x]
      BY <2>1 DEF TypeOK, ReaderTypeOK
    <3>3. InHand(r)' = Head(Chunks(r))
      BY <2>1, <2>3, <3>1, <3>2, BlockFacts
    <3>4. \A x \in Readers : x # r => InHand(x)' = InHand(x)
      BY <1>b, <3>2
    <3>5. QED BY <3>3, <3>4
  <2>7. UNCHANGED <<lost, Offered>>
    BY <2>1 DEF Offered
  <2>8. Stream!Take(r)
    BY <2>1, <2>3, <2>4, <2>5, <2>6, <2>7 DEF Stream!Take
  <2>9. QED BY <2>8 DEF Stream!Next
<1>8. ASSUME NEW r \in Readers,
             PopShutdown(r) \/ Wait(r) \/ LeaveHolding(r) \/ SpuriousWakeup(r)
      PROVE  UNCHANGED Stream!vars
  <2>1. UNCHANGED <<clock, ppc, pos, queue, held, last, taken, dropped, poolDropped>>
    BY <1>8 DEF PopShutdown, Wait, LeaveHolding, SpuriousWakeup, producerVars
  <2>2. QED BY <1>c, <2>1 DEF Offered
<1>9. CASE RequestStop \/ Signal \/ StopProducer \/ DrainLook \/ UNCHANGED vars
  <2>1. UNCHANGED <<clock, ppc, pos, queue, held, last, taken, dropped, poolDropped>>
    BY <1>9 DEF RequestStop, Signal, StopProducer, DrainLook, producerVars, vars
  <2>2. QED BY <1>c, <2>1 DEF Offered
<1>10. QED
  BY <1>1, <1>2, <1>3, <1>4, <1>5, <1>6, <1>7, <1>8, <1>9 DEF Next, Producer, Reader

\* Pointers into a recycled pool, handed out without a lock, are as good as a
\* bounded queue of its own chunks for every reader: in order, none twice, and
\* the lost ones charged to the reader that lost them.
THEOREM DispatcherIsStream == Spec => ImplementsStream
<1>1. ASSUME Init PROVE Stream!Init
  <2>1. /\ Offered = Readers /\ clock = 0
        /\ \A r \in Readers : /\ Chunks(r) = <<>> /\ held[r] = NoBlock
                              /\ last[r] = 0 /\ taken[r] = 0
                              /\ dropped[r] + poolDropped = 0
    BY <1>1, DispatcherAssumption DEF Init, Offered, Readers, Chunks
  <2>2. last = [r \in Readers |-> 0] /\ taken = [r \in Readers |-> 0]
    BY <1>1 DEF Init
  <2>3. QED BY <2>1, <2>2 DEF Stream!Init
<1>2. QED
  BY <1>1, StepStream, OwnershipAlways, LossAlways, OrderAlways, RoomAlways, PTL
     DEF Spec, ImplementsStream, Stream!Spec
=============================================================================
