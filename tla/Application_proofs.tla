------------------------- MODULE Application_proofs -------------------------
(***************************************************************************)
(* Proofs about the application around the receive path: what              *)
(* session_destroy may free and when (Session), for every choice of        *)
(* protocols, every number of channel workers and every start that fails   *)
(* half way; the graphical receiver (GuiReceiver), for any capacities and  *)
(* any numbers of runs, frames and collector threads; and the device table *)
(* (DeviceList), for any entities, readings and columns to sort by.        *)
(***************************************************************************)
EXTENDS Session, GuiReceiver, DeviceList, FiniteSetTheorems, FunctionTheorems, SequenceTheorems,
        TLAPS

-----------------------------------------------------------------------------
(* Session *)

USE DEF startVars, memoryVars, flowVars

\* Threads are named by pairs, those of the service by singletons.
LEMMA ThreadNames ==
  /\ \A t \in Service : t \notin Workers \cup Collectors
  /\ Workers \cup Collectors \subseteq Threads /\ Service \subseteq Threads
  /\ Pfb \in Service
  /\ Cardinality(Service) \in Nat \ {0}
<1>1. <<"ddc">> # <<"pfb">>
  OBVIOUS
<1>2. Cardinality(Service) \in Nat \ {0}
  <2>1. IsFiniteSet({<<"ddc">>}) /\ IsFiniteSet({<<"pfb">>})
    BY FS_Singleton
  <2>2. Service = {<<"ddc">>} \cup {<<"pfb">>}
    BY DEF Service
  <2>3. IsFiniteSet(Service)
    BY <2>1, <2>2, FS_Union
  <2>4. Service # {}
    BY DEF Service
  <2>5. QED BY <2>3, <2>4, FS_CardinalityType, FS_EmptySet
<1>3. ASSUME NEW t \in Workers \cup Collectors
      PROVE  t # <<"ddc">> /\ t # <<"pfb">>
  BY DEF Workers, Collectors
<1>4. QED
  BY <1>2, <1>3 DEF Service, Threads, Pfb

\* A protocol the start is at is enabled.
LEMMA PhaseNames ==
  ASSUME phase \in 1 .. Len(Protocols) + 1, phase <= Len(Protocols)
  PROVE  /\ Protocols[phase] \in Enabled
         /\ phase + 1 \in 1 .. Len(Protocols) + 1
BY SessionAssumption, LenProperties DEF Enabled, ToSet

\* A list of threads grows by one.
LEMMA AppendTracks ==
  ASSUME NEW S, NEW s \in Seq(S), NEW t \in S
  PROVE  /\ Append(s, t) \in Seq(S)
         /\ Len(Append(s, t)) = Len(s) + 1
         /\ ToSet(s) \subseteq ToSet(Append(s, t))
         /\ t \in ToSet(Append(s, t))
<1>1. /\ Append(s, t) \in Seq(S) /\ Len(Append(s, t)) = Len(s) + 1
      /\ Append(s, t)[Len(s) + 1] = t
      /\ \A i \in 1 .. Len(s) : Append(s, t)[i] = s[i]
  BY AppendProperties
<1>2. Len(s) \in Nat /\ DOMAIN s = 1 .. Len(s)
      /\ DOMAIN Append(s, t) = 1 .. Len(s) + 1
  BY <1>1, LenProperties
<1>3. QED BY <1>1, <1>2 DEF ToSet

\* Whoever is woken was waiting; the others are as they were.
Moving == {"running", "waiting", "exited"}

LEMMA SignalledMoves ==
  ASSUME TypeOK, NEW T, thread' = Signalled(T)
  PROVE  /\ thread' \in [Threads -> {"none", "running", "waiting", "exited", "joined"}]
         /\ \A t \in Threads : \/ thread'[t] = thread[t]
                               \/ thread[t] \in Moving /\ thread'[t] \in Moving
BY DEF Signalled, TypeOK, Moving

\* A step of a thread, of the radio or of the one who stops.
ThreadStep ==
  \/ \E t \in Threads : Exit(t) \/ Wait(t) \/ Wakes(t)
  \/ Deliver \/ TakeBlock \/ FinishBlock
  \/ RequestStop

LEMMA StepTypeOK == TypeOK /\ [Next]_vars => TypeOK'
<1> SUFFICES ASSUME TypeOK, [Next]_vars PROVE TypeOK'
  OBVIOUS
<1>a. Len(Protocols) \in Nat /\ NChannels \in Nat \ {0}
  BY SessionAssumption, LenProperties
<1>1. CASE CreateChannels
  BY <1>1 DEF CreateChannels, TypeOK
<1>2. CASE SpawnChannel
  <2>1. /\ UNCHANGED <<mpc, worker_count>> /\ mpc = "spawn"
        /\ phase \in 1 .. Len(Protocols) + 1 /\ phase <= Len(Protocols)
        /\ idx \in 1 .. NChannels
    BY <1>2, <1>a DEF SpawnChannel, TypeOK
  <2>2. /\ phase' \in 1 .. Len(Protocols) + 1
        /\ idx' \in 1 .. NChannels
    BY <1>2, <1>a, <2>1 DEF SpawnChannel
  <2>3. <<Protocols[phase], idx>> \in Workers
    BY <2>1, PhaseNames DEF Workers
  <2>4. thread' \in [Threads -> {"none", "running", "waiting", "exited", "joined"}]
    BY <1>2 DEF SpawnChannel, Spawned, TypeOK
  <2>5. worker_threads' \in Seq(Workers \cup Collectors)
    <3>1. worker_threads \in Seq(Workers \cup Collectors)
      BY DEF TypeOK
    <3>2. Append(worker_threads, <<Protocols[phase], idx>>) \in Seq(Workers \cup Collectors)
      BY <2>3, <3>1, AppendProperties
    <3>3. QED BY <1>2, <3>1, <3>2 DEF SpawnChannel, Spawned
  <2>6. QED BY <1>a, <2>1, <2>2, <2>4, <2>5 DEF TypeOK
<1>3. CASE StartService
  BY <1>3, <1>a DEF StartService, TypeOK
<1>4. CASE SpawnCollector
  <2>1. /\ mpc' \in {"collect", "destroy"} /\ UNCHANGED <<idx, worker_count>>
        /\ phase \in 1 .. Len(Protocols) + 1 /\ phase <= Len(Protocols)
        /\ phase' = phase + 1
    BY <1>4 DEF SpawnCollector, TypeOK
  <2>2. phase' \in 1 .. Len(Protocols) + 1 /\ Protocols[phase] \in Enabled
    BY <2>1, PhaseNames
  <2>3. <<Protocols[phase], 0>> \in Collectors
    BY <2>2 DEF Collectors
  <2>4. thread' \in [Threads -> {"none", "running", "waiting", "exited", "joined"}]
    BY <1>4 DEF SpawnCollector, Spawned, TypeOK
  <2>5. worker_threads' \in Seq(Workers \cup Collectors)
    <3>1. worker_threads \in Seq(Workers \cup Collectors)
      BY DEF TypeOK
    <3>2. Append(worker_threads, <<Protocols[phase], 0>>) \in Seq(Workers \cup Collectors)
      BY <2>3, <3>1, AppendProperties
    <3>3. QED BY <1>4, <3>1, <3>2 DEF SpawnCollector, Spawned
  <2>6. QED BY <2>1, <2>2, <2>4, <2>5 DEF TypeOK
<1>5. CASE Ready \/ StartRadio \/ RunEnds
  BY <1>5, LenProperties DEF Ready, StartRadio, RunEnds, Started, TypeOK
<1>6. CASE Teardown
  <2>1. CASE JoinWorker
    <3>1. worker_threads' \in Seq(Workers \cup Collectors)
      BY <2>1, EmptySeq DEF JoinWorker, TypeOK
    <3>2. mpc' \in {"join", "device"} /\ idx' \in Nat \ {0}
      BY <2>1 DEF JoinWorker, TypeOK
    <3>3. QED BY <2>1, <3>1, <3>2 DEF JoinWorker, TypeOK
  <2>2. CASE Destroy \/ CloseRadio \/ FreeProcessors
    BY <2>2 DEF Destroy, CloseRadio, FreeProcessors, TypeOK
  <2>3. CASE ResetFlags \/ FreeQueues \/ FreeDispatchers
    BY <2>3 DEF ResetFlags, FreeQueues, FreeDispatchers, TypeOK
  <2>6. CASE StopThreads
    <3>1. thread' \in [Threads -> {"none", "running", "waiting", "exited", "joined"}]
      BY <2>6, SignalledMoves DEF StopThreads, TypeOK
    <3>2. QED BY <2>6, <3>1 DEF StopThreads, TypeOK
  <2>7. CASE StopService
    <3>1. thread' \in [Threads -> {"none", "running", "waiting", "exited", "joined"}]
      BY <2>7, SignalledMoves DEF StopService
    <3>2. QED BY <2>7, <3>1 DEF StopService, TypeOK
  <2>4. CASE JoinService
    BY <2>4 DEF JoinService, TypeOK
  <2>5. QED BY <1>6, <2>1, <2>2, <2>3, <2>4, <2>6, <2>7 DEF Teardown
<1>7. CASE ThreadStep
  <2>1. UNCHANGED <<mpc, idx, startVars>>
    BY <1>7 DEF ThreadStep, Exit, Wait, Wakes, Deliver, TakeBlock, FinishBlock,
       RequestStop
  <2>2. thread' \in [Threads -> {"none", "running", "waiting", "exited", "joined"}]
    <3>1. CASE RequestStop \/ \E t \in Threads : Wakes(t)
      BY <3>1, SignalledMoves DEF RequestStop, Wakes
    <3>2. CASE \E t \in Threads : Exit(t) \/ Wait(t)
      BY <3>2 DEF Exit, Wait, TypeOK
    <3>3. CASE Deliver \/ TakeBlock \/ FinishBlock
      BY <3>3 DEF Deliver, TakeBlock, FinishBlock, TypeOK
    <3>4. QED BY <1>7, <3>1, <3>2, <3>3 DEF ThreadStep
  <2>3. QED BY <2>1, <2>2 DEF TypeOK
<1>8. CASE UNCHANGED vars
  BY <1>8 DEF vars, TypeOK
<1>9. QED
  BY <1>1, <1>2, <1>3, <1>4, <1>5, <1>6, <1>7, <1>8 DEF Next, Run, ThreadStep

-----------------------------------------------------------------------------
(* What session_destroy can join *)

LEMMA ThreadsSeen ==
  ASSUME TypeOK
  PROVE  /\ worker_threads \in Seq(Workers \cup Collectors)
         /\ Len(worker_threads) \in Nat
         /\ \A i \in 1 .. Len(worker_threads) :
              worker_threads[i] \in Workers \cup Collectors
         /\ \A t \in ToSet(worker_threads) :
              \E i \in 1 .. Len(worker_threads) : worker_threads[i] = t
<1>1. worker_threads \in Seq(Workers \cup Collectors)
  BY DEF TypeOK
<1>2. QED BY <1>1, LenProperties DEF ToSet

\* It moves threads that are there and not joined, and nothing else of what
\* session_destroy goes by.
LEMMA ThreadSteps ==
  ASSUME TypeOK, ThreadStep \/ UNCHANGED vars
  PROVE  /\ UNCHANGED <<mpc, idx, startVars, device, memoryVars, torn_down, ready>>
         /\ \A t \in Threads : \/ thread'[t] = thread[t]
                               \/ thread[t] \in Moving /\ thread'[t] \in Moving
<1>1. UNCHANGED <<mpc, idx, startVars, device, memoryVars, torn_down, ready>>
  BY DEF ThreadStep, Exit, Wait, Wakes, Deliver, TakeBlock, FinishBlock,
     RequestStop, vars
<1>2. CASE RequestStop \/ \E t \in Threads : Wakes(t)
  BY <1>1, <1>2, SignalledMoves DEF RequestStop, Wakes
<1>3. CASE \E t \in Threads : Exit(t) \/ Wait(t)
  BY <1>1, <1>3 DEF Exit, Wait, TypeOK, Moving
<1>4. CASE Deliver \/ TakeBlock \/ FinishBlock \/ UNCHANGED vars
  BY <1>1, <1>4 DEF Deliver, TakeBlock, FinishBlock, vars
<1>5. QED BY <1>2, <1>3, <1>4 DEF ThreadStep

LEMMA StepJoin == TypeOK /\ JoinInv /\ StorageInv /\ [Next]_vars => JoinInv'
<1> SUFFICES ASSUME TypeOK, JoinInv, StorageInv, [Next]_vars PROVE JoinInv'
  OBVIOUS
<1> USE ThreadNames
<1>1. ASSUME NEW t \in Workers \cup Collectors, Spawned(t),
             mpc \in {"spawn", "collect"}, mpc' = mpc,
             UNCHANGED <<worker_count, svc_count, ready>>
      PROVE  JoinInv'
  <2>1. /\ ToSet(worker_threads) \subseteq ToSet(worker_threads')
        /\ t \in ToSet(worker_threads')
    <3>1. worker_threads \in Seq(Workers \cup Collectors)
      BY DEF TypeOK
    <3>2. QED BY <1>1, <3>1, AppendTracks DEF Spawned
  <2>2. ~AfterJoin /\ ~AfterJoin' /\ ~ready /\ ~ServiceGone'
    BY <1>1 DEF AfterJoin, ServiceGone, StorageInv
  <2>3. \A u \in Workers \cup Collectors : u # t => thread'[u] = thread[u]
    BY <1>1 DEF Spawned, TypeOK
  <2>4. \A u \in Workers \cup Collectors :
          thread'[u] # "none" => u \in ToSet(worker_threads')
    BY <2>1, <2>2, <2>3 DEF JoinInv
  <2>5. QED BY <1>1, <2>2, <2>4 DEF JoinInv
<1>2. CASE SpawnChannel
  <2>1. CASE UNCHANGED <<thread, worker_threads>>
    BY <1>2, <2>1 DEF SpawnChannel, JoinInv, StorageInv, AfterJoin, ServiceGone
  <2>2. CASE Spawned(<<Protocols[phase], idx>>)
    <3>1. <<Protocols[phase], idx>> \in Workers
      BY <1>2, PhaseNames, SessionAssumption DEF SpawnChannel, TypeOK, Workers
    <3>2. QED BY <1>1, <1>2, <2>2, <3>1 DEF SpawnChannel
  <2>3. QED BY <1>2, <2>1, <2>2 DEF SpawnChannel
<1>3. CASE SpawnCollector
  <2>1. CASE UNCHANGED <<thread, worker_threads>>
    BY <1>3, <2>1 DEF SpawnCollector, JoinInv, StorageInv, AfterJoin, ServiceGone
  <2>2. CASE Spawned(<<Protocols[phase], 0>>) /\ UNCHANGED mpc
    <3>1. <<Protocols[phase], 0>> \in Collectors
      BY <1>3, PhaseNames DEF SpawnCollector, TypeOK, Collectors
    <3>2. QED BY <1>1, <1>3, <2>2, <3>1 DEF SpawnCollector
  <2>3. QED BY <1>3, <2>1, <2>2 DEF SpawnCollector
<1>4. CASE StartService
  <2>1. \A t \in Workers \cup Collectors : thread'[t] = thread[t]
    BY <1>4 DEF StartService, TypeOK, Service
  <2>2. /\ mpc = "spawn" /\ mpc' \in {"collect", "destroy"}
        /\ UNCHANGED <<worker_threads, worker_count, ready>> /\ ~ready
    BY <1>4 DEF StartService, StorageInv
  <2>3. mpc' = "collect" => svc_count' = Cardinality(Service)
    BY <1>4 DEF StartService
  <2>4. QED BY <2>1, <2>2, <2>3 DEF JoinInv, AfterJoin, ServiceGone
<1>5. CASE CreateChannels
  BY <1>5 DEF CreateChannels, JoinInv, StorageInv, AfterJoin, ServiceGone
<1>6. CASE Ready
  BY <1>6 DEF Ready, Started, JoinInv, StorageInv, AfterJoin, ServiceGone
<1>7. CASE StartRadio \/ RunEnds
  BY <1>7 DEF StartRadio, RunEnds, JoinInv, StorageInv, AfterJoin, ServiceGone
<1>8. CASE Destroy
  BY <1>8 DEF Destroy, AlreadyTornDown, JoinInv, StorageInv, AfterJoin, ServiceGone
<1>9. CASE StopThreads
  <2>1. idx' = 1 /\ mpc' = "join" /\ mpc = "stop"
        /\ UNCHANGED <<worker_threads, worker_count, svc_count, ready>>
    BY <1>9 DEF StopThreads
  <2>2. \A t \in Threads : thread'[t] # "none" => thread[t] # "none"
    BY <1>9, SignalledMoves DEF StopThreads, Moving
  <2>3. worker_count \in Nat
    BY DEF TypeOK
  <2>4. QED BY <2>1, <2>2, <2>3 DEF JoinInv, AfterJoin, ServiceGone
<1>10. CASE JoinWorker /\ idx <= worker_count
  <2>1. /\ mpc = "join" /\ mpc' = "join" /\ idx' = idx + 1
        /\ thread' = [thread EXCEPT ![worker_threads[idx]] = "joined"]
        /\ thread[worker_threads[idx]] = "exited"
        /\ UNCHANGED <<worker_threads, worker_count, svc_count, ready>>
    BY <1>10 DEF JoinWorker
  <2>2. idx \in Nat \ {0} /\ worker_count \in Nat
        /\ thread \in [Threads -> {"none", "running", "waiting", "exited", "joined"}]
    BY DEF TypeOK
  <2>3. \A t \in Threads : thread'[t] = thread[t] \/ thread'[t] = "joined"
    BY <2>1, <2>2
  <2>4. ASSUME NEW t \in Workers \cup Collectors, thread'[t] # "none"
        PROVE  t \in ToSet(worker_threads)
    <3>1. thread[t] # "none" \/ t = worker_threads[idx]
      BY <2>1, <2>2, <2>4
    <3>2. CASE thread[t] # "none"
      BY <2>1, <3>2 DEF JoinInv, AfterJoin
    <3>3. CASE t = worker_threads[idx]
      <4>1. thread[t] = "exited"
        BY <2>1, <3>3
      <4>2. QED BY <2>1, <4>1 DEF JoinInv, AfterJoin
    <3>4. QED BY <3>1, <3>2, <3>3
  <2>5. ASSUME NEW i \in 1 .. worker_count, i < idx + 1
        PROVE  thread'[worker_threads[i]] = "joined"
    <3>1. worker_threads[i] \in Threads
      <4>1. ready
        BY <1>10, <2>2 DEF JoinInv
      <4>2. QED BY <2>1, <4>1, ThreadsSeen DEF JoinInv, AfterJoin
    <3>2. CASE i = idx
      BY <2>1, <2>2, <3>1, <3>2
    <3>3. CASE i # idx
      BY <2>1, <2>2, <2>5, <3>1, <3>3 DEF JoinInv
    <3>4. QED BY <3>2, <3>3
  <2>6. QED BY <2>1, <2>4, <2>5 DEF JoinInv, AfterJoin, ServiceGone
<1>11. CASE JoinWorker /\ ~(idx <= worker_count)
  <2>1. /\ mpc = "join" /\ mpc' = "device"
        /\ UNCHANGED <<thread, worker_count, svc_count, ready>>
    BY <1>11 DEF JoinWorker
  <2>2. idx \in Nat \ {0} /\ worker_count \in Nat
    BY DEF TypeOK
  <2>3. ASSUME ready, NEW t \in Workers \cup Collectors
        PROVE  thread[t] \in {"none", "joined"}
    <3>1. CASE t \in ToSet(worker_threads)
      <4>1. PICK i \in 1 .. Len(worker_threads) : worker_threads[i] = t
        BY <3>1, ThreadsSeen
      <4>2. worker_count = Len(worker_threads)
        BY <2>1, <2>3 DEF JoinInv, AfterJoin
      <4>3. i < idx
        BY <1>11, <2>2, <4>2
      <4>4. QED BY <2>1, <4>1, <4>2, <4>3 DEF JoinInv
    <3>2. CASE t \notin ToSet(worker_threads)
      BY <2>1, <3>2 DEF JoinInv, AfterJoin
    <3>3. QED BY <3>1, <3>2
  <2>4. QED BY <2>1, <2>3 DEF JoinInv, AfterJoin, ServiceGone
<1>12. CASE CloseRadio \/ FreeProcessors \/ ResetFlags
  BY <1>12 DEF CloseRadio, FreeProcessors, ResetFlags, JoinInv, AfterJoin,
     ServiceGone
<1>18. CASE StopService
  <2>1. /\ mpc = "service" /\ mpc' = "joinservice"
        /\ UNCHANGED <<worker_threads, worker_count, svc_count, ready>>
    BY <1>18 DEF StopService
  <2>2. \A t \in Threads : thread[t] \in {"none", "joined"} => thread'[t] = thread[t]
    BY <1>18, SignalledMoves DEF StopService, Moving
  <2>3. QED BY <2>1, <2>2 DEF JoinInv, AfterJoin, ServiceGone
<1>13. CASE FreeQueues
  <2>1. /\ mpc = "queues" /\ UNCHANGED <<thread, worker_count, svc_count, ready>>
        /\ mpc' = IF svc_count = 0 THEN "dispatchers" ELSE "service"
    BY <1>13 DEF FreeQueues
  <2>2. ready => mpc' = "service"
    BY <2>1 DEF JoinInv, ServiceGone
  <2>3. QED BY <2>1, <2>2 DEF JoinInv, AfterJoin, ServiceGone
<1>14. CASE JoinService
  <2>1. /\ mpc = "joinservice" /\ mpc' = "dispatchers"
        /\ UNCHANGED <<worker_count, ready>>
        /\ \A t \in Threads :
             thread'[t] = IF t \in Service THEN "joined" ELSE thread[t]
    BY <1>14 DEF JoinService
  <2>2. QED BY <2>1 DEF JoinInv, AfterJoin, ServiceGone
<1>15. CASE FreeDispatchers
  BY <1>15 DEF FreeDispatchers, JoinInv, AfterJoin, ServiceGone
<1>16. CASE ThreadStep \/ UNCHANGED vars
  <2>1. /\ UNCHANGED <<mpc, idx, startVars, ready>>
        /\ \A t \in Threads : thread[t] \in {"none", "joined"} => thread'[t] = thread[t]
        /\ \A t \in Threads : thread'[t] # "none" => thread[t] # "none"
    BY <1>16, ThreadSteps DEF Moving
  <2>2. ASSUME mpc = "join", NEW i \in 1 .. worker_count, i < idx
        PROVE  thread'[worker_threads[i]] = "joined"
    <3>1. thread[worker_threads[i]] = "joined"
      BY <2>2 DEF JoinInv
    <3>2. CASE ready
      <4>1. worker_threads[i] \in Threads
        BY <2>2, <3>2, ThreadsSeen DEF JoinInv, AfterJoin
      <4>2. QED BY <2>1, <3>1, <4>1
    <3>3. CASE ~ready
      <4>1. worker_count = 0
        BY <3>3 DEF JoinInv
      <4>2. QED BY <2>2, <4>1
    <3>4. QED BY <3>2, <3>3
  <2>3. QED BY <2>1, <2>2 DEF JoinInv, AfterJoin, ServiceGone
<1>17. QED
  BY <1>2, <1>3, <1>4, <1>5, <1>6, <1>7, <1>8, <1>9, <1>10, <1>11, <1>12, <1>13,
     <1>14, <1>15, <1>16, <1>18 DEF Next, Run, Teardown, ThreadStep

-----------------------------------------------------------------------------
(* What session_destroy frees *)

LEMMA StepStorage == TypeOK /\ StorageInv /\ [Next]_vars => StorageInv'
<1> SUFFICES ASSUME TypeOK, StorageInv, [Next]_vars PROVE StorageInv'
  OBVIOUS
<1> USE DEF StorageInv, AfterJoin, ServiceGone
<1>1. CASE Run
  <2>1. CASE CreateChannels \/ SpawnChannel \/ StartService
    BY <2>1 DEF CreateChannels, SpawnChannel, StartService
  <2>2. CASE SpawnCollector \/ Ready
    BY <2>2 DEF SpawnCollector, Ready
  <2>3. CASE StartRadio \/ RunEnds
    BY <2>3 DEF StartRadio, RunEnds
  <2>4. QED BY <1>1, <2>1, <2>2, <2>3 DEF Run
<1>2. CASE Teardown
  <2>1. CASE Destroy
    BY <2>1 DEF Destroy, AlreadyTornDown
  <2>2. CASE StopThreads \/ JoinWorker
    BY <2>2 DEF StopThreads, JoinWorker
  <2>3. CASE CloseRadio \/ FreeProcessors \/ ResetFlags
    BY <2>3 DEF CloseRadio, FreeProcessors, ResetFlags
  <2>4. CASE FreeQueues
    BY <2>4 DEF FreeQueues, Freed
  <2>5. CASE StopService \/ JoinService \/ FreeDispatchers
    BY <2>5 DEF StopService, JoinService, FreeDispatchers
  <2>6. QED BY <1>2, <2>1, <2>2, <2>3, <2>4, <2>5 DEF Teardown
<1>3. CASE ThreadStep \/ UNCHANGED vars
  <2>1. UNCHANGED <<mpc, device, memoryVars, torn_down, ready>>
    BY <1>3, ThreadSteps
  <2>2. QED BY <2>1
<1>4. QED BY <1>1, <1>2, <1>3 DEF Next, ThreadStep

LEMMA InitIInv == Init => IInv
<1> SUFFICES ASSUME Init PROVE IInv
  OBVIOUS
<1>1. TypeOK
  <2>1. Len(Protocols) \in Nat /\ NChannels \in Nat \ {0}
    BY SessionAssumption, LenProperties
  <2>2. QED BY <2>1, EmptySeq DEF Init, TypeOK
<1>2. JoinInv
  <2>1. \A t \in Workers \cup Collectors : thread[t] = "none"
    BY ThreadNames DEF Init
  <2>2. QED BY <2>1 DEF Init, JoinInv, AfterJoin, ServiceGone
<1>3. StorageInv
  BY DEF Init, StorageInv, AfterJoin, ServiceGone
<1>4. QED BY <1>1, <1>2, <1>3 DEF IInv

LEMMA IInvImpliesUnused == IInv => OnlyPfbUsesFreed
<1> SUFFICES ASSUME TypeOK, JoinInv, StorageInv, ready PROVE OnlyPfbUsesFreed
  BY DEF IInv, OnlyPfbUsesFreed
<1> USE DEF AfterJoin, ServiceGone, Alive
<1>1. AfterJoin => ~Alive(QueueUsers) /\ ~Alive(ProcessorUsers \ {Pfb})
  BY DEF JoinInv, QueueUsers, ProcessorUsers
<1>2. ServiceGone => \A t \in Threads : thread[t] \in {"none", "joined"}
  <2>1. \A t \in Threads : t \in Workers \cup Collectors \/ t \in Service
    BY DEF Threads
  <2>2. QED BY <2>1 DEF JoinInv
<1>3. queues # "live" => AfterJoin
  BY DEF StorageInv
<1>4. QED
  BY <1>1, <1>2, <1>3 DEF OnlyPfbUsesFreed, NoOrphans, StorageInv

(* Once all threads of a session were created: wherever they are when       *)
(* session_destroy is called, it leaves none behind, frees nothing twice,   *)
(* and what it has freed nobody can use but the PFB thread, which pushes to *)
(* the readers in the processors until it is joined.                        *)
THEOREM DestroyLeavesOnlyPfb == Spec => []OnlyPfbUsesFreed
<1>1. Init => IInv
  BY InitIInv
<1>2. IInv /\ [Next]_vars => IInv'
  BY StepTypeOK, StepJoin, StepStorage DEF IInv
<1>3. IInv => OnlyPfbUsesFreed
  BY IInvImpliesUnused
<1>4. QED BY <1>1, <1>2, <1>3, PTL DEF Spec

-----------------------------------------------------------------------------
(* GuiReceiver *)

USE DEF guiVars, countVars, listVars, WorkerGone, NotLoaded

Points == {"none", "called", "ready", "failed", "run", "teardown", "processors",
           "tables", "returned", "ended"}
Row == [no : Int, run : Nat, collector : Trampolines]
Event == [kind : {"finish"}] \cup [kind : {"row"}, row : Row]

GuiTypes ==
  /\ gui \in {"idle", "signalling", "polling", "quitting", "closed"}
  /\ running \in BOOLEAN
  /\ session \in Nat
  /\ worker \in [pc : Points, session : Nat]
  /\ run \in Nat
  /\ count \in Int
  /\ loaded \in [Trampolines -> Int]
  /\ frames \in Seq(Row) /\ pending \in Seq(Row) /\ events \in Seq(Event)

\* Sessions are made and destroyed one after the other; while a worker runs,
\* its session is the one the controller has.
Sessions ==
  /\ \E n \in Nat : destroyed = 1 .. n /\ session \in {0, n + 1}
  /\ ~WorkerGone => /\ session # 0 /\ worker.session = session
                    /\ running /\ gui # "closed"

\* The GUI thread's queue: rows of this run, then the end of the run.  Between
\* runs it is empty, and no collector is in the middle of a row.
Queue ==
  /\ \A k \in DOMAIN events : events[k].kind = "row" => events[k].row.run = run
  /\ \A k \in DOMAIN events :
       events[k].kind = "finish" => k = Len(events) /\ worker.pc = "ended"
  /\ worker.pc \notin {"run", "teardown"} => Joined
  /\ ~running => events = <<>> /\ WorkerGone

GuiInv == GuiTypes /\ Sessions /\ Queue /\ ListShowsThisRun

-----------------------------------------------------------------------------
LEMMA InitHolds == GuiInit => GuiInv
<1> SUFFICES ASSUME GuiInit PROVE GuiInv
  OBVIOUS
<1>1. GuiTypes
  <2>1. worker \in [pc : Points, session : Nat]
    BY DEF GuiInit, NoThread, Points
  <2>2. loaded \in [Trampolines -> Int]
    BY DEF GuiInit
  <2>3. frames \in Seq(Row) /\ pending \in Seq(Row) /\ events \in Seq(Event)
    BY EmptySeq DEF GuiInit
  <2>4. gui \in {"idle", "signalling", "polling", "quitting", "closed"}
    BY DEF GuiInit
  <2>5. running \in BOOLEAN
    BY Zenon DEF GuiInit
  <2>6. session \in Nat /\ run \in Nat /\ count \in Int
    BY DEF GuiInit
  <2> QED BY <2>1, <2>2, <2>3, <2>4, <2>5, <2>6 DEF GuiTypes
<1>2. Sessions
  <2>1. destroyed = 1 .. 0 /\ session \in {0, 0 + 1}
    BY DEF GuiInit
  <2>2. WorkerGone
    BY DEF GuiInit, NoThread
  <2>3. \E n \in Nat : destroyed = 1 .. n /\ session \in {0, n + 1}
    BY <2>1
  <2> QED BY <2>2, <2>3 DEF Sessions
<1>3. Queue
  BY DEF GuiInit, Queue, Joined, NoThread
<1>4. ListShowsThisRun
  BY GuiAssumption DEF GuiInit, ListShowsThisRun
<1> QED BY <1>1, <1>2, <1>3, <1>4 DEF GuiInv

\* A session the controller gives up is the next of the destroyed ones.
LEMMA NextDestroyed ==
  ASSUME Sessions, destroyed' = destroyed \cup ({session} \ {0}), session' = 0
  PROVE  \E n \in Nat : destroyed' = 1 .. n /\ session' \in {0, n + 1}
<1>1. PICK n \in Nat : destroyed = 1 .. n /\ session \in {0, n + 1}
  BY DEF Sessions
<1>2. CASE session = 0
  BY <1>1, <1>2
<1>3. CASE session = n + 1
  <2>1. destroyed' = 1 .. n + 1
    BY <1>1, <1>3
  <2> QED BY <2>1
<1> QED BY <1>1, <1>2, <1>3

-----------------------------------------------------------------------------
(* One lemma per thread: each step keeps the invariant. *)

\* A step that moves the worker from one point to another, and nothing of the
\* queue, the list or the sessions.
LEMMA WorkerMoves ==
  ASSUME GuiInv, NEW pc \in Points \ {"none", "ended"}, WorkerAt(pc),
         ~WorkerGone, pc \notin {"run", "teardown"} => Joined,
         count' \in Int,
         UNCHANGED <<gui, running, session, destroyed, loaded, events, listVars, run>>
  PROVE  GuiInv'
<1>1. worker' = [pc |-> pc, session |-> worker.session]
  BY DEF GuiInv, GuiTypes, WorkerAt
<1>2. GuiTypes'
  BY <1>1 DEF GuiInv, GuiTypes
<1>3. Sessions'
  BY <1>1 DEF GuiInv, Sessions
<1>4. Queue'
  BY <1>1 DEF GuiInv, Queue, Joined, Sessions
<1>5. ListShowsThisRun'
  BY DEF GuiInv, ListShowsThisRun
<1> QED BY <1>2, <1>3, <1>4, <1>5 DEF GuiInv

LEMMA WorkerKeeps == ASSUME GuiInv, Worker PROVE GuiInv'
<1>0. GuiTypes /\ Sessions /\ Queue /\ ListShowsThisRun
  BY DEF GuiInv
<1>1. CASE WorkerInit
  <2>1. PICK pc \in {"ready", "failed"} : WorkerAt(pc)
    BY <1>1 DEF WorkerInit
  <2>2. Joined
    BY <1>0, <1>1 DEF WorkerInit, Queue
  <2> QED BY <1>1, <2>1, <2>2, WorkerMoves DEF WorkerInit, Points
<1>2. CASE WorkerStarts
  <2>1. PICK pc \in {"run", "teardown"} : WorkerAt(pc)
    BY <1>2 DEF WorkerStarts
  <2> QED BY <1>0, <1>2, <2>1, WorkerMoves DEF WorkerStarts, GuiTypes, Points
<1>3. CASE WorkerSeesStop
  BY <1>0, <1>3, WorkerMoves DEF WorkerSeesStop, GuiTypes, Points
<1>4. CASE ProcessorsFreed
  BY <1>0, <1>4, WorkerMoves DEF ProcessorsFreed, GuiTypes, Points
<1>5. CASE TablesFreed
  <2>1. Joined
    BY <1>0, <1>5 DEF TablesFreed, Queue
  <2> QED BY <1>0, <1>5, <2>1, WorkerMoves DEF TablesFreed, GuiTypes, Points
<1>6. CASE TornDown
  <2>1. Joined
    BY <1>0, <1>6 DEF TornDown, Queue
  <2> QED BY <1>0, <1>6, <2>1, WorkerMoves DEF TornDown, GuiTypes, Points
<1>7. CASE WorkerEnds
  <2>1. /\ worker' = [pc |-> "ended", session |-> worker.session]
        /\ events' = Append(events, [kind |-> "finish"])
        /\ UNCHANGED <<gui, running, session, destroyed, count, loaded, frames,
                       pending, run>>
    BY <1>0, <1>7 DEF WorkerEnds, WorkerAt, GuiTypes
  <2>2. /\ Joined /\ running
        /\ \A k \in DOMAIN events : events[k].kind # "finish"
    BY <1>0, <1>7 DEF WorkerEnds, Queue, Sessions
  <2>3. [kind |-> "finish"] \in Event
    BY DEF Event
  <2>4. /\ Len(events') = Len(events) + 1 /\ events' \in Seq(Event)
        /\ \A k \in DOMAIN events' :
             IF k = Len(events) + 1 THEN events'[k] = [kind |-> "finish"]
             ELSE k \in DOMAIN events /\ events'[k] = events[k]
    BY <1>0, <2>1, <2>3 DEF GuiTypes
  <2>5. GuiTypes'
    BY <1>0, <2>1, <2>4 DEF GuiTypes, Points
  <2>6. Sessions'
    BY <1>0, <2>1 DEF Sessions
  <2>7. Queue'
    BY <1>0, <2>1, <2>2, <2>4 DEF Queue, Joined
  <2>8. ListShowsThisRun'
    BY <1>0, <2>1 DEF ListShowsThisRun
  <2> QED BY <2>5, <2>6, <2>7, <2>8 DEF GuiInv
<1> QED
  BY <1>1, <1>2, <1>3, <1>4, <1>5, <1>6, <1>7
  DEF Worker, WorkerInit, WorkerStarts, WorkerSeesStop, ProcessorsFreed, TablesFreed,
      TornDown, WorkerEnds

\* A collector counts and posts a row only while session_run has it running or
\* is waiting for it.
LEMMA TrampolineKeeps ==
  ASSUME GuiInv, NEW c \in Trampolines, NumberRead(c) \/ RowPosted(c)
  PROVE  GuiInv'
<1>0. GuiTypes /\ Sessions /\ Queue /\ ListShowsThisRun
  BY DEF GuiInv
<1>1. CASE NumberRead(c)
  <2>1. /\ loaded' = [loaded EXCEPT ![c] = count] /\ worker.pc = "run"
        /\ UNCHANGED <<gui, running, session, destroyed, worker, count, events,
                       frames, pending, run>>
    BY <1>1 DEF NumberRead
  <2>2. GuiTypes'
    BY <1>0, <2>1 DEF GuiTypes
  <2>3. Sessions' /\ ListShowsThisRun'
    BY <1>0, <2>1 DEF Sessions, ListShowsThisRun
  <2>4. Queue'
    BY <1>0, <2>1 DEF Queue, Joined
  <2> QED BY <2>2, <2>3, <2>4 DEF GuiInv
<1>2. CASE RowPosted(c)
  <2> DEFINE row == [no |-> loaded[c] + 1, run |-> run, collector |-> c]
             event == [kind |-> "row", row |-> row]
  <2>1. /\ count' = loaded[c] + 1 /\ loaded' = [loaded EXCEPT ![c] = -1]
        /\ events' = Append(events, event)
        /\ UNCHANGED <<gui, running, session, destroyed, worker, frames, pending, run>>
    BY <1>2 DEF RowPosted
  <2>2. worker.pc \in {"run", "teardown"} /\ running
    BY <1>0, <1>2 DEF RowPosted, Queue, Joined, Sessions
  <2>3. \A k \in DOMAIN events : events[k].kind # "finish"
    BY <1>0, <2>2 DEF Queue
  <2>4. loaded[c] + 1 \in Int /\ event \in Event
    BY <1>0 DEF Event, Row, GuiTypes
  <2>5. event.kind = "row" /\ event.row.run = run
    OBVIOUS
  <2> HIDE DEF event
  <2>6. /\ events' \in Seq(Event)
        /\ \A k \in DOMAIN events' :
             \/ events'[k] = event
             \/ k \in DOMAIN events /\ events'[k] = events[k]
    BY <1>0, <2>1, <2>4 DEF GuiTypes
  <2>7. GuiTypes'
    BY <1>0, <2>1, <2>4, <2>6 DEF GuiTypes
  <2>8. Sessions' /\ ListShowsThisRun'
    BY <1>0, <2>1 DEF Sessions, ListShowsThisRun
  <2>9. Queue'
    BY <1>0, <2>1, <2>2, <2>3, <2>5, <2>6 DEF Queue
  <2> QED BY <2>7, <2>8, <2>9 DEF GuiInv
<1> QED BY <1>1, <1>2

-----------------------------------------------------------------------------
(* The GUI thread *)

LEMMA PlayKeeps == ASSUME GuiInv, Play \/ PlayRefused PROVE GuiInv'
<1>0. GuiTypes /\ Sessions /\ Queue /\ ListShowsThisRun
  BY DEF GuiInv
<1>1. frames' = <<>> /\ pending' = <<>> /\ ~running /\ events = <<>> /\ WorkerGone
  BY <1>0 DEF Play, PlayRefused, Cleared, Queue
<1>2. ListShowsThisRun'
  BY <1>1, GuiAssumption DEF ListShowsThisRun
<1>3. Joined
  BY <1>0, <1>1 DEF Queue
<1>4. <<>> \in Seq(Row)
  BY EmptySeq
<1>5. CASE Play
  <2>1. /\ gui = "idle" /\ running' = TRUE /\ run' = run + 1
        /\ session' = IF session = 0 THEN Cardinality(destroyed) + 1 ELSE session
        /\ worker' = [pc |-> "called", session |-> session']
        /\ count' = IF session = 0 THEN 0 ELSE count
        /\ UNCHANGED <<gui, destroyed, loaded, events>>
    BY <1>5 DEF Play
  <2>2. PICK n \in Nat : destroyed = 1 .. n /\ session \in {0, n + 1}
    BY <1>0 DEF Sessions
  <2>3. Cardinality(destroyed) = n
    BY <2>2, FS_Interval
  <2>4. session' = n + 1
    BY <2>1, <2>2, <2>3
  <2>5. GuiTypes'
    BY <1>0, <1>1, <1>4, <2>1, <2>4 DEF GuiTypes, Points
  <2>6. Sessions'
    BY <2>1, <2>2, <2>4 DEF Sessions
  <2>7. Queue'
    BY <1>1, <1>3, <2>1 DEF Queue, Joined
  <2> QED BY <1>2, <2>5, <2>6, <2>7 DEF GuiInv
<1>6. CASE PlayRefused
  <2>1. UNCHANGED <<gui, running, session, destroyed, worker, count, loaded, events, run>>
    BY <1>6 DEF PlayRefused
  <2>2. GuiTypes'
    BY <1>0, <1>1, <1>4, <2>1 DEF GuiTypes
  <2>3. Sessions'
    BY <1>0, <2>1 DEF Sessions
  <2>4. Queue'
    BY <1>0, <2>1 DEF Queue, Joined
  <2> QED BY <1>2, <2>2, <2>3, <2>4 DEF GuiInv
<1> QED BY <1>5, <1>6

\* What only changes what the GUI thread is in the middle of.
LEMMA GuiMoves ==
  ASSUME GuiInv, gui' \in {"idle", "signalling", "polling", "quitting"},
         UNCHANGED <<running, session, destroyed, worker, count, loaded, events,
                     frames, pending, run>>
  PROVE  GuiInv'
<1>1. GuiTypes' /\ Sessions'
  BY DEF GuiInv, GuiTypes, Sessions
<1>2. Queue' /\ ListShowsThisRun'
  BY DEF GuiInv, Queue, Joined, ListShowsThisRun
<1> QED BY <1>1, <1>2 DEF GuiInv

LEMMA ListKeeps == ASSUME GuiInv, RowArrives \/ Flush PROVE GuiInv'
<1>0. GuiTypes /\ Sessions /\ Queue /\ ListShowsThisRun
  BY DEF GuiInv
<1>1. CASE RowArrives
  <2> DEFINE row == Head(events).row
             kept == IF Len(pending) < PendingCap THEN pending ELSE Tail(pending)
  <2>1. /\ events # <<>> /\ Head(events).kind = "row"
        /\ pending' = Append(kept, row) /\ events' = Tail(events)
        /\ UNCHANGED <<gui, running, session, destroyed, worker, count, loaded,
                       frames, run>>
    BY <1>1 DEF RowArrives, Enqueued
  <2>2. Head(events) = events[1] /\ 1 \in DOMAIN events /\ events[1] \in Event
    BY <1>0, <2>1 DEF GuiTypes
  <2>3. row \in Row /\ row.run = run
    BY <1>0, <2>1, <2>2 DEF Event, Queue
  <2>4. /\ kept \in Seq(Row) /\ Len(kept) + 1 <= PendingCap
        /\ \A k \in DOMAIN kept : kept[k].run = run
    <3>1. CASE Len(pending) < PendingCap
      BY <1>0, <3>1, GuiAssumption DEF GuiTypes, ListShowsThisRun
    <3>2. CASE ~(Len(pending) < PendingCap)
      <4>1. pending # <<>>
        BY <1>0, <3>2, GuiAssumption DEF GuiTypes
      <4> QED BY <1>0, <3>2, <4>1, GuiAssumption DEF GuiTypes, ListShowsThisRun
    <3> QED BY <3>1, <3>2
  <2> HIDE DEF row, kept
  <2>5. /\ pending' \in Seq(Row) /\ Len(pending') <= PendingCap
        /\ \A k \in DOMAIN pending' : pending'[k].run = run
    BY <2>1, <2>3, <2>4
  <2>6. /\ events' \in Seq(Event) /\ Len(events') = Len(events) - 1
        /\ \A k \in DOMAIN events' : k + 1 \in DOMAIN events
                                     /\ events'[k] = events[k + 1]
    BY <1>0, <2>1 DEF GuiTypes
  <2>7. GuiTypes'
    BY <1>0, <2>1, <2>5, <2>6 DEF GuiTypes
  <2>8. Sessions' /\ ListShowsThisRun'
    BY <1>0, <2>1, <2>5 DEF Sessions, ListShowsThisRun
  <2>9. Queue'
    <3>1. \A k \in DOMAIN events' : events'[k].kind = "row" => events'[k].row.run = run'
      BY <1>0, <2>1, <2>6 DEF Queue
    <3>2. \A k \in DOMAIN events' :
            events'[k].kind = "finish" => k = Len(events') /\ worker'.pc = "ended"
      BY <1>0, <2>1, <2>6 DEF Queue, GuiTypes
    <3>3. running
      BY <1>0, <2>1 DEF Queue
    <3> QED BY <1>0, <2>1, <3>1, <3>2, <3>3 DEF Queue, Joined
  <2> QED BY <2>7, <2>8, <2>9 DEF GuiInv
<1>2. CASE Flush
  <2> DEFINE all == frames \o pending
             evict == IF Len(all) > ListCapacity THEN Len(all) - ListCapacity ELSE 0
  <2>1. /\ frames' = SubSeq(all, evict + 1, Len(all)) /\ pending' = <<>>
        /\ UNCHANGED <<gui, running, session, destroyed, worker, count, loaded,
                       events, run>>
    BY <1>2 DEF Flush
  <2>2. all \in Seq(Row) /\ \A k \in DOMAIN all : all[k].run = run
    BY <1>0 DEF GuiTypes, ListShowsThisRun
  <2>3. evict \in 0 .. Len(all) /\ Len(all) - evict <= ListCapacity
    BY <2>2, GuiAssumption
  <2> HIDE DEF all, evict
  <2>4. /\ frames' \in Seq(Row) /\ Len(frames') <= ListCapacity
        /\ \A k \in DOMAIN frames' : frames'[k].run = run
    <3>1. Len(all) \in Nat
      BY <2>2
    <3>2. frames' \in Seq(Row) /\ Len(frames') = Len(all) - evict
      BY <2>1, <2>2, <2>3, <3>1
    <3>3. ASSUME NEW k \in 1 .. Len(frames')
          PROVE  frames'[k] = all[k + evict] /\ k + evict \in 1 .. Len(all)
      <4>1. PICK l \in Nat, e \in Nat : l = Len(all) /\ e = evict /\ e <= l
        BY <2>3, <3>1
      <4>2. k \in 1 .. l - e
        BY <3>2, <4>1
      <4>3. k + e \in 1 .. l
        BY <4>1, <4>2
      <4>4. SubSeq(all, e + 1, l)[k] = all[k + e]
        BY <2>2, <4>1, <4>2
      <4>5. QED BY <2>1, <4>1, <4>3, <4>4
    <3>4. \A k \in 1 .. Len(all) : all[k].run = run
      BY <2>2
    <3>5. Len(frames') <= ListCapacity
      BY <2>3, <3>1, <3>2
    <3>6. DOMAIN frames' = 1 .. Len(frames')
      BY <3>2
    <3> QED BY <3>2, <3>3, <3>4, <3>5, <3>6
  <2>5. GuiTypes'
    BY <1>0, <2>1, <2>4, EmptySeq DEF GuiTypes
  <2>6. Sessions'
    BY <1>0, <2>1 DEF Sessions
  <2>7. Len(pending') <= PendingCap /\ DOMAIN pending' = {}
    BY <2>1, GuiAssumption
  <2>8. ListShowsThisRun'
    BY <2>1, <2>4, <2>7 DEF ListShowsThisRun
  <2>9. Queue'
    BY <1>0, <2>1 DEF Queue, Joined
  <2> QED BY <2>5, <2>6, <2>8, <2>9 DEF GuiInv
<1> QED BY <1>1, <1>2

\* The end of a run is the last of its events: the queue is empty behind it.
LEMMA FinishKeeps == ASSUME GuiInv, Finish PROVE GuiInv'
<1>0. GuiTypes /\ Sessions /\ Queue /\ ListShowsThisRun
  BY DEF GuiInv
<1>1. /\ events # <<>> /\ Head(events).kind = "finish" /\ events' = Tail(events)
      /\ worker' = [pc |-> "none", session |-> 0] /\ session' = 0 /\ running' = FALSE
      /\ destroyed' = destroyed \cup ({session} \ {0})
      /\ UNCHANGED <<gui, count, loaded, frames, pending, run>>
  BY DEF Finish, NoThread, RunningAfter
<1>2. Head(events) = events[1] /\ 1 \in DOMAIN events
  BY <1>0, <1>1 DEF GuiTypes
<1>3. Len(events) = 1 /\ worker.pc = "ended"
  <2>1. events[1].kind = "finish"
    BY <1>1, <1>2
  <2> QED BY <1>0, <1>2, <2>1 DEF Queue
<1>4. events' = <<>>
  BY <1>0, <1>1, <1>3 DEF GuiTypes
<1>5. GuiTypes'
  BY <1>0, <1>1, <1>4, EmptySeq DEF GuiTypes, Points
<1>6. \E n \in Nat : destroyed' = 1 .. n /\ session' \in {0, n + 1}
  BY <1>0, <1>1, NextDestroyed
<1>7. Sessions'
  BY <1>1, <1>6 DEF Sessions
<1>8. Queue'
  BY <1>0, <1>1, <1>3, <1>4 DEF Queue, Joined
<1>9. ListShowsThisRun'
  BY <1>0, <1>1 DEF ListShowsThisRun
<1> QED BY <1>5, <1>7, <1>8, <1>9 DEF GuiInv

LEMMA QuitKeeps == ASSUME GuiInv, QuitJoins PROVE GuiInv'
<1>0. GuiTypes /\ Sessions /\ Queue /\ ListShowsThisRun
  BY DEF GuiInv
<1>1. /\ gui' = "closed" /\ session' = 0 /\ WorkerGone
      /\ destroyed' = destroyed \cup ({session} \ {0})
      /\ UNCHANGED <<running, worker, count, loaded, events, frames, pending, run>>
  BY DEF QuitJoins, Joinable
<1>2. GuiTypes'
  BY <1>0, <1>1 DEF GuiTypes
<1>3. \E n \in Nat : destroyed' = 1 .. n /\ session' \in {0, n + 1}
  BY <1>0, <1>1, NextDestroyed
<1>4. Sessions'
  BY <1>1, <1>3 DEF Sessions
<1>5. Queue' /\ ListShowsThisRun'
  BY <1>0, <1>1 DEF Queue, Joined, ListShowsThisRun
<1> QED BY <1>2, <1>4, <1>5 DEF GuiInv

LEMMA NextHolds == GuiInv /\ [GuiNext]_guiVars => GuiInv'
<1> SUFFICES ASSUME GuiInv, [GuiNext]_guiVars PROVE GuiInv'
  OBVIOUS
<1>1. CASE Pause \/ PauseAgain \/ Quit \/ Poll \/ GuiReturns
  BY <1>1, GuiMoves DEF Pause, PauseAgain, Quit, Poll, GuiReturns, StopRequested
<1>2. CASE UNCHANGED guiVars
  BY <1>2 DEF GuiInv, GuiTypes, Sessions, Queue, Joined, ListShowsThisRun
<1> QED
  BY <1>1, <1>2, PlayKeeps, ListKeeps, FinishKeeps, QuitKeeps, WorkerKeeps,
     TrampolineKeeps
  DEF GuiNext, GuiHandles

LEMMA GuiInvariant == GuiSpec => []GuiInv
  BY InitHolds, NextHolds, PTL DEF GuiSpec

-----------------------------------------------------------------------------
\* The controller never destroys the session its worker thread is in, never
\* leaves it for another one, and is never gone while the thread runs: whatever
\* order the user plays, stops, plays again and closes the window in
\* (receiver_controller.cpp:35-51, 61-259).
THEOREM WorkerHasItsSession == GuiSpec => []SessionOutlivesWorker
<1>1. GuiInv => SessionOutlivesWorker
  <2> SUFFICES ASSUME GuiInv, ~WorkerGone PROVE SessionOutlivesWorker
    BY DEF SessionOutlivesWorker
  <2>1. PICK n \in Nat : destroyed = 1 .. n /\ session \in {0, n + 1}
    BY DEF GuiInv, Sessions
  <2>2. session = n + 1 /\ worker.session = session /\ running /\ gui # "closed"
    BY <2>1 DEF GuiInv, Sessions
  <2>3. worker.session \notin destroyed
    BY <2>1, <2>2
  <2> QED BY <2>2, <2>3 DEF SessionOutlivesWorker
<1> QED BY <1>1, GuiInvariant, PTL

\* The frame list shows the frames of the current run and no others, and stays
\* within its capacity: no row of an earlier run is still queued for the GUI
\* thread, waiting for the timer or being decoded when the next one starts
\* (receiver_controller.cpp:226-302, frame_list_model.cpp:59-127).
THEOREM ListIsOfThisRun == GuiSpec => []ListShowsThisRun
<1>1. GuiInv => ListShowsThisRun
  BY DEF GuiInv
<1> QED BY <1>1, GuiInvariant, PTL

-----------------------------------------------------------------------------
(* The device table: arranging positions *)

\* A strict total order on a set
Total(P, R) ==
  /\ \A j \in P : <<j, j>> \notin R
  /\ \A j, k \in P : j # k => <<j, k>> \in R \/ <<k, j>> \in R
  /\ \A i, j, k \in P : <<i, j>> \in R /\ <<j, k>> \in R => <<i, k>> \in R

Below(P, R, k) == {j \in P : <<j, k>> \in R}

\* Positions have different numbers, those of the order, and none is left out.
LEMMA RanksAre ==
  ASSUME NEW P, IsFiniteSet(P), NEW R, Total(P, R)
  PROVE  /\ \A k \in P : Cardinality(Below(P, R, k)) \in 0 .. Cardinality(P) - 1
         /\ \A j, k \in P : <<j, k>> \in R =>
              Cardinality(Below(P, R, j)) < Cardinality(Below(P, R, k))
         /\ \A p \in 1 .. Cardinality(P) : \E k \in P : Cardinality(Below(P, R, k)) = p - 1
<1> DEFINE n == Cardinality(P)  rank(k) == Cardinality(Below(P, R, k))
<1>1. n \in Nat
  BY FS_CardinalityType
<1>2. ASSUME NEW k \in P PROVE IsFiniteSet(Below(P, R, k)) /\ rank(k) \in 0 .. n - 1
  <2>1. Below(P, R, k) \in SUBSET (P \ {k})
    BY DEF Total, Below
  <2>2. IsFiniteSet(P \ {k}) /\ Cardinality(P \ {k}) = n - 1
    BY FS_RemoveElement
  <2>3. IsFiniteSet(Below(P, R, k)) /\ rank(k) <= n - 1
    BY <2>1, <2>2, FS_Subset
  <2>4. rank(k) \in Nat
    BY <2>3, FS_CardinalityType
  <2> HIDE DEF rank, n
  <2>5. QED BY <1>1, <2>3, <2>4
<1>3. ASSUME NEW j \in P, NEW k \in P, <<j, k>> \in R PROVE rank(j) < rank(k)
  <2>1. /\ Below(P, R, j) \subseteq Below(P, R, k)
        /\ j \in Below(P, R, k) /\ j \notin Below(P, R, j)
    BY <1>3 DEF Total, Below
  <2>2. /\ IsFiniteSet(Below(P, R, k))
        /\ rank(j) \in 0 .. n - 1 /\ rank(k) \in 0 .. n - 1
    BY <1>2
  <2>3. /\ rank(j) <= rank(k)
        /\ rank(j) = rank(k) => Below(P, R, j) = Below(P, R, k)
    BY <2>1, <2>2, FS_Subset
  <2>4. rank(j) # rank(k)
    BY <2>1, <2>3
  <2> HIDE DEF rank, n
  <2>5. QED BY <1>1, <2>2, <2>3, <2>4
<1>4. \A p \in 1 .. n : \E k \in P : rank(k) = p - 1
  <2> DEFINE f == [k \in P |-> rank(k) + 1]
  <2>1. f \in [P -> 1 .. n]
    <3>1. \A k \in P : rank(k) + 1 \in 1 .. n
      <4> HIDE DEF rank, n
      <4>1. QED BY <1>1, <1>2
    <3> HIDE DEF rank, n
    <3>2. QED BY <3>1
  <2>2. \A j, k \in P : f[j] = f[k] => j = k
    <3>1. ASSUME NEW j \in P, NEW k \in P, j # k PROVE rank(j) # rank(k)
      <4>1. \/ <<j, k>> \in R
            \/ <<k, j>> \in R
        BY <3>1 DEF Total
      <4>2. rank(j) < rank(k) \/ rank(k) < rank(j)
        BY <4>1, <1>3
      <4>3. rank(j) \in 0 .. n - 1 /\ rank(k) \in 0 .. n - 1
        BY <1>2
      <4> HIDE DEF rank, n
      <4>4. QED BY <1>1, <4>2, <4>3
    <3>2. \A k \in P : rank(k) \in Int
      <4>1. \A k \in P : rank(k) \in 0 .. n - 1
        BY <1>2
      <4> HIDE DEF rank, n
      <4>2. QED BY <4>1
    <3> HIDE DEF rank
    <3>3. QED BY <3>1, <3>2
  <2>3. IsFiniteSet(1 .. n) /\ Cardinality(1 .. n) = n
    <3> HIDE DEF n
    <3>1. 1 \in Int /\ n \in Int
      BY <1>1
    <3>2. IsFiniteSet(1 .. n) /\ Cardinality(1 .. n) = IF 1 > n THEN 0 ELSE n - 1 + 1
      BY <3>1, FS_Interval
    <3>3. QED BY <1>1, <3>2
  <2> HIDE DEF f
  <2>4. f \in Injection(P, 1 .. n)
    BY <2>1, <2>2 DEF Injection, IsInjective
  <2>5. f \in Surjection(P, 1 .. n)
    BY <2>3, <2>4, FS_Injection
  <2>6. \A p \in 1 .. n : \E k \in P : f[k] = p
    BY <2>5 DEF Surjection
  <2>7. \A k \in P : f[k] = rank(k) + 1 /\ rank(k) \in 0 .. n - 1
    BY <1>2 DEF f
  <2> HIDE DEF rank, n
  <2>8. ASSUME NEW p \in 1 .. n PROVE \E k \in P : rank(k) = p - 1
    <3>1. PICK k \in P : f[k] = p
      BY <2>6
    <3>2. rank(k) + 1 = p /\ rank(k) \in Int
      BY <3>1, <2>7
    <3>3. QED BY <1>1, <3>2
  <2>9. QED BY <2>8
<1>5. QED BY <1>2, <1>3, <1>4

\* An arrangement lists the positions of a set, each once, in their order.
Lists(o, P, R) ==
  /\ o \in [1 .. Cardinality(P) -> P]
  /\ \A k \in P : \E p \in 1 .. Cardinality(P) : o[p] = k
  /\ \A p, q \in 1 .. Cardinality(P) :
       /\ o[p] = o[q] => p = q
       /\ p < q => <<o[p], o[q]>> \in R

LEMMA ArrangedLists ==
  ASSUME NEW P, IsFiniteSet(P), NEW R, Total(P, R)
  PROVE  Lists(Arranged(P, R), P, R) /\ Cardinality(P) \in Nat
<1> DEFINE n == Cardinality(P)  rank(k) == Cardinality(Below(P, R, k))
           o == Arranged(P, R)
<1>1. n \in Nat
  BY FS_CardinalityType
<1>2. /\ \A k \in P : rank(k) \in 0 .. n - 1
      /\ \A j, k \in P : <<j, k>> \in R => rank(j) < rank(k)
      /\ \A p \in 1 .. n : \E k \in P : rank(k) = p - 1
  BY RanksAre
<1>3. o = [p \in 1 .. n |-> CHOOSE k \in P : rank(k) = p - 1]
  BY DEF Arranged, Below
<1> HIDE DEF rank, n, o
<1>4. \A p \in 1 .. n : o[p] \in P /\ rank(o[p]) = p - 1
  BY <1>2, <1>3
<1>5. o \in [1 .. n -> P]
  BY <1>3, <1>4
<1>6. \A j, k \in P : rank(j) = rank(k) => j = k
  <2>1. SUFFICES ASSUME NEW j \in P, NEW k \in P, j # k PROVE rank(j) # rank(k)
    OBVIOUS
  <2>2. <<j, k>> \in R \/ <<k, j>> \in R
    BY <2>1 DEF Total
  <2>3. rank(j) < rank(k) \/ rank(k) < rank(j)
    BY <2>2, <1>2
  <2>4. rank(j) \in Int /\ rank(k) \in Int
    BY <1>1, <1>2
  <2>5. QED BY <2>3, <2>4
<1>7. ASSUME NEW k \in P PROVE \E p \in 1 .. n : o[p] = k
  <2>1. PICK p \in 1 .. n : p = rank(k) + 1
    BY <1>1, <1>2
  <2>2. p - 1 = rank(k) /\ rank(o[p]) = p - 1 /\ o[p] \in P
    BY <1>1, <1>2, <1>4, <2>1
  <2>3. o[p] = k
    BY <1>6, <2>2
  <2>4. QED BY <2>3
<1>8. ASSUME NEW p \in 1 .. n, NEW q \in 1 .. n
      PROVE  (o[p] = o[q] => p = q) /\ (p < q => <<o[p], o[q]>> \in R)
  <2>1. rank(o[p]) = p - 1 /\ rank(o[q]) = q - 1 /\ o[p] \in P /\ o[q] \in P
    BY <1>4
  <2>2. o[p] = o[q] => p = q
    BY <1>1, <2>1
  <2>3. ASSUME p < q PROVE <<o[p], o[q]>> \in R
    <3>1. o[p] # o[q]
      BY <1>1, <2>1, <2>3
    <3>2. ~(rank(o[q]) < rank(o[p]))
      BY <1>1, <2>1, <2>3
    <3>3. <<o[q], o[p]>> \notin R
      BY <1>2, <2>1, <3>2
    <3>4. QED BY <2>1, <3>1, <3>3 DEF Total
  <2>4. QED BY <2>2, <2>3
<1>9. QED BY <1>1, <1>5, <1>7, <1>8 DEF Lists, n, o

-----------------------------------------------------------------------------
(* The order of the rows *)

HasKeys(r) ==
  /\ r.br \in BOOLEAN /\ r.groupId \in Int /\ r.ltSlot \in Int /\ r.lap \in Int
  /\ r.type \in Int /\ r.label \in Int /\ r.rssi \in Int /\ r.rate \in Int

\* Rows of one piconet have one LAP.
OneLap(a, b) == Grouped(a) /\ Grouped(b) /\ a.groupId = b.groupId => a.lap = b.lap

Up(asc, x) == IF asc THEN x ELSE -x

\* Seven keys decide, the first difference first.
Lower(x, y) ==
  \/ x[1] < y[1]
  \/ x[1] = y[1] /\ x[2] < y[2]
  \/ x[1] = y[1] /\ x[2] = y[2] /\ x[3] < y[3]
  \/ x[1] = y[1] /\ x[2] = y[2] /\ x[3] = y[3] /\ x[4] < y[4]
  \/ x[1] = y[1] /\ x[2] = y[2] /\ x[3] = y[3] /\ x[4] = y[4] /\ x[5] < y[5]
  \/ /\ x[1] = y[1] /\ x[2] = y[2] /\ x[3] = y[3] /\ x[4] = y[4] /\ x[5] = y[5]
     /\ x[6] < y[6]
  \/ /\ x[1] = y[1] /\ x[2] = y[2] /\ x[3] = y[3] /\ x[4] = y[4] /\ x[5] = y[5]
     /\ x[6] = y[6] /\ x[7] < y[7]

Key(by, r) ==
  IF by.role = "rssi"
  THEN IF r.rssi = NoRssi THEN <<1, 0, 0, 0, 0, 0, 0>>
       ELSE <<0, Up(by.asc, r.rssi), 0, 0, 0, 0, 0>>
  ELSE IF by.role = "identifier"
  THEN IF Grouped(r)
       THEN <<IF by.asc THEN 0 ELSE 1, 0, Up(by.asc, r.lap), Up(by.asc, r.groupId),
              TreeRank(r), r.ltSlot, Up(by.asc, r.label)>>
       ELSE <<IF r.br = by.asc THEN 0 ELSE 1, 1, Up(by.asc, r.type), Up(by.asc, r.label),
              0, 0, 0>>
  ELSE IF by.role = "packetRate"
  THEN <<Up(by.asc, r.rate), 0, 0, 0, 0, 0, 0>>
  ELSE <<0, 0, 0, 0, 0, 0, 0>>

Numbers(x) == /\ x[1] \in Int /\ x[2] \in Int /\ x[3] \in Int /\ x[4] \in Int
              /\ x[5] \in Int /\ x[6] \in Int /\ x[7] \in Int

LEMMA LowerIsOrder ==
  ASSUME NEW x, NEW y, NEW z, Numbers(x), Numbers(y), Numbers(z)
  PROVE  /\ ~(Lower(x, y) /\ Lower(y, x))
         /\ Lower(x, z) => Lower(x, y) \/ Lower(y, z)
<1>1. ~(Lower(x, y) /\ Lower(y, x))
  BY DEF Numbers, Lower
<1>2. Lower(x, z) => Lower(x, y) \/ Lower(y, z)
  BY DEF Numbers, Lower
<1>3. QED BY <1>1, <1>2

LEMMA FirstOfOne ==
  ASSUME NEW a1 \in Int, NEW b1 \in Int
  PROVE  Precedes(<< <<a1, b1>> >>) <=> a1 < b1
BY DEF Precedes

LEMMA FirstOfTwo ==
  ASSUME NEW a1 \in Int, NEW b1 \in Int, NEW a2 \in Int, NEW b2 \in Int
  PROVE  Precedes(<< <<a1, b1>>, <<a2, b2>> >>) <=> a1 < b1 \/ (a1 = b1 /\ a2 < b2)
<1> DEFINE keys == << <<a1, b1>>, <<a2, b2>> >>
<1>1. /\ DOMAIN keys = 1 .. 2 /\ keys[1] = <<a1, b1>> /\ keys[2] = <<a2, b2>>
  OBVIOUS
<1> HIDE DEF keys
<1>2. \A k \in 1 .. 2 : (k = 1 \/ k = 2) /\ 1 .. 1 - 1 = {} /\ 1 .. 2 - 1 = {1}
  OBVIOUS
<1>3. Precedes(keys) <=> \/ keys[1][1] < keys[1][2]
                         \/ keys[2][1] < keys[2][2] /\ keys[1][1] = keys[1][2]
  BY <1>1, <1>2 DEF Precedes
<1>4. QED BY <1>1, <1>3 DEF keys

LEMMA FirstOfThree ==
  ASSUME NEW x, NEW y, NEW z
  PROVE  Precedes(<<x, y, z>>)
           <=> \/ x[1] < x[2]
               \/ x[1] = x[2] /\ y[1] < y[2]
               \/ x[1] = x[2] /\ y[1] = y[2] /\ z[1] < z[2]
<1> DEFINE keys == <<x, y, z>>
<1>1. DOMAIN keys = 1 .. 3 /\ keys[1] = x /\ keys[2] = y /\ keys[3] = z
  OBVIOUS
<1> HIDE DEF keys
<1>2. /\ \A k \in 1 .. 3 : k = 1 \/ k = 2 \/ k = 3
      /\ 1 .. 1 - 1 = {} /\ 1 .. 2 - 1 = {1} /\ 1 .. 3 - 1 = {1, 2}
  OBVIOUS
<1>3. Precedes(keys) <=> \/ keys[1][1] < keys[1][2]
                         \/ keys[2][1] < keys[2][2] /\ keys[1][1] = keys[1][2]
                         \/ /\ keys[3][1] < keys[3][2]
                            /\ keys[1][1] = keys[1][2] /\ keys[2][1] = keys[2][2]
  BY <1>1, <1>2 DEF Precedes
<1>4. QED BY <1>1, <1>3 DEF keys

\* The direction is that of the keys.
LEMMA DirectedIs ==
  ASSUME NEW asc \in BOOLEAN, NEW a \in Int, NEW b \in Int
  PROVE  \E x, y \in Int : /\ Directed(asc, a, b) = <<x, y>>
                           /\ x < y <=> Up(asc, a) < Up(asc, b)
                           /\ x = y <=> Up(asc, a) = Up(asc, b)
<1>1. CASE asc
  BY <1>1 DEF Directed, Up
<1>2. CASE ~asc
  <2>1. Directed(asc, a, b) = <<b, a>> /\ (b < a <=> Up(asc, a) < Up(asc, b))
        /\ (b = a <=> Up(asc, a) = Up(asc, b))
    BY <1>2 DEF Directed, Up
  <2>2. QED BY <2>1
<1>3. QED BY <1>1, <1>2

LEMMA KeysAreNumbers ==
  ASSUME NEW by, by.asc \in BOOLEAN, NEW r, HasKeys(r)
  PROVE  Numbers(Key(by, r))
BY DEF HasKeys, Numbers, Key, Up, TreeRank

LEMMA IdentifierIsLower ==
  ASSUME NEW by, by.asc \in BOOLEAN, by.role = "identifier",
         NEW a, NEW b, HasKeys(a), HasKeys(b), OneLap(a, b)
  PROVE  ByIdentifier(by.asc, a, b) <=> Lower(Key(by, a), Key(by, b))
<1> DEFINE asc == by.asc
<1>1. asc \in BOOLEAN /\ (Grouped(a) => a.br) /\ (Grouped(b) => b.br)
  BY DEF Grouped, IsConnection, IsMember
<1>2. CASE a.br # b.br
  <2>1. ByIdentifier(asc, a, b) <=> a.br = asc
    BY <1>2 DEF ByIdentifier
  <2>2. /\ Key(by, a)[1] = IF a.br = asc THEN 0 ELSE 1
        /\ Key(by, b)[1] = IF b.br = asc THEN 0 ELSE 1
    <3>1. ASSUME NEW r, r.br \in BOOLEAN, Grouped(r) => r.br
          PROVE  Key(by, r)[1] = IF r.br = asc THEN 0 ELSE 1
      <4>1. CASE Grouped(r)
        BY <1>1, <3>1, <4>1 DEF Key
      <4>2. CASE ~Grouped(r)
        BY <4>2 DEF Key
      <4>3. QED BY <4>1, <4>2
    <3>2. QED BY <1>1, <3>1 DEF HasKeys
  <2>3. (a.br = asc) <=> ~(b.br = asc)
    BY <1>1, <1>2 DEF HasKeys
  <2>4. Lower(Key(by, a), Key(by, b)) <=> a.br = asc
    <3> DEFINE x == Key(by, a)  y == Key(by, b)
    <3>1. (a.br = asc => x[1] = 0 /\ y[1] = 1) /\ (a.br # asc => x[1] = 1 /\ y[1] = 0)
      BY <2>2, <2>3
    <3> HIDE DEF x, y
    <3>2. QED BY <3>1 DEF Lower, x, y
  <2>5. QED BY <2>1, <2>4
<1>3. CASE a.br = b.br /\ Grouped(a) /\ Grouped(b)
  <2>1. PICK l1, l2 \in Int : /\ Directed(asc, a.lap, b.lap) = <<l1, l2>>
                              /\ l1 < l2 <=> Up(asc, a.lap) < Up(asc, b.lap)
                              /\ l1 = l2 <=> Up(asc, a.lap) = Up(asc, b.lap)
    BY <1>1, DirectedIs DEF HasKeys
  <2>2. PICK g1, g2 \in Int : /\ Directed(asc, a.groupId, b.groupId) = <<g1, g2>>
                              /\ g1 < g2 <=> Up(asc, a.groupId) < Up(asc, b.groupId)
                              /\ g1 = g2 <=> Up(asc, a.groupId) = Up(asc, b.groupId)
    BY <1>1, DirectedIs DEF HasKeys
  <2>3. PICK n1, n2 \in Int : /\ Directed(asc, a.label, b.label) = <<n1, n2>>
                              /\ n1 < n2 <=> Up(asc, a.label) < Up(asc, b.label)
                              /\ n1 = n2 <=> Up(asc, a.label) = Up(asc, b.label)
    BY <1>1, DirectedIs DEF HasKeys
  <2>4. Lower(Key(by, a), Key(by, b)) <=>
          \/ Up(asc, a.lap) < Up(asc, b.lap)
          \/ Up(asc, a.lap) = Up(asc, b.lap) /\
             (\/ Up(asc, a.groupId) < Up(asc, b.groupId)
              \/ Up(asc, a.groupId) = Up(asc, b.groupId) /\
                 (\/ TreeRank(a) < TreeRank(b)
                  \/ TreeRank(a) = TreeRank(b) /\
                     (\/ a.ltSlot < b.ltSlot
                      \/ a.ltSlot = b.ltSlot /\ Up(asc, a.label) < Up(asc, b.label))))
    <3> DEFINE x == Key(by, a)  y == Key(by, b)
    <3>1. /\ x[1] = y[1] /\ x[2] = 0 /\ y[2] = 0
          /\ x[3] = Up(asc, a.lap) /\ x[4] = Up(asc, a.groupId) /\ x[5] = TreeRank(a)
          /\ x[6] = a.ltSlot /\ x[7] = Up(asc, a.label)
          /\ y[3] = Up(asc, b.lap) /\ y[4] = Up(asc, b.groupId) /\ y[5] = TreeRank(b)
          /\ y[6] = b.ltSlot /\ y[7] = Up(asc, b.label)
      BY <1>3 DEF Key
    <3>2. x[1] \in Int /\ y[1] \in Int
      BY KeysAreNumbers DEF Numbers
    <3> HIDE DEF x, y
    <3>3. ~(x[1] < y[1]) /\ ~(x[2] < y[2])
      BY <3>1, <3>2
    <3>4. QED BY <3>1, <3>3 DEF Lower, x, y
  <2>5. a.groupId = b.groupId => Up(asc, a.lap) = Up(asc, b.lap)
    BY <1>3 DEF OneLap
  <2>6. TreeRank(a) \in Int /\ TreeRank(b) \in Int /\ a.ltSlot \in Int /\ b.ltSlot \in Int
        /\ a.groupId \in Int /\ b.groupId \in Int
    BY DEF TreeRank, HasKeys
  <2>7. a.groupId = b.groupId <=> Up(asc, a.groupId) = Up(asc, b.groupId)
    BY <1>1, <2>6 DEF Up
  <2>8. CASE a.groupId # b.groupId
    <3>1. ByIdentifier(asc, a, b) <=> Precedes(<< <<l1, l2>>, <<g1, g2>> >>)
      BY <1>1, <1>3, <2>1, <2>2, <2>8 DEF ByIdentifier
    <3>2. Precedes(<< <<l1, l2>>, <<g1, g2>> >>) <=> l1 < l2 \/ (l1 = l2 /\ g1 < g2)
      BY FirstOfTwo
    <3>3. QED BY <2>1, <2>2, <2>4, <2>7, <2>8, <3>1, <3>2
  <2>9. CASE a.groupId = b.groupId
    <3>1. ByIdentifier(asc, a, b) <=> Precedes(<< <<TreeRank(a), TreeRank(b)>>,
                                                  <<a.ltSlot, b.ltSlot>>, <<n1, n2>> >>)
      BY <1>1, <1>3, <2>3, <2>9 DEF ByIdentifier, WithinGroup
    <3>2. Precedes(<< <<TreeRank(a), TreeRank(b)>>, <<a.ltSlot, b.ltSlot>>, <<n1, n2>> >>)
            <=> \/ TreeRank(a) < TreeRank(b)
                \/ TreeRank(a) = TreeRank(b) /\
                     (a.ltSlot < b.ltSlot \/ (a.ltSlot = b.ltSlot /\ n1 < n2))
      <4> DEFINE x == <<TreeRank(a), TreeRank(b)>>  y == <<a.ltSlot, b.ltSlot>>
                 z == <<n1, n2>>
      <4>1. Precedes(<<x, y, z>>)
              <=> \/ x[1] < x[2]
                  \/ x[1] = x[2] /\ y[1] < y[2]
                  \/ x[1] = x[2] /\ y[1] = y[2] /\ z[1] < z[2]
        <5> HIDE DEF x, y, z
        <5>1. QED BY FirstOfThree
      <4>2. QED BY <4>1
    <3>3. Up(asc, a.lap) \in Int /\ Up(asc, a.groupId) \in Int
      BY DEF HasKeys, Up
    <3>4. /\ ~(Up(asc, a.lap) < Up(asc, b.lap)) /\ Up(asc, a.lap) = Up(asc, b.lap)
          /\ ~(Up(asc, a.groupId) < Up(asc, b.groupId))
          /\ Up(asc, a.groupId) = Up(asc, b.groupId)
      BY <2>5, <2>7, <2>9, <3>3
    <3>5. QED BY <2>3, <2>4, <3>1, <3>2, <3>4
  <2>10. QED BY <2>8, <2>9
<1>4. CASE a.br = b.br /\ ~(Grouped(a) /\ Grouped(b)) /\ (Grouped(a) \/ Grouped(b))
  <2>1. ByIdentifier(asc, a, b) <=> Grouped(a)
    BY <1>1, <1>4 DEF ByIdentifier, Grouped
  <2>2. Key(by, a)[1] = Key(by, b)[1]
    BY <1>1, <1>4 DEF Key
  <2>3. /\ Key(by, a)[2] = IF Grouped(a) THEN 0 ELSE 1
        /\ Key(by, b)[2] = IF Grouped(b) THEN 0 ELSE 1
    BY DEF Key
  <2>4. Key(by, a)[1] \in Int
    BY KeysAreNumbers DEF Numbers
  <2>5. ~(Key(by, a)[1] < Key(by, b)[1])
    BY <2>2, <2>4
  <2>6. QED BY <1>4, <2>1, <2>2, <2>3, <2>5 DEF Lower
<1>5. CASE a.br = b.br /\ ~Grouped(a) /\ ~Grouped(b)
  <2>1. PICK t1, t2 \in Int : /\ Directed(asc, a.type, b.type) = <<t1, t2>>
                              /\ t1 < t2 <=> Up(asc, a.type) < Up(asc, b.type)
                              /\ t1 = t2 <=> Up(asc, a.type) = Up(asc, b.type)
    BY <1>1, DirectedIs DEF HasKeys
  <2>2. PICK n1, n2 \in Int : /\ Directed(asc, a.label, b.label) = <<n1, n2>>
                              /\ n1 < n2 <=> Up(asc, a.label) < Up(asc, b.label)
                              /\ n1 = n2 <=> Up(asc, a.label) = Up(asc, b.label)
    BY <1>1, DirectedIs DEF HasKeys
  <2>3. ByIdentifier(asc, a, b) <=> Precedes(<< <<t1, t2>>, <<n1, n2>> >>)
    <3>1. Grouped(a) = FALSE /\ Grouped(b) = FALSE
      BY <1>5 DEF Grouped, IsConnection, IsMember
    <3>2. QED BY <1>5, <2>1, <2>2, <3>1 DEF ByIdentifier
  <2>4. Precedes(<< <<t1, t2>>, <<n1, n2>> >>) <=> t1 < t2 \/ (t1 = t2 /\ n1 < n2)
    BY FirstOfTwo
  <2>5. Lower(Key(by, a), Key(by, b)) <=>
          \/ Up(asc, a.type) < Up(asc, b.type)
          \/ Up(asc, a.type) = Up(asc, b.type) /\ Up(asc, a.label) < Up(asc, b.label)
    <3> DEFINE x == Key(by, a)  y == Key(by, b)
    <3>1. /\ x[1] = y[1] /\ x[2] = 1 /\ y[2] = 1
          /\ x[3] = Up(asc, a.type) /\ x[4] = Up(asc, a.label) /\ x[5] = 0
          /\ x[6] = 0 /\ x[7] = 0
          /\ y[3] = Up(asc, b.type) /\ y[4] = Up(asc, b.label) /\ y[5] = 0
          /\ y[6] = 0 /\ y[7] = 0
      BY <1>5 DEF Key
    <3>2. x[1] \in Int /\ y[1] \in Int
      BY KeysAreNumbers DEF Numbers
    <3> HIDE DEF x, y
    <3>3. ~(x[1] < y[1]) /\ ~(x[2] < y[2]) /\ ~(x[5] < y[5]) /\ ~(x[6] < y[6])
          /\ ~(x[7] < y[7])
      BY <3>1, <3>2
    <3>4. QED BY <3>1, <3>3 DEF Lower, x, y
  <2>6. QED BY <2>1, <2>2, <2>3, <2>4, <2>5
<1>6. QED BY <1>2, <1>3, <1>4, <1>5

LEMMA LowerAtSecond ==
  ASSUME NEW b, NEW c, NEW d, NEW e
  PROVE  Lower(<<b, c, 0, 0, 0, 0, 0>>, <<d, e, 0, 0, 0, 0, 0>>)
           <=> b < d \/ (b = d /\ c < e)
<1> DEFINE x == <<b, c, 0, 0, 0, 0, 0>>  y == <<d, e, 0, 0, 0, 0, 0>>
<1>1. /\ x[1] = b /\ x[2] = c /\ x[3] = 0 /\ x[4] = 0 /\ x[5] = 0 /\ x[6] = 0 /\ x[7] = 0
      /\ y[1] = d /\ y[2] = e /\ y[3] = 0 /\ y[4] = 0 /\ y[5] = 0 /\ y[6] = 0 /\ y[7] = 0
  OBVIOUS
<1> HIDE DEF x, y
<1>2. Lower(x, y) <=> b < d \/ (b = d /\ c < e)
  <2>1. ~(0 < 0)
    OBVIOUS
  <2>2. /\ ~(x[3] < y[3]) /\ ~(x[4] < y[4]) /\ ~(x[5] < y[5])
        /\ ~(x[6] < y[6]) /\ ~(x[7] < y[7])
    BY <1>1, <2>1, Zenon
  <2>3. Lower(x, y) <=> x[1] < y[1] \/ (x[1] = y[1] /\ x[2] < y[2])
    BY <2>2, Zenon DEF Lower
  <2>4. QED BY <1>1, <2>3, Zenon
<1>3. QED BY <1>2 DEF x, y

LEMMA LowerAtFirst ==
  ASSUME NEW c, NEW d
  PROVE  Lower(<<c, 0, 0, 0, 0, 0, 0>>, <<d, 0, 0, 0, 0, 0, 0>>) <=> c < d
<1>1. ~(0 < 0)
  OBVIOUS
<1>2. Lower(<<c, 0, 0, 0, 0, 0, 0>>, <<d, 0, 0, 0, 0, 0, 0>>) <=> c < d \/ (c = d /\ 0 < 0)
  BY LowerAtSecond
<1>3. QED BY <1>1, <1>2, Zenon

LEMMA LessIsLower ==
  ASSUME NEW by, by.asc \in BOOLEAN, NEW a, NEW b,
         HasKeys(a), HasKeys(b), OneLap(a, b)
  PROVE  LessThan(by, a, b) <=> Lower(Key(by, a), Key(by, b))
<1>1. CASE by.role = "identifier"
  BY <1>1, IdentifierIsLower DEF LessThan
<1>2. CASE by.role = "packetRate"
  <2>1. PICK x, y \in Int : /\ Directed(by.asc, a.rate, b.rate) = <<x, y>>
                            /\ x < y <=> Up(by.asc, a.rate) < Up(by.asc, b.rate)
    BY DirectedIs DEF HasKeys
  <2>2. LessThan(by, a, b) <=> Precedes(<< <<x, y>> >>)
    BY <1>2, <2>1 DEF LessThan
  <2>3. LessThan(by, a, b) <=> Up(by.asc, a.rate) < Up(by.asc, b.rate)
    BY <2>1, <2>2, FirstOfOne
  <2>4. /\ Key(by, a) = <<Up(by.asc, a.rate), 0, 0, 0, 0, 0, 0>>
        /\ Key(by, b) = <<Up(by.asc, b.rate), 0, 0, 0, 0, 0, 0>>
    BY <1>2 DEF Key
  <2>5. Lower(Key(by, a), Key(by, b)) <=> Up(by.asc, a.rate) < Up(by.asc, b.rate)
    BY <2>4, LowerAtFirst
  <2>6. QED BY <2>3, <2>5
<1>3. CASE by.role = "rssi"
  <2>1. PICK x, y \in Int : /\ Directed(by.asc, a.rssi, b.rssi) = <<x, y>>
                            /\ x < y <=> Up(by.asc, a.rssi) < Up(by.asc, b.rssi)
    BY DirectedIs DEF HasKeys
  <2>2. LessThan(by, a, b) <=>
          a.rssi # NoRssi /\ (b.rssi = NoRssi \/ Precedes(<< <<x, y>> >>))
    BY <1>3, <2>1 DEF LessThan
  <2>3. LessThan(by, a, b) <=>
          a.rssi # NoRssi /\ (b.rssi = NoRssi \/ Up(by.asc, a.rssi) < Up(by.asc, b.rssi))
    BY <2>1, <2>2, FirstOfOne
  <2>4. ASSUME NEW r
        PROVE  Key(by, r) = IF r.rssi = NoRssi THEN <<1, 0, 0, 0, 0, 0, 0>>
                            ELSE <<0, Up(by.asc, r.rssi), 0, 0, 0, 0, 0>>
    BY <1>3 DEF Key
  <2>5. Lower(Key(by, a), Key(by, b)) <=>
          a.rssi # NoRssi /\ (b.rssi = NoRssi \/ Up(by.asc, a.rssi) < Up(by.asc, b.rssi))
    <3>1. CASE a.rssi = NoRssi /\ b.rssi = NoRssi
      <4>1. Key(by, a) = <<1, 0, 0, 0, 0, 0, 0>> /\ Key(by, b) = <<1, 0, 0, 0, 0, 0, 0>>
        BY <2>4, <3>1
      <4>2. QED BY <3>1, <4>1, LowerAtSecond
    <3>2. CASE a.rssi = NoRssi /\ b.rssi # NoRssi
      <4>1. Key(by, a) = <<1, 0, 0, 0, 0, 0, 0>>
            /\ Key(by, b) = <<0, Up(by.asc, b.rssi), 0, 0, 0, 0, 0>>
        BY <2>4, <3>2
      <4>2. Lower(<<1, 0, 0, 0, 0, 0, 0>>, <<0, Up(by.asc, b.rssi), 0, 0, 0, 0, 0>>)
              <=> 1 < 0 \/ (1 = 0 /\ 0 < Up(by.asc, b.rssi))
        BY LowerAtSecond
      <4>3. QED BY <3>2, <4>1, <4>2
    <3>3. CASE a.rssi # NoRssi /\ b.rssi = NoRssi
      <4>1. Key(by, b) = <<1, 0, 0, 0, 0, 0, 0>>
            /\ Key(by, a) = <<0, Up(by.asc, a.rssi), 0, 0, 0, 0, 0>>
        BY <2>4, <3>3
      <4>2. Lower(<<0, Up(by.asc, a.rssi), 0, 0, 0, 0, 0>>, <<1, 0, 0, 0, 0, 0, 0>>)
              <=> 0 < 1 \/ (0 = 1 /\ Up(by.asc, a.rssi) < 0)
        BY LowerAtSecond
      <4>3. 0 < 1
        OBVIOUS
      <4>4. Lower(Key(by, a), Key(by, b))
        BY <4>1, <4>2, <4>3
      <4>5. QED BY <3>3, <4>4
    <3>4. CASE a.rssi # NoRssi /\ b.rssi # NoRssi
      <4>1. Key(by, b) = <<0, Up(by.asc, b.rssi), 0, 0, 0, 0, 0>>
            /\ Key(by, a) = <<0, Up(by.asc, a.rssi), 0, 0, 0, 0, 0>>
        BY <2>4, <3>4
      <4>2. QED BY <3>4, <4>1, LowerAtSecond
    <3>5. QED BY <3>1, <3>2, <3>3, <3>4
  <2>6. QED BY <2>3, <2>5
<1>4. CASE by.role \notin {"identifier", "packetRate", "rssi"}
  BY <1>4 DEF LessThan, Lower, Key
<1>5. QED BY <1>1, <1>2, <1>3, <1>4

\* Rows that can be in the table together.
Comparable(s) ==
  \A j, k \in DOMAIN s : HasKeys(s[j]) /\ OneLap(s[j], s[k])

LEMMA LessIsOrder ==
  ASSUME NEW by, by.asc \in BOOLEAN, NEW s, Comparable(s),
         NEW i \in DOMAIN s, NEW j \in DOMAIN s, NEW k \in DOMAIN s
  PROVE  /\ ~(LessThan(by, s[i], s[j]) /\ LessThan(by, s[j], s[i]))
         /\ LessThan(by, s[i], s[k]) => LessThan(by, s[i], s[j]) \/ LessThan(by, s[j], s[k])
<1>1. /\ HasKeys(s[i]) /\ HasKeys(s[j]) /\ HasKeys(s[k])
      /\ OneLap(s[i], s[j]) /\ OneLap(s[j], s[i]) /\ OneLap(s[i], s[k]) /\ OneLap(s[j], s[k])
  BY DEF Comparable
<1>2. /\ LessThan(by, s[i], s[j]) <=> Lower(Key(by, s[i]), Key(by, s[j]))
      /\ LessThan(by, s[j], s[i]) <=> Lower(Key(by, s[j]), Key(by, s[i]))
      /\ LessThan(by, s[i], s[k]) <=> Lower(Key(by, s[i]), Key(by, s[k]))
      /\ LessThan(by, s[j], s[k]) <=> Lower(Key(by, s[j]), Key(by, s[k]))
  BY <1>1, LessIsLower
<1>3. Numbers(Key(by, s[i])) /\ Numbers(Key(by, s[j])) /\ Numbers(Key(by, s[k]))
  BY <1>1, KeysAreNumbers
<1>4. /\ ~(Lower(Key(by, s[i]), Key(by, s[j])) /\ Lower(Key(by, s[j]), Key(by, s[i])))
      /\ Lower(Key(by, s[i]), Key(by, s[k])) =>
           Lower(Key(by, s[i]), Key(by, s[j])) \/ Lower(Key(by, s[j]), Key(by, s[k]))
  BY <1>3, LowerIsOrder
<1>5. QED BY <1>2, <1>4

\* With the ties broken by position, the rows are in a strict total order.
LEMMA BeforeIsTotal ==
  ASSUME NEW by, by.asc \in BOOLEAN, NEW s, Comparable(s),
         NEW n \in Nat, DOMAIN s = 1 .. n
  PROVE  /\ Total(DOMAIN s, Before(by, s))
         /\ \A j, k \in DOMAIN s :
              <<j, k>> \in Before(by, s) => ~LessThan(by, s[k], s[j])
<1> DEFINE less(j, k) == LessThan(by, s[j], s[k])
           before(j, k) == <<j, k>> \in Before(by, s)
<1>1. \A j, k \in 1 .. n : before(j, k) <=> less(j, k) \/ (j < k /\ ~less(k, j))
  BY DEF Before
<1>2. /\ \A i, j \in 1 .. n : ~(less(i, j) /\ less(j, i))
      /\ \A i, j, k \in 1 .. n : less(i, k) => less(i, j) \/ less(j, k)
  BY LessIsOrder
<1> HIDE DEF less, before
<1>3. \A j \in 1 .. n : ~before(j, j)
  BY <1>1, <1>2
<1>4. \A j, k \in 1 .. n : j # k => before(j, k) \/ before(k, j)
  BY <1>1, <1>2
<1>5. ASSUME NEW i \in 1 .. n, NEW j \in 1 .. n, NEW k \in 1 .. n, before(i, j), before(j, k)
      PROVE  before(i, k)
  <2>1. /\ less(i, j) \/ (i < j /\ ~less(j, i))
        /\ less(j, k) \/ (j < k /\ ~less(k, j))
    BY <1>1, <1>5
  <2>2. /\ ~(less(i, j) /\ less(j, i)) /\ ~(less(j, k) /\ less(k, j))
        /\ ~(less(i, k) /\ less(k, i))
        /\ less(i, j) => less(i, k) \/ less(k, j)
        /\ less(j, k) => less(j, i) \/ less(i, k)
        /\ less(k, i) => less(k, j) \/ less(j, i)
    BY <1>2
  <2>3. i < j /\ j < k => i < k
    OBVIOUS
  <2>4. less(i, k) \/ (i < k /\ ~less(k, i))
    BY <2>1, <2>2, <2>3
  <2>5. QED BY <1>1, <2>4
<1>6. \A j, k \in 1 .. n : before(j, k) => ~less(k, j)
  BY <1>1, <1>2
<1>7. QED BY <1>3, <1>4, <1>5, <1>6 DEF Total, before, less

-----------------------------------------------------------------------------
(* Sorting a table and drawing its trees *)

TableRow == [id : Int, br : BOOLEAN, kind : STRING, groupId : Int, ltSlot : Int,
             lap : Int, type : Int, label : Int, rssi : Int, packets : Nat, rate : Nat,
             series : Seq(Int), isLastChild : BOOLEAN, hasChildren : BOOLEAN]

\* The fixed part of a row is that of an entity.
Shows(r, e) ==
  /\ r.id = e.id /\ r.br = e.br /\ r.kind = e.kind /\ r.groupId = e.groupId
  /\ r.ltSlot = e.ltSlot /\ r.lap = e.lap /\ r.type = e.type /\ r.label = e.label

\* Rows of different devices, as polls make them
Table(s) ==
  /\ s \in Seq(TableRow)
  /\ \A j \in DOMAIN s : \E k \in DOMAIN Entities : Shows(s[j], Entities[k])
  /\ \A j, k \in DOMAIN s : s[j].id = s[k].id => j = k

LEMMA ShowsGroup ==
  ASSUME NEW r, NEW e, Shows(r, e)
  PROVE  /\ IsConnection(r) <=> IsConnection(e)
         /\ IsMember(r) <=> IsMember(e)
         /\ Grouped(r) <=> Grouped(e)
BY DEF Shows, IsConnection, IsMember, Grouped

LEMMA TablesCompare ==
  ASSUME NEW s, Table(s)
  PROVE  /\ Comparable(s)
         /\ \A j, k \in DOMAIN s :
              Grouped(s[j]) /\ Grouped(s[k]) /\ s[j].groupId = s[k].groupId
                /\ s[j].ltSlot = s[k].ltSlot => j = k
<1>1. DOMAIN s = 1 .. Len(s) /\ \A j \in DOMAIN s : s[j] \in TableRow
  BY LenProperties, ElementOfSeq DEF Table
<1>2. \A j \in DOMAIN s : HasKeys(s[j])
  BY <1>1 DEF HasKeys, TableRow
<1>3. ASSUME NEW j \in DOMAIN s, NEW k \in DOMAIN s
      PROVE  /\ OneLap(s[j], s[k])
             /\ Grouped(s[j]) /\ Grouped(s[k]) /\ s[j].groupId = s[k].groupId
                  /\ s[j].ltSlot = s[k].ltSlot => j = k
  <2>1. PICK a \in DOMAIN Entities : Shows(s[j], Entities[a])
    BY DEF Table
  <2>2. PICK b \in DOMAIN Entities : Shows(s[k], Entities[b])
    BY DEF Table
  <2>3. SUFFICES ASSUME Grouped(s[j]), Grouped(s[k]), s[j].groupId = s[k].groupId
                 PROVE  s[j].lap = s[k].lap /\ (s[j].ltSlot = s[k].ltSlot => j = k)
    BY DEF OneLap
  <2>4. Grouped(Entities[a]) /\ Grouped(Entities[b])
    BY <2>1, <2>2, <2>3, ShowsGroup
  <2>5. Entities[a].groupId = Entities[b].groupId
    BY <2>1, <2>2, <2>3 DEF Shows
  <2>6. /\ Entities[a].lap = Entities[b].lap
        /\ Entities[a].ltSlot = Entities[b].ltSlot => a = b
    BY <2>4, <2>5, DeviceListAssumption
  <2>7. s[j].lap = s[k].lap /\ (s[j].ltSlot = s[k].ltSlot => a = b)
    BY <2>1, <2>2, <2>6 DEF Shows
  <2>8. a = b => s[j].id = s[k].id
    BY <2>1, <2>2 DEF Shows
  <2>9. QED BY <2>7, <2>8 DEF Table
<1>4. QED BY <1>2, <1>3 DEF Comparable

\* Stable sorting permutes the rows into the order of the column.
LEMMA SortedIs ==
  ASSUME NEW by, by.asc \in BOOLEAN, NEW s, Table(s)
  PROVE  LET t == StableSorted(by, s) IN
         /\ Table(t) /\ Len(t) = Len(s) /\ IdsOf(t) = IdsOf(s)
         /\ \A p \in DOMAIN t : \E k \in DOMAIN s : t[p] = s[k]
         /\ \A p, q \in DOMAIN t : p < q => ~LessThan(by, t[q], t[p])
<1> DEFINE n == Len(s)  t == StableSorted(by, s)
           R == Before(by, s)  o == Arranged(DOMAIN s, R)
<1>1. n \in Nat /\ DOMAIN s = 1 .. n /\ \A k \in 1 .. n : s[k] \in TableRow
  BY LenProperties, ElementOfSeq DEF Table
<1>2. IsFiniteSet(1 .. n) /\ Cardinality(1 .. n) = n
  <2> HIDE DEF n
  <2>1. 1 \in Int /\ n \in Int
    BY <1>1
  <2>2. IsFiniteSet(1 .. n) /\ Cardinality(1 .. n) = IF 1 > n THEN 0 ELSE n - 1 + 1
    BY <2>1, FS_Interval
  <2>3. QED BY <1>1, <2>2
<1>3. Comparable(s)
  BY TablesCompare
<1> HIDE DEF n
<1>4. /\ Total(1 .. n, R)
      /\ \A j, k \in 1 .. n : <<j, k>> \in R => ~LessThan(by, s[k], s[j])
  BY <1>1, <1>3, BeforeIsTotal
<1> HIDE DEF R
<1>5. Lists(o, 1 .. n, R)
  BY <1>1, <1>2, <1>4, ArrangedLists
<1> HIDE DEF o
<1>6. /\ o \in [1 .. n -> 1 .. n]
      /\ \A k \in 1 .. n : \E p \in 1 .. n : o[p] = k
      /\ \A p, q \in 1 .. n : (o[p] = o[q] => p = q) /\ (p < q => <<o[p], o[q]>> \in R)
  BY <1>2, <1>5 DEF Lists
<1>7. t = [p \in 1 .. n |-> s[o[p]]]
  BY <1>1 DEF StableSorted, o, R
<1> HIDE DEF t
<1>8. t \in [1 .. n -> TableRow] /\ \A p \in 1 .. n : t[p] = s[o[p]] /\ o[p] \in 1 .. n
  BY <1>1, <1>6, <1>7
<1>9. t \in Seq(TableRow) /\ Len(t) = n /\ DOMAIN t = 1 .. n
  BY <1>1, <1>8
<1>10. IdsOf(t) = IdsOf(s)
  <2>1. \A p \in 1 .. n : \E k \in 1 .. n : t[p].id = s[k].id
    BY <1>8
  <2>2. ASSUME NEW k \in 1 .. n PROVE \E p \in 1 .. n : t[p].id = s[k].id
    <3>1. PICK p \in 1 .. n : o[p] = k
      BY <1>6
    <3>2. t[p] = s[k]
      BY <1>8, <3>1
    <3>3. QED BY <3>2
  <2>3. IdsOf(t) = {t[p].id : p \in 1 .. n} /\ IdsOf(s) = {s[k].id : k \in 1 .. n}
    BY <1>1, <1>9 DEF IdsOf
  <2>4. \A e \in IdsOf(t) : e \in IdsOf(s)
    BY <2>1, <2>3
  <2>5. \A e \in IdsOf(s) : e \in IdsOf(t)
    BY <2>2, <2>3
  <2>6. QED BY <2>4, <2>5
<1>11. Table(t)
  <2>1. ASSUME NEW j \in 1 .. n PROVE \E k \in DOMAIN Entities : Shows(t[j], Entities[k])
    BY <1>1, <1>8 DEF Table
  <2>2. ASSUME NEW j \in 1 .. n, NEW k \in 1 .. n, t[j].id = t[k].id PROVE j = k
    <3>1. o[j] = o[k]
      BY <1>1, <1>8, <2>2 DEF Table
    <3>2. QED BY <1>6, <3>1
  <2>3. QED BY <1>9, <2>1, <2>2 DEF Table
<1>12. ASSUME NEW p \in 1 .. n, NEW q \in 1 .. n, p < q PROVE ~LessThan(by, t[q], t[p])
  <2>1. <<o[p], o[q]>> \in R /\ o[p] \in 1 .. n /\ o[q] \in 1 .. n
    BY <1>6, <1>12
  <2>2. ~LessThan(by, s[o[q]], s[o[p]])
    BY <1>4, <2>1
  <2>3. t[p] = s[o[p]] /\ t[q] = s[o[q]]
    BY <1>8
  <2>4. QED BY <2>2, <2>3
<1>13. \A p \in 1 .. n : \E k \in 1 .. n : t[p] = s[k]
  BY <1>8
<1>14. QED BY <1>1, <1>9, <1>10, <1>11, <1>12, <1>13 DEF t, n

\* All of a row but how it is drawn
SameRow(a, b) ==
  /\ a.id = b.id /\ a.br = b.br /\ a.kind = b.kind /\ a.groupId = b.groupId
  /\ a.ltSlot = b.ltSlot /\ a.lap = b.lap /\ a.type = b.type /\ a.label = b.label
  /\ a.rssi = b.rssi /\ a.packets = b.packets /\ a.rate = b.rate /\ a.series = b.series

LEMMA SameRows ==
  ASSUME NEW a, NEW b, NEW c, NEW d, SameRow(a, c), SameRow(b, d), NEW by
  PROVE  /\ LessThan(by, a, b) <=> LessThan(by, c, d)
         /\ IsMember(a) <=> IsMember(c)
         /\ IsConnection(a) <=> IsConnection(c)
<1>1. /\ (IsMember(a) <=> IsMember(c)) /\ (IsConnection(a) <=> IsConnection(c))
      /\ (IsMember(b) <=> IsMember(d)) /\ (IsConnection(b) <=> IsConnection(d))
  BY DEF SameRow, IsMember, IsConnection
<1>2. /\ IsMember(a) = IsMember(c) /\ IsConnection(a) = IsConnection(c)
      /\ IsMember(b) = IsMember(d) /\ IsConnection(b) = IsConnection(d)
  BY <1>1 DEF IsMember, IsConnection
<1>3. Grouped(a) = Grouped(c) /\ Grouped(b) = Grouped(d)
  BY <1>2 DEF Grouped
<1>4. TreeRank(a) = TreeRank(c) /\ TreeRank(b) = TreeRank(d)
  BY <1>2 DEF TreeRank, SameRow
<1>5. WithinGroup(by.asc, a, b) = WithinGroup(by.asc, c, d)
  BY <1>4 DEF WithinGroup, SameRow
<1>6. ByIdentifier(by.asc, a, b) = ByIdentifier(by.asc, c, d)
  BY <1>3, <1>5 DEF ByIdentifier, SameRow
<1>7. LessThan(by, a, b) = LessThan(by, c, d)
  BY <1>6 DEF LessThan, SameRow
<1>8. QED BY <1>1, <1>7

LastShown(s) ==
  \A k \in DOMAIN s : IsMember(s[k]) =>
    (s[k].isLastChild <=> ~\E j \in k + 1 .. Len(s) :
       IsMember(s[j]) /\ s[j].groupId = s[k].groupId)

LEMMA FlagsAre ==
  ASSUME NEW t, Table(t)
  PROVE  LET f == WithTreeFlags(t) IN
         /\ Table(f) /\ Len(f) = Len(t) /\ IdsOf(f) = IdsOf(t) /\ LastShown(f)
         /\ \A k \in DOMAIN t : SameRow(f[k], t[k])
<1> DEFINE n == Len(t)  f == WithTreeFlags(t)
           last(k) == IsMember(t[k]) /\ \A j \in k + 1 .. n :
                          ~(IsMember(t[j]) /\ t[j].groupId = t[k].groupId)
           parent(k) == IsConnection(t[k]) /\ \E j \in DOMAIN t :
                          IsMember(t[j]) /\ t[j].groupId = t[k].groupId
<1>1. n \in Nat /\ DOMAIN t = 1 .. n /\ \A k \in 1 .. n : t[k] \in TableRow
  BY LenProperties, ElementOfSeq DEF Table
<1>2. \A k \in 1 .. n : last(k) \in BOOLEAN /\ parent(k) \in BOOLEAN
  OBVIOUS
<1>3. f = [k \in 1 .. n |-> [t[k] EXCEPT !.isLastChild = last(k), !.hasChildren = parent(k)]]
  BY <1>1 DEF WithTreeFlags
<1> HIDE DEF f
<1>4. ASSUME NEW k \in 1 .. n
      PROVE  f[k] \in TableRow /\ SameRow(f[k], t[k]) /\ f[k].isLastChild = last(k)
  <2> DEFINE l == last(k)  c == parent(k)
  <2>1. l \in BOOLEAN /\ c \in BOOLEAN /\ t[k] \in TableRow
    BY <1>1, <1>2
  <2>2. f[k] = [t[k] EXCEPT !.isLastChild = l, !.hasChildren = c]
    BY <1>3
  <2>3. f[k].isLastChild = l <=> f[k].isLastChild = last(k)
    OBVIOUS
  <2> HIDE DEF l, c, last, parent
  <2>4. PICK r \in TableRow : r = t[k]
    BY <2>1
  <2>5. /\ [r EXCEPT !.isLastChild = l, !.hasChildren = c] \in TableRow
        /\ SameRow([r EXCEPT !.isLastChild = l, !.hasChildren = c], r)
        /\ [r EXCEPT !.isLastChild = l, !.hasChildren = c].isLastChild = l
    BY <2>1 DEF TableRow, SameRow
  <2>6. QED BY <2>2, <2>3, <2>4, <2>5
<1>5. f \in Seq(TableRow) /\ Len(f) = n /\ DOMAIN f = 1 .. n
  <2> HIDE DEF last, parent, n
  <2>1. f \in [1 .. n -> TableRow]
    BY <1>3, <1>4
  <2>2. QED BY <1>1, <2>1
<1> HIDE DEF n
<1>6. Table(f)
  <2>1. ASSUME NEW j \in 1 .. n PROVE \E k \in DOMAIN Entities : Shows(f[j], Entities[k])
    <3>1. PICK k \in DOMAIN Entities : Shows(t[j], Entities[k])
      BY <1>1 DEF Table
    <3>2. Shows(f[j], Entities[k])
      BY <1>4, <3>1 DEF Shows, SameRow
    <3>3. QED BY <3>2
  <2>2. ASSUME NEW j \in 1 .. n, NEW k \in 1 .. n, f[j].id = f[k].id PROVE j = k
    BY <1>1, <1>4, <2>2 DEF Table, SameRow
  <2>3. QED BY <1>5, <2>1, <2>2 DEF Table
<1>7. IdsOf(f) = IdsOf(t)
  <2>1. \A k \in 1 .. n : f[k].id = t[k].id
    BY <1>4 DEF SameRow
  <2>2. QED BY <1>1, <1>5, <2>1 DEF IdsOf
<1>8. LastShown(f)
  <2>1. \A k \in 1 .. n : (IsMember(f[k]) <=> IsMember(t[k])) /\ f[k].groupId = t[k].groupId
    <3>1. ASSUME NEW k \in 1 .. n PROVE IsMember(f[k]) <=> IsMember(t[k])
      BY <1>4, SameRows
    <3>2. QED BY <1>4, <3>1 DEF SameRow
  <2>2. SUFFICES ASSUME NEW k \in 1 .. n, IsMember(f[k])
                 PROVE  f[k].isLastChild <=> ~\E j \in k + 1 .. n :
                          IsMember(f[j]) /\ f[j].groupId = f[k].groupId
    BY <1>5 DEF LastShown
  <2>3. \A j \in k + 1 .. n : j \in 1 .. n
    BY <1>1
  <2>4. f[k].isLastChild = last(k)
    BY <1>4
  <2>5. last(k) <=> ~\E j \in k + 1 .. n : IsMember(f[j]) /\ f[j].groupId = f[k].groupId
    BY <2>1, <2>2, <2>3
  <2> HIDE DEF last
  <2>6. QED BY <2>4, <2>5
<1>9. QED BY <1>1, <1>4, <1>5, <1>6, <1>7, <1>8 DEF f, n

LEMMA LookupIs ==
  ASSUME NEW s, Table(s)
  PROVE  /\ DOMAIN Lookup(s) = IdsOf(s)
         /\ \A k \in DOMAIN s : Lookup(s)[s[k].id] = k
<1>1. \A k \in DOMAIN s : s[k].id \in IdsOf(s)
  BY DEF IdsOf
<1>2. ASSUME NEW k \in DOMAIN s PROVE (CHOOSE j \in DOMAIN s : s[j].id = s[k].id) = k
  BY DEF Table
<1>3. QED BY <1>1, <1>2 DEF Lookup

\* The table the application shows: sorted, drawn, and found by id.
Shown(by, s, found) ==
  /\ Table(s) /\ found = Lookup(s) /\ LastShown(s)
  /\ \A j, k \in DOMAIN s : j < k => ~LessThan(by, s[k], s[j])

Made(by, s) == WithTreeFlags(StableSorted(by, s))

LEMMA MadeIsShown ==
  ASSUME NEW by, by.asc \in BOOLEAN, NEW s, Table(s)
  PROVE  /\ Shown(by, Made(by, s), Lookup(Made(by, s)))
         /\ Len(Made(by, s)) = Len(s) /\ IdsOf(Made(by, s)) = IdsOf(s)
         /\ \A p \in DOMAIN Made(by, s) : \E k \in DOMAIN s : SameRow(Made(by, s)[p], s[k])
<1> DEFINE t == StableSorted(by, s)  f == WithTreeFlags(t)
<1>1. /\ Table(t) /\ Len(t) = Len(s) /\ IdsOf(t) = IdsOf(s)
      /\ \A p \in DOMAIN t : \E k \in DOMAIN s : t[p] = s[k]
      /\ \A p, q \in DOMAIN t : p < q => ~LessThan(by, t[q], t[p])
  BY SortedIs
<1> HIDE DEF t
<1>2. /\ Table(f) /\ Len(f) = Len(t) /\ IdsOf(f) = IdsOf(t) /\ LastShown(f)
      /\ \A k \in DOMAIN t : SameRow(f[k], t[k])
  BY <1>1, FlagsAre
<1> HIDE DEF f
<1>3. DOMAIN f = DOMAIN t
  BY <1>1, <1>2, LenProperties DEF Table
<1>4. ASSUME NEW j \in DOMAIN f, NEW k \in DOMAIN f, j < k PROVE ~LessThan(by, f[k], f[j])
  <2>1. SameRow(f[j], t[j]) /\ SameRow(f[k], t[k])
    BY <1>2, <1>3
  <2>2. LessThan(by, f[k], f[j]) <=> LessThan(by, t[k], t[j])
    BY <2>1, SameRows
  <2>3. QED BY <1>1, <1>3, <1>4, <2>2
<1>5. Shown(by, f, Lookup(f))
  BY <1>2, <1>4 DEF Shown
<1>6. \A p \in DOMAIN f : \E k \in DOMAIN s : SameRow(f[p], s[k])
  BY <1>1, <1>2, <1>3
<1>7. Made(by, s) = f
  BY DEF Made, f, t
<1>8. QED BY <1>1, <1>2, <1>5, <1>6, <1>7

-----------------------------------------------------------------------------
(* Piconets are trees *)

\* What lies between two rows of equal first keys has these keys as well.
LEMMA Squeezed ==
  ASSUME NEW x, NEW y, NEW z, Numbers(x), Numbers(y), Numbers(z),
         ~Lower(y, x), ~Lower(z, y),
         x[1] = z[1], x[2] = z[2], x[3] = z[3], x[4] = z[4]
  PROVE  x[1] = y[1] /\ x[2] = y[2] /\ x[3] = y[3] /\ x[4] = y[4]
BY DEF Numbers, Lower

LEMMA Ranked ==
  ASSUME NEW x, NEW y, Numbers(x), Numbers(y), ~Lower(y, x),
         x[1] = y[1], x[2] = y[2], x[3] = y[3], x[4] = y[4]
  PROVE  x[5] < y[5] \/ (x[5] = y[5] /\ x[6] <= y[6])
BY DEF Numbers, Lower

LEMMA GroupKeys ==
  ASSUME NEW by, by.asc \in BOOLEAN, by.role = "identifier",
         NEW r, HasKeys(r)
  PROVE  /\ Grouped(r) =>
              /\ Key(by, r)[1] = (IF by.asc THEN 0 ELSE 1) /\ Key(by, r)[2] = 0
              /\ Key(by, r)[3] = Up(by.asc, r.lap) /\ Key(by, r)[4] = Up(by.asc, r.groupId)
              /\ Key(by, r)[5] = TreeRank(r) /\ Key(by, r)[6] = r.ltSlot
         /\ Key(by, r)[2] = 0 => Grouped(r)
BY DEF Key

LEMMA ShownIsTree ==
  ASSUME NEW by, by.asc \in BOOLEAN, by.role = "identifier",
         NEW s, NEW found, Shown(by, s, found),
         NEW j \in DOMAIN s, NEW k \in DOMAIN s, j < k,
         Grouped(s[j]), Grouped(s[k]), s[j].groupId = s[k].groupId
  PROVE  /\ \A i \in j .. k : Grouped(s[i]) /\ s[i].groupId = s[k].groupId
         /\ IsMember(s[k])
         /\ IsMember(s[j]) => s[j].ltSlot = Central \/ s[j].ltSlot < s[k].ltSlot
<1> DEFINE key(i) == Key(by, s[i])
<1>1. /\ Comparable(s) /\ Len(s) \in Nat /\ DOMAIN s = 1 .. Len(s)
      /\ \A i, m \in DOMAIN s : i < m => ~LessThan(by, s[m], s[i])
      /\ s[j].ltSlot # s[k].ltSlot
  <2>1. j # k
    BY LenProperties DEF Shown, Table
  <2>2. QED BY <2>1, TablesCompare, LenProperties DEF Shown, Table
<1>2. ASSUME NEW i \in DOMAIN s PROVE HasKeys(s[i]) /\ Numbers(key(i))
  BY <1>1, KeysAreNumbers DEF Comparable
<1>3. ASSUME NEW i \in DOMAIN s, NEW m \in DOMAIN s, i < m PROVE ~Lower(key(m), key(i))
  <2>1. HasKeys(s[i]) /\ HasKeys(s[m]) /\ OneLap(s[m], s[i])
    BY <1>1 DEF Comparable
  <2>2. LessThan(by, s[m], s[i]) <=> Lower(key(m), key(i))
    BY <2>1, LessIsLower
  <2>3. QED BY <1>1, <1>3, <2>2
<1>4. s[j].lap = s[k].lap
  BY <1>1 DEF Comparable, OneLap
<1>5. /\ key(j)[2] = 0 /\ key(k)[2] = 0 /\ key(j)[1] = key(k)[1]
      /\ key(j)[3] = key(k)[3] /\ key(j)[4] = key(k)[4]
      /\ key(k)[4] = Up(by.asc, s[k].groupId)
      /\ key(j)[5] = TreeRank(s[j]) /\ key(k)[5] = TreeRank(s[k])
      /\ key(j)[6] = s[j].ltSlot /\ key(k)[6] = s[k].ltSlot
  <2>1. HasKeys(s[j]) /\ HasKeys(s[k])
    BY <1>2
  <2>2. QED BY <2>1, <1>4, GroupKeys
<1>6. ASSUME NEW i \in j .. k PROVE Grouped(s[i]) /\ s[i].groupId = s[k].groupId
  <2>1. i \in DOMAIN s /\ (i = j \/ i = k \/ (j < i /\ i < k))
    BY <1>1
  <2>2. CASE j < i /\ i < k
    <3>1. ~Lower(key(i), key(j)) /\ ~Lower(key(k), key(i))
      BY <2>1, <2>2, <1>3
    <3>2. Numbers(key(i)) /\ Numbers(key(j)) /\ Numbers(key(k)) /\ HasKeys(s[i])
          /\ HasKeys(s[k])
      BY <2>1, <1>2
    <3> HIDE DEF key
    <3>3. key(i)[2] = 0 /\ key(i)[4] = key(k)[4]
      BY <1>5, <3>1, <3>2, Squeezed
    <3>4. Grouped(s[i])
      BY <3>2, <3>3, GroupKeys DEF key
    <3>5. Up(by.asc, s[i].groupId) = Up(by.asc, s[k].groupId)
      BY <1>5, <3>2, <3>3, <3>4, GroupKeys DEF key
    <3>6. s[i].groupId = s[k].groupId
      <4>1. s[i].groupId \in Int /\ s[k].groupId \in Int
        BY <3>2 DEF HasKeys
      <4>2. QED BY <3>5, <4>1 DEF Up
    <3>7. QED BY <3>4, <3>6
  <2>3. QED BY <2>1, <2>2
<1>7. TreeRank(s[j]) < TreeRank(s[k])
      \/ (TreeRank(s[j]) = TreeRank(s[k]) /\ s[j].ltSlot <= s[k].ltSlot)
  <2>1. Numbers(key(j)) /\ Numbers(key(k)) /\ ~Lower(key(k), key(j))
    BY <1>2, <1>3
  <2> HIDE DEF key
  <2>2. QED BY <1>5, <2>1, Ranked
<1>8. IsMember(s[k])
  <2>1. SUFFICES ASSUME IsConnection(s[k]) PROVE FALSE
    BY DEF Grouped
  <2>2. TreeRank(s[k]) = 0 /\ s[k].ltSlot = -1
    BY <2>1 DEF TreeRank, IsConnection
  <2>3. IsConnection(s[j])
    BY <1>7, <2>2 DEF TreeRank
  <2>4. s[j].ltSlot = -1
    BY <2>3 DEF IsConnection
  <2>5. QED BY <1>1, <2>2, <2>4
<1>9. IsMember(s[j]) => s[j].ltSlot = Central \/ s[j].ltSlot < s[k].ltSlot
  <2>1. SUFFICES ASSUME IsMember(s[j]), s[j].ltSlot # Central
                 PROVE  s[j].ltSlot < s[k].ltSlot
    OBVIOUS
  <2>2. s[j].ltSlot \in Int /\ s[k].ltSlot \in Int
    BY <1>2 DEF HasKeys
  <2>3. TreeRank(s[j]) = 2 /\ TreeRank(s[k]) \in {0, 1, 2}
    BY <2>1, <2>2 DEF TreeRank, IsConnection, IsMember
  <2>4. s[j].ltSlot <= s[k].ltSlot
    BY <1>7, <2>3
  <2>5. QED BY <1>1, <2>2, <2>4
<1>10. QED BY <1>6, <1>8, <1>9

LEMMA ShownIsOrdered ==
  ASSUME Shown(sort, rows, rowById), sort.asc \in BOOLEAN,
         DOMAIN prev = IdsOf(rows)
  PROVE  TableIsOrdered
<1>1. /\ \A j, k \in DOMAIN rows : j < k => ~LessThan(sort, rows[k], rows[j])
      /\ rowById = Lookup(rows) /\ LastShown(rows) /\ Table(rows)
  BY DEF Shown
<1>2. \A j, k \in DOMAIN rows : j < k => rows[j].id # rows[k].id
  <2>1. DOMAIN rows = 1 .. Len(rows) /\ Len(rows) \in Nat
    BY <1>1, LenProperties DEF Table
  <2>2. \A j, k \in DOMAIN rows : j < k => j # k
    BY <2>1
  <2>3. QED BY <1>1, <2>2 DEF Table
<1>3. PiconetsAreTrees
  <2>1. \A k \in DOMAIN rows : IsMember(rows[k]) =>
          (rows[k].isLastChild <=> ~\E j \in k + 1 .. Len(rows) :
             IsMember(rows[j]) /\ rows[j].groupId = rows[k].groupId)
    BY <1>1 DEF LastShown
  <2>2. ASSUME sort.role = "identifier", NEW j \in DOMAIN rows, NEW k \in DOMAIN rows,
               j < k, Grouped(rows[j]), Grouped(rows[k]), rows[j].groupId = rows[k].groupId
        PROVE  /\ \A i \in j .. k : Grouped(rows[i]) /\ rows[i].groupId = rows[k].groupId
               /\ IsMember(rows[k])
               /\ IsMember(rows[j]) =>
                    rows[j].ltSlot = Central \/ rows[j].ltSlot < rows[k].ltSlot
    BY <2>2, ShownIsTree
  <2>3. QED BY <2>1, <2>2 DEF PiconetsAreTrees
<1>4. QED BY <1>1, <1>2, <1>3 DEF TableIsOrdered

-----------------------------------------------------------------------------
(* Rows picked from a table *)

Ascending(P) == {w \in P \X P : w[1] < w[2]}

LEMMA AscendingIs ==
  ASSUME NEW n \in Nat, NEW P \in SUBSET (1 .. n)
  PROVE  /\ IsFiniteSet(P) /\ Cardinality(P) \in Nat /\ Total(P, Ascending(P))
         /\ \A k \in P : Below(P, Ascending(P), k) = {j \in P : j < k}
<1>1. IsFiniteSet(1 .. n)
  <2>1. 1 \in Int /\ n \in Int
    OBVIOUS
  <2>2. QED BY <2>1, FS_Interval
<1>2. IsFiniteSet(P) /\ Cardinality(P) \in Nat
  BY <1>1, FS_Subset, FS_CardinalityType
<1>3. \A j, k \in P : <<j, k>> \in Ascending(P) <=> j < k
  BY DEF Ascending
<1>4. \A j \in P : j \in Int
  OBVIOUS
<1>5. Total(P, Ascending(P))
  <2>1. \A j \in P : <<j, j>> \notin Ascending(P)
    BY <1>3, <1>4
  <2>2. \A j, k \in P : j # k => <<j, k>> \in Ascending(P) \/ <<k, j>> \in Ascending(P)
    BY <1>3, <1>4
  <2>3. \A i, j, k \in P : <<i, j>> \in Ascending(P) /\ <<j, k>> \in Ascending(P)
                             => <<i, k>> \in Ascending(P)
    BY <1>3, <1>4
  <2>4. QED BY <2>1, <2>2, <2>3 DEF Total
<1>6. \A k \in P : Below(P, Ascending(P), k) = {j \in P : j < k}
  BY <1>3 DEF Below
<1>7. QED BY <1>2, <1>5, <1>6

LEMMA PickedIs ==
  ASSUME NEW n \in Nat, NEW s, DOMAIN s = 1 .. n, NEW P \in SUBSET (1 .. n)
  PROVE  LET o == Arranged(P, Ascending(P)) IN
         /\ Cardinality(P) \in Nat /\ DOMAIN Picked(s, P) = 1 .. Cardinality(P)
         /\ \A p \in 1 .. Cardinality(P) : o[p] \in P /\ Picked(s, P)[p] = s[o[p]]
         /\ Picked(s, P) = [p \in 1 .. Cardinality(P) |-> s[o[p]]]
         /\ \A k \in P : \E p \in 1 .. Cardinality(P) : o[p] = k
         /\ \A p, q \in 1 .. Cardinality(P) : o[p] = o[q] => p = q
<1> DEFINE o == Arranged(P, Ascending(P))  m == Cardinality(P)
<1>1. Lists(o, P, Ascending(P)) /\ m \in Nat
  BY AscendingIs, ArrangedLists
<1>2. Picked(s, P) = [p \in DOMAIN o |-> s[o[p]]]
  BY DEF Picked, Ascending
<1> HIDE DEF o
<1>3. DOMAIN o = 1 .. m /\ \A p \in 1 .. m : o[p] \in P
  BY <1>1 DEF Lists
<1>4. QED BY <1>1, <1>2, <1>3 DEF Lists, o

LEMMA AmongIs ==
  ASSUME NEW n \in Nat, NEW s, DOMAIN s = 1 .. n, NEW ids,
         \A j, k \in 1 .. n : s[j].id = s[k].id => j = k
  PROVE  /\ \E m \in Nat : DOMAIN Among(s, ids) = 1 .. m
         /\ \A p \in DOMAIN Among(s, ids) :
              \E k \in 1 .. n : Among(s, ids)[p] = s[k] /\ s[k].id \in ids
         /\ \A k \in 1 .. n : s[k].id \in ids =>
              \E p \in DOMAIN Among(s, ids) : Among(s, ids)[p] = s[k]
         /\ \A p, q \in DOMAIN Among(s, ids) :
              Among(s, ids)[p].id = Among(s, ids)[q].id => p = q
<1> DEFINE P == {k \in DOMAIN s : s[k].id \in ids}  m == Cardinality(P)
           o == Arranged(P, Ascending(P))  t == Picked(s, P)
<1>1. P \in SUBSET (1 .. n) /\ \A k \in 1 .. n : k \in P <=> s[k].id \in ids
  OBVIOUS
<1> HIDE DEF P
<1>2. /\ m \in Nat /\ DOMAIN t = 1 .. m
      /\ \A p \in 1 .. m : o[p] \in P /\ t[p] = s[o[p]]
      /\ \A k \in P : \E p \in 1 .. m : o[p] = k
      /\ \A p, q \in 1 .. m : o[p] = o[q] => p = q
  BY <1>1, PickedIs
<1>3. Among(s, ids) = t
  BY DEF Among, t, P
<1> HIDE DEF o, t, m
<1>4. ASSUME NEW p \in 1 .. m PROVE \E k \in 1 .. n : t[p] = s[k] /\ s[k].id \in ids
  BY <1>1, <1>2
<1>5. ASSUME NEW k \in 1 .. n, s[k].id \in ids PROVE \E p \in 1 .. m : t[p] = s[k]
  <2>1. PICK p \in 1 .. m : o[p] = k
    BY <1>1, <1>2, <1>5
  <2>2. QED BY <1>2, <2>1
<1>6. ASSUME NEW p \in 1 .. m, NEW q \in 1 .. m, t[p].id = t[q].id PROVE p = q
  <2>1. /\ o[p] \in 1 .. n /\ o[q] \in 1 .. n /\ t[p] = s[o[p]] /\ t[q] = s[o[q]]
        /\ o[p] = o[q] => p = q
    BY <1>1, <1>2
  <2>2. QED BY <1>6, <2>1
<1>7. QED BY <1>2, <1>3, <1>4, <1>5, <1>6

\* Picking keeps the order.
LEMMA PickedAscend ==
  ASSUME NEW n \in Nat, NEW P \in SUBSET (1 .. n),
         NEW p \in 1 .. Cardinality(P), NEW q \in 1 .. Cardinality(P), p < q
  PROVE  Arranged(P, Ascending(P))[p] < Arranged(P, Ascending(P))[q]
<1>1. Lists(Arranged(P, Ascending(P)), P, Ascending(P))
  BY AscendingIs, ArrangedLists
<1>2. <<Arranged(P, Ascending(P))[p], Arranged(P, Ascending(P))[q]>> \in Ascending(P)
  BY <1>1 DEF Lists
<1>3. QED BY <1>2 DEF Ascending

\* Survivors that follow each other as in the next rows are all met.
LEMMA AllAreMet ==
  ASSUME NEW next, Table(next), NEW old, NEW n \in Nat, DOMAIN old = 1 .. n,
         [k \in DOMAIN Among(next, IdsOf(old)) |-> Among(next, IdsOf(old))[k].id]
           = [k \in DOMAIN old |-> old[k].id]
  PROVE  Met(old, next) = 1 .. n
<1> DEFINE again == Among(next, IdsOf(old))
           P == {k \in DOMAIN next : next[k].id \in IdsOf(old)}
           o == Arranged(P, Ascending(P))
<1>1. PICK m \in Nat : DOMAIN next = 1 .. m
  BY LenProperties DEF Table
<1>2. P \in SUBSET (1 .. m) /\ again = Picked(next, P)
  BY <1>1 DEF Among
<1> HIDE DEF P
<1>3. /\ DOMAIN again = 1 .. Cardinality(P)
      /\ \A p \in 1 .. Cardinality(P) : o[p] \in P /\ again[p] = next[o[p]]
  BY <1>1, <1>2, PickedIs
<1>4. DOMAIN again = 1 .. n /\ \A k \in 1 .. n : again[k].id = old[k].id
  <2> DEFINE f == [k \in DOMAIN again |-> again[k].id]  g == [k \in DOMAIN old |-> old[k].id]
  <2>1. f = g /\ DOMAIN f = DOMAIN again /\ DOMAIN g = 1 .. n
    OBVIOUS
  <2>2. DOMAIN again = 1 .. n
    BY <2>1
  <2>3. \A k \in 1 .. n : f[k] = again[k].id /\ g[k] = old[k].id
    BY <2>2
  <2>4. QED BY <2>1, <2>2, <2>3
<1> HIDE DEF o, again
<1>5. ASSUME NEW k \in 1 .. n PROVE Lookup(next)[old[k].id] = o[k]
  <2>1. k \in 1 .. Cardinality(P) /\ o[k] \in 1 .. m /\ next[o[k]].id = old[k].id
    BY <1>2, <1>3, <1>4
  <2>2. Lookup(next)[next[o[k]].id] = o[k]
    BY <1>1, <2>1, LookupIs
  <2>3. QED BY <2>1, <2>2
<1>6. ASSUME NEW j \in 1 .. n, NEW k \in 1 .. n, j < k
      PROVE  Lookup(next)[old[j].id] < Lookup(next)[old[k].id]
  <2>1. j \in 1 .. Cardinality(P) /\ k \in 1 .. Cardinality(P)
    BY <1>3, <1>4
  <2>2. o[j] < o[k]
    BY <1>2, <1>6, <2>1, PickedAscend DEF o
  <2>3. QED BY <1>5, <2>2
<1>7. \A i \in 1 .. n : \A j \in 1 .. i : j \in 1 .. n
  OBVIOUS
<1>8. QED BY <1>6, <1>7 DEF Met

\* When the survivors follow each other as they should, inserting the arrivals
\* between them makes the rows the poll asks for.
LEMMA InsertIsNext ==
  ASSUME Table(rows), NEW next, Table(next), SurvivorsOrdered(next)
  PROVE  InsertArrivals(Survivors(next), next) = next
<1> DEFINE kept == Among(rows, IdsOf(next))  old == Survivors(next)
<1>1. DOMAIN rows = 1 .. Len(rows) /\ Len(rows) \in Nat
  BY LenProperties DEF Table
<1>2. \A p \in DOMAIN kept : kept[p].id \in IdsOf(next)
  <2>1. PICK n \in Nat : DOMAIN rows = 1 .. n
    BY <1>1
  <2>2. \A j, k \in 1 .. n : rows[j].id = rows[k].id => j = k
    BY <2>1 DEF Table
  <2>3. \A p \in DOMAIN kept : \E k \in 1 .. n : kept[p] = rows[k] /\ rows[k].id \in IdsOf(next)
    BY <2>1, <2>2, AmongIs
  <2>4. QED BY <2>3
<1>3. PICK n \in Nat : DOMAIN kept = 1 .. n
  <2>1. PICK m \in Nat : DOMAIN rows = 1 .. m
    BY <1>1
  <2>2. \A j, k \in 1 .. m : rows[j].id = rows[k].id => j = k
    BY <2>1 DEF Table
  <2>3. QED BY <2>1, <2>2, AmongIs
<1>4. old = [k \in DOMAIN kept |-> next[CHOOSE j \in DOMAIN next : next[j].id = kept[k].id]]
  BY DEF Survivors
<1>5. SurvivorsOrdered(next) <=>
        [k \in DOMAIN Among(next, IdsOf(old)) |-> Among(next, IdsOf(old))[k].id]
          = [k \in DOMAIN old |-> old[k].id]
  BY DEF SurvivorsOrdered
<1> HIDE DEF kept, old
<1>6. ASSUME NEW k \in DOMAIN old PROVE \E j \in DOMAIN next : old[k] = next[j]
  <2>1. \E j \in DOMAIN next : next[j].id = kept[k].id
    BY <1>2, <1>4 DEF IdsOf
  <2>2. QED BY <1>4, <2>1
<1>7. DOMAIN old = 1 .. n /\ old \in Seq(TableRow) /\ Len(old) = n
  <2>1. DOMAIN old = 1 .. n /\ old = [k \in 1 .. n |-> old[k]]
    BY <1>3, <1>4
  <2>2. \A j \in DOMAIN next : next[j] \in TableRow
    BY ElementOfSeq, LenProperties DEF Table
  <2>3. old \in [1 .. n -> TableRow]
    BY <1>6, <2>1, <2>2
  <2>4. QED BY <2>1, <2>3
<1> DEFINE met == Cardinality(Met(old, next))
           walk == [p \in DOMAIN next |->
                      IF \E k \in 1 .. met : old[k].id = next[p].id
                      THEN old[CHOOSE k \in 1 .. met : old[k].id = next[p].id] ELSE next[p]]
<1>8. met = n
  <2>1. Met(old, next) = 1 .. n
    BY <1>5, <1>7, AllAreMet
  <2>2. 1 \in Int /\ n \in Int
    OBVIOUS
  <2>3. Cardinality(1 .. n) = IF 1 > n THEN 0 ELSE n - 1 + 1
    BY <2>2, FS_Interval
  <2>4. QED BY <2>1, <2>3
<1>9. InsertArrivals(old, next) = walk \o SubSeq(old, met + 1, Len(old))
  BY DEF InsertArrivals
<1> HIDE DEF met
<1>10. ASSUME NEW p \in DOMAIN next PROVE walk[p] = next[p]
  <2>1. SUFFICES ASSUME \E k \in 1 .. met : old[k].id = next[p].id
                 PROVE  old[CHOOSE k \in 1 .. met : old[k].id = next[p].id] = next[p]
    OBVIOUS
  <2>2. PICK k \in 1 .. met : /\ k = (CHOOSE i \in 1 .. met : old[i].id = next[p].id)
                              /\ old[k].id = next[p].id
    BY <2>1
  <2>3. old[k] = next[p]
    BY <1>6, <1>7, <1>8, <2>2 DEF Table
  <2>4. QED BY <2>2, <2>3
<1>11. walk = next
  <2>1. next = [p \in DOMAIN next |-> next[p]]
    BY LenProperties DEF Table
  <2>2. walk = [p \in DOMAIN next |-> walk[p]]
    OBVIOUS
  <2> HIDE DEF walk
  <2>3. QED BY <1>10, <2>1, <2>2
<1> HIDE DEF walk
<1>12. SubSeq(old, met + 1, Len(old)) = <<>>
  <2>1. n + 1 \in Int /\ n \in Int /\ n < n + 1
    OBVIOUS
  <2>2. SubSeq(old, n + 1, n) = <<>>
    BY <2>1, SubSeqEmpty
  <2>3. QED BY <1>7, <1>8, <2>2
<1>13. next \o <<>> = next
  BY DEF Table
<1>14. QED BY <1>9, <1>11, <1>12, <1>13 DEF old

-----------------------------------------------------------------------------
(* What a poll says *)

\* One line of a poll
Reported(e, seen, reading, counts) ==
  /\ \E a \in DOMAIN Entities : e.entity = Entities[a]
  /\ e.entity.id \in seen
  /\ e.rssi = reading[e.entity.id].rssi /\ e.packets = counts[e.entity.id]

LEMMA EntitiesAre ==
  /\ Len(Entities) \in Nat /\ DOMAIN Entities = 1 .. Len(Entities)
  /\ \A j \in DOMAIN Entities : Entities[j] \in Entity /\ Entities[j].id \in IdsOf(Entities)
  /\ \A j, k \in DOMAIN Entities : Entities[j].id = Entities[k].id => j = k
<1>1. Len(Entities) \in Nat /\ DOMAIN Entities = 1 .. Len(Entities)
      /\ \A j \in DOMAIN Entities : Entities[j] \in Entity
  BY DeviceListAssumption, LenProperties, ElementOfSeq
<1>2. \A j, k \in DOMAIN Entities : Entities[j].id = Entities[k].id => j = k
  BY DeviceListAssumption
<1>3. QED BY <1>1, <1>2 DEF IdsOf

LEMMA PolledIs ==
  ASSUME NEW seen \in SUBSET IdsOf(Entities), NEW reading, NEW counts
  PROVE  LET poll == Polled(seen, reading, counts) IN
         /\ \E m \in Nat : DOMAIN poll = 1 .. m
         /\ \A k \in DOMAIN poll : Reported(poll[k], seen, reading, counts)
         /\ \A j, k \in DOMAIN poll : poll[j].entity.id = poll[k].entity.id => j = k
         /\ {poll[k].entity.id : k \in DOMAIN poll} = seen
<1> DEFINE entity == Among(Entities, seen)  poll == Polled(seen, reading, counts)
           n == Len(Entities)
<1>1. n \in Nat /\ DOMAIN Entities = 1 .. n
      /\ \A j, k \in 1 .. n : Entities[j].id = Entities[k].id => j = k
  BY EntitiesAre
<1> HIDE DEF n
<1>2. /\ \E m \in Nat : DOMAIN entity = 1 .. m
      /\ \A p \in DOMAIN entity : \E k \in 1 .. n : entity[p] = Entities[k] /\ Entities[k].id \in seen
      /\ \A k \in 1 .. n : Entities[k].id \in seen =>
           \E p \in DOMAIN entity : entity[p] = Entities[k]
      /\ \A p, q \in DOMAIN entity : entity[p].id = entity[q].id => p = q
  BY <1>1, AmongIs
<1>3. poll = [k \in DOMAIN entity |->
                [entity |-> entity[k], rssi |-> reading[entity[k].id].rssi,
                 packets |-> counts[entity[k].id]]]
  BY DEF Polled
<1> HIDE DEF entity, poll
<1>4. DOMAIN poll = DOMAIN entity
      /\ \A k \in DOMAIN entity : /\ poll[k].entity = entity[k]
                                  /\ poll[k].rssi = reading[entity[k].id].rssi
                                  /\ poll[k].packets = counts[entity[k].id]
  BY <1>3
<1>5. \A k \in DOMAIN poll : Reported(poll[k], seen, reading, counts)
  BY <1>1, <1>2, <1>4 DEF Reported
<1>6. \A j, k \in DOMAIN poll : poll[j].entity.id = poll[k].entity.id => j = k
  BY <1>2, <1>4
<1>7. ASSUME NEW id \in seen PROVE \E k \in DOMAIN poll : poll[k].entity.id = id
  <2>1. PICK a \in 1 .. n : Entities[a].id = id
    BY <1>1 DEF IdsOf
  <2>2. PICK p \in DOMAIN entity : entity[p] = Entities[a]
    BY <1>2, <2>1
  <2>3. QED BY <1>4, <2>1, <2>2
<1>8. \A k \in DOMAIN poll : poll[k].entity.id \in seen
  BY <1>5 DEF Reported
<1>9. {poll[k].entity.id : k \in DOMAIN poll} = seen
  BY <1>7, <1>8
<1>10. QED BY <1>2, <1>4, <1>5, <1>6, <1>9 DEF poll

-----------------------------------------------------------------------------
(* The history of a device *)

Reading == [rssi : Int, packets : Nat]

Valid(h) ==
  Picked([j \in DOMAIN h |-> h[j].rssi], {j \in DOMAIN h : h[j].rssi # NoRssi})

\* What a row remembers, from what the polls have said.
Remembers(r, h) ==
  LET n == Len(h) IN
  /\ r.series = LastOf(Valid(h), MaxSeriesPoints)
  /\ r.rssi = h[n].rssi
  /\ r.rate = IF n = 1 THEN 0 ELSE h[n].packets - h[n - 1].packets

LEMMA ArrangedAt ==
  ASSUME NEW P, IsFiniteSet(P), NEW R, Total(P, R), NEW k \in P
  PROVE  /\ Cardinality(Below(P, R, k)) + 1 \in 1 .. Cardinality(P)
         /\ Arranged(P, R)[Cardinality(Below(P, R, k)) + 1] = k
<1> DEFINE n == Cardinality(P)  rank(j) == Cardinality(Below(P, R, j))
           o == Arranged(P, R)
<1>1. n \in Nat
  BY FS_CardinalityType
<1>2. /\ \A j \in P : rank(j) \in 0 .. n - 1
      /\ \A i, j \in P : <<i, j>> \in R => rank(i) < rank(j)
  BY RanksAre
<1>3. o = [p \in 1 .. n |-> CHOOSE j \in P : rank(j) = p - 1]
  BY DEF Arranged, Below
<1> HIDE DEF rank, n, o
<1>4. rank(k) + 1 \in 1 .. n /\ (rank(k) + 1) - 1 = rank(k)
  BY <1>1, <1>2
<1>5. o[rank(k) + 1] = CHOOSE j \in P : rank(j) = rank(k)
  BY <1>3, <1>4
<1>6. \A j \in P : rank(j) = rank(k) => j = k
  <2>1. SUFFICES ASSUME NEW j \in P, j # k PROVE rank(j) # rank(k)
    OBVIOUS
  <2>2. <<j, k>> \in R \/ <<k, j>> \in R
    BY <2>1 DEF Total
  <2>3. rank(j) < rank(k) \/ rank(k) < rank(j)
    BY <2>2, <1>2
  <2>4. rank(j) \in Int /\ rank(k) \in Int
    BY <1>1, <1>2
  <2>5. QED BY <2>3, <2>4
<1>7. o[rank(k) + 1] = k
  BY <1>5, <1>6
<1>8. QED BY <1>4, <1>7 DEF rank, n, o

\* t is s and one element more; P are positions of s.
Longer(n, s, t, P) ==
  /\ n \in Nat /\ s \in [1 .. n -> Int] /\ t \in [1 .. n + 1 -> Int]
  /\ P \in SUBSET (1 .. n) /\ \A i \in 1 .. n : t[i] = s[i]

\* Picking a last element as well appends it.
LEMMA PickedLast ==
  ASSUME NEW n, NEW s, NEW t, NEW P, Longer(n, s, t, P)
  PROVE  /\ Picked(s, P) \in Seq(Int)
         /\ Picked(t, P) = Picked(s, P)
         /\ Picked(t, P \cup {n + 1}) = Append(Picked(s, P), t[n + 1])
<1> DEFINE Q == P \cup {n + 1}  m == Cardinality(P)
           o == Arranged(P, Ascending(P))  w == Arranged(Q, Ascending(Q))
<1> USE DEF Longer
<1>1. /\ m \in Nat /\ DOMAIN s = 1 .. n /\ DOMAIN t = 1 .. n + 1
      /\ P \in SUBSET (1 .. n + 1) /\ Q \in SUBSET (1 .. n + 1) /\ n + 1 \in Nat
      /\ n + 1 \notin P /\ n + 1 \in Q
  <2>1. m \in Nat
    BY AscendingIs
  <2>2. DOMAIN s = 1 .. n /\ DOMAIN t = 1 .. n + 1 /\ n + 1 \in Nat
    OBVIOUS
  <2>3. 1 .. n \subseteq 1 .. n + 1 /\ n + 1 \in 1 .. n + 1 /\ n + 1 \notin 1 .. n
    OBVIOUS
  <2>4. P \subseteq 1 .. n
    OBVIOUS
  <2>5. QED BY <2>1, <2>2, <2>3, <2>4
<1>2. /\ Picked(s, P) = [p \in 1 .. m |-> s[o[p]]]
      /\ \A p \in 1 .. m : o[p] \in P
  BY <1>1, PickedIs
<1>3. Picked(t, P) = [p \in 1 .. m |-> t[o[p]]]
  BY <1>1, PickedIs
<1>4. Cardinality(Q) = m + 1
  BY <1>1, AscendingIs, FS_AddElement
<1>5. Picked(t, Q) = [p \in 1 .. m + 1 |-> t[w[p]]]
  <2>1. Picked(t, Q) = [p \in 1 .. Cardinality(Q) |-> t[w[p]]]
    <3>1. PICK z \in Nat : z = n + 1
      BY <1>1
    <3>2. DOMAIN t = 1 .. z /\ Q \in SUBSET (1 .. z)
      BY <1>1, <3>1
    <3> HIDE DEF Q
    <3>3. QED BY <3>2, PickedIs
  <2>2. QED BY <1>4, <2>1
<1>6. /\ IsFiniteSet(P) /\ IsFiniteSet(Q)
      /\ Total(P, Ascending(P)) /\ Total(Q, Ascending(Q))
      /\ \A k \in P : Below(P, Ascending(P), k) = {j \in P : j < k}
      /\ \A k \in Q : Below(Q, Ascending(Q), k) = {j \in Q : j < k}
  BY <1>1, AscendingIs
<1>7. /\ \A k \in P : k \in Int /\ k < n + 1
      /\ ~(n + 1 < n + 1) /\ \A k \in P : ~(n + 1 < k)
  OBVIOUS
<1>8. w[m + 1] = n + 1
  <2>1. {j \in Q : j < n + 1} = P
    <3>1. \A j \in Q : j < n + 1 <=> j \in P
      BY <1>1, <1>7
    <3>2. P \subseteq Q
      OBVIOUS
    <3> HIDE DEF Q
    <3>3. QED BY <3>1, <3>2
  <2>2. Below(Q, Ascending(Q), n + 1) = P
    BY <1>1, <1>6, <2>1
  <2>3. QED BY <1>1, <1>6, <2>2, ArrangedAt
<1>9. ASSUME NEW p \in 1 .. m PROVE w[p] = o[p]
  <2>1. o[p] \in P /\ o[p] \in Q
    BY <1>2
  <2>2. {j \in Q : j < o[p]} = {j \in P : j < o[p]}
    <3>1. \A j \in Q : j < o[p] => j \in P
      BY <2>1, <1>7
    <3>2. P \subseteq Q
      OBVIOUS
    <3> HIDE DEF Q
    <3>3. QED BY <3>1, <3>2
  <2>3. Below(Q, Ascending(Q), o[p]) = Below(P, Ascending(P), o[p])
    BY <1>6, <2>1, <2>2
  <2>4. /\ Cardinality(Below(P, Ascending(P), o[p])) + 1 \in 1 .. m
        /\ o[Cardinality(Below(P, Ascending(P), o[p])) + 1] = o[p]
    BY <1>6, <2>1, ArrangedAt
  <2>5. \A q \in 1 .. m : o[q] = o[p] => q = p
    BY <1>1, PickedIs
  <2>6. Cardinality(Below(P, Ascending(P), o[p])) + 1 = p
    BY <2>4, <2>5
  <2>7. w[Cardinality(Below(Q, Ascending(Q), o[p])) + 1] = o[p]
    BY <1>6, <2>1, ArrangedAt
  <2>8. QED BY <2>3, <2>6, <2>7
<1> HIDE DEF o, w, m, Q
<1>10. Picked(s, P) \in [1 .. m -> Int] /\ \A p \in 1 .. m : t[o[p]] = s[o[p]] /\ s[o[p]] \in Int
  <2>1. \A p \in 1 .. m : o[p] \in 1 .. n
    BY <1>2
  <2>2. \A p \in 1 .. m : t[o[p]] = s[o[p]] /\ s[o[p]] \in Int
    BY <2>1
  <2>3. QED BY <1>2, <2>2
<1>11. Picked(s, P) \in Seq(Int) /\ Len(Picked(s, P)) = m
  BY <1>1, <1>10
<1>12. Picked(t, P) = Picked(s, P)
  BY <1>2, <1>3, <1>10
<1>13. Picked(t, Q) = Append(Picked(s, P), t[n + 1])
  <2> DEFINE a == Append(Picked(s, P), t[n + 1])
  <2>1. t[n + 1] \in Int
    OBVIOUS
  <2>2. /\ DOMAIN a = 1 .. m + 1 /\ a \in Seq(Int) /\ a[m + 1] = t[n + 1]
        /\ \A p \in 1 .. m : a[p] = Picked(s, P)[p]
    BY <1>1, <1>11, <2>1
  <2> HIDE DEF a
  <2>3. ASSUME NEW p \in 1 .. m + 1 PROVE a[p] = t[w[p]]
    <3>1. CASE p = m + 1
      BY <1>8, <2>2, <3>1
    <3>2. CASE p \in 1 .. m
      <4>1. w[p] = o[p]
        BY <1>9, <3>2
      <4>2. Picked(s, P)[p] = s[o[p]] /\ t[o[p]] = s[o[p]]
        BY <1>2, <1>10, <3>2
      <4>3. QED BY <2>2, <3>2, <4>1, <4>2
    <3>3. QED BY <1>1, <3>1, <3>2
  <2>4. a = [p \in 1 .. m + 1 |-> a[p]]
    BY <2>2
  <2>5. QED BY <1>5, <2>3, <2>4 DEF a
<1>14. QED BY <1>11, <1>12, <1>13 DEF Q

LEMMA ValidIs ==
  ASSUME NEW h \in Seq(Reading), NEW e \in Reading
  PROVE  /\ Valid(h) \in Seq(Int)
         /\ Valid(Append(h, e)) = IF e.rssi = NoRssi THEN Valid(h) ELSE Append(Valid(h), e.rssi)
<1> DEFINE n == Len(h)  g == Append(h, e)
           s == [j \in DOMAIN h |-> h[j].rssi]  P == {j \in DOMAIN h : h[j].rssi # NoRssi}
           t == [j \in DOMAIN g |-> g[j].rssi]  Q == {j \in DOMAIN g : g[j].rssi # NoRssi}
<1>1. n \in Nat /\ DOMAIN h = 1 .. n /\ \A j \in 1 .. n : h[j] \in Reading
  BY LenProperties, ElementOfSeq
<1>2. DOMAIN g = 1 .. n + 1 /\ g[n + 1] = e /\ \A j \in 1 .. n : g[j] = h[j]
  BY <1>1
<1>3. Valid(h) = Picked(s, P) /\ Valid(g) = Picked(t, Q)
  BY DEF Valid
<1> HIDE DEF g
<1>4. \A j \in 1 .. n + 1 : j \in 1 .. n \/ j = n + 1
  BY <1>1
<1>5. /\ s \in [1 .. n -> Int] /\ t \in [1 .. n + 1 -> Int]
      /\ \A i \in 1 .. n : t[i] = s[i] /\ t[n + 1] = e.rssi
  <2>1. \A j \in 1 .. n : h[j].rssi \in Int
    BY <1>1 DEF Reading
  <2>2. \A j \in 1 .. n + 1 : g[j].rssi \in Int
    BY <1>2, <1>4, <2>1 DEF Reading
  <2>3. \A i \in 1 .. n : i \in 1 .. n + 1
    BY <1>1
  <2>4. n + 1 \in 1 .. n + 1
    BY <1>1
  <2> HIDE DEF n
  <2>5. QED BY <1>1, <1>2, <2>1, <2>2, <2>3, <2>4
<1>6. P \in SUBSET (1 .. n)
  BY <1>1
<1>7. Q = IF e.rssi = NoRssi THEN P ELSE P \cup {n + 1}
  <2>1. \A j \in 1 .. n : j \in Q <=> j \in P
    <3>1. \A i \in 1 .. n : i \in 1 .. n + 1
      BY <1>1
    <3> HIDE DEF n
    <3>2. QED BY <1>1, <1>2, <3>1
  <2>2. n + 1 \in Q <=> e.rssi # NoRssi
    <3>1. n + 1 \in 1 .. n + 1
      BY <1>1
    <3> HIDE DEF n
    <3>2. QED BY <1>2, <3>1
  <2>3. \A j \in Q : j \in 1 .. n \/ j = n + 1
    BY <1>2, <1>4
  <2>4. n + 1 \notin P
    BY <1>1, <1>6
  <2>5. P \subseteq 1 .. n
    BY <1>6
  <2> HIDE DEF P, Q, n
  <2>6. CASE e.rssi = NoRssi
    <3>1. \A j \in Q : j \in P
      BY <2>1, <2>2, <2>3, <2>6
    <3>2. \A j \in P : j \in Q
      BY <2>1, <2>5
    <3>3. Q = P
      BY <3>1, <3>2
    <3>4. QED BY <2>6, <3>3
  <2>7. CASE e.rssi # NoRssi
    <3>1. \A j \in Q : j \in P \cup {n + 1}
      BY <2>1, <2>3
    <3>2. \A j \in P \cup {n + 1} : j \in Q
      BY <2>1, <2>2, <2>5, <2>7
    <3>3. Q = P \cup {n + 1}
      BY <3>1, <3>2
    <3>4. QED BY <2>7, <3>3
  <2>8. QED BY <2>6, <2>7
<1> HIDE DEF P, Q, s, t, n
<1>8. t[n + 1] = e.rssi
  <2>1. n + 1 \in 1 .. n + 1
    BY <1>1
  <2>2. QED BY <1>2, <2>1 DEF t
<1>9. /\ Picked(s, P) \in Seq(Int) /\ Picked(t, P) = Picked(s, P)
      /\ Picked(t, P \cup {n + 1}) = Append(Picked(s, P), t[n + 1])
  <2>1. s \in [1 .. n -> Int] /\ t \in [1 .. n + 1 -> Int] /\ n \in Nat
    BY <1>1, <1>5
  <2>2. \A i \in 1 .. n : t[i] = s[i]
    BY <1>5
  <2>3. Longer(n, s, t, P)
    BY <1>1, <1>6, <2>1, <2>2 DEF Longer
  <2>4. QED BY <2>3, PickedLast
<1>10. QED BY <1>3, <1>7, <1>8, <1>9 DEF g

LEMMA LastOfIs ==
  ASSUME NEW s \in Seq(Int), NEW m \in Nat \ {0}, NEW n \in Nat, n = Len(s)
  PROVE  /\ LastOf(s, m) \in Seq(Int)
         /\ Len(LastOf(s, m)) = IF n > m THEN m ELSE n
         /\ \A i \in 1 .. (IF n > m THEN m ELSE n) :
              LastOf(s, m)[i] = s[IF n > m THEN n - m + i ELSE i]
<1>1. n = Len(s) /\ DOMAIN s = 1 .. n /\ \A i \in 1 .. n : s[i] \in Int
  BY LenProperties, ElementOfSeq
<1>2. PICK a \in Nat \ {0} : a = IF n > m THEN n - m + 1 ELSE 1
  <2>1. (IF n > m THEN n - m + 1 ELSE 1) \in Nat \ {0}
    OBVIOUS
  <2>2. QED BY <2>1
<1>3. \A i \in a .. n : s[i] \in Int
  <2>1. \A i \in a .. n : i \in 1 .. n
    OBVIOUS
  <2>2. QED BY <1>1, <2>1
<1>4. /\ SubSeq(s, a, n) \in Seq(Int)
      /\ Len(SubSeq(s, a, n)) = IF a <= n THEN n - a + 1 ELSE 0
      /\ \A i \in 1 .. n - a + 1 : SubSeq(s, a, n)[i] = s[a + i - 1]
  BY <1>3, SubSeqProperties
<1>5. LastOf(s, m) = SubSeq(s, a, n)
  BY <1>1, <1>2 DEF LastOf
<1>6. Len(SubSeq(s, a, n)) = IF n > m THEN m ELSE n
  <2>1. CASE n > m
    <3>1. a = n - m + 1 /\ a <= n /\ n - a + 1 = m
      BY <1>2, <2>1
    <3>2. QED BY <1>4, <2>1, <3>1
  <2>2. CASE ~(n > m)
    <3>1. a = 1 /\ n - a + 1 = n /\ (a <= n \/ n = 0)
      BY <1>2, <2>2
    <3>2. QED BY <1>4, <2>2, <3>1
  <2>3. QED BY <2>1, <2>2
<1>7. ASSUME NEW i \in 1 .. (IF n > m THEN m ELSE n)
      PROVE  SubSeq(s, a, n)[i] = s[IF n > m THEN n - m + i ELSE i]
  <2>1. i \in 1 .. n - a + 1 /\ a + i - 1 = IF n > m THEN n - m + i ELSE i
    BY <1>2
  <2>2. QED BY <1>4, <2>1
<1>8. QED BY <1>1, <1>4, <1>5, <1>6, <1>7

\* A ring that drops its oldest point keeps the newest points of all.
LEMMA LastOfAppend ==
  ASSUME NEW s \in Seq(Int), NEW x \in Int, NEW m \in Nat \ {0}
  PROVE  LastOf(Append(LastOf(s, m), x), m) = LastOf(Append(s, x), m)
<1> DEFINE l == LastOf(s, m)  a == Append(l, x)  b == Append(s, x)
<1>1. PICK n \in Nat : n = Len(s)
  BY LenProperties
<1>2. PICK k \in Nat : k = IF n > m THEN m ELSE n
  OBVIOUS
<1>3. /\ l \in Seq(Int) /\ Len(l) = k
      /\ \A i \in 1 .. k : l[i] = s[IF n > m THEN n - m + i ELSE i]
  BY <1>1, <1>2, LastOfIs
<1> HIDE DEF l
<1>4. /\ a \in Seq(Int) /\ Len(a) = k + 1 /\ a[k + 1] = x /\ \A i \in 1 .. k : a[i] = l[i]
  BY <1>3
<1>5. /\ b \in Seq(Int) /\ Len(b) = n + 1 /\ b[n + 1] = x /\ \A i \in 1 .. n : b[i] = s[i]
  BY <1>1
<1> HIDE DEF a, b
<1>6. PICK q \in Nat : q = IF n + 1 > m THEN m ELSE n + 1
  OBVIOUS
<1>7. /\ LastOf(a, m) \in Seq(Int) /\ Len(LastOf(a, m)) = q
      /\ \A i \in 1 .. q : LastOf(a, m)[i] = a[IF k + 1 > m THEN k + 1 - m + i ELSE i]
  <2>1. PICK z \in Nat : z = k + 1 /\ z = Len(a)
    BY <1>4
  <2>2. (IF z > m THEN m ELSE z) = q
    BY <1>2, <1>6, <2>1
  <2>3. /\ LastOf(a, m) \in Seq(Int)
        /\ Len(LastOf(a, m)) = IF z > m THEN m ELSE z
        /\ \A i \in 1 .. (IF z > m THEN m ELSE z) :
             LastOf(a, m)[i] = a[IF z > m THEN z - m + i ELSE i]
    BY <1>4, <2>1, LastOfIs
  <2>4. QED BY <2>1, <2>2, <2>3
<1>8. /\ LastOf(b, m) \in Seq(Int) /\ Len(LastOf(b, m)) = q
      /\ \A i \in 1 .. q : LastOf(b, m)[i] = b[IF n + 1 > m THEN n + 1 - m + i ELSE i]
  <2>1. PICK z \in Nat : z = n + 1 /\ z = Len(b)
    BY <1>5
  <2>2. (IF z > m THEN m ELSE z) = q
    BY <1>2, <1>6, <2>1
  <2>3. /\ LastOf(b, m) \in Seq(Int)
        /\ Len(LastOf(b, m)) = IF z > m THEN m ELSE z
        /\ \A i \in 1 .. (IF z > m THEN m ELSE z) :
             LastOf(b, m)[i] = b[IF z > m THEN z - m + i ELSE i]
    BY <1>5, <2>1, LastOfIs
  <2>4. QED BY <2>1, <2>2, <2>3
<1>9. ASSUME NEW i \in 1 .. q PROVE LastOf(a, m)[i] = LastOf(b, m)[i]
  <2>1. PICK c \in Int : c = IF k + 1 > m THEN k + 1 - m + i ELSE i
    <3>1. (IF k + 1 > m THEN k + 1 - m + i ELSE i) \in Int
      OBVIOUS
    <3>2. QED BY <3>1
  <2>2. PICK d \in Int : d = IF n + 1 > m THEN n + 1 - m + i ELSE i
    <3>1. (IF n + 1 > m THEN n + 1 - m + i ELSE i) \in Int
      OBVIOUS
    <3>2. QED BY <3>1
  <2>3. LastOf(a, m)[i] = a[c] /\ LastOf(b, m)[i] = b[d]
    BY <1>7, <1>8, <2>1, <2>2
  <2>4. CASE d = n + 1
    <3>1. c = k + 1
      BY <1>2, <1>6, <2>1, <2>2, <2>4
    <3>2. QED BY <1>4, <1>5, <2>3, <2>4, <3>1
  <2>5. CASE d # n + 1
    <3>1. c \in 1 .. k /\ d \in 1 .. n /\ d = IF n > m THEN n - m + c ELSE c
      BY <1>2, <1>6, <2>1, <2>2, <2>5
    <3>2. a[c] = s[d]
      BY <1>3, <1>4, <3>1
    <3>3. QED BY <1>5, <2>3, <3>1, <3>2
  <2>6. QED BY <2>4, <2>5
<1>10. LastOf(a, m) = LastOf(b, m)
  BY <1>7, <1>8, <1>9, SeqEqual
<1>11. QED BY <1>10 DEF a, b, l

-----------------------------------------------------------------------------
(* The table follows the polls *)

\* What the table remembers of a device, from what the polls have said of it
DeviceMemory(id) ==
  /\ heard[id] \in Seq(Reading) /\ Len(heard[id]) # 0
  /\ prev[id] = heard[id][Len(heard[id])].packets
  /\ prev[id] \in Nat /\ prev[id] <= total[id]

DeviceInv ==
  /\ sort.asc \in BOOLEAN
  /\ Shown(sort, rows, rowById)
  /\ total \in [IdsOf(Entities) -> Nat]
  /\ DOMAIN prev = IdsOf(rows) /\ DOMAIN heard = IdsOf(rows)
  /\ \A id \in IdsOf(rows) : DeviceMemory(id)
  /\ \A k \in DOMAIN rows : Remembers(rows[k], heard[rows[k].id])

HeardBefore(id) == IF id \in DOMAIN heard THEN heard[id] ELSE <<>>

Said(e) == [rssi |-> e.rssi, packets |-> e.packets]

LEMMA NothingValid == Valid(<<>>) = <<>> /\ LastOf(<<>>, MaxSeriesPoints) = <<>>
<1>1. DOMAIN (<<>>) = {} /\ Len(<<>>) = 0 /\ MaxSeriesPoints \in Nat \ {0}
  BY DeviceListAssumption
<1>2. Cardinality({}) = 0 /\ 1 .. 0 = {}
  BY FS_EmptySet
<1> DEFINE s == [j \in DOMAIN (<<>>) |-> (<<>>)[j].rssi]
           P == {j \in DOMAIN (<<>>) : (<<>>)[j].rssi # NoRssi}
<1>3. Valid(<<>>) = Picked(s, P) /\ P = {} /\ DOMAIN s = 1 .. 0
  BY <1>1, <1>2 DEF Valid
<1> HIDE DEF s, P
<1>4. DOMAIN Picked(s, P) = 1 .. 0
      /\ Picked(s, P) = [p \in 1 .. 0 |-> s[Arranged(P, Ascending(P))[p]]]
  <2>1. 0 \in Nat /\ P \in SUBSET (1 .. 0)
    BY <1>3
  <2>2. Cardinality(P) = 0
    BY <1>2, <1>3
  <2>3. QED BY <1>3, <2>1, <2>2, PickedIs
<1>5. Picked(s, P) = <<>>
  BY <1>2, <1>4
<1>6. LastOf(<<>>, MaxSeriesPoints) = <<>>
  <2>1. 1 \in Int /\ 0 \in Int /\ 0 < 1
    OBVIOUS
  <2>2. SubSeq(<<>>, 1, 0) = <<>>
    BY <2>1, SubSeqEmpty
  <2>3. ~(0 > MaxSeriesPoints)
    BY <1>1
  <2>4. QED BY <1>1, <2>2, <2>3 DEF LastOf
<1>7. QED BY <1>3, <1>5, <1>6

LEMMA BeforeIs ==
  ASSUME DeviceInv, NEW id
  PROVE  /\ HeardBefore(id) \in Seq(Reading)
         /\ SeriesOf(id) = LastOf(Valid(HeardBefore(id)), MaxSeriesPoints)
         /\ Valid(HeardBefore(id)) \in Seq(Int)
<1>1. CASE id \in IdsOf(rows)
  <2>1. PICK k \in DOMAIN rows : rows[k].id = id
    BY <1>1 DEF IdsOf
  <2>2. (CHOOSE j \in DOMAIN rows : rows[j].id = id) = k
    BY <2>1 DEF DeviceInv, Shown, Table
  <2>3. SeriesOf(id) = rows[k].series
    BY <2>1, <2>2 DEF SeriesOf
  <2>4. HeardBefore(id) = heard[id] /\ heard[id] \in Seq(Reading)
    BY <1>1 DEF DeviceInv, DeviceMemory, HeardBefore
  <2>5. rows[k].series = LastOf(Valid(heard[id]), MaxSeriesPoints)
    BY <2>1 DEF DeviceInv, Remembers
  <2>6. [rssi |-> 0, packets |-> 0] \in Reading
    BY DEF Reading
  <2>7. Valid(heard[id]) \in Seq(Int)
    BY <2>4, <2>6, ValidIs
  <2>8. QED BY <2>3, <2>4, <2>5, <2>7
<1>2. CASE id \notin IdsOf(rows)
  <2>1. HeardBefore(id) = <<>> /\ SeriesOf(id) = <<>>
    BY <1>2 DEF DeviceInv, HeardBefore, SeriesOf, IdsOf
  <2>2. <<>> \in Seq(Reading) /\ <<>> \in Seq(Int)
    OBVIOUS
  <2>3. QED BY <2>1, <2>2, NothingValid
<1>3. QED BY <1>1, <1>2

\* The row of a device is made from what the poll says and the history.
LEMMA FreshIs ==
  ASSUME DeviceInv, NEW e, NEW seen, NEW reading, NEW counts,
         Reported(e, seen, reading, counts),
         e.rssi \in Int, e.packets \in Nat,
         e.entity.id \in IdsOf(rows) => total[e.entity.id] <= e.packets
  PROVE  /\ FreshRow(e) \in TableRow /\ Shows(FreshRow(e), e.entity)
         /\ Remembers(FreshRow(e), Append(HeardBefore(e.entity.id), Said(e)))
<1> DEFINE id == e.entity.id  h == HeardBefore(id)  g == Append(h, Said(e))
           points == IF e.rssi = NoRssi THEN SeriesOf(id)
                     ELSE LastOf(Append(SeriesOf(id), e.rssi), MaxSeriesPoints)
           rate == RateOf(id, e.packets)
           r == FreshRow(e)
<1>1. e.entity \in Entity
  BY EntitiesAre DEF Reported
<1>2. /\ h \in Seq(Reading) /\ Valid(h) \in Seq(Int) /\ Said(e) \in Reading
      /\ SeriesOf(id) = LastOf(Valid(h), MaxSeriesPoints)
      /\ Said(e).rssi = e.rssi /\ Said(e).packets = e.packets
  BY BeforeIs DEF Said, Reading
<1>3. MaxSeriesPoints \in Nat \ {0}
  BY DeviceListAssumption
<1> HIDE DEF id
<1>4. points = LastOf(Valid(g), MaxSeriesPoints) /\ points \in Seq(Int)
  <2>1. Valid(g) = (IF e.rssi = NoRssi THEN Valid(h) ELSE Append(Valid(h), e.rssi))
    BY <1>2, ValidIs
  <2>2. CASE e.rssi = NoRssi
    <3>1. points = LastOf(Valid(h), MaxSeriesPoints)
      BY <1>2, <2>2
    <3>2. Len(Valid(h)) \in Nat
      BY <1>2, LenProperties
    <3>3. LastOf(Valid(h), MaxSeriesPoints) \in Seq(Int)
      BY <1>2, <1>3, <3>2, LastOfIs
    <3>4. QED BY <2>1, <2>2, <3>1, <3>3
  <2>3. CASE e.rssi # NoRssi
    <3>1. points = LastOf(Append(LastOf(Valid(h), MaxSeriesPoints), e.rssi), MaxSeriesPoints)
      BY <1>2, <2>3
    <3>2. points = LastOf(Append(Valid(h), e.rssi), MaxSeriesPoints)
      BY <1>2, <1>3, <3>1, LastOfAppend
    <3>3. Append(Valid(h), e.rssi) \in Seq(Int) /\ Len(Append(Valid(h), e.rssi)) \in Nat
      BY <1>2
    <3>4. LastOf(Append(Valid(h), e.rssi), MaxSeriesPoints) \in Seq(Int)
      BY <1>3, <3>3, LastOfIs
    <3>5. QED BY <2>1, <2>3, <3>2, <3>4
  <2>4. QED BY <2>2, <2>3
<1>5. /\ rate \in Nat
      /\ rate = IF Len(g) = 1 THEN 0 ELSE g[Len(g)].packets - g[Len(g) - 1].packets
  <2>1. PICK n \in Nat : n = Len(h) /\ DOMAIN h = 1 .. n
    BY <1>2, LenProperties
  <2>2. Len(g) = n + 1 /\ g[n + 1] = Said(e) /\ \A i \in 1 .. n : g[i] = h[i]
    BY <1>2, <2>1
  <2>3. CASE id \in IdsOf(rows)
    <3>1. /\ id \in DOMAIN prev /\ h = heard[id] /\ n # 0
          /\ prev[id] = h[n].packets /\ prev[id] \in Nat /\ prev[id] <= total[id]
      BY <2>1, <2>3 DEF DeviceInv, DeviceMemory, HeardBefore
    <3>2. total[id] \in Nat /\ total[id] <= e.packets
      <4>1. id \in IdsOf(Entities)
        BY EntitiesAre DEF Reported, id
      <4>2. QED BY <2>3, <4>1 DEF DeviceInv, id
    <3>3. PICK p \in Nat : p = prev[id]
      BY <3>1
    <3>4. e.packets >= p /\ rate = e.packets - p
      BY <3>1, <3>2, <3>3 DEF RateOf
    <3>5. g[n] = h[n] /\ n + 1 # 1 /\ n + 1 - 1 = n
      BY <2>2, <3>1
    <3>6. rate \in Nat
      BY <3>4
    <3>7. QED BY <1>2, <2>2, <3>1, <3>3, <3>4, <3>5, <3>6
  <2>4. CASE id \notin IdsOf(rows)
    <3>1. id \notin DOMAIN prev /\ n = 0
      <4>1. h = <<>>
        BY <2>4 DEF DeviceInv, HeardBefore
      <4>2. QED BY <2>1, <2>4, <4>1 DEF DeviceInv
    <3>2. rate = 0
      BY <3>1 DEF RateOf
    <3>3. QED BY <2>2, <3>1, <3>2
  <2>5. QED BY <2>3, <2>4
<1>6. g[Len(g)].rssi = e.rssi
  BY <1>2
<1>7. r = [id |-> id, br |-> e.entity.br, kind |-> e.entity.kind, groupId |-> e.entity.groupId,
           ltSlot |-> e.entity.ltSlot, lap |-> e.entity.lap, type |-> e.entity.type,
           label |-> e.entity.label, rssi |-> e.rssi, packets |-> e.packets,
           rate |-> rate, series |-> points,
           isLastChild |-> FALSE, hasChildren |-> FALSE]
  BY DEF FreshRow, id
<1> HIDE DEF points, rate, r, g
<1>8. /\ r.id = id /\ r.br = e.entity.br /\ r.kind = e.entity.kind
      /\ r.groupId = e.entity.groupId /\ r.ltSlot = e.entity.ltSlot /\ r.lap = e.entity.lap
      /\ r.type = e.entity.type /\ r.label = e.entity.label /\ r.rssi = e.rssi
      /\ r.rate = rate /\ r.series = points
  BY <1>7
<1>9. r \in TableRow
  <2>1. id \in Int /\ e.entity.br \in BOOLEAN /\ e.entity.kind \in STRING
        /\ e.entity.groupId \in Int /\ e.entity.ltSlot \in Int /\ e.entity.lap \in Int
        /\ e.entity.type \in Int /\ e.entity.label \in Int
    BY <1>1 DEF Entity, id
  <2>2. QED BY <1>4, <1>5, <1>7, <2>1 DEF TableRow
<1>10. Shows(r, e.entity)
  BY <1>8 DEF Shows, id
<1>11. Remembers(r, g)
  BY <1>4, <1>5, <1>6, <1>8 DEF Remembers
<1>12. QED BY <1>9, <1>10, <1>11 DEF r, g, h, id

-----------------------------------------------------------------------------
(* A poll replaces the rows *)

\* The counters after a poll
Counted(reading) == [id \in DOMAIN total |-> total[id] + reading[id].packets]

\* What a poll adds to the history of a device
Heard(reading, id) ==
  Append(HeardBefore(id), [rssi |-> reading[id].rssi, packets |-> Counted(reading)[id]])

LEMMA CountedIs ==
  ASSUME DeviceInv, NEW reading \in Readings
  PROVE  /\ Counted(reading) \in [IdsOf(Entities) -> Nat]
         /\ \A id \in IdsOf(Entities) : /\ total[id] \in Nat /\ Counted(reading)[id] \in Nat
                                        /\ total[id] <= Counted(reading)[id]
                                        /\ reading[id].rssi \in Int
<1>1. \A id \in IdsOf(Entities) : total[id] \in Nat /\ DOMAIN total = IdsOf(Entities)
  BY DEF DeviceInv
<1>2. \A id \in IdsOf(Entities) : reading[id] \in [rssi : Int, packets : Nat]
  BY DeviceListAssumption
<1>3. DOMAIN total = IdsOf(Entities)
  BY DEF DeviceInv
<1>4. ASSUME NEW id \in IdsOf(Entities)
      PROVE  /\ total[id] \in Nat /\ Counted(reading)[id] \in Nat
             /\ total[id] <= Counted(reading)[id] /\ reading[id].rssi \in Int
  <2>1. PICK a \in Nat : a = total[id]
    BY <1>1
  <2>2. PICK b \in Nat : b = reading[id].packets
    BY <1>2
  <2>3. Counted(reading)[id] = a + b
    BY <1>3, <2>1, <2>2 DEF Counted
  <2>4. a + b \in Nat /\ a <= a + b
    OBVIOUS
  <2>5. QED BY <1>2, <2>1, <2>3, <2>4
<1>5. Counted(reading) = [id \in IdsOf(Entities) |-> Counted(reading)[id]]
  BY <1>3 DEF Counted
<1>6. QED BY <1>4, <1>5

\* The fresh rows of a poll are a table of the devices seen, each with its history.
LEMMA FreshTable ==
  ASSUME DeviceInv, NEW seen \in SUBSET IdsOf(Entities), NEW reading \in Readings
  PROVE  LET poll == Polled(seen, reading, Counted(reading))
             s == [k \in DOMAIN poll |-> FreshRow(poll[k])]
         IN  /\ Table(s) /\ IdsOf(s) = seen
             /\ \A k \in DOMAIN s : Remembers(s[k], Heard(reading, s[k].id))
<1> DEFINE counts == Counted(reading)  poll == Polled(seen, reading, counts)
           s == [k \in DOMAIN poll |-> FreshRow(poll[k])]
<1>1. PICK m \in Nat : DOMAIN poll = 1 .. m
  BY PolledIs
<1>2. /\ \A k \in 1 .. m : Reported(poll[k], seen, reading, counts)
      /\ \A j, k \in 1 .. m : poll[j].entity.id = poll[k].entity.id => j = k
      /\ {poll[k].entity.id : k \in 1 .. m} = seen
  BY <1>1, PolledIs
<1> HIDE DEF poll
<1>3. ASSUME NEW k \in 1 .. m
      PROVE  /\ s[k] \in TableRow /\ Shows(s[k], poll[k].entity)
             /\ s[k].id = poll[k].entity.id
             /\ Remembers(s[k], Heard(reading, s[k].id))
  <2> DEFINE e == poll[k]
  <2>1. Reported(e, seen, reading, counts)
    BY <1>2
  <2>2. e.entity.id \in IdsOf(Entities)
    BY <2>1 DEF Reported
  <2>3. /\ e.rssi = reading[e.entity.id].rssi /\ e.packets = counts[e.entity.id]
    BY <2>1 DEF Reported
  <2>4. e.rssi \in Int /\ e.packets \in Nat /\ total[e.entity.id] <= e.packets
    BY <2>2, <2>3, CountedIs
  <2>5. s[k] = FreshRow(e)
    BY <1>1
  <2> HIDE DEF e, s
  <2>6. /\ FreshRow(e) \in TableRow /\ Shows(FreshRow(e), e.entity)
        /\ Remembers(FreshRow(e), Append(HeardBefore(e.entity.id), Said(e)))
    <3> HIDE DEF counts
    <3>1. e.entity.id \in IdsOf(rows) => total[e.entity.id] <= e.packets
      BY <2>4
    <3>2. QED BY <2>1, <2>4, <3>1, FreshIs
  <2>7. s[k].id = e.entity.id
    BY <2>5, <2>6 DEF Shows
  <2>8. Said(e) = [rssi |-> reading[s[k].id].rssi, packets |-> counts[s[k].id]]
    BY <2>3, <2>7 DEF Said
  <2>9. QED BY <2>5, <2>6, <2>7, <2>8 DEF Heard, e, counts
<1>4. DOMAIN s = 1 .. m
  BY <1>1
<1>5. s \in Seq(TableRow)
  <2>1. s \in [1 .. m -> TableRow]
    BY <1>1, <1>3
  <2> HIDE DEF s
  <2>2. QED BY <2>1
<1> HIDE DEF s
<1>6. ASSUME NEW j \in 1 .. m PROVE \E k \in DOMAIN Entities : Shows(s[j], Entities[k])
  BY <1>2, <1>3 DEF Reported
<1>7. ASSUME NEW j \in 1 .. m, NEW k \in 1 .. m, s[j].id = s[k].id PROVE j = k
  BY <1>2, <1>3, <1>7
<1>8. Table(s)
  BY <1>4, <1>5, <1>6, <1>7 DEF Table
<1>9. IdsOf(s) = seen
  <2>1. IdsOf(s) = {s[k].id : k \in 1 .. m}
    BY <1>4 DEF IdsOf
  <2>2. \A id \in IdsOf(s) : id \in seen
    BY <1>2, <1>3, <2>1
  <2>3. \A id \in seen : id \in IdsOf(s)
    BY <1>2, <1>3, <2>1
  <2>4. QED BY <2>2, <2>3
<1>10. QED BY <1>3, <1>4, <1>8, <1>9 DEF s, poll, counts

\* What a row remembers does not depend on how it is drawn or where it is.
LEMMA SameMemory ==
  ASSUME NEW a, NEW b, SameRow(a, b), NEW h, Remembers(b, h)
  PROVE  Remembers(a, h)
BY DEF SameRow, Remembers

\* The rows a poll asks for are shown as a table should be.
LEMMA NextIs ==
  ASSUME DeviceInv, NEW seen \in SUBSET IdsOf(Entities), NEW reading \in Readings
  PROVE  LET next == NextRows(Polled(seen, reading, Counted(reading)))
         IN  /\ Shown(sort, next, Lookup(next)) /\ IdsOf(next) = seen
             /\ \A k \in DOMAIN next : Remembers(next[k], Heard(reading, next[k].id))
<1> DEFINE poll == Polled(seen, reading, Counted(reading))
           s == [k \in DOMAIN poll |-> FreshRow(poll[k])]
           next == NextRows(poll)
<1>1. /\ Table(s) /\ IdsOf(s) = seen
      /\ \A k \in DOMAIN s : Remembers(s[k], Heard(reading, s[k].id))
  BY FreshTable
<1>2. next = Made(sort, s)
  BY DEF NextRows, Made
<1> HIDE DEF s, next
<1>3. /\ Shown(sort, next, Lookup(next)) /\ IdsOf(next) = IdsOf(s)
      /\ \A p \in DOMAIN next : \E k \in DOMAIN s : SameRow(next[p], s[k])
  <2>1. sort.asc \in BOOLEAN
    BY DEF DeviceInv
  <2>2. QED BY <1>1, <1>2, <2>1, MadeIsShown
<1>4. ASSUME NEW p \in DOMAIN next PROVE Remembers(next[p], Heard(reading, next[p].id))
  <2>1. PICK k \in DOMAIN s : SameRow(next[p], s[k])
    BY <1>3
  <2>2. next[p].id = s[k].id /\ Remembers(s[k], Heard(reading, s[k].id))
    BY <1>1, <2>1 DEF SameRow
  <2>3. QED BY <2>1, <2>2, SameMemory
<1>5. QED BY <1>1, <1>3, <1>4 DEF next, poll

\* A set of ids of the table that is as large as the table is all of them.
LEMMA SameSetIsAll ==
  ASSUME Table(rows), NEW ids, ids \subseteq IdsOf(rows), Cardinality(ids) = Len(rows)
  PROVE  ids = IdsOf(rows)
<1>1. Len(rows) \in Nat /\ DOMAIN rows = 1 .. Len(rows)
  BY LenProperties DEF Table
<1>2. PICK n \in Nat : n = Len(rows)
  BY <1>1
<1>3. IsFiniteSet(1 .. n) /\ Cardinality(1 .. n) = n
  <2>1. 1 \in Int /\ n \in Int
    OBVIOUS
  <2>2. IsFiniteSet(1 .. n) /\ Cardinality(1 .. n) = IF 1 > n THEN 0 ELSE n - 1 + 1
    BY <2>1, FS_Interval
  <2>3. QED BY <2>2
<1> DEFINE f == [k \in 1 .. n |-> rows[k].id]
<1>4. f \in Surjection(1 .. n, IdsOf(rows))
  <2>1. \A k \in 1 .. n : rows[k].id \in IdsOf(rows)
    BY <1>1, <1>2 DEF IdsOf
  <2>2. \A id \in IdsOf(rows) : \E k \in 1 .. n : f[k] = id
    BY <1>1, <1>2 DEF IdsOf
  <2>3. QED BY <2>1, <2>2, Fun_IsSurj
<1>5. IsFiniteSet(IdsOf(rows)) /\ Cardinality(IdsOf(rows)) <= n
  <2> HIDE DEF f
  <2>1. QED BY <1>3, <1>4, FS_Surjection
<1>6. /\ IsFiniteSet(ids) /\ Cardinality(ids) <= Cardinality(IdsOf(rows))
      /\ Cardinality(ids) = Cardinality(IdsOf(rows)) => ids = IdsOf(rows)
  BY <1>5, FS_Subset
<1>7. Cardinality(IdsOf(rows)) \in Nat /\ Cardinality(ids) \in Nat
  BY <1>5, <1>6, FS_CardinalityType
<1>8. Cardinality(ids) = Cardinality(IdsOf(rows))
  BY <1>2, <1>5, <1>6, <1>7
<1>9. QED BY <1>6, <1>8

\* The packets remembered after a poll are those it reported of the devices seen.
LEMMA RememberedIs ==
  ASSUME DeviceInv, NEW seen \in SUBSET IdsOf(Entities), NEW reading \in Readings
  PROVE  LET last == Remembered(Polled(seen, reading, Counted(reading)))
         IN  DOMAIN last = seen /\ \A id \in seen : last[id] = Counted(reading)[id]
<1> DEFINE counts == Counted(reading)  poll == Polled(seen, reading, counts)
           ids == {poll[k].entity.id : k \in DOMAIN poll}  all == Written(poll)
<1>1. /\ ids = seen
      /\ \A k \in DOMAIN poll : poll[k].packets = counts[poll[k].entity.id]
  BY PolledIs DEF Reported
<1>2. DOMAIN all = IdsOf(rows) \cup seen
  BY <1>1 DEF Written, DeviceInv
<1>3. ASSUME NEW id \in seen PROVE all[id] = counts[id]
  <2>1. \E k \in DOMAIN poll : poll[k].entity.id = id
    BY <1>1
  <2>2. all[id] = poll[CHOOSE k \in DOMAIN poll : poll[k].entity.id = id].packets
    BY <1>1, <1>2, <2>1 DEF Written, DeviceInv
  <2>3. QED BY <1>1, <2>1, <2>2
<1>4. Remembered(poll) = IF Cardinality(ids) = Len(rows) /\ ids \subseteq IdsOf(rows)
                         THEN all ELSE [id \in ids |-> all[id]]
  BY DEF Remembered
<1> HIDE DEF counts, poll, all
<1>5. CASE Cardinality(ids) = Len(rows) /\ ids \subseteq IdsOf(rows)
  <2>1. Table(rows)
    BY DEF DeviceInv, Shown
  <2>2. ids = IdsOf(rows)
    <3> HIDE DEF ids
    <3>1. QED BY <1>5, <2>1, SameSetIsAll
  <2>3. Remembered(poll) = all /\ DOMAIN all = seen
    BY <1>1, <1>2, <1>4, <1>5, <2>2
  <2>4. QED BY <1>3, <2>3 DEF poll, counts
<1>6. CASE ~(Cardinality(ids) = Len(rows) /\ ids \subseteq IdsOf(rows))
  <2>1. Remembered(poll) = [id \in seen |-> all[id]]
    BY <1>1, <1>4, <1>6
  <2>2. QED BY <1>3, <2>1 DEF poll, counts
<1>7. QED BY <1>5, <1>6

-----------------------------------------------------------------------------
(* The invariant of the table *)

LEMMA EmptyIsShown == ASSUME NEW by PROVE Shown(by, <<>>, <<>>)
<1>1. <<>> \in Seq(TableRow) /\ DOMAIN (<<>>) = {} /\ Len(<<>>) = 0
  OBVIOUS
<1>2. Table(<<>>) /\ LastShown(<<>>)
  BY <1>1 DEF Table, LastShown
<1>3. Lookup(<<>>) = <<>>
  BY DEF Lookup, IdsOf
<1>4. QED BY <1>1, <1>2, <1>3 DEF Shown

LEMMA StartsShown == DeviceInit => DeviceInv
<1> SUFFICES ASSUME DeviceInit PROVE DeviceInv
  OBVIOUS
<1>1. /\ rows = <<>> /\ rowById = <<>> /\ prev = <<>> /\ heard = <<>>
      /\ sort = [role |-> "identifier", asc |-> TRUE]
      /\ total = [id \in IdsOf(Entities) |-> 0]
  BY DEF DeviceInit
<1>2. DOMAIN rows = {} /\ IdsOf(rows) = {} /\ DOMAIN prev = {} /\ DOMAIN heard = {}
  BY <1>1 DEF IdsOf
<1>3. Shown(sort, rows, rowById)
  BY <1>1, EmptyIsShown
<1>4. total \in [IdsOf(Entities) -> Nat]
  BY <1>1
<1>5. sort.asc \in BOOLEAN
  BY <1>1
<1>6. QED BY <1>2, <1>3, <1>4, <1>5 DEF DeviceInv

\* A poll
LEMMA PollKeepsShown == ASSUME DeviceInv, SetRows PROVE DeviceInv'
<1>1. PICK seen \in SUBSET IdsOf(Entities), reading \in Readings :
        LET counts == Counted(reading)
            poll == Polled(seen, reading, counts)
            next == NextRows(poll)
        IN /\ rows' = IF ~SameSet(next) /\ SurvivorsOrdered(next)
                      THEN InsertArrivals(Survivors(next), next) ELSE next
           /\ rowById' = Lookup(rows')
           /\ prev' = Remembered(poll)
           /\ heard' = [id \in seen |->
                          Append(IF id \in DOMAIN heard THEN heard[id] ELSE <<>>,
                                 [rssi |-> reading[id].rssi, packets |-> counts[id]])]
           /\ total' = counts
           /\ UNCHANGED sort
  BY DEF SetRows, Counted
<1> DEFINE poll == Polled(seen, reading, Counted(reading))  next == NextRows(poll)
<1>2. /\ Shown(sort, next, Lookup(next)) /\ IdsOf(next) = seen
      /\ \A k \in DOMAIN next : Remembers(next[k], Heard(reading, next[k].id))
  BY NextIs
<1>3. rows' = next
  <2>1. Table(rows) /\ Table(next)
    BY <1>2 DEF DeviceInv, Shown
  <2> HIDE DEF next
  <2>2. SurvivorsOrdered(next) => InsertArrivals(Survivors(next), next) = next
    BY <2>1, InsertIsNext
  <2>3. rows' = IF ~SameSet(next) /\ SurvivorsOrdered(next)
                THEN InsertArrivals(Survivors(next), next) ELSE next
    BY <1>1 DEF next
  <2>4. QED BY <2>2, <2>3
<1>4. /\ rowById' = Lookup(next) /\ prev' = Remembered(poll)
      /\ heard' = [id \in seen |-> Heard(reading, id)]
      /\ total' = Counted(reading) /\ sort' = sort
  BY <1>1, <1>3 DEF Heard, HeardBefore
<1>5. DOMAIN prev' = seen /\ \A id \in seen : prev'[id] = Counted(reading)[id]
  BY <1>4, RememberedIs
<1> HIDE DEF next, poll
<1>6. IdsOf(rows)' = seen
  BY <1>2, <1>3 DEF IdsOf
<1>7. sort'.asc \in BOOLEAN /\ Shown(sort, rows, rowById)'
  BY <1>2, <1>3, <1>4 DEF DeviceInv, Shown, Table, LastShown
<1>8. total' \in [IdsOf(Entities) -> Nat]
  BY <1>4, CountedIs
<1>9. ASSUME NEW id \in seen PROVE DeviceMemory(id)'
  <2> DEFINE h == HeardBefore(id)  e == [rssi |-> reading[id].rssi, packets |-> Counted(reading)[id]]
  <2>1. id \in IdsOf(Entities)
    OBVIOUS
  <2>2. Counted(reading)[id] \in Nat /\ reading[id].rssi \in Int
    BY <2>1, CountedIs
  <2>3. h \in Seq(Reading) /\ e \in Reading /\ e.packets = Counted(reading)[id]
    BY <2>2, BeforeIs DEF Reading
  <2>4. heard'[id] = Append(h, e)
    BY <1>4 DEF Heard
  <2> HIDE DEF h, e
  <2>5. Append(h, e) \in Seq(Reading) /\ Len(Append(h, e)) # 0 /\ Append(h, e)[Len(Append(h, e))] = e
    BY <2>3
  <2>6. prev'[id] = Counted(reading)[id] /\ total'[id] = Counted(reading)[id]
    BY <1>4, <1>5
  <2>7. prev'[id] <= total'[id] /\ prev'[id] \in Nat
    BY <2>2, <2>6
  <2>8. QED BY <2>3, <2>4, <2>5, <2>6, <2>7 DEF DeviceMemory
<1>10. ASSUME NEW k \in DOMAIN next PROVE Remembers(next[k], heard'[next[k].id])
  <2>1. next[k].id \in seen
    BY <1>2 DEF IdsOf
  <2>2. heard'[next[k].id] = Heard(reading, next[k].id)
    BY <1>4, <2>1
  <2>3. QED BY <1>2, <2>2
<1>11. \A k \in DOMAIN rows' : Remembers(rows'[k], heard'[rows'[k].id])
  BY <1>3, <1>10
<1>12. DOMAIN heard' = seen
  BY <1>4
<1>13. QED BY <1>5, <1>6, <1>7, <1>8, <1>9, <1>11, <1>12 DEF DeviceInv

\* A clear
LEMMA ClearKeepsShown == ASSUME DeviceInv, Clear PROVE DeviceInv'
<1>1. /\ rows' = <<>> /\ rowById' = <<>> /\ prev' = <<>> /\ heard' = <<>>
      /\ total' = [id \in DOMAIN total |-> 0] /\ sort' = sort
  BY DEF Clear
<1>2. DOMAIN rows' = {} /\ IdsOf(rows)' = {} /\ DOMAIN prev' = {} /\ DOMAIN heard' = {}
  BY <1>1 DEF IdsOf
<1>3. Shown(sort, rows, rowById)'
  <2>1. Shown(sort', <<>>, <<>>)
    BY EmptyIsShown
  <2>2. QED BY <1>1, <2>1 DEF Shown, Table, LastShown
<1>4. sort'.asc \in BOOLEAN /\ total' \in [IdsOf(Entities) -> Nat]
  BY <1>1 DEF DeviceInv
<1>5. QED BY <1>2, <1>3, <1>4 DEF DeviceInv

\* The lookup need not be rebuilt when no row moved.
LEMMA ResortedIs ==
  ASSUME Table(rows), rowById = Lookup(rows), NEW s, Table(s), Len(s) = Len(rows)
  PROVE  Resorted(s) = Lookup(s)
<1>1. CASE \E k \in DOMAIN s : s[k].id # rows[k].id
  BY <1>1 DEF Resorted
<1>2. CASE ~\E k \in DOMAIN s : s[k].id # rows[k].id
  <2>1. DOMAIN s = DOMAIN rows
    BY LenProperties DEF Table
  <2>2. \A k \in DOMAIN s : s[k].id = rows[k].id
    BY <1>2
  <2>3. IdsOf(s) = IdsOf(rows)
    BY <2>1, <2>2 DEF IdsOf
  <2>4. ASSUME NEW id \in IdsOf(s) PROVE Lookup(s)[id] = Lookup(rows)[id]
    <3>1. PICK k \in DOMAIN s : s[k].id = id
      BY DEF IdsOf
    <3>2. Lookup(s)[id] = k /\ Lookup(rows)[id] = k
      BY <2>1, <2>2, <3>1, LookupIs
    <3>3. QED BY <3>2
  <2>5. Lookup(s) = [id \in IdsOf(s) |-> Lookup(s)[id]]
        /\ Lookup(rows) = [id \in IdsOf(s) |-> Lookup(rows)[id]]
    BY <2>3 DEF Lookup
  <2>6. Lookup(s) = Lookup(rows)
    BY <2>4, <2>5
  <2>7. QED BY <1>2, <2>6 DEF Resorted
<1>3. QED BY <1>1, <1>2

\* Another column or direction
LEMMA SortKeepsShown == ASSUME DeviceInv, SortBy PROVE DeviceInv'
<1>1. PICK by \in Sorts :
        /\ sort' = by /\ rows' = Made(by, rows) /\ rowById' = Resorted(rows')
        /\ prev' = prev /\ total' = total /\ heard' = heard
  BY DEF SortBy, Made
<1> DEFINE s == Made(by, rows)
<1>2. by.asc \in BOOLEAN /\ Table(rows) /\ rowById = Lookup(rows)
  BY DeviceListAssumption DEF DeviceInv, Shown
<1>3. /\ Shown(by, s, Lookup(s)) /\ Len(s) = Len(rows) /\ IdsOf(s) = IdsOf(rows)
      /\ \A p \in DOMAIN s : \E k \in DOMAIN rows : SameRow(s[p], rows[k])
  BY <1>2, MadeIsShown
<1> HIDE DEF s
<1>4. rows' = s /\ rowById' = Lookup(s)
  <2>1. rows' = s /\ Table(s)
    BY <1>1, <1>3 DEF s, Shown
  <2>2. Resorted(s) = Lookup(s)
    BY <1>2, <1>3, <2>1, ResortedIs
  <2>3. QED BY <1>1, <2>1, <2>2
<1>5. IdsOf(rows)' = IdsOf(rows)
  BY <1>3, <1>4 DEF IdsOf
<1>6. Shown(sort, rows, rowById)'
  BY <1>1, <1>3, <1>4 DEF Shown, Table, LastShown
<1>7. ASSUME NEW p \in DOMAIN s PROVE Remembers(s[p], heard[s[p].id])
  <2>1. PICK k \in DOMAIN rows : SameRow(s[p], rows[k])
    BY <1>3
  <2>2. s[p].id = rows[k].id /\ Remembers(rows[k], heard[rows[k].id])
    BY <2>1 DEF SameRow, DeviceInv
  <2>3. QED BY <2>1, <2>2, SameMemory
<1>8. \A k \in DOMAIN rows' : Remembers(rows'[k], heard'[rows'[k].id])
  BY <1>1, <1>4, <1>7
<1>9. ASSUME NEW id \in IdsOf(rows) PROVE DeviceMemory(id)'
  BY <1>1 DEF DeviceInv, DeviceMemory
<1>10. QED BY <1>1, <1>2, <1>5, <1>6, <1>8, <1>9 DEF DeviceInv

LEMMA StaysShown == DeviceInv /\ [DeviceNext]_deviceVars => DeviceInv'
<1> SUFFICES ASSUME DeviceInv, [DeviceNext]_deviceVars PROVE DeviceInv'
  OBVIOUS
<1>1. CASE SetRows
  BY <1>1, PollKeepsShown
<1>2. CASE Clear
  BY <1>2, ClearKeepsShown
<1>3. CASE SortBy
  BY <1>3, SortKeepsShown
<1>4. CASE UNCHANGED deviceVars
  <2>1. /\ rows' = rows /\ rowById' = rowById /\ prev' = prev /\ sort' = sort
        /\ total' = total /\ heard' = heard
    BY <1>4 DEF deviceVars
  <2>2. IdsOf(rows)' = IdsOf(rows) /\ (Shown(sort, rows, rowById)' <=> Shown(sort, rows, rowById))
    BY <2>1 DEF IdsOf, Shown, Table, LastShown
  <2>3. \A id : DeviceMemory(id)' <=> DeviceMemory(id)
    BY <2>1 DEF DeviceMemory
  <2>4. QED BY <2>1, <2>2, <2>3 DEF DeviceInv
<1>5. QED BY <1>1, <1>2, <1>3, <1>4 DEF DeviceNext

\* The history of each row is that of its device.
LEMMA MemoryIsHistory == DeviceInv => HistoryFollowsDevice
<1> SUFFICES ASSUME DeviceInv PROVE HistoryFollowsDevice
  OBVIOUS
<1>1. IdsOf(rows) = DOMAIN heard /\ \A k \in DOMAIN rows : Remembers(rows[k], heard[rows[k].id])
  BY DEF DeviceInv
<1>2. QED BY <1>1 DEF HistoryFollowsDevice, Remembers, Valid

LEMMA DeviceInvHolds == DeviceSpec => []DeviceInv
<1>1. DeviceInit => DeviceInv
  BY StartsShown
<1>2. DeviceInv /\ [DeviceNext]_deviceVars => DeviceInv'
  BY StaysShown
<1>3. QED BY <1>1, <1>2, PTL DEF DeviceSpec

\* After every sequence of polls, clears and sorts, of any devices, the table is in
\* the order of its column, every device is found at its row, and piconets are
\* trees (setRows, sortBy, maybeResort, assignTreeFlags, rebuildLookup).
THEOREM TableStaysOrdered == DeviceSpec => []TableIsOrdered
<1>1. DeviceInv => TableIsOrdered
  <2>1. SUFFICES ASSUME DeviceInv PROVE TableIsOrdered
    OBVIOUS
  <2>2. Shown(sort, rows, rowById) /\ sort.asc \in BOOLEAN
        /\ DOMAIN prev = IdsOf(rows)
    BY <2>1 DEF DeviceInv
  <2>3. QED BY <2>2, ShownIsOrdered
<1>2. QED BY <1>1, DeviceInvHolds, PTL

\* The signal history and the packet rate of a row are those of its device, however
\* polls and sorts moved the row (setRows, the series and m_prevPackets).
THEOREM HistoriesFollow == DeviceSpec => []HistoryFollowsDevice
<1>1. QED BY MemoryIsHistory, DeviceInvHolds, PTL
=============================================================================
