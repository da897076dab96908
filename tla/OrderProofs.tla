----------------------------- MODULE OrderProofs -----------------------------
(***************************************************************************)
(* The order of the dataflow, for every network, chip and latency: data of *)
(* a core is nowhere before it has been computed, and every step that is   *)
(* not the watchdog's is a step of Dataflow or none of its business, so    *)
(* that no workload starts before its inputs exist.                        *)
(***************************************************************************)
EXTENDS TypeProofs

-----------------------------------------------------------------------------
(* What has been produced stays produced.                                  *)

(* A core goes forward in its list, and leaves WRITEBACK only for the next
   workload. *)
FsmForward ==
    /\ UNCHANGED ir
    /\ \A c \in Core :
         /\ idx'[c] \in {idx[c], idx[c] + 1}
         /\ state[c] = "WRITEBACK" /\ idx'[c] = idx[c] => state'[c] = "WRITEBACK"

LEMMA UnchangedFsmForward ==
    ASSUME TypeInv, UNCHANGED <<ir, idx, state>>
    PROVE  FsmForward
  BY DEF FsmForward

(* A core that is not writing changes its state. *)
LEMMA OneStateForward ==
    ASSUME TypeInv, UNCHANGED <<ir, idx>>, NEW c \in Core, NEW s,
           state[c] # "WRITEBACK", state' = [state EXCEPT ![c] = s]
    PROVE  FsmForward
  BY DEF FsmForward, TypeInv, TypeOK, CoreTypeOK, FsmTypeOK

LEMMA NextWorkloadForward ==
    ASSUME TypeInv, UNCHANGED ir, NEW c \in Core, NextWorkload(c)
    PROVE  FsmForward
  BY DEF FsmForward, NextWorkload, TypeInv, TypeOK, CoreTypeOK, FsmTypeOK

LEMMA CoreTickForward ==
    ASSUME TypeInv, CoreTick
    PROVE  FsmForward
<1>1. CoreTypeOK /\ Control /\ cur \in Core
  BY InTick
<1>2. CASE RetireCore \/ StartWorkload
  <2>1. state[cur] # "WRITEBACK"
    BY <1>1, <1>2
    DEF RetireCore, StartWorkload, Control, PcMatchesState, CoreState
  <2> QED
    BY <1>1, <1>2, <2>1, OneStateForward DEF RetireCore, StartWorkload, BeginCompute
<1>3. CASE EndFetch
  <2>1. state[cur] # "WRITEBACK"
    BY <1>1, <1>3 DEF EndFetch, Control, PcMatchesState, CoreState
  <2> QED
    BY <1>1, <1>3, <2>1, OneStateForward, UnchangedFsmForward
    DEF EndFetch, BeginCompute, fsmVars
<1>4. CASE FinishWorkload
  BY <1>1, <1>4, NextWorkloadForward DEF FinishWorkload
<1>5. CASE EnterWriteback
  <2>1. state[cur] # "WRITEBACK"
    BY <1>1, <1>5 DEF EnterWriteback, Control, PcMatchesState
  <2> QED
    BY <1>1, <1>5, <2>1, OneStateForward DEF EnterWriteback
<1>6. CASE WritebackCycle
  BY <1>1, <1>6, NextWorkloadForward, UnchangedFsmForward DEF WritebackCycle, fsmVars
<1>7. CASE ComputeCycle
  BY <1>7, UnchangedFsmForward DEF ComputeCycle
<1>8. CASE \/ ReceiveReadResponse \/ ReceiveReadRequest \/ ReceiveWriteResponse
           \/ EndIncoming \/ RetryAllocation \/ EndRetry
           \/ DrainUnlimited \/ DrainLimited \/ EndDrain
           \/ ServeRemoteRequest \/ EndServe \/ FetchSource \/ PublishOutput
           \/ EndOutputs \/ FreeInput \/ QueueWriteback \/ EndQueue \/ IdleTick
  BY <1>8, UnchangedFsmForward
  DEF ReceiveReadResponse, ReceiveReadRequest, ReceiveWriteResponse, EndIncoming,
      RetryAllocation, EndRetry, DrainUnlimited, DrainLimited, EndDrain,
      ServeRemoteRequest, EndServe, FetchSource, PublishOutput, EndOutputs,
      FreeInput, QueueWriteback, EndQueue, IdleTick, fsmVars
<1> QED
  BY <1>2, <1>3, <1>4, <1>5, <1>6, <1>7, <1>8 DEF CoreTick

(* The watchdog ends a load or skips to the next workload. *)
LEMMA WatchdogForward ==
    ASSUME TypeInv, Watchdog
    PROVE  FsmForward
<1>1. ASSUME NEW c \in Core, ForceAdvanceLoading(c)
      PROVE  FsmForward
  BY <1>1, OneStateForward DEF ForceAdvanceLoading, BeginCompute
<1>2. ASSUME NEW c \in Core, ForceCompleteWriteback(c)
      PROVE  FsmForward
  BY <1>2, NextWorkloadForward DEF ForceCompleteWriteback
<1>3. CASE GiveUp
  BY <1>3, UnchangedFsmForward DEF GiveUp, QuietCores, fsmVars
<1>4. ASSUME NEW S \in SUBSET Core, BreakCycle(S)
      PROVE  FsmForward
  BY <1>1, <1>4, VictimIsCore DEF BreakCycle, IsCycle
<1>5. CASE RelievePressure
  BY <1>1, <1>5, VictimIsCore DEF RelievePressure, Pressured
<1>6. CASE AbandonWriteback
  BY <1>2, <1>6, VictimIsCore DEF AbandonWriteback, Writing
<1> QED
  BY <1>3, <1>4, <1>5, <1>6 DEF Watchdog

(* Neither the transport nor the clock touches a core's state machine. *)
LEMMA QuietSteps ==
    ASSUME (Tick /\ ~CoreTick) \/ NextCycle \/ CheckProgress
    PROVE  QuietCores
  BY DEF Tick, CollectPacket, DeliverToCore, EndCollect, InjectDramResponse,
         EndReply, Advance, EndDeliver, ForwardToDram, EndForward,
         DeliverDramResponse, EndRespond, NextCycle, CheckProgress

LEMMA NextForward ==
    ASSUME TypeInv, [Next]_vars
    PROVE  FsmForward
<1>1. CASE UNCHANGED vars
  BY <1>1, UnchangedFsmForward DEF vars, coreVars, fsmVars
<1>2. QuietCores => FsmForward
  BY UnchangedFsmForward DEF QuietCores, fsmVars
<1> QED
  BY <1>1, <1>2, QuietSteps, CoreTickForward, WatchdogForward DEF Next, Halted

LEMMA ProducedStays ==
    ASSUME TypeInv, TypeInv', FsmForward, NEW p \in Core, NEW t, D!Produced(p, t)
    PROVE  D!Produced(p, t)'
<1>1. PICK i \in DOMAIN ir[p] :
        D!Finished(p, i) /\ \E out \in ToSet(ir[p][i].outputs) : out.tid = t
  BY DEF D!Produced, D!ToSet, ToSet
<1>2. ir[p] \in Seq(Workload) /\ idx[p] \in Nat /\ i \in Nat
  BY DEF TypeInv, TypeOK, CoreTypeOK, FsmTypeOK
<1>3. i < idx[p] \/ (i = idx[p] /\ state[p] = "WRITEBACK")
  <2>1. state[p] \in CoreState
    BY DEF TypeInv, TypeOK, CoreTypeOK, FsmTypeOK
  <2> QED
    BY <1>1, <2>1 DEF D!Finished, PhaseOf, CoreState
<1>4. i < idx'[p] \/ (i = idx'[p] /\ state'[p] = "WRITEBACK")
  BY <1>2, <1>3 DEF FsmForward
<1>5. D!Finished(p, i)'
  BY <1>4 DEF D!Finished, PhaseOf
<1> QED
  BY <1>1, <1>5 DEF D!Produced, D!ToSet, ToSet, FsmForward

(* The IR stays and so does the availability of its data. *)
Monotone == UNCHANGED ir /\ \A t : Available(t) => Available(t)'

LEMMA NextMonotone ==
    ASSUME TypeInv, [Next]_vars
    PROVE  Monotone
<1>1. TypeInv' /\ FsmForward
  BY NextTyped, NextForward
<1>2. ASSUME NEW t, Available(t)
      PROVE  Available(t)'
  <2>1. ReadFromCore(t)' => ReadFromCore(t)
    BY <1>1 DEF ReadFromCore, FsmForward
  <2> QED
    BY <1>1, <1>2, <2>1, ProducedStays DEF Available
<1> QED
  BY <1>1, <1>2 DEF Monotone, FsmForward

LEMMA MonotoneKeeps ==
    ASSUME Monotone, NEW p
    PROVE  /\ DataPacket(p) => DataPacket(p)'
           /\ MemoryRead(p) => MemoryRead(p)'
<1>1. ReadFromCore(p.tid)' => ReadFromCore(p.tid)
  BY DEF Monotone, ReadFromCore
<1> QED
  BY <1>1 DEF Monotone, DataPacket, MemoryRead

-----------------------------------------------------------------------------
(* How the parts of DataComesFromProducers are kept: what is new in a queue *)
(* carries data that exists, what is newly ready was produced or is being   *)
(* published, and a core waits for what it does not have.                   *)

(* What the queues r of the cores hold and the queues q did not. *)
New(r, q, c) == ToSet(r[c]) \ ToSet(q[c])

LEMMA NothingNew ==
    ASSUME NEW T, NEW q \in [Core -> Seq(T)], NEW c \in Core, NEW s \in Seq(T),
           ToSet(s) \subseteq ToSet(q[c]), NEW d \in Core
    PROVE  New([q EXCEPT ![c] = s], q, d) = {}
  BY DEF New

LEMMA OneNew ==
    ASSUME NEW T, NEW q \in [Core -> Seq(T)], NEW c \in Core, NEW x \in T,
           NEW d \in Core
    PROVE  New([q EXCEPT ![c] = Append(@, x)], q, d) \subseteq {x}
<1>1. ToSet(Append(q[c], x)) = ToSet(q[c]) \cup {x}
  BY AppendQueue
<1> QED
  BY <1>1 DEF New

LEMMA CorePacketsKept ==
    ASSUME CorePacketsCarryData, Monotone,
           \A c \in Core :
             /\ \A p \in New(injection', injection, c) :
                   DataPacket(p)' /\ (p.dst = DRAM => MemoryRead(p)')
             /\ \A p \in New(ejection', ejection, c) : DataPacket(p)'
             /\ \A p \in New(retry', retry, c) : Available(p.tid)'
    PROVE  CorePacketsCarryData'
<1> SUFFICES ASSUME NEW c \in Core
             PROVE  /\ \A p \in ToSet(injection'[c]) :
                          DataPacket(p)' /\ (p.dst = DRAM => MemoryRead(p)')
                    /\ \A p \in ToSet(ejection'[c]) : DataPacket(p)'
                    /\ \A p \in ToSet(retry'[c]) : Available(p.tid)'
  BY DEF CorePacketsCarryData
<1>1. ASSUME NEW p \in ToSet(injection'[c])
      PROVE  DataPacket(p)' /\ (p.dst = DRAM => MemoryRead(p)')
  BY <1>1, MonotoneKeeps DEF CorePacketsCarryData, New
<1>2. ASSUME NEW p \in ToSet(ejection'[c])
      PROVE  DataPacket(p)'
  BY <1>2, MonotoneKeeps DEF CorePacketsCarryData, New
<1>3. ASSUME NEW p \in ToSet(retry'[c])
      PROVE  Available(p.tid)'
  BY <1>3 DEF CorePacketsCarryData, New, Monotone
<1> QED
  BY <1>1, <1>2, <1>3

LEMMA SameCorePackets ==
    ASSUME CorePacketsCarryData, Monotone, UNCHANGED <<injection, ejection, retry>>
    PROVE  CorePacketsCarryData'
  BY CorePacketsKept DEF New

LEMMA WritesKept ==
    ASSUME WritesCarryData, Monotone,
           \A c \in Core :
             /\ \A chunk \in New(writeQueue', writeQueue, c) : Available(chunk.tid)'
             /\ writeRem'[c] > 0 =>
                   \/ Available(writeId[c])'
                   \/ writeRem[c] > 0 /\ writeId'[c] = writeId[c]
    PROVE  WritesCarryData'
<1> SUFFICES ASSUME NEW c \in Core
             PROVE  /\ \A chunk \in ToSet(writeQueue'[c]) : Available(chunk.tid)'
                    /\ writeRem'[c] > 0 => Available(writeId[c])'
  BY DEF WritesCarryData
<1>1. ASSUME NEW chunk \in ToSet(writeQueue'[c])
      PROVE  Available(chunk.tid)'
  BY <1>1 DEF WritesCarryData, New, Monotone
<1>2. writeRem'[c] > 0 => Available(writeId[c])'
  BY DEF WritesCarryData, Monotone
<1> QED
  BY <1>1, <1>2

LEMMA SameWrites ==
    ASSUME WritesCarryData, Monotone, UNCHANGED writeVars
    PROVE  WritesCarryData'
  BY WritesKept DEF New, writeVars

LEMMA TransportKept ==
    ASSUME TransportCarriesData, Monotone,
           \A f \in ToSet(noc') : \/ f \in ToSet(noc)
                                  \/ /\ DataPacket(f.pkt)'
                                     /\ f.pkt.dst \in ToSet(MemoryNodes) =>
                                           MemoryRead(f.pkt)',
           \A f \in ToSet(dram') : \/ f \in ToSet(dram)
                                   \/ DataPacket(f.pkt)' /\ ~IsRequest(f.pkt),
           \A p \in ToSet(dramReplies') : \/ p \in ToSet(dramReplies)
                                          \/ DataPacket(p)' /\ ~IsRequest(p)
    PROVE  TransportCarriesData'
<1>1. ASSUME NEW f \in ToSet(noc')
      PROVE  /\ DataPacket(f.pkt)'
             /\ f.pkt.dst \in ToSet(MemoryNodes) => MemoryRead(f.pkt)'
  BY <1>1, MonotoneKeeps DEF TransportCarriesData
<1>2. ASSUME NEW f \in ToSet(dram')
      PROVE  DataPacket(f.pkt)' /\ ~IsRequest(f.pkt)
  BY <1>2, MonotoneKeeps DEF TransportCarriesData
<1>3. ASSUME NEW p \in ToSet(dramReplies')
      PROVE  DataPacket(p)' /\ ~IsRequest(p)
  BY <1>3, MonotoneKeeps DEF TransportCarriesData
<1> QED
  BY <1>1, <1>2, <1>3 DEF TransportCarriesData

LEMMA SameTransport ==
    ASSUME TransportCarriesData, Monotone, UNCHANGED transportVars
    PROVE  TransportCarriesData'
  BY TransportKept DEF transportVars

LEMMA ReadyKept ==
    ASSUME ReadyMeansProduced, Monotone,
           \A c \in Core : \A t \in Tid :
             /\ IsReady(sram'[c], t) =>
                   IsReady(sram[c], t) \/ Available(t)' \/ Publishing(c, t)'
             /\ Publishing(c, t) => Publishing(c, t)' \/ Available(t)'
    PROVE  ReadyMeansProduced'
<1> SUFFICES ASSUME NEW c \in Core, NEW t \in Tid, IsReady(sram'[c], t)
             PROVE  Available(t)' \/ Publishing(c, t)'
  BY DEF ReadyMeansProduced
<1>1. CASE IsReady(sram[c], t)
  BY <1>1 DEF ReadyMeansProduced, Monotone
<1> QED
  BY <1>1

LEMMA SameReady ==
    ASSUME ReadyMeansProduced, Monotone, UNCHANGED sram, pc \notin {"outputs", "free"}
    PROVE  ReadyMeansProduced'
  BY ReadyKept DEF Publishing

LEMMA LoadedKept ==
    ASSUME LoadedMeansProduced, Monotone,
           \A c \in Core : state'[c] = "LOADING" =>
             \/ SourceTids(c)' \subseteq pendingLoads'[c]
             \/ /\ state[c] = "LOADING" /\ idx'[c] = idx[c]
                /\ \A t \in pendingLoads[c] \ pendingLoads'[c] : Available(t)'
    PROVE  LoadedMeansProduced'
<1> SUFFICES ASSUME NEW c \in Core, state'[c] = "LOADING", NEW s \in ToSet(Sources(c))'
             PROVE  s.tid \in pendingLoads'[c] \/ Available(s.tid)'
  BY DEF LoadedMeansProduced
<1>1. CASE SourceTids(c)' \subseteq pendingLoads'[c]
  BY <1>1 DEF SourceTids
<1>2. CASE /\ state[c] = "LOADING" /\ idx'[c] = idx[c]
           /\ \A t \in pendingLoads[c] \ pendingLoads'[c] : Available(t)'
  <2>1. s \in ToSet(Sources(c))
    BY <1>2 DEF Monotone, Sources, Current
  <2>2. s.tid \in pendingLoads[c] \/ Available(s.tid)
    BY <1>2, <2>1 DEF LoadedMeansProduced
  <2> QED
    BY <1>2, <2>2 DEF Monotone
<1> QED
  BY <1>1, <1>2

LEMMA SameLoaded ==
    ASSUME LoadedMeansProduced, Monotone, UNCHANGED <<fsmVars, pendingLoads>>
    PROVE  LoadedMeansProduced'
  BY LoadedKept DEF fsmVars

-----------------------------------------------------------------------------
(* The steps of a core before its state machine.                           *)

(* Outside mark_outputs_available and free_consumed_buffers nothing is ready
   in a memory that was not produced. *)
LEMMA ReadyIsAvailable ==
    ASSUME ReadyMeansProduced, pc \notin {"outputs", "free"},
           NEW c \in Core, NEW t \in Tid, IsReady(sram[c], t)
    PROVE  Available(t)
  BY DEF ReadyMeansProduced, Publishing

LEMMA OneSramReady ==
    ASSUME TypeInv, ReadyMeansProduced, Monotone, pc \notin {"outputs", "free"},
           NEW c \in Core, NEW s, sram' = [sram EXCEPT ![c] = s],
           \A t \in Tid : IsReady(s, t) => IsReady(sram[c], t) \/ Available(t)'
    PROVE  ReadyMeansProduced'
<1>1. SramsTypeOK
  BY DEF TypeInv, TypeOK, CoreTypeOK
<1>2. \A d \in Core : sram'[d] = IF d = c THEN s ELSE sram[d]
  BY <1>1 DEF SramsTypeOK
<1> QED
  BY <1>2, ReadyKept DEF Publishing

LEMMA AllocateInputReady ==
    ASSUME TypeInv, ReadyMeansProduced, Monotone, pc \notin {"outputs", "free"},
           NEW c \in Core, NEW p, AllocateInput(c, p)
    PROVE  ReadyMeansProduced'
<1> DEFINE s == Allocate(sram[c], p.tid, p.size, InputRefs(c, p.tid))
<1>1. SramTypeOK(sram[c])
  BY DEF TypeInv, TypeOK, CoreTypeOK, SramsTypeOK
<1>2. \A t \in Tid : IsReady(s, t) => IsReady(sram[c], t)
  BY <1>1, AllocateReadiesNone
<1>3. sram' = [sram EXCEPT ![c] = s]
  BY DEF AllocateInput
<1> HIDE DEF s
<1> QED
  BY <1>2, <1>3, OneSramReady

LEMMA ReleaseReady ==
    ASSUME TypeInv, ReadyMeansProduced, Monotone, pc \notin {"outputs", "free"},
           NEW c \in Core, NEW u, sram' = [sram EXCEPT ![c] = ReleaseRef(@, u)]
    PROVE  ReadyMeansProduced'
<1> DEFINE s == ReleaseRef(sram[c], u)
<1>1. SramTypeOK(sram[c])
  BY DEF TypeInv, TypeOK, CoreTypeOK, SramsTypeOK
<1>2. \A t \in Tid : IsReady(s, t) => IsReady(sram[c], t)
  BY <1>1, ReleaseRefReadiesNone
<1>3. sram' = [sram EXCEPT ![c] = s]
  OBVIOUS
<1> HIDE DEF s
<1> QED
  BY <1>2, <1>3, OneSramReady

LEMMA WriteDoneReady ==
    ASSUME TypeInv, ReadyMeansProduced, Monotone, pc \notin {"outputs", "free"},
           NEW c \in Core, NEW u, WriteDone(c, u), Available(u)
    PROVE  ReadyMeansProduced'
<1> DEFINE s == MarkReady(sram[c], u)
<1>1. SramTypeOK(sram[c])
  BY DEF TypeInv, TypeOK, CoreTypeOK, SramsTypeOK
<1>2. \A t \in Tid : IsReady(s, t) => IsReady(sram[c], t) \/ Available(t)'
  BY <1>1, MarkReadyReadiesOne DEF Monotone
<1>3. sram' = [sram EXCEPT ![c] = s]
  BY DEF WriteDone
<1> HIDE DEF s
<1> QED
  BY <1>2, <1>3, OneSramReady

(* The write of data that exists, at once or behind the one in progress. *)
LEMMA StartWriteKept ==
    ASSUME TypeInv, WritesCarryData, Monotone, NEW c \in Core, NEW p \in Packet,
           StartWrite(c, p), Available(p.tid)
    PROVE  WritesCarryData'
<1>1. /\ writeId \in [Core -> Tid] /\ writeRem \in [Core -> Nat]
      /\ writeQueue \in [Core -> Seq(Chunk)]
  BY DEF TypeInv, TypeOK, CoreTypeOK, WriteTypeOK, ChunkSeqs
<1>2. Available(p.tid)'
  BY DEF Monotone
<1>3. CASE writeRem[c] = 0
  BY <1>1, <1>2, <1>3, WritesKept DEF StartWrite, New
<1>4. CASE writeRem[c] # 0
  <2> DEFINE x == [tid |-> p.tid, size |-> p.size]
  <2>1. x \in Chunk /\ x.tid = p.tid
    BY DEF Packet, Chunk
  <2>2. /\ writeQueue' = [writeQueue EXCEPT ![c] = Append(@, x)]
        /\ UNCHANGED <<writeId, writeRem>>
    BY <1>4 DEF StartWrite
  <2> HIDE DEF x
  <2>3. \A d \in Core : New(writeQueue', writeQueue, d) \subseteq {x}
    BY <1>1, <2>1, <2>2, OneNew
  <2> QED
    BY <1>2, <2>1, <2>2, <2>3, WritesKept
<1> QED
  BY <1>3, <1>4

(* The packet that is received carries data, and is gone from the queue. *)
LEMMA IncomingCarriesData ==
    ASSUME OrderInv, NEW type, Incoming(type)
    PROVE  /\ Head(ejection[cur]) \in Packet
           /\ DataPacket(Head(ejection[cur]))
           /\ Head(ejection[cur]).type = type
           /\ \A d \in Core : New(ejection', ejection, d) = {}
           /\ pc \notin {"outputs", "free"}
<1>1. cur \in Core /\ ejection \in [Core -> Seq(Packet)]
  BY InTick DEF OrderInv, CoreTypeOK, QueueTypeOK, PacketSeqs
<1>2. /\ Head(ejection[cur]) \in Packet /\ Head(ejection[cur]) \in ToSet(ejection[cur])
      /\ Tail(ejection[cur]) \in Seq(Packet)
      /\ ToSet(Tail(ejection[cur])) \subseteq ToSet(ejection[cur])
  BY <1>1, HeadTailQueue DEF Incoming
<1>3. \A d \in Core : New(ejection', ejection, d) = {}
  BY <1>1, <1>2, NothingNew DEF Incoming
<1> QED
  BY <1>1, <1>2, <1>3 DEF Incoming, OrderInv, DataComesFromProducers, CoresCarryData,
                           CorePacketsCarryData

LEMMA InOrder ==
    ASSUME OrderInv
    PROVE  /\ TypeInv /\ CoreTypeOK /\ Control /\ cur \in Core
           /\ CorePacketsCarryData /\ WritesCarryData
           /\ ReadyMeansProduced /\ LoadedMeansProduced /\ TransportCarriesData
  BY InTick DEF OrderInv, DataComesFromProducers, CoresCarryData

LEMMA PushedIsNew ==
    ASSUME OrderInv, NEW c \in Core, NEW x \in Packet, Push(c, x)
    PROVE  \A d \in Core : New(injection', injection, d) \subseteq {x}
  BY InOrder, OneNew DEF Push, CoreTypeOK, QueueTypeOK, PacketSeqs

LEMMA ReceiveReadResponseOrder ==
    ASSUME OrderInv, Monotone, ReceiveReadResponse
    PROVE  CoresCarryData'
<1> PICK p : p = Head(ejection[cur])
  OBVIOUS
<1>1. /\ p \in Packet /\ Available(p.tid) /\ pc \notin {"outputs", "free"}
      /\ \A d \in Core : New(ejection', ejection, d) = {}
  BY IncomingCarriesData DEF ReceiveReadResponse, DataPacket
<1>2. CorePacketsCarryData'
  <2>1. \A d \in Core : New(retry', retry, d) \subseteq {p}
    <3>1. retry \in [Core -> Seq(Packet)]
      BY InOrder DEF CoreTypeOK, QueueTypeOK, PacketSeqs
    <3>2. CASE UNCHANGED retry
      BY <3>2 DEF New
    <3>3. CASE retry' = [retry EXCEPT ![cur] = Append(@, p)]
      BY <1>1, <3>1, <3>3, InOrder, OneNew
    <3> QED
      BY <3>2, <3>3 DEF ReceiveReadResponse, Postpone
  <2>2. \A d \in Core : New(injection', injection, d) = {}
    BY DEF ReceiveReadResponse, New
  <2> QED
    BY <1>1, <2>1, <2>2, InOrder, CorePacketsKept DEF Monotone
<1>3. WritesCarryData'
  BY <1>1, InOrder, StartWriteKept, SameWrites DEF ReceiveReadResponse
<1>4. ReadyMeansProduced'
  BY <1>1, InOrder, AllocateInputReady, SameReady DEF ReceiveReadResponse
<1>5. LoadedMeansProduced'
  BY InOrder, SameLoaded DEF ReceiveReadResponse, loadVars
<1> QED
  BY <1>2, <1>3, <1>4, <1>5 DEF CoresCarryData

LEMMA ReceiveReadRequestOrder ==
    ASSUME OrderInv, Monotone, ReceiveReadRequest
    PROVE  CoresCarryData'
<1> PICK p : p = Head(ejection[cur])
  OBVIOUS
<1> DEFINE x == Response(cur, p)
<1>1. /\ p \in Packet /\ pc \notin {"outputs", "free"}
      /\ \A d \in Core : New(ejection', ejection, d) = {}
  BY IncomingCarriesData DEF ReceiveReadRequest
<1>2. CorePacketsCarryData'
  <2>1. \A d \in Core : New(retry', retry, d) = {}
    BY DEF ReceiveReadRequest, New
  <2>2. CASE UNCHANGED injection
    BY <1>1, <2>1, <2>2, InOrder, CorePacketsKept DEF New
  <2>3. CASE IsReady(sram[cur], p.tid) /\ Push(cur, Response(cur, p))
    <3>1. Available(p.tid)'
      BY <1>1, <2>3, InOrder, ReadyIsAvailable DEF Packet, Monotone
    <3> PICK r : r = Response(cur, p)
      OBVIOUS
    <3>2. DataPacket(r)' /\ MemoryRead(r)'
      BY <3>1 DEF Response, DataPacket, MemoryRead
    <3>3. r \in Packet
      BY <1>1, InOrder, ResponseTyped
    <3>4. \A d \in Core : New(injection', injection, d) \subseteq {r}
      BY <2>3, <3>3, InOrder, PushedIsNew
    <3> QED
      BY <1>1, <2>1, <3>2, <3>4, InOrder, CorePacketsKept
  <2> QED
    BY <2>2, <2>3 DEF ReceiveReadRequest
<1>3. WritesCarryData'
  BY InOrder, SameWrites DEF ReceiveReadRequest
<1>4. ReadyMeansProduced'
  BY <1>1, InOrder, ReleaseReady, SameReady DEF ReceiveReadRequest
<1>5. LoadedMeansProduced'
  BY InOrder, SameLoaded DEF ReceiveReadRequest, loadVars
<1> QED
  BY <1>2, <1>3, <1>4, <1>5 DEF CoresCarryData

LEMMA ReceiveWriteResponseOrder ==
    ASSUME OrderInv, Monotone, ReceiveWriteResponse
    PROVE  CoresCarryData'
<1>1. /\ pc \notin {"outputs", "free"}
      /\ \A d \in Core : New(ejection', ejection, d) = {}
  BY IncomingCarriesData DEF ReceiveWriteResponse
<1>2. CorePacketsCarryData'
  BY <1>1, InOrder, CorePacketsKept DEF ReceiveWriteResponse, New
<1>3. WritesCarryData'
  BY InOrder, SameWrites DEF ReceiveWriteResponse
<1>4. ReadyMeansProduced'
  BY <1>1, InOrder, ReleaseReady DEF ReceiveWriteResponse
<1>5. LoadedMeansProduced'
  BY InOrder, SameLoaded DEF ReceiveWriteResponse, loadVars
<1> QED
  BY <1>2, <1>3, <1>4, <1>5 DEF CoresCarryData

LEMMA RetryAllocationOrder ==
    ASSUME OrderInv, Monotone, RetryAllocation
    PROVE  CoresCarryData'
<1> PICK p : p = retry[cur][cursor]
  OBVIOUS
<1>1. /\ pc \notin {"outputs", "free"}
      /\ retry \in [Core -> Seq(Packet)] /\ cursor \in 1 .. Len(retry[cur])
  BY InOrder DEF RetryAllocation, CoreTypeOK, QueueTypeOK, TickTypeOK, PacketSeqs
<1>2. p \in Packet /\ Available(p.tid)
  BY <1>1, InOrder, InToSet DEF CorePacketsCarryData
<1>3. CorePacketsCarryData'
  <2>1. \A d \in Core : New(retry', retry, d) = {}
    <3>1. CASE UNCHANGED retry
      BY <3>1 DEF New
    <3>2. CASE retry' = [retry EXCEPT ![cur] = RemoveAt(@, cursor)]
      <4> DEFINE rest == RemoveAt(retry[cur], cursor)
      <4>1. rest \in Seq(Packet) /\ ToSet(rest) \subseteq ToSet(retry[cur])
        BY <1>1, InOrder, RemoveAtQueue
      <4>2. retry' = [retry EXCEPT ![cur] = rest]
        BY <3>2
      <4> HIDE DEF rest
      <4> QED
        BY <1>1, <4>1, <4>2, InOrder, NothingNew
    <3> QED
      BY <3>1, <3>2 DEF RetryAllocation
  <2> QED
    BY <2>1, InOrder, CorePacketsKept DEF RetryAllocation, netVars, New
<1>4. WritesCarryData'
  BY <1>2, InOrder, StartWriteKept, SameWrites DEF RetryAllocation
<1>5. ReadyMeansProduced'
  BY <1>1, InOrder, AllocateInputReady, SameReady DEF RetryAllocation
<1>6. LoadedMeansProduced'
  BY InOrder, SameLoaded DEF RetryAllocation, loadVars
<1> QED
  BY <1>3, <1>4, <1>5, <1>6 DEF CoresCarryData

(* The write that is done was a write of data that exists. *)
LEMMA WriteDoneLoaded ==
    ASSUME OrderInv, Monotone, UNCHANGED fsmVars, NEW c \in Core, NEW u,
           WriteDone(c, u), Available(u)
    PROVE  LoadedMeansProduced'
<1>1. \A d \in Core : \A t \in pendingLoads[d] \ pendingLoads'[d] : t = u
  BY InOrder DEF WriteDone, CoreTypeOK, LoadTypeOK
<1>2. Available(u)'
  BY DEF Monotone
<1> QED
  BY <1>1, <1>2, InOrder, LoadedKept DEF fsmVars

LEMMA NextChunkCarriesData ==
    ASSUME OrderInv, writeQueue[cur] # <<>>
    PROVE  /\ Available(Head(writeQueue[cur]).tid)
           /\ \A d \in Core :
                New([writeQueue EXCEPT ![cur] = Tail(@)], writeQueue, d) = {}
<1>1. writeQueue \in [Core -> Seq(Chunk)] /\ writeQueue[cur] \in Seq(Chunk)
  BY InOrder DEF CoreTypeOK, WriteTypeOK, ChunkSeqs
<1>2. /\ Head(writeQueue[cur]) \in ToSet(writeQueue[cur])
      /\ Tail(writeQueue[cur]) \in Seq(Chunk)
      /\ ToSet(Tail(writeQueue[cur])) \subseteq ToSet(writeQueue[cur])
  BY <1>1, HeadTailQueue
<1>3. Available(Head(writeQueue[cur]).tid)
  BY <1>2, InOrder DEF WritesCarryData
<1> DEFINE rest == Tail(writeQueue[cur])
<1> HIDE DEF rest
<1>4. rest \in Seq(Chunk) /\ ToSet(rest) \subseteq ToSet(writeQueue[cur])
  BY <1>2 DEF rest
<1>5. \A d \in Core : New([writeQueue EXCEPT ![cur] = rest], writeQueue, d) = {}
  BY <1>1, <1>4, InOrder, NothingNew
<1> QED
  BY <1>3, <1>5 DEF rest

LEMMA DrainUnlimitedOrder ==
    ASSUME OrderInv, Monotone, DrainUnlimited
    PROVE  CoresCarryData'
<1> PICK u : u = writeId[cur]
  OBVIOUS
<1>1. pc \notin {"outputs", "free"} /\ UNCHANGED fsmVars
  BY DEF DrainUnlimited
<1>2. CorePacketsCarryData'
  BY InOrder, SameCorePackets DEF DrainUnlimited, netVars
<1>3. WritesCarryData'
  <2>1. /\ writeId \in [Core -> Tid] /\ writeRem \in [Core -> Nat]
        /\ writeQueue \in [Core -> Seq(Chunk)]
    BY InOrder DEF CoreTypeOK, WriteTypeOK, ChunkSeqs
  <2>2. CASE writeQueue[cur] = <<>>
    BY <2>1, <2>2, InOrder, WritesKept DEF DrainUnlimited, New
  <2>3. CASE writeQueue[cur] # <<>>
    <3> PICK v : v = Head(writeQueue[cur]).tid
      OBVIOUS
    <3>1. Available(v)' /\ \A d \in Core : New(writeQueue', writeQueue, d) = {}
      BY <2>3, NextChunkCarriesData DEF DrainUnlimited, Monotone
    <3>2. writeId'[cur] = v
      BY <2>1, <2>3, InOrder DEF DrainUnlimited
    <3>3. \A c \in Core : c # cur =>
            writeId'[c] = writeId[c] /\ writeRem'[c] = writeRem[c]
      BY <2>1, <2>3 DEF DrainUnlimited
    <3>4. writeId'[cur] = v => Available(writeId[cur])' \/ cur' # cur
      BY <3>1
    <3> QED
      BY <3>1, <3>2, <3>3, <3>4, InOrder, WritesKept DEF DrainUnlimited, SameIteration
  <2> QED
    BY <2>2, <2>3
<1>4. ReadyMeansProduced' /\ LoadedMeansProduced'
  <2>1. CASE writeRem[cur] > 0
    <3>1. Available(u) /\ WriteDone(cur, u)
      BY <2>1, InOrder DEF DrainUnlimited, WritesCarryData
    <3> QED
      BY <1>1, <3>1, InOrder, WriteDoneReady, WriteDoneLoaded
  <2>2. CASE ~(writeRem[cur] > 0)
    BY <1>1, <2>2, InOrder, SameReady, SameLoaded DEF DrainUnlimited
  <2> QED
    BY <2>1, <2>2
<1> QED
  BY <1>2, <1>3, <1>4 DEF CoresCarryData

LEMMA DrainLimitedOrder ==
    ASSUME OrderInv, Monotone, DrainLimited
    PROVE  CoresCarryData'
<1> PICK u : u = IF writeRem[cur] = 0 THEN Head(writeQueue[cur]).tid ELSE writeId[cur]
  OBVIOUS
<1>1. pc \notin {"outputs", "free"} /\ UNCHANGED <<fsmVars, cur>>
  BY DEF DrainLimited
<1>2. CorePacketsCarryData'
  BY InOrder, SameCorePackets DEF DrainLimited, netVars
<1>3. /\ writeId \in [Core -> Tid] /\ writeRem \in [Core -> Nat]
      /\ writeQueue \in [Core -> Seq(Chunk)]
  BY InOrder DEF CoreTypeOK, WriteTypeOK, ChunkSeqs
<1>4. Available(u) /\ Available(u)'
  <2>1. CASE writeRem[cur] = 0
    BY <2>1, NextChunkCarriesData DEF DrainLimited, Monotone
  <2>2. CASE writeRem[cur] # 0
    BY <1>3, <2>2, InOrder DEF WritesCarryData, Monotone
  <2> QED
    BY <2>1, <2>2
<1>5. WritesCarryData'
  <2>1. \A d \in Core : New(writeQueue', writeQueue, d) = {}
    <3>1. CASE writeRem[cur] = 0
      <4>1. writeQueue' = [writeQueue EXCEPT ![cur] = Tail(@)] /\ writeQueue[cur] # <<>>
        BY <1>3, <3>1, InOrder DEF DrainLimited
      <4> QED
        BY <4>1, NextChunkCarriesData
    <3>2. CASE writeRem[cur] # 0
      BY <3>2 DEF DrainLimited, New
    <3> QED
      BY <3>1, <3>2
  <2>2. /\ writeId'[cur] = u
        /\ \A c \in Core : c # cur =>
             writeId'[c] = writeId[c] /\ writeRem'[c] = writeRem[c]
    BY <1>3, InOrder DEF DrainLimited
  <2>3. writeId'[cur] = u => Available(writeId[cur])' \/ cur' # cur
    BY <1>4
  <2> QED
    BY <1>1, <2>1, <2>2, <2>3, InOrder, WritesKept
<1>6. ReadyMeansProduced' /\ LoadedMeansProduced'
  <2>1. WriteDone(cur, u) \/ UNCHANGED <<pendingLoads, sram>>
    BY DEF DrainLimited
  <2>2. CASE WriteDone(cur, u)
    BY <1>1, <1>4, <2>2, InOrder, WriteDoneReady, WriteDoneLoaded
  <2>3. CASE UNCHANGED <<pendingLoads, sram>>
    BY <1>1, <2>3, InOrder, SameReady, SameLoaded
  <2> QED
    BY <2>1, <2>2, <2>3
<1> QED
  BY <1>2, <1>5, <1>6 DEF CoresCarryData

LEMMA ServeRemoteRequestOrder ==
    ASSUME OrderInv, Monotone, ServeRemoteRequest
    PROVE  CoresCarryData'
<1> PICK p : p = remote[cur][cursor]
  OBVIOUS
<1>1. p \in Packet /\ pc \notin {"outputs", "free"}
  BY InOrder
  DEF ServeRemoteRequest, CoreTypeOK, QueueTypeOK, TickTypeOK, PacketSeqs
<1>2. CorePacketsCarryData'
  <2>1. CASE UNCHANGED injection
    BY <2>1, InOrder, SameCorePackets DEF ServeRemoteRequest
  <2>2. CASE IsReady(sram[cur], p.tid) /\ Push(cur, Response(cur, p))
    <3>1. Available(p.tid)'
      BY <1>1, <2>2, InOrder, ReadyIsAvailable DEF Packet, Monotone
    <3> PICK r : r = Response(cur, p)
      OBVIOUS
    <3>2. DataPacket(r)' /\ MemoryRead(r)'
      BY <3>1 DEF Response, DataPacket, MemoryRead
    <3>3. r \in Packet
      BY <1>1, InOrder, ResponseTyped
    <3>4. \A d \in Core : New(injection', injection, d) \subseteq {r}
      BY <2>2, <3>3, InOrder, PushedIsNew
    <3> QED
      BY <3>2, <3>4, InOrder, CorePacketsKept DEF ServeRemoteRequest, New
  <2> QED
    BY <2>1, <2>2 DEF ServeRemoteRequest
<1>3. WritesCarryData'
  BY InOrder, SameWrites DEF ServeRemoteRequest
<1>4. ReadyMeansProduced'
  BY <1>1, InOrder, ReleaseReady, SameReady DEF ServeRemoteRequest
<1>5. LoadedMeansProduced'
  BY InOrder, SameLoaded DEF ServeRemoteRequest, loadVars
<1> QED
  BY <1>2, <1>3, <1>4, <1>5 DEF CoresCarryData

-----------------------------------------------------------------------------
(* The state machine of a core.                                            *)

LEMMA StartWorkloadOrder ==
    ASSUME OrderInv, Monotone, StartWorkload
    PROVE  CoresCarryData'
<1>1. pc \notin {"outputs", "free"} /\ UNCHANGED <<ir, idx, sram, netVars, retry>>
  BY DEF StartWorkload, BeginCompute
<1>2. CorePacketsCarryData'
  BY <1>1, InOrder, SameCorePackets DEF netVars
<1>3. WritesCarryData'
  <2>1. CASE UNCHANGED writeVars
    BY <2>1, InOrder, SameWrites
  <2>2. CASE ForgetWrites(cur)
    BY <2>2, InOrder, WritesKept
    DEF ForgetWrites, New, CoreTypeOK, WriteTypeOK, ChunkSeqs, ToSet
  <2> QED
    BY <2>1, <2>2 DEF StartWorkload
<1>4. ReadyMeansProduced'
  BY <1>1, InOrder, SameReady
<1>5. LoadedMeansProduced'
  <2>1. /\ state \in [Core -> CoreState] /\ pendingLoads \in [Core -> SUBSET Tid]
        /\ pendingLoads' = [pendingLoads EXCEPT ![cur] = SourceTids(cur)]
        /\ \E s : state' = [state EXCEPT ![cur] = s]
    BY InOrder DEF StartWorkload, BeginCompute, CoreTypeOK, FsmTypeOK, LoadTypeOK
  <2>2. \A c \in Core : SourceTids(c)' = SourceTids(c)
    BY <1>1 DEF SourceTids, Sources, Current
  <2> QED
    BY <1>1, <2>1, <2>2, InOrder, LoadedKept
<1> QED
  BY <1>2, <1>3, <1>4, <1>5 DEF CoresCarryData

(* A source of the workload a core loads, and what it means that the source
   is the DRAM: the transfer is read from no core. *)
LEMMA SourceOfCurrent ==
    ASSUME OrderInv, state[cur] = "LOADING",
           NEW i \in 1 .. Len(Sources(cur))
    PROVE  /\ Sources(cur)[i] \in ToSet(Sources(cur)) /\ Sources(cur)[i] \in Source
           /\ Sources(cur)[i].from = DRAM => ~ReadFromCore(Sources(cur)[i].tid)
<1>1. HasWorkload(cur)
  BY InOrder DEF Control, WorkingHasWorkload
<1>2. Sources(cur) \in Seq(Source)
  BY <1>1, InOrder, CurrentTyped
<1> PICK s : s = Sources(cur)[i]
  OBVIOUS
<1>3. s \in ToSet(Sources(cur)) /\ s \in Source
  BY <1>2, InToSet
<1>4. idx[cur] \in DOMAIN ir[cur]
  BY <1>1, InOrder DEF HasWorkload, CoreTypeOK, FsmTypeOK
<1>5. ASSUME s.from = DRAM, ReadFromCore(s.tid)
      PROVE  FALSE
  <2>1. SourcesAgree(ir)
    BY ProgramAssumption DEF OrderInv
  <2>2. PICK d \in Core : \E j \in DOMAIN ir[d] : \E r \in ToSet(ir[d][j].sources) :
                              r.tid = s.tid /\ CoreSource(r)
    BY <1>5 DEF ReadFromCore
  <2>3. PICK j \in DOMAIN ir[d] : \E r \in ToSet(ir[d][j].sources) :
                                     r.tid = s.tid /\ CoreSource(r)
    BY <2>2
  <2>4. CoreSource(s)
    BY <2>1, <2>3, <1>3, <1>4, InOrder DEF SourcesAgree, Sources, Current
  <2> QED
    BY <1>5, <2>4 DEF CoreSource
<1> QED
  BY <1>3, <1>5

LEMMA FetchSourceOrder ==
    ASSUME OrderInv, Monotone, FetchSource
    PROVE  CoresCarryData'
<1>1. /\ pc \notin {"outputs", "free"} /\ state[cur] = "LOADING"
      /\ UNCHANGED <<fsmVars, sram, retry, writeVars, ejection>>
  BY InOrder DEF FetchSource, Control, PcMatchesState, CoreState
<1>2. cursor \in 1 .. Len(Sources(cur))
  <2>1. Len(Sources(cur)) \in Nat
    BY <1>1, InOrder, CurrentTyped DEF Control, WorkingHasWorkload
  <2> QED
    BY <2>1, InOrder DEF FetchSource, FetchDone, CoreTypeOK, TickTypeOK
<1> PICK s : s = Sources(cur)[cursor]
  OBVIOUS
<1>3. s \in Source /\ (s.from = DRAM => ~ReadFromCore(s.tid))
  BY <1>1, <1>2, SourceOfCurrent
<1>4. CorePacketsCarryData'
  <2> PICK r : r = [type |-> "READ_REQUEST", src |-> cur, dst |-> s.from,
                    tid |-> s.tid, size |-> s.size]
    OBVIOUS
  <2>1. CASE UNCHANGED injection
    BY <1>1, <2>1, InOrder, SameCorePackets
  <2>2. CASE Push(cur, r)
    <3>1. r \in Packet
      <4>1. s.tid \in Tid /\ s.from \in Endpoint /\ s.size \in Nat
        BY <1>3 DEF Source
      <4>2. Endpoint \subseteq Int /\ cur \in Int
        <5>1. cur \in Core
          BY InOrder
        <5> QED
          BY <5>1, CoreConstant DEF Endpoint, DRAM
      <4> QED
        BY <4>1, <4>2 DEF Packet, PacketType
    <3>2. \A d \in Core : New(injection', injection, d) \subseteq {r}
      BY <2>2, <3>1, InOrder, PushedIsNew
    <3>3. DataPacket(r)' /\ (r.dst = DRAM => MemoryRead(r)')
      <4>1. DataPacket(r) /\ (r.dst = DRAM => MemoryRead(r))
        BY <1>3 DEF DataPacket, MemoryRead
      <4> QED
        BY <4>1, MonotoneKeeps
    <3> QED
      BY <1>1, <3>2, <3>3, InOrder, CorePacketsKept DEF New
  <2> QED
    BY <2>1, <2>2 DEF FetchSource
<1>5. WritesCarryData' /\ ReadyMeansProduced'
  BY <1>1, InOrder, SameWrites, SameReady
<1>6. LoadedMeansProduced'
  <2>1. CASE UNCHANGED pendingLoads
    BY <1>1, <2>1, InOrder, SameLoaded
  <2>2. CASE /\ IsReady(sram[cur], s.tid)
             /\ pendingLoads' = [pendingLoads EXCEPT ![cur] = @ \ {s.tid}]
    <3> PICK u : u = s.tid
      OBVIOUS
    <3>1. Available(u)'
      BY <1>1, <1>3, <2>2, InOrder, ReadyIsAvailable DEF Source, Monotone
    <3>2. \A d \in Core : \A t \in pendingLoads[d] \ pendingLoads'[d] : t = u
      BY <2>2, InOrder DEF CoreTypeOK, LoadTypeOK
    <3> QED
      BY <1>1, <3>1, <3>2, InOrder, LoadedKept DEF fsmVars
  <2> QED
    BY <2>1, <2>2 DEF FetchSource
<1> QED
  BY <1>4, <1>5, <1>6 DEF CoresCarryData

(* A core computes: nothing is loaded, and nothing else changes. *)
LEMMA StateStepOrder ==
    ASSUME OrderInv, Monotone, pc \notin {"outputs", "free"},
           UNCHANGED <<idx, loadVars, sram, retry, writeVars, injection, ejection>>,
           NEW c \in Core, NEW s, s # "LOADING",
           state' = [state EXCEPT ![c] = s] \/ UNCHANGED state
    PROVE  CoresCarryData'
<1>1. CorePacketsCarryData' /\ WritesCarryData' /\ ReadyMeansProduced'
  BY InOrder, SameCorePackets, SameWrites, SameReady
<1>2. LoadedMeansProduced'
  <2>1. \A d \in Core : state'[d] = "LOADING" => state[d] = "LOADING"
    BY InOrder DEF CoreTypeOK, FsmTypeOK
  <2> QED
    BY <2>1, InOrder, LoadedKept DEF loadVars
<1> QED
  BY <1>1, <1>2 DEF CoresCarryData

(* Between mark_outputs_available and the end of the workload its outputs are
   being published; then they are produced. *)
LEMMA PublishingKept ==
    ASSUME UNCHANGED <<ir, idx, cur>>, pc' \in {"outputs", "free"},
           NEW c, NEW t, Publishing(c, t)
    PROVE  Publishing(c, t)'
  BY DEF Publishing, Outputs, Current

LEMMA PublishedIsProduced ==
    ASSUME OrderInv, UNCHANGED ir, NEW c, NEW t, Publishing(c, t),
           \/ idx'[cur] = idx[cur] + 1
           \/ idx'[cur] = idx[cur] /\ state'[cur] = "WRITEBACK"
    PROVE  Available(t)'
<1>1. HasWorkload(cur) /\ Outputs(cur) = ir[cur][idx[cur]].outputs
  BY InOrder, OutputTyped DEF Publishing, Outputs, Current
<1> PICK p \in Core, i \in Nat : p = cur /\ i = idx[cur]
  BY InOrder DEF CoreTypeOK, FsmTypeOK
<1>2. i \in DOMAIN ir[p]
  BY <1>1, InOrder DEF HasWorkload, CoreTypeOK, FsmTypeOK
<1>3. D!Finished(p, i)'
  BY DEF D!Finished, PhaseOf
<1>4. \E out \in ToSet(ir'[p][i].outputs) : out.tid = t
  BY <1>1 DEF Publishing
<1>5. D!Produced(p, t)'
  BY <1>2, <1>3, <1>4 DEF D!Produced, D!ToSet, ToSet
<1> QED
  BY <1>5 DEF Available

LEMMA PublishOutputOrder ==
    ASSUME OrderInv, Monotone, PublishOutput
    PROVE  CoresCarryData'
<1> DEFINE out == Outputs(cur)[cursor]
           kept == Allocate(sram[cur], out.tid, out.size, OutputRefs(cur, out))
           s == MarkReady(kept, out.tid)
<1>1. /\ pc' = "outputs" /\ UNCHANGED <<ir, fsmVars, cur>>
      /\ UNCHANGED <<loadVars, retry, writeVars, netVars>>
  BY DEF PublishOutput, NextIteration
<1>2. out \in ToSet(Outputs(cur)) /\ out \in Output
  BY InOrder, OutputTyped, InToSet DEF PublishOutput
<1>3. CorePacketsCarryData' /\ WritesCarryData' /\ LoadedMeansProduced'
  BY <1>1, InOrder, SameCorePackets, SameWrites, SameLoaded DEF netVars, loadVars
<1>4. ReadyMeansProduced'
  <2>1. SramTypeOK(sram[cur]) /\ SramTypeOK(kept)
    BY <1>2, InOrder, OutputRefsTyped, AllocateTyped
    DEF CoreTypeOK, SramsTypeOK, Output
  <2>2. ASSUME NEW t \in Tid, IsReady(s, t)
        PROVE  IsReady(sram[cur], t) \/ t = out.tid
    BY <2>1, <2>2, MarkReadyReadiesOne, AllocateReadiesNone
  <2>3. Publishing(cur, out.tid)
    BY <1>2 DEF Publishing, PublishOutput
  <2>4. \A d \in Core : sram'[d] = IF d = cur THEN s ELSE sram[d]
    BY InOrder DEF PublishOutput, CoreTypeOK, SramsTypeOK
  <2> HIDE DEF out, kept, s
  <2>5. \A c \in Core : \A t \in Tid : Publishing(c, t) => Publishing(c, t)'
    BY <1>1, PublishingKept DEF fsmVars
  <2>6. ASSUME NEW c \in Core, NEW t \in Tid, IsReady(sram'[c], t)
        PROVE  IsReady(sram[c], t) \/ Publishing(c, t)'
    <3>1. CASE c = cur /\ t = out.tid
      BY <2>3, <2>5, <3>1
    <3> QED
      BY <2>2, <2>4, <2>6, <3>1
  <2> QED
    BY <2>5, <2>6, InOrder, ReadyKept
<1> QED
  BY <1>3, <1>4 DEF CoresCarryData

LEMMA FreeInputOrder ==
    ASSUME OrderInv, Monotone, FreeInput \/ EndOutputs
    PROVE  CoresCarryData'
<1>1. /\ pc' \in {"outputs", "free"} /\ UNCHANGED <<ir, fsmVars, cur>>
      /\ UNCHANGED <<loadVars, retry, writeVars, netVars>>
  BY DEF FreeInput, EndOutputs, NextIteration, Goto
<1>2. CorePacketsCarryData' /\ WritesCarryData' /\ LoadedMeansProduced'
  BY <1>1, InOrder, SameCorePackets, SameWrites, SameLoaded DEF netVars, loadVars
<1>3. ReadyMeansProduced'
  <2>1. \A c \in Core : \A t \in Tid : Publishing(c, t) => Publishing(c, t)'
    BY <1>1, PublishingKept DEF fsmVars
  <2>2. CASE UNCHANGED sram
    BY <2>1, <2>2, InOrder, ReadyKept
  <2>3. ASSUME NEW u, sram' = [sram EXCEPT ![cur] = ReleaseRef(@, u)]
        PROVE  ReadyMeansProduced'
    <3>1. \A c \in Core : SramTypeOK(sram[c])
      BY InOrder DEF CoreTypeOK, SramsTypeOK
    <3>2. \A c \in Core : sram'[c] = IF c = cur THEN ReleaseRef(sram[cur], u) ELSE sram[c]
      BY <2>3, InOrder DEF CoreTypeOK, SramsTypeOK
    <3>3. ASSUME NEW c \in Core, NEW t \in Tid, IsReady(sram'[c], t)
          PROVE  IsReady(sram[c], t)
      BY <3>1, <3>2, <3>3, ReleaseRefReadiesNone
    <3> QED
      BY <2>1, <3>3, InOrder, ReadyKept
  <2> QED
    BY <2>2, <2>3 DEF FreeInput, EndOutputs
<1> QED
  BY <1>2, <1>3 DEF CoresCarryData

LEMMA EndWorkloadOrder ==
    ASSUME OrderInv, Monotone, FinishWorkload \/ EnterWriteback
    PROVE  CoresCarryData'
<1>1. /\ pc = "free" /\ UNCHANGED <<ir, sram, loadVars, retry, writeVars, netVars>>
      /\ \/ idx'[cur] = idx[cur] + 1
         \/ idx'[cur] = idx[cur] /\ state'[cur] = "WRITEBACK"
      /\ \A c \in Core : c # cur => state'[c] = state[c] /\ idx'[c] = idx[c]
      /\ state'[cur] # "LOADING"
  BY InOrder DEF FinishWorkload, EnterWriteback, NextWorkload, CoreTypeOK, FsmTypeOK
<1>2. CorePacketsCarryData' /\ WritesCarryData'
  BY <1>1, InOrder, SameCorePackets, SameWrites DEF netVars
<1>3. LoadedMeansProduced'
  BY <1>1, InOrder, LoadedKept DEF loadVars
<1>4. ReadyMeansProduced'
  <2>1. ASSUME NEW c \in Core, NEW t \in Tid, Publishing(c, t)
        PROVE  Available(t)'
    BY <1>1, <2>1, PublishedIsProduced
  <2> QED
    BY <1>1, <2>1, InOrder, ReadyKept
<1> QED
  BY <1>2, <1>3, <1>4 DEF CoresCarryData

LEMMA WritebackCycleOrder ==
    ASSUME OrderInv, Monotone, WritebackCycle
    PROVE  CoresCarryData'
<1>1. /\ pc \notin {"outputs", "free"} /\ state[cur] = "WRITEBACK"
      /\ UNCHANGED <<ir, sram, loadVars, retry, writeVars, ejection>>
      /\ \A c \in Core : c # cur => state'[c] = state[c] /\ idx'[c] = idx[c]
      /\ state'[cur] # "LOADING"
  BY InOrder
  DEF WritebackCycle, NextWorkload, CoreTypeOK, FsmTypeOK, fsmVars, Control,
      PcMatchesState, CoreState
<1>2. CorePacketsCarryData'
  <2>1. CASE UNCHANGED injection
    BY <1>1, <2>1, InOrder, SameCorePackets
  <2>2. CASE SendWrite
    <3> PICK p : p = [type |-> "WRITE_REQUEST", src |-> cur, dst |-> DRAM,
                      tid |-> Head(wbQueue[cur]).tid, size |-> Head(wbQueue[cur]).size]
      OBVIOUS
    <3>1. Push(cur, p)
      BY <2>2 DEF SendWrite
    <3>2. p.type = "WRITE_REQUEST"
      OBVIOUS
    <3>3. p \in Packet
      <4>1. wbQueue[cur] \in Seq(Chunk) /\ wbQueue[cur] # <<>>
        BY <2>2, InOrder DEF SendWrite, CoreTypeOK, WbTypeOK, ChunkSeqs
      <4>2. Head(wbQueue[cur]) \in Chunk
        BY <4>1
      <4>3. cur \in Int /\ DRAM \in Int
        <5>1. cur \in Core
          BY InOrder
        <5> QED
          BY <5>1, CoreConstant DEF DRAM
      <4> QED
        BY <4>2, <4>3 DEF Packet, PacketType, Chunk
    <3>4. \A d \in Core : New(injection', injection, d) \subseteq {p}
      BY <3>1, <3>3, InOrder, PushedIsNew
    <3>5. DataPacket(p)' /\ MemoryRead(p)'
      BY <3>2 DEF DataPacket, MemoryRead
    <3> QED
      BY <1>1, <3>4, <3>5, InOrder, CorePacketsKept DEF New
  <2> QED
    BY <2>1, <2>2 DEF WritebackCycle, NothingToWrite, ReadOut
<1>3. WritesCarryData' /\ ReadyMeansProduced'
  BY <1>1, InOrder, SameWrites, SameReady
<1>4. LoadedMeansProduced'
  BY <1>1, InOrder, LoadedKept DEF loadVars
<1> QED
  BY <1>2, <1>3, <1>4 DEF CoresCarryData

LEMMA CoreTickOrder ==
    ASSUME OrderInv, Monotone, CoreTick
    PROVE  CoresCarryData'
<1>1. CASE \/ ReceiveReadResponse \/ ReceiveReadRequest \/ ReceiveWriteResponse
           \/ RetryAllocation \/ DrainUnlimited \/ DrainLimited
           \/ ServeRemoteRequest
  BY <1>1, ReceiveReadResponseOrder, ReceiveReadRequestOrder,
     ReceiveWriteResponseOrder, RetryAllocationOrder, DrainUnlimitedOrder,
     DrainLimitedOrder, ServeRemoteRequestOrder
<1>2. CASE \/ StartWorkload \/ FetchSource \/ PublishOutput \/ FreeInput
           \/ EndOutputs \/ FinishWorkload \/ EnterWriteback \/ WritebackCycle
  BY <1>2, StartWorkloadOrder, FetchSourceOrder, PublishOutputOrder,
     FreeInputOrder, EndWorkloadOrder, WritebackCycleOrder
<1>3. CASE RetireCore \/ EndFetch
  BY <1>3, InOrder, StateStepOrder
  DEF RetireCore, EndFetch, BeginCompute, fsmVars, netVars
<1>4. CASE \/ EndIncoming \/ EndRetry \/ EndDrain \/ EndServe \/ ComputeCycle
           \/ QueueWriteback \/ EndQueue \/ IdleTick
  <2>1. /\ pc \notin {"outputs", "free"}
        /\ UNCHANGED <<state, idx, loadVars, sram, retry, writeVars, netVars>>
    BY <1>4
    DEF EndIncoming, EndRetry, EndDrain, EndServe, ComputeCycle, QueueWriteback,
        EndQueue, IdleTick, fsmVars
  <2> QED
    BY <2>1, InOrder, StateStepOrder DEF netVars
<1> QED
  BY <1>1, <1>2, <1>3, <1>4 DEF CoreTick

-----------------------------------------------------------------------------
(* The transport.                                                          *)

LEMMA InTransport ==
    ASSUME OrderInv
    PROVE  /\ TransportTypeOK /\ noc \in Seq(InFlight) /\ dram \in Seq(InFlight)
           /\ dramReplies \in Seq(Packet)
           /\ injection \in [Core -> Seq(Packet)] /\ ejection \in [Core -> Seq(Packet)]
  BY InOrder
  DEF OrderInv, TypeInv, TypeOK, TransportTypeOK, CoreTypeOK, QueueTypeOK, PacketSeqs

LEMMA QuietOrder ==
    ASSUME OrderInv, Monotone, QuietCores, pc \notin {"outputs", "free"},
           CorePacketsCarryData'
    PROVE  CoresCarryData'
<1>1. WritesCarryData' /\ ReadyMeansProduced' /\ LoadedMeansProduced'
  BY InOrder, SameWrites, SameReady, SameLoaded DEF QuietCores, loadVars
<1> QED
  BY <1>1 DEF CoresCarryData

LEMMA OnTheNoc ==
    ASSUME OrderInv, NEW q \in Packet, NocInject(q)
    PROVE  \A f \in ToSet(noc') : f \in ToSet(noc) \/ f.pkt = q
<1>1. PICK latency \in NocLatency : noc' = Append(noc, [pkt |-> q, ttl |-> latency])
  BY DEF NocInject
<1>2. [pkt |-> q, ttl |-> latency] \in InFlight
  BY SimulatorAssumption DEF InFlight
<1>3. ToSet(noc') = ToSet(noc) \cup {[pkt |-> q, ttl |-> latency]}
  BY <1>1, <1>2, InTransport, AppendQueue
<1> QED
  BY <1>3

LEMMA InTheDram ==
    ASSUME OrderInv, NEW p \in Packet, DramSend(p)
    PROVE  \A f \in ToSet(dram') : f \in ToSet(dram) \/ f.pkt = Reply(p)
<1>1. PICK latency \in DramLatency :
        dram' = Append(dram, [pkt |-> Reply(p), ttl |-> latency])
  BY DEF DramSend
<1>2. [pkt |-> Reply(p), ttl |-> latency] \in InFlight
  BY SimulatorAssumption, ReplyTyped DEF InFlight
<1>3. ToSet(dram') = ToSet(dram) \cup {[pkt |-> Reply(p), ttl |-> latency]}
  BY <1>1, <1>2, InTransport, AppendQueue
<1> QED
  BY <1>3

(* The memory answers a read with its own data, which always exists. *)
LEMMA ReplyCarriesData ==
    ASSUME NEW p \in Packet, MemoryRead(p)
    PROVE  DataPacket(Reply(p)) /\ ~IsRequest(Reply(p))
<1>1. /\ Reply(p).tid = p.tid
      /\ Reply(p).type = IF p.type = "READ_REQUEST" THEN "READ_RESPONSE"
                                                    ELSE "WRITE_RESPONSE"
  BY DEF Reply, Packet
<1> QED
  BY <1>1 DEF DataPacket, MemoryRead, IsRequest, Available

(* On the NoC a packet keeps its transfer, and only what a core addressed to
   the DRAM is routed to a memory node. *)
LEMMA RoutedCarriesData ==
    ASSUME NEW p \in Packet, DataPacket(p), p.dst = DRAM => MemoryRead(p),
           NEW q \in Routed(p)
    PROVE  DataPacket(q) /\ (q.dst \in ToSet(MemoryNodes) => MemoryRead(q))
<1>1. CASE ~OnNoc
  <2>1. ToSet(MemoryNodes) = {}
    BY <1>1 DEF OnNoc, ToSet
  <2> QED
    BY <1>1, <2>1 DEF Routed
<1>2. CASE OnNoc
  <2>1. PICK node \in IF p.dst = DRAM THEN ToSet(MemoryNodes)
                                      ELSE {CoreToNoc(p.dst)} :
          q = [p EXCEPT !.src = CoreToNoc(p.src), !.dst = node]
    BY <1>2 DEF Routed
  <2>2. q.type = p.type /\ q.tid = p.tid /\ q.dst = node
    BY <2>1 DEF Packet
  <2>3. CoreToNoc(p.dst) \notin ToSet(MemoryNodes)
    <3>1. ToSet(MemoryNodes) \subseteq Nat
      BY SimulatorAssumption, InToSet
    <3> QED
      BY <3>1, SimulatorAssumption DEF CoreToNoc
  <2> QED
    BY <2>1, <2>2, <2>3 DEF DataPacket, MemoryRead
<1> QED
  BY <1>1, <1>2

LEMMA CollectPacketOrder ==
    ASSUME OrderInv, Monotone, NEW c \in Core, CollectPacket(c)
    PROVE  DataComesFromProducers'
<1> PICK p : p = Head(injection[c])
  OBVIOUS
<1>1. /\ p \in Packet /\ p \in ToSet(injection[c])
      /\ \A d \in Core : New(injection', injection, d) = {}
  <2>1. injection[c] \in Seq(Packet) /\ injection[c] # <<>>
    BY InTransport DEF CollectPacket
  <2> DEFINE rest == Tail(injection[c])
  <2>2. /\ p \in Packet /\ p \in ToSet(injection[c])
        /\ rest \in Seq(Packet) /\ ToSet(rest) \subseteq ToSet(injection[c])
    BY <2>1, HeadTailQueue
  <2>3. injection' = [injection EXCEPT ![c] = rest]
    BY DEF CollectPacket
  <2> HIDE DEF rest
  <2>4. \A d \in Core : New(injection', injection, d) = {}
    BY <2>2, <2>3, InTransport, NothingNew
  <2> QED
    BY <2>2, <2>4
<1>2. DataPacket(p) /\ (p.dst = DRAM => MemoryRead(p))
  BY <1>1, InOrder DEF CorePacketsCarryData
<1>3. CoresCarryData'
  <2>1. CorePacketsCarryData'
    BY <1>1, InOrder, CorePacketsKept DEF CollectPacket, QuietCores, New
  <2> QED
    BY <2>1, QuietOrder DEF CollectPacket
<1>4. TransportCarriesData'
  <2>1. CASE p.dst = DRAM /\ ~OnNoc
    <3> PICK r : r = Reply(p)
      OBVIOUS
    <3>1. DataPacket(r)' /\ ~IsRequest(r)
      BY <1>1, <1>2, <2>1, ReplyCarriesData, MonotoneKeeps
    <3>2. /\ \A f \in ToSet(dram') : f \in ToSet(dram) \/ f.pkt = r
          /\ UNCHANGED <<noc, dramReplies>>
      BY <1>1, <2>1, InTheDram DEF CollectPacket
    <3>3. \A f \in ToSet(dram') :
            f \in ToSet(dram) \/ (DataPacket(f.pkt)' /\ ~IsRequest(f.pkt))
      BY <3>1, <3>2
    <3> QED
      BY <3>2, <3>3, InOrder, TransportKept
  <2>2. CASE ~(p.dst = DRAM /\ ~OnNoc)
    <3>1. PICK q \in Routed(p) : NocInject(q)
      BY <2>2 DEF CollectPacket
    <3>2. DataPacket(q)' /\ (q.dst \in ToSet(MemoryNodes) => MemoryRead(q)')
      BY <1>1, <1>2, RoutedCarriesData, MonotoneKeeps
    <3>3. /\ \A f \in ToSet(noc') : f \in ToSet(noc) \/ f.pkt = q
          /\ UNCHANGED <<dram, dramReplies>>
      BY <1>1, <2>2, <3>1, RoutedTyped, OnTheNoc DEF CollectPacket
    <3> QED
      BY <3>2, <3>3, InOrder, TransportKept
  <2> QED
    BY <2>1, <2>2
<1> QED
  BY <1>3, <1>4 DEF DataComesFromProducers

LEMMA InjectDramResponseOrder ==
    ASSUME OrderInv, Monotone, InjectDramResponse
    PROVE  DataComesFromProducers'
<1> PICK p : p = Head(dramReplies)
  OBVIOUS
<1>1. /\ p \in Packet /\ p \in ToSet(dramReplies)
      /\ ToSet(dramReplies') \subseteq ToSet(dramReplies)
  BY InTransport, HeadTailQueue DEF InjectDramResponse
<1>2. DataPacket(p)' /\ MemoryRead(p)'
  <2>1. DataPacket(p) /\ ~IsRequest(p)
    BY <1>1, InOrder DEF TransportCarriesData
  <2> QED
    BY <2>1, MonotoneKeeps DEF IsRequest, MemoryRead
<1>3. CoresCarryData'
  BY InOrder, QuietOrder, SameCorePackets DEF InjectDramResponse, netVars, QuietCores
<1>4. TransportCarriesData'
  <2>1. /\ \A f \in ToSet(noc') : f \in ToSet(noc) \/ f.pkt = p
        /\ UNCHANGED dram
    BY <1>1, OnTheNoc DEF InjectDramResponse
  <2> QED
    BY <1>1, <1>2, <2>1, InOrder, TransportKept
<1> QED
  BY <1>3, <1>4 DEF DataComesFromProducers

LEMMA AdvanceOrder ==
    ASSUME OrderInv, Monotone, Advance
    PROVE  DataComesFromProducers'
<1>1. ASSUME NEW q \in Seq(InFlight), NEW f \in ToSet(OneCycle(q))
      PROVE  \E g \in ToSet(q) : f.pkt = g.pkt
  <2>1. PICK i \in 1 .. Len(q) : f = OneCycle(q)[i]
    BY <1>1, OneCycleTyped, InToSet
  <2>2. f.pkt = q[i].pkt /\ q[i] \in ToSet(q)
    BY <2>1, OneCycleTyped, InToSet
  <2> QED
    BY <2>2
<1>2. CoresCarryData'
  BY InOrder, QuietOrder, SameCorePackets DEF Advance, netVars, QuietCores
<1>3. TransportCarriesData'
  <2>1. ASSUME NEW f \in ToSet(noc')
        PROVE  /\ DataPacket(f.pkt)'
               /\ f.pkt.dst \in ToSet(MemoryNodes) => MemoryRead(f.pkt)'
    <3>1. PICK g \in ToSet(noc) : f.pkt = g.pkt
      BY <1>1, <2>1, InTransport DEF Advance
    <3> QED
      BY <3>1, InOrder, MonotoneKeeps DEF TransportCarriesData
  <2>2. ASSUME NEW f \in ToSet(dram')
        PROVE  DataPacket(f.pkt)' /\ ~IsRequest(f.pkt)
    <3>1. PICK g \in ToSet(dram) : f.pkt = g.pkt
      BY <1>1, <2>2, InTransport DEF Advance
    <3> QED
      BY <3>1, InOrder, MonotoneKeeps DEF TransportCarriesData
  <2> QED
    BY <2>1, <2>2, InOrder, TransportKept DEF Advance
<1> QED
  BY <1>2, <1>3 DEF DataComesFromProducers

(* A packet that arrives is one that was in flight; the rest stays. *)
LEMMA LeftInFlight ==
    ASSUME NEW q \in Seq(InFlight), NEW i \in 1 .. Len(q)
    PROVE  /\ q[i] \in ToSet(q) /\ q[i].pkt \in Packet
           /\ ToSet(RemoveAt(q, i)) \subseteq ToSet(q)
  BY InToSet, RemoveAtQueue, InFlightTyped

LEMMA ReceiveOrder ==
    ASSUME OrderInv, Monotone, NEW c, NEW p \in Packet, Receive(c, p),
           DataPacket(p), UNCHANGED <<injection, retry>>
    PROVE  CorePacketsCarryData'
<1>1. \A d \in Core : New(ejection', ejection, d) \subseteq {p}
  <2>1. CASE c \in Core
    BY <2>1, InTransport, OneNew DEF Receive
  <2>2. CASE c \notin Core
    BY <2>2, InTransport DEF Receive, New
  <2> QED
    BY <2>1, <2>2
<1> QED
  BY <1>1, InOrder, MonotoneKeeps, CorePacketsKept DEF New

LEMMA DeliverToCoreOrder ==
    ASSUME OrderInv, Monotone, NEW c \in Core, DeliverToCore(c)
    PROVE  DataComesFromProducers'
<1> PICK i : i = Min(DueAt(NodeId(c)))
  OBVIOUS
<1>1. i \in 1 .. Len(noc)
  BY InTransport, DueTyped DEF DeliverToCore
<1>2. Receive(c, noc[i].pkt) /\ noc' = RemoveAt(noc, i)
  BY DEF DeliverToCore
<1> PICK p : p = noc[i].pkt
  OBVIOUS
<1>3. p \in Packet /\ DataPacket(p)
  BY <1>1, InTransport, InOrder, LeftInFlight DEF TransportCarriesData
<1>4. CoresCarryData'
  BY <1>2, <1>3, ReceiveOrder, QuietOrder DEF DeliverToCore, QuietCores
<1>5. TransportCarriesData'
  BY <1>1, <1>2, InTransport, InOrder, LeftInFlight, TransportKept DEF DeliverToCore
<1> QED
  BY <1>4, <1>5 DEF DataComesFromProducers

LEMMA ForwardToDramOrder ==
    ASSUME OrderInv, Monotone, NEW m \in DOMAIN MemoryNodes, ForwardToDram(m)
    PROVE  DataComesFromProducers'
<1> PICK i : i = Min(DueAt(MemoryNodes[m]))
  OBVIOUS
<1>1. i \in 1 .. Len(noc) /\ i \in DueAt(MemoryNodes[m])
  BY InTransport, DueTyped DEF ForwardToDram
<1>2. DramSend(noc[i].pkt) /\ noc' = RemoveAt(noc, i)
  BY DEF ForwardToDram
<1> PICK p, r : p = noc[i].pkt /\ r = Reply(p)
  OBVIOUS
<1>3. p \in Packet /\ MemoryRead(p)
  <2>1. p.dst \in ToSet(MemoryNodes)
    BY <1>1 DEF DueAt, ToSet
  <2> QED
    BY <1>1, <2>1, InTransport, InOrder, LeftInFlight DEF TransportCarriesData
<1>4. DataPacket(r)' /\ ~IsRequest(r)
  BY <1>3, ReplyCarriesData, MonotoneKeeps
<1>5. CoresCarryData'
  BY InOrder, QuietOrder, SameCorePackets DEF ForwardToDram, netVars, QuietCores
<1>6. TransportCarriesData'
  <2>1. \A f \in ToSet(dram') : f \in ToSet(dram) \/ f.pkt = r
    BY <1>2, <1>3, InTheDram
  <2>2. ToSet(noc') \subseteq ToSet(noc) /\ UNCHANGED dramReplies
    BY <1>1, <1>2, InTransport, LeftInFlight DEF ForwardToDram
  <2> QED
    BY <1>4, <2>1, <2>2, InOrder, TransportKept
<1> QED
  BY <1>5, <1>6 DEF DataComesFromProducers

LEMMA DeliverDramResponseOrder ==
    ASSUME OrderInv, Monotone, DeliverDramResponse
    PROVE  DataComesFromProducers'
<1> PICK i : i = Min(DueResponses)
  OBVIOUS
<1> PICK p : p = dram[i].pkt
  OBVIOUS
<1>1. i \in 1 .. Len(dram)
  BY InTransport, DueTyped DEF DeliverDramResponse
<1>2. p \in Packet /\ DataPacket(p) /\ ~IsRequest(p)
  BY <1>1, InTransport, InOrder, LeftInFlight DEF TransportCarriesData
<1>3. CASE OnNoc
  <2>1. /\ dramReplies' = Append(dramReplies, p) /\ UNCHANGED ejection
        /\ dram' = RemoveAt(dram, i) /\ UNCHANGED <<noc, injection>>
    BY <1>3 DEF DeliverDramResponse
  <2>2. ToSet(dramReplies') = ToSet(dramReplies) \cup {p}
    BY <1>2, <2>1, InTransport, AppendQueue
  <2>3. ToSet(dram') \subseteq ToSet(dram)
    BY <1>1, <2>1, InTransport, LeftInFlight
  <2>4. TransportCarriesData'
    BY <1>2, <2>1, <2>2, <2>3, InOrder, MonotoneKeeps, TransportKept
  <2>5. CoresCarryData'
    BY <2>1, InOrder, QuietOrder, SameCorePackets DEF DeliverDramResponse, QuietCores
  <2> QED
    BY <2>4, <2>5 DEF DataComesFromProducers
<1>4. CASE ~OnNoc
  <2>1. /\ Receive(p.dst, p) /\ UNCHANGED <<noc, dramReplies, injection>>
        /\ dram' = RemoveAt(dram, i)
    BY <1>4 DEF DeliverDramResponse
  <2>2. ToSet(dram') \subseteq ToSet(dram)
    BY <1>1, <2>1, InTransport, LeftInFlight
  <2>3. TransportCarriesData'
    BY <2>1, <2>2, InOrder, TransportKept
  <2>4. CoresCarryData'
    BY <1>2, <2>1, ReceiveOrder, QuietOrder DEF DeliverDramResponse, QuietCores
  <2> QED
    BY <2>3, <2>4 DEF DataComesFromProducers
<1> QED
  BY <1>3, <1>4

(* The steps that only go on to another phase. *)
LEMMA PhaseOrder ==
    ASSUME OrderInv, Monotone, QuietCores, UNCHANGED <<netVars, transportVars>>,
           pc \notin {"outputs", "free"}
    PROVE  DataComesFromProducers'
<1>1. CoresCarryData'
  BY InOrder, QuietOrder, SameCorePackets DEF netVars, QuietCores
<1>2. TransportCarriesData'
  BY InOrder, SameTransport
<1> QED
  BY <1>1, <1>2 DEF DataComesFromProducers

-----------------------------------------------------------------------------
(* The watchdog: it throws data away and lets cores go on, and makes none.  *)

LEMMA EmptyQueueNothingNew ==
    ASSUME NEW T, NEW q \in [Core -> Seq(T)], NEW c \in Core, NEW d \in Core
    PROVE  New([q EXCEPT ![c] = <<>>], q, d) = {}
<1>1. ToSet(<<>>) = {}
  BY DEF ToSet
<1> QED
  BY <1>1 DEF New

LEMMA ForceAdvanceLoadingOrder ==
    ASSUME OrderInv, Monotone, NEW c \in Core, ForceAdvanceLoading(c),
           pc = "resolve", UNCHANGED transportVars
    PROVE  DataComesFromProducers'
<1>1. CorePacketsCarryData'
  <2>1. retry \in [Core -> Seq(Packet)]
    BY InOrder DEF CoreTypeOK, QueueTypeOK, PacketSeqs
  <2>2. \A d \in Core : New(retry', retry, d) = {}
    BY <2>1, EmptyQueueNothingNew DEF ForceAdvanceLoading
  <2> QED
    BY <2>2, InOrder, CorePacketsKept DEF ForceAdvanceLoading, netVars, New
<1>2. WritesCarryData'
  <2>1. writeQueue \in [Core -> Seq(Chunk)] /\ writeRem \in [Core -> Nat]
    BY InOrder DEF CoreTypeOK, WriteTypeOK, ChunkSeqs
  <2>2. \A d \in Core : New(writeQueue', writeQueue, d) = {}
    BY <2>1, EmptyQueueNothingNew DEF ForceAdvanceLoading, ForgetWrites
  <2>3. \A d \in Core : writeRem'[d] > 0 =>
          writeRem[d] > 0 /\ writeId'[d] = writeId[d]
    BY <2>1 DEF ForceAdvanceLoading, ForgetWrites
  <2> QED
    BY <2>2, <2>3, InOrder, WritesKept
<1>3. ReadyMeansProduced'
  BY InOrder, SameReady DEF ForceAdvanceLoading
<1>4. LoadedMeansProduced'
  <2>1. \A d \in Core : state'[d] = "LOADING" =>
          /\ state[d] = "LOADING" /\ idx'[d] = idx[d]
          /\ pendingLoads'[d] = pendingLoads[d]
    BY InOrder
    DEF ForceAdvanceLoading, BeginCompute, CoreTypeOK, FsmTypeOK, LoadTypeOK
  <2> QED
    BY <2>1, InOrder, LoadedKept
<1> QED
  BY <1>1, <1>2, <1>3, <1>4, InOrder, SameTransport
  DEF DataComesFromProducers, CoresCarryData

LEMMA ForceCompleteWritebackOrder ==
    ASSUME OrderInv, Monotone, NEW c \in Core, ForceCompleteWriteback(c),
           pc = "resolve", UNCHANGED transportVars
    PROVE  DataComesFromProducers'
<1>1. CorePacketsCarryData' /\ WritesCarryData' /\ ReadyMeansProduced'
  BY InOrder, SameCorePackets, SameWrites, SameReady
  DEF ForceCompleteWriteback, netVars
<1>2. LoadedMeansProduced'
  <2>1. \A d \in Core : state'[d] = "LOADING" =>
          /\ state[d] = "LOADING" /\ idx'[d] = idx[d]
          /\ pendingLoads'[d] = pendingLoads[d]
    BY InOrder
    DEF ForceCompleteWriteback, NextWorkload, CoreTypeOK, FsmTypeOK, loadVars
  <2> QED
    BY <2>1, InOrder, LoadedKept
<1> QED
  BY <1>1, <1>2, InOrder, SameTransport DEF DataComesFromProducers, CoresCarryData

LEMMA WatchdogOrder ==
    ASSUME OrderInv, Monotone, Watchdog
    PROVE  DataComesFromProducers'
<1>1. ASSUME NEW S \in SUBSET Core, BreakCycle(S)
      PROVE  DataComesFromProducers'
  BY <1>1, VictimIsCore, ForceAdvanceLoadingOrder DEF BreakCycle, IsCycle, Resolved
<1>2. CASE RelievePressure
  BY <1>2, VictimIsCore, ForceAdvanceLoadingOrder
  DEF RelievePressure, Pressured, Resolved
<1>3. CASE AbandonWriteback
  BY <1>3, VictimIsCore, ForceCompleteWritebackOrder
  DEF AbandonWriteback, Writing, Resolved
<1>4. CASE GiveUp
  BY <1>4, PhaseOrder DEF GiveUp
<1> QED
  BY <1>1, <1>2, <1>3, <1>4 DEF Watchdog

-----------------------------------------------------------------------------
(* The invariant.                                                          *)

LEMMA NextOrder ==
    ASSUME OrderInv, [Next]_vars
    PROVE  OrderInv'
<1>1. TypeInv' /\ Monotone
  BY InOrder, NextTyped, NextMonotone
<1>2. ir' \in Programs
  BY <1>1 DEF OrderInv, Monotone
<1> SUFFICES DataComesFromProducers'
  BY <1>1, <1>2 DEF OrderInv
<1>3. CASE UNCHANGED vars
  BY <1>1, <1>3, InOrder, SameCorePackets, SameWrites, SameTransport, SameLoaded,
     ReadyKept
  DEF vars, coreVars, loadVars, netVars, fsmVars, Publishing, Outputs, Current,
      DataComesFromProducers, CoresCarryData
<1>4. CASE CoreTick /\ UNCHANGED <<transportVars, watchVars>>
  BY <1>1, <1>4, InOrder, CoreTickOrder, SameTransport DEF DataComesFromProducers
<1>5. CASE EndCollect \/ EndReply \/ EndDeliver \/ EndForward \/ EndRespond
  BY <1>1, <1>5, PhaseOrder
  DEF EndCollect, EndReply, EndDeliver, EndForward, EndRespond
<1>6. CASE Tick
  BY <1>1, <1>4, <1>5, <1>6, CollectPacketOrder, DeliverToCoreOrder, AdvanceOrder,
     InjectDramResponseOrder, ForwardToDramOrder, DeliverDramResponseOrder
  DEF Tick
<1>7. CASE NextCycle \/ CheckProgress
  BY <1>1, <1>7, PhaseOrder DEF NextCycle, CheckProgress
<1>8. CASE Watchdog
  BY <1>1, <1>8, WatchdogOrder
<1> QED
  BY <1>3, <1>6, <1>7, <1>8 DEF Next, Halted

LEMMA InitOrder ==
    ASSUME Init
    PROVE  OrderInv
<1>1. ToSet(<<>>) = {}
  BY DEF ToSet
<1>2. CorePacketsCarryData /\ WritesCarryData /\ TransportCarriesData
  BY <1>1
  DEF Init, CoreInit, CorePacketsCarryData, WritesCarryData, TransportCarriesData
<1>3. ReadyMeansProduced /\ LoadedMeansProduced
  BY DEF Init, CoreInit, ReadyMeansProduced, LoadedMeansProduced, IsReady,
         HasData, EmptySram
<1> QED
  BY <1>2, <1>3, InitTyped DEF Init, OrderInv, DataComesFromProducers, CoresCarryData

(* Data that a core computes is in no packet, no write and no other core's
   memory before a workload that outputs it has been computed, whatever the
   watchdog does: every READ_RESPONSE is about data that exists. *)
THEOREM DataExists == Spec => []DataComesFromProducers
<1>1. Init => OrderInv
  BY InitOrder
<1>2. OrderInv /\ [Next]_vars => OrderInv'
  BY NextOrder
<1>3. OrderInv => DataComesFromProducers
  BY DEF OrderInv
<1> QED
  BY <1>1, <1>2, <1>3, PTL DEF Spec

-----------------------------------------------------------------------------
(* Steps of Dataflow                                                       *)

(* What Dataflow sees of a step of one core. *)
LEMMA MoveOfCore ==
    ASSUME TypeInv, UNCHANGED ir, NEW c \in Core, NEW s,
           state' = [state EXCEPT ![c] = s]
    PROVE  D!Move(c, PhaseOf(state[c]), PhaseOf(s))
  BY DEF D!Move, TypeInv, TypeOK, CoreTypeOK, FsmTypeOK

(* Loading is a kind of waiting: Dataflow does not see it. *)
LEMMA PhaseUnseen ==
    ASSUME TypeInv, UNCHANGED <<ir, idx>>,
           \A c \in Core : PhaseOf(state'[c]) = PhaseOf(state[c])
    PROVE  UNCHANGED D!vars
  BY DEF D!vars

LEMMA NothingSeen ==
    ASSUME UNCHANGED <<ir, idx, state>>
    PROVE  UNCHANGED D!vars
  BY DEF D!vars

LEMMA WorkloadSeen ==
    ASSUME TypeInv, NEW c \in Core
    PROVE  /\ D!HasNext(c) <=> HasWorkload(c)
           /\ D!InputsProduced(c) <=>
                \A s \in ToSet(Sources(c)) : CoreSource(s) => D!Produced(s.from, s.tid)
           /\ D!WritesBack(c) <=> \E out \in ToSet(Outputs(c)) : ToDram(out)
  BY DEF D!HasNext, HasWorkload, D!InputsProduced, D!Now, D!WritesBack, D!ToSet,
         ToSet, Sources, Outputs, Current, CoreSource, ToDram

(* What a workload reads from a core is produced by the core its source names
   as soon as it is available at all: nobody else outputs it. *)
LEMMA AvailableInput ==
    ASSUME OrderInv, NEW c \in Core, HasWorkload(c), NEW s \in ToSet(Sources(c)),
           CoreSource(s), Available(s.tid)
    PROVE  D!Produced(s.from, s.tid)
<1>1. idx[c] \in DOMAIN ir[c] /\ s \in ToSet(ir[c][idx[c]].sources)
  BY InOrder DEF HasWorkload, CoreTypeOK, FsmTypeOK, Sources, Current
<1>2. ReadFromCore(s.tid)
  BY <1>1 DEF ReadFromCore
<1>3. PICK p \in Core : D!Produced(p, s.tid)
  BY <1>2 DEF Available
<1>4. PICK i \in DOMAIN ir[p] : \E out \in ToSet(ir[p][i].outputs) : out.tid = s.tid
  BY <1>3 DEF D!Produced, D!ToSet, ToSet
<1>5. SourcesAgree(ir)
  BY ProgramAssumption DEF OrderInv
<1>6. s.from = p
  BY <1>1, <1>4, <1>5 DEF SourcesAgree
<1> QED
  BY <1>3, <1>6

LEMMA StartsInOrder ==
    ASSUME OrderInv, NEW c \in Core, HasWorkload(c), BeginCompute(c), UNCHANGED ir,
           state[c] \in {"IDLE", "LOADING"},
           \A s \in ToSet(Sources(c)) : Available(s.tid)
    PROVE  D!Start(c)
<1>1. D!InputsProduced(c) /\ D!HasNext(c)
  BY InOrder, AvailableInput, WorkloadSeen
<1>2. D!Move(c, "waiting", "running")
  <2>1. D!Move(c, PhaseOf(state[c]), PhaseOf("COMPUTING"))
    BY InOrder, MoveOfCore DEF BeginCompute
  <2> QED
    BY <2>1 DEF PhaseOf
<1> QED
  BY <1>1, <1>2 DEF D!Start, BeginCompute

LEMMA NextWorkloadSeen ==
    ASSUME TypeInv, NEW c \in Core, NextWorkload(c), UNCHANGED ir
    PROVE  /\ D!Move(c, PhaseOf(state[c]), "waiting")
           /\ idx' = [idx EXCEPT ![c] = @ + 1]
<1>1. D!Move(c, PhaseOf(state[c]), PhaseOf("IDLE"))
  BY MoveOfCore DEF NextWorkload
<1> QED
  BY <1>1 DEF NextWorkload, PhaseOf

LEMMA CoreTickInOrder ==
    ASSUME OrderInv, CoreTick
    PROVE  D!Next \/ UNCHANGED D!vars
<1>1. CASE RetireCore
  <2>1. state[cur] = "IDLE"
    BY <1>1, InOrder DEF RetireCore, Control, PcMatchesState, CoreState
  <2>2. D!Move(cur, PhaseOf("IDLE"), PhaseOf("DONE"))
    BY <1>1, <2>1, InOrder, MoveOfCore DEF RetireCore
  <2>3. D!Retire(cur)
    BY <1>1, <2>2, InOrder, WorkloadSeen DEF RetireCore, D!Retire, PhaseOf
  <2> QED
    BY <2>3, InOrder DEF D!Next
<1>2. CASE StartWorkload
  <2>1. state[cur] = "IDLE" /\ HasWorkload(cur) /\ UNCHANGED ir
    BY <1>2, InOrder DEF StartWorkload, Control, PcMatchesState, CoreState
  <2>2. CASE SourceTids(cur) = {}
    <3>1. ToSet(Sources(cur)) = {}
      BY <2>2 DEF SourceTids
    <3>2. D!Start(cur)
      BY <1>2, <2>1, <2>2, <3>1, InOrder, StartsInOrder DEF StartWorkload
    <3> QED
      BY <3>2, InOrder DEF D!Next
  <2>3. CASE SourceTids(cur) # {}
    <3>1. /\ state' = [state EXCEPT ![cur] = "LOADING"] /\ UNCHANGED <<ir, idx>>
          /\ state \in [Core -> CoreState]
      BY <1>2, <2>3, InOrder DEF StartWorkload, CoreTypeOK, FsmTypeOK
    <3>2. \A c \in Core : PhaseOf(state'[c]) = PhaseOf(state[c])
      BY <2>1, <3>1 DEF PhaseOf
    <3> QED
      BY <3>1, <3>2, InOrder, PhaseUnseen
  <2> QED
    BY <2>2, <2>3
<1>3. CASE EndFetch
  <2>1. state[cur] = "LOADING" /\ HasWorkload(cur) /\ UNCHANGED ir
    BY <1>3, InOrder
    DEF EndFetch, Control, PcMatchesState, WorkingHasWorkload, CoreState
  <2>2. CASE pendingLoads[cur] = {}
    <3>1. \A s \in ToSet(Sources(cur)) : Available(s.tid)
      BY <2>1, <2>2, InOrder DEF LoadedMeansProduced
    <3>2. D!Start(cur)
      BY <1>3, <2>1, <2>2, <3>1, InOrder, StartsInOrder DEF EndFetch
    <3> QED
      BY <3>2, InOrder DEF D!Next
  <2>3. CASE pendingLoads[cur] # {}
    BY <1>3, <2>3, NothingSeen DEF EndFetch, fsmVars
  <2> QED
    BY <2>2, <2>3
<1>4. CASE FinishWorkload
  <2>1. state[cur] = "COMPUTING" /\ ~D!WritesBack(cur) /\ UNCHANGED ir
    BY <1>4, InOrder, WorkloadSeen DEF FinishWorkload, Control, PcMatchesState
  <2>2. /\ D!Move(cur, "running", "waiting")
        /\ idx' = [idx EXCEPT ![cur] = @ + 1]
    BY <1>4, <2>1, InOrder, NextWorkloadSeen DEF FinishWorkload, PhaseOf
  <2>3. D!Finish(cur)
    BY <2>1, <2>2 DEF D!Finish, D!Move
  <2> QED
    BY <2>3, InOrder DEF D!Next
<1>5. CASE EnterWriteback
  <2>1. state[cur] = "COMPUTING" /\ D!WritesBack(cur) /\ UNCHANGED <<ir, idx>>
    BY <1>5, InOrder, WorkloadSeen DEF EnterWriteback, Control, PcMatchesState
  <2>2. D!Move(cur, PhaseOf("COMPUTING"), PhaseOf("WRITEBACK"))
    BY <1>5, <2>1, InOrder, MoveOfCore DEF EnterWriteback
  <2>3. D!Finish(cur)
    BY <2>1, <2>2 DEF D!Finish, D!Move, PhaseOf
  <2> QED
    BY <2>3, InOrder DEF D!Next
<1>6. CASE WritebackCycle
  <2>1. state[cur] = "WRITEBACK" /\ UNCHANGED ir
    BY <1>6, InOrder DEF WritebackCycle, Control, PcMatchesState, CoreState
  <2>2. CASE NextWorkload(cur)
    <3>1. D!EndWriteback(cur)
      BY <2>1, <2>2, InOrder, NextWorkloadSeen DEF D!EndWriteback, PhaseOf
    <3> QED
      BY <3>1, InOrder DEF D!Next
  <2>3. CASE UNCHANGED fsmVars
    BY <2>1, <2>3, NothingSeen DEF fsmVars
  <2> QED
    BY <1>6, <2>2, <2>3 DEF WritebackCycle
<1>7. CASE \/ ReceiveReadResponse \/ ReceiveReadRequest \/ ReceiveWriteResponse
           \/ EndIncoming \/ RetryAllocation \/ EndRetry
           \/ DrainUnlimited \/ DrainLimited \/ EndDrain
           \/ ServeRemoteRequest \/ EndServe \/ FetchSource \/ ComputeCycle
           \/ PublishOutput \/ EndOutputs \/ FreeInput \/ QueueWriteback
           \/ EndQueue \/ IdleTick
  BY <1>7, NothingSeen
  DEF ReceiveReadResponse, ReceiveReadRequest, ReceiveWriteResponse, EndIncoming,
      RetryAllocation, EndRetry, DrainUnlimited, DrainLimited, EndDrain,
      ServeRemoteRequest, EndServe, FetchSource, ComputeCycle, PublishOutput,
      EndOutputs, FreeInput, QueueWriteback, EndQueue, IdleTick, fsmVars
<1> QED
  BY <1>1, <1>2, <1>3, <1>4, <1>5, <1>6, <1>7 DEF CoreTick

LEMMA StepInOrder ==
    ASSUME OrderInv, [Next]_vars, pc # "resolve"
    PROVE  D!Next \/ UNCHANGED D!vars
<1>1. CASE UNCHANGED vars
  BY <1>1, NothingSeen DEF vars, coreVars, fsmVars
<1>2. QuietCores => UNCHANGED D!vars
  BY NothingSeen DEF QuietCores, fsmVars
<1>3. ~Watchdog
  BY DEF Watchdog, BreakCycle, RelievePressure, AbandonWriteback, GiveUp
<1> QED
  BY <1>1, <1>2, <1>3, QuietSteps, CoreTickInOrder DEF Next, Halted

LEMMA InitInOrder ==
    ASSUME Init
    PROVE  D!Init
  BY DEF Init, CoreInit, D!Init, PhaseOf

(* A workload starts only when every workload it reads from has been computed,
   ends before its write-back does, and a core runs its list in order: no step
   but the watchdog's breaks the order of the dataflow (core.cpp). *)
THEOREM InDataflowOrder == Spec => OwnStepsInDataflowOrder
<1>1. Init => OrderInv
  BY InitOrder
<1>2. OrderInv /\ [Next]_vars => OrderInv'
  BY NextOrder
<1>3. OrderInv /\ [Next]_vars => [pc # "resolve" => D!Next]_(D!vars)
  BY StepInOrder
<1> QED
  BY <1>1, <1>2, <1>3, PTL DEF Spec, OwnStepsInDataflowOrder

(* As long as the watchdog has nothing to do, the whole simulator, packets,
   memories and latencies included, implements Dataflow. *)
THEOREM UndisturbedIsDataflow ==
    Spec /\ [](pc # "resolve") => ImplementsDataflow
<1>1. Init => OrderInv /\ D!Init
  BY InitOrder, InitInOrder
<1>2. OrderInv /\ [Next]_vars => OrderInv'
  BY NextOrder
<1>3. OrderInv /\ [Next]_vars /\ pc # "resolve" => [D!Next]_(D!vars)
  BY StepInOrder
<1> QED
  BY <1>1, <1>2, <1>3, PTL DEF Spec, ImplementsDataflow, D!Spec

=============================================================================
