----------------------------- MODULE TypeProofs -----------------------------
(***************************************************************************)
(* Type correctness of the simulator and the capacity of its scratchpads,  *)
(* for every network, chip and latency and with the watchdog at work.      *)
(***************************************************************************)
EXTENDS SimulatorInvariants, QueueProofs

-----------------------------------------------------------------------------
(* The scratchpad: what the operations of sram.cpp keep and change, for every
   capacity.                                                               *)

(* A new core starts with an empty scratchpad (the SRAM constructor). *)
LEMMA EmptySramTyped == SramTypeOK(EmptySram)
  BY DEF SramTypeOK, EmptySram

(* Inserting an entry for a transfer keeps the entries well typed. *)
LEMMA InsertTyped ==
    ASSUME NEW s, SramTypeOK(s), NEW t \in Tid, NEW size \in Nat, NEW ref \in Nat
    PROVE  SramTypeOK(Insert(s, t, size, ref))
  BY DEF SramTypeOK, Insert, SramEntry

LEMMA AllocateTyped ==
    ASSUME NEW s, SramTypeOK(s), NEW t \in Tid, NEW size \in Nat, NEW ref \in Nat
    PROVE  SramTypeOK(Allocate(s, t, size, ref))
  BY InsertTyped DEF Allocate

LEMMA MarkReadyTyped ==
    ASSUME NEW s, SramTypeOK(s), NEW t
    PROVE  SramTypeOK(MarkReady(s, t))
  BY DEF SramTypeOK, MarkReady, HasData, SramEntry

LEMMA DeallocateTyped ==
    ASSUME NEW s, SramTypeOK(s), NEW t
    PROVE  SramTypeOK(Deallocate(s, t))
  BY DEF SramTypeOK, Deallocate, HasData, SramEntry

LEMMA ReleaseRefTyped ==
    ASSUME NEW s, SramTypeOK(s), NEW t
    PROVE  SramTypeOK(ReleaseRef(s, t))
  BY SMTT(30), DeallocateTyped DEF SramTypeOK, ReleaseRef, HasData, SramEntry

-----------------------------------------------------------------------------
(* allocate() refuses what does not fit, so it never exceeds the capacity. *)
THEOREM AllocateWithinCapacity ==
    ASSUME NEW s, SramTypeOK(s), s.used <= Capacity,
           NEW t, NEW size \in Nat, NEW ref
    PROVE  Allocate(s, t, size, ref).used <= Capacity
  BY DEF Allocate, CanAllocate, Insert

(* Marking an entry ready moves no bytes, releasing a reference gives bytes
   back or none. *)
LEMMA MarkReadyKeepsUsed ==
    ASSUME NEW s, SramTypeOK(s), NEW t
    PROVE  MarkReady(s, t).used = s.used
  BY DEF MarkReady, SramTypeOK

LEMMA ReleaseRefGivesBack ==
    ASSUME NEW s, SramTypeOK(s), NEW t
    PROVE  ReleaseRef(s, t).used <= s.used
  BY DEF ReleaseRef, Deallocate, HasData, SramTypeOK, SramEntry

-----------------------------------------------------------------------------
(* What the operations do to the readiness of a transfer u: only mark_ready
   makes one ready, and only the one it is called for. *)
LEMMA AllocateReadiesNone ==
    ASSUME NEW s, SramTypeOK(s), NEW t, NEW size, NEW ref, NEW u,
           IsReady(Allocate(s, t, size, ref), u)
    PROVE  IsReady(s, u)
  BY DEF Allocate, CanAllocate, Insert, IsReady, HasData

LEMMA MarkReadyReadiesOne ==
    ASSUME NEW s, SramTypeOK(s), NEW t, NEW u, IsReady(MarkReady(s, t), u)
    PROVE  u = t \/ IsReady(s, u)
  BY DEF MarkReady, IsReady, HasData, SramTypeOK

LEMMA ReleaseRefReadiesNone ==
    ASSUME NEW s, SramTypeOK(s), NEW t, NEW u, IsReady(ReleaseRef(s, t), u)
    PROVE  IsReady(s, u)
  BY DEF ReleaseRef, Deallocate, IsReady, HasData, SramTypeOK

-----------------------------------------------------------------------------
(* The helpers of the core.                                                *)

LEMMA MinusTyped ==
    ASSUME NEW a \in Nat, NEW b \in Nat
    PROVE  Minus(a, b) \in Nat /\ Minus(a, b) <= a
  BY DEF Minus

LEMMA CoreConstant == Core \subseteq Nat /\ 0 \in Core /\ DRAM \notin Core
  BY TaskAssumption DEF Core, DRAM

(* The workload at the head of a core's list. *)
LEMMA CurrentTyped ==
    ASSUME CoreTypeOK, NEW c \in Core, HasWorkload(c)
    PROVE  /\ Current(c) \in Workload
           /\ Sources(c) \in Seq(Source) /\ Outputs(c) \in Seq(Output)
           /\ Current(c).cycles \in Nat
           /\ SourceTids(c) \subseteq Tid
<1>1. Current(c) \in Workload
  BY DEF CoreTypeOK, FsmTypeOK, HasWorkload, Current
<1>2. /\ Sources(c) \in Seq(Source) /\ Outputs(c) \in Seq(Output)
      /\ Current(c).cycles \in Nat
  BY <1>1 DEF Workload, Sources, Outputs
<1>3. SourceTids(c) \subseteq Tid
  <2>1. ToSet(Sources(c)) \subseteq Source
    BY <1>2, InToSet
  <2> QED
    BY <2>1 DEF SourceTids, Source
<1> QED
  BY <1>1, <1>2, <1>3

LEMMA InputRefsTyped ==
    ASSUME CoreTypeOK, NEW c \in Core, NEW t
    PROVE  InputRefs(c, t) \in Nat
<1> DEFINE uses == {j \in DOMAIN Sources(c) : Sources(c)[j].tid = t}
<1>1. CASE HasWorkload(c)
  <2>1. Cardinality(uses) \in Nat
    BY <1>1, CurrentTyped, CountIsNat
  <2> QED
    BY <2>1 DEF InputRefs
<1>2. CASE ~HasWorkload(c)
  BY <1>2 DEF InputRefs
<1> QED
  BY <1>1, <1>2

LEMMA EffectiveTyped ==
    ASSUME NEW c
    PROVE  /\ Effective(WriteBandwidth, c) \in Nat
           /\ Effective(ReadBandwidth, c) \in Nat
  BY CoreAssumption DEF Effective, Bandwidth

(* The later local reads of a transfer are finitely many. *)
LEMMA LocalFutureUsesTyped ==
    ASSUME CoreTypeOK, NEW c \in Core, NEW t
    PROVE  LocalFutureUses(c, t) \in Nat
<1> DEFINE Reading(i) == {k \in DOMAIN ir[c][i].sources :
                             /\ ir[c][i].sources[k].tid = t
                             /\ ir[c][i].sources[k].from = c}
           Later == idx[c] + 1 .. Len(ir[c])
           Pairs(i) == {<<i, j>> : j \in Reading(i)}
           All == {Pairs(i) : i \in Later}
<1>1. /\ ir[c] \in Seq(Workload) /\ idx[c] \in Nat \ {0}
      /\ \A i \in Later : i \in 1 .. Len(ir[c])
  BY DEF CoreTypeOK, FsmTypeOK
<1>2. ASSUME NEW i \in Later
      PROVE  IsFiniteSet(Pairs(i))
  <2>1. i \in 1 .. Len(ir[c])
    BY <1>1
  <2>2. ir[c][i] \in Workload
    BY <1>1, <2>1
  <2>3. ir[c][i].sources \in Seq(Source)
    BY <2>2 DEF Workload
  <2>4. IsFiniteSet(Reading(i))
    BY <2>3, CountIsNat
  <2>5. [j \in Reading(i) |-> <<i, j>>] \in Surjection(Reading(i), Pairs(i))
    BY DEF Surjection
  <2> HIDE DEF Reading, Pairs
  <2> QED
    BY SMTT(30), <2>4, <2>5, FS_Surjection
<1>3. IsFiniteSet(All)
  <2>1. IsFiniteSet(Later)
    BY SMTT(30), <1>1, FS_Interval
  <2>2. [i \in Later |-> Pairs(i)] \in Surjection(Later, All)
    BY DEF Surjection
  <2> HIDE DEF All, Later, Pairs
  <2> QED
    BY SMTT(30), <2>1, <2>2, FS_Surjection
<1>4. IsFiniteSet(UNION All)
  BY <1>2, <1>3, FS_UNION
<1> QED
  BY <1>4, FS_CardinalityType DEF LocalFutureUses

LEMMA OutputRefsTyped ==
    ASSUME CoreTypeOK, NEW c \in Core, NEW out \in Output
    PROVE  OutputRefs(c, out) \in Nat
<1>1. Cardinality({d \in DOMAIN out.dests : out.dests[d] # DRAM}) \in Nat
  BY CountIsNat DEF Output
<1> QED
  BY <1>1, LocalFutureUsesTyped DEF OutputRefs

-----------------------------------------------------------------------------
(* What a step leaves alone keeps its type, and the phases before and after
   the state machine of a core leave Control alone. *)
LEMMA UnchangedTyped ==
    /\ FsmTypeOK /\ UNCHANGED <<ir, fsmVars>> => FsmTypeOK'
    /\ LoadTypeOK /\ UNCHANGED loadVars => LoadTypeOK'
    /\ SramsTypeOK /\ UNCHANGED sram => SramsTypeOK'
    /\ WriteTypeOK /\ UNCHANGED writeVars => WriteTypeOK'
    /\ QueueTypeOK /\ UNCHANGED <<retry, remote, netVars>> => QueueTypeOK'
    /\ WbTypeOK /\ UNCHANGED wbVars => WbTypeOK'
    /\ TickTypeOK /\ UNCHANGED <<pc, cur, cursor, budget>> => TickTypeOK'
    /\ TransportTypeOK /\ UNCHANGED transportVars => TransportTypeOK'
    /\ WatchTypeOK /\ UNCHANGED watchVars => WatchTypeOK'
  BY DEF fsmVars, loadVars, writeVars, netVars, wbVars, transportVars, watchVars,
         FsmTypeOK, LoadTypeOK, SramsTypeOK, WriteTypeOK, QueueTypeOK, WbTypeOK,
         TickTypeOK, TransportTypeOK, WatchTypeOK

OutsideFsm == Label \ (CoreState \cup {"outputs", "free", "queue"})

LEMMA ControlOutsideFsm ==
    ASSUME Control, UNCHANGED <<ir, fsmVars>>, pc' \in OutsideFsm
    PROVE  Control'
  BY DEF OutsideFsm, Label, CoreState, fsmVars, Control, PcMatchesState,
         WorkingHasWorkload, WritebackAhead, HasWorkload

LEMMA TickControlTyped ==
    /\ CoreTypeOK /\ SameIteration => TickTypeOK'
    /\ CoreTypeOK /\ NextIteration => TickTypeOK' /\ pc' = pc
    /\ CoreTypeOK /\ EndTick => TickTypeOK' /\ pc' \in OutsideFsm
    /\ \A label \in Label : CoreTypeOK /\ Goto(label) =>
            TickTypeOK' /\ pc' = label /\ cursor' = 1 /\ cur' = cur
    /\ \A label \in Label : CoreTypeOK /\ Step(label) => TickTypeOK' /\ pc' = label
  BY TaskAssumption DEF CoreTypeOK, TickTypeOK, SameIteration, NextIteration,
         EndTick, Goto, Step, OutsideFsm, Label, CoreState, Core

(* Data that arrives has its write started or queued. *)
LEMMA StartWriteTyped ==
    ASSUME CoreTypeOK, NEW c \in Core, NEW p \in Packet, StartWrite(c, p)
    PROVE  WriteTypeOK'
<1>1. [tid |-> p.tid, size |-> p.size] \in Chunk /\ p.tid \in Tid /\ p.size \in Nat
  BY DEF Packet, Chunk
<1>2. Append(writeQueue[c], [tid |-> p.tid, size |-> p.size]) \in Seq(Chunk)
  BY <1>1, AppendQueue DEF CoreTypeOK, WriteTypeOK, ChunkSeqs
<1> QED
  BY <1>1, <1>2 DEF CoreTypeOK, WriteTypeOK, ChunkSeqs, StartWrite

LEMMA AllocateInputTyped ==
    ASSUME CoreTypeOK, NEW c \in Core, NEW p \in Packet, AllocateInput(c, p)
    PROVE  SramsTypeOK'
<1>1. p.tid \in Tid /\ p.size \in Nat /\ InputRefs(c, p.tid) \in Nat
  BY InputRefsTyped DEF Packet
<1>2. SramTypeOK(Allocate(sram[c], p.tid, p.size, InputRefs(c, p.tid)))
  BY <1>1, AllocateTyped DEF CoreTypeOK, SramsTypeOK
<1> QED
  BY <1>2 DEF CoreTypeOK, SramsTypeOK, AllocateInput

(* One queue of one core changes. *)
LEMMA QueueUpdateTyped ==
    ASSUME NEW q \in PacketSeqs, NEW c \in Core, NEW s \in Seq(Packet)
    PROVE  [q EXCEPT ![c] = s] \in PacketSeqs
  BY DEF PacketSeqs

LEMMA SramUpdateTyped ==
    ASSUME SramsTypeOK, NEW c \in Core, NEW s, SramTypeOK(s),
           sram' = [sram EXCEPT ![c] = s]
    PROVE  SramsTypeOK'
  BY DEF SramsTypeOK

LEMMA InTick == TypeInv => CoreTypeOK /\ Control /\ cur \in Core
  BY DEF TypeInv, TypeOK, CoreTypeOK, TickTypeOK

-----------------------------------------------------------------------------
(* The steps of a core before its state machine.                           *)

LEMMA IncomingTyped ==
    ASSUME TypeInv, NEW type, Incoming(type)
    PROVE  /\ Head(ejection[cur]) \in Packet /\ Tail(ejection[cur]) \in Seq(Packet)
           /\ ejection' \in PacketSeqs /\ TickTypeOK'
           /\ pc' \in OutsideFsm
<1>1. ejection[cur] \in Seq(Packet) /\ ejection[cur] # <<>> /\ ejection \in PacketSeqs
  BY InTick DEF Incoming, CoreTypeOK, QueueTypeOK, PacketSeqs
<1>2. Head(ejection[cur]) \in Packet /\ Tail(ejection[cur]) \in Seq(Packet)
  BY <1>1, HeadTailQueue
<1>3. ejection' \in PacketSeqs
  BY <1>1, <1>2, InTick DEF Incoming, PacketSeqs
<1>4. TickTypeOK' /\ pc' \in OutsideFsm
  BY InTick, TickControlTyped
  DEF Incoming, SameIteration, OutsideFsm, Label, CoreState
<1> QED
  BY <1>2, <1>3, <1>4

LEMMA ReceiveReadResponseTyped ==
    ASSUME TypeInv, ReceiveReadResponse
    PROVE  CoreTypeOK' /\ Control'
<1> DEFINE p == Head(ejection[cur])
<1>1. CoreTypeOK /\ Control /\ cur \in Core
  BY InTick
<1>2. /\ p \in Packet /\ ejection' \in PacketSeqs /\ TickTypeOK'
      /\ pc' \in OutsideFsm
  BY IncomingTyped DEF ReceiveReadResponse
<1>3. SramsTypeOK' /\ WriteTypeOK'
  BY <1>1, <1>2, AllocateInputTyped, StartWriteTyped, UnchangedTyped
  DEF ReceiveReadResponse, CoreTypeOK
<1>4. QueueTypeOK'
  <2>1. Append(retry[cur], p) \in Seq(Packet)
    BY <1>1, <1>2, AppendQueue DEF CoreTypeOK, QueueTypeOK, PacketSeqs
  <2> QED
    BY <1>1, <1>2, <2>1
    DEF ReceiveReadResponse, Postpone, CoreTypeOK, QueueTypeOK, PacketSeqs
<1>5. FsmTypeOK' /\ LoadTypeOK' /\ WbTypeOK' /\ Control'
  BY <1>1, <1>2, UnchangedTyped, ControlOutsideFsm
  DEF ReceiveReadResponse, CoreTypeOK
<1> QED
  BY <1>2, <1>3, <1>4, <1>5 DEF CoreTypeOK

(* The answer to a request. *)
LEMMA ResponseTyped ==
    ASSUME NEW c \in Core, NEW req \in Packet
    PROVE  Response(c, req) \in Packet
  BY CoreConstant DEF Response, Packet, PacketType

LEMMA PushTyped ==
    ASSUME CoreTypeOK, NEW c \in Core, NEW p \in Packet, Push(c, p)
    PROVE  injection' \in PacketSeqs
<1>1. Append(injection[c], p) \in Seq(Packet)
  BY AppendQueue DEF CoreTypeOK, QueueTypeOK, PacketSeqs
<1> QED
  BY <1>1 DEF Push, CoreTypeOK, QueueTypeOK, PacketSeqs

LEMMA ReleaseTyped ==
    ASSUME CoreTypeOK, NEW c \in Core, NEW t,
           sram' = [sram EXCEPT ![c] = ReleaseRef(@, t)]
    PROVE  SramsTypeOK'
<1>1. SramTypeOK(ReleaseRef(sram[c], t))
  BY ReleaseRefTyped DEF CoreTypeOK, SramsTypeOK
<1> QED
  BY <1>1 DEF CoreTypeOK, SramsTypeOK

LEMMA ReceiveReadRequestTyped ==
    ASSUME TypeInv, ReceiveReadRequest
    PROVE  CoreTypeOK' /\ Control'
<1> DEFINE p == Head(ejection[cur])
<1>1. CoreTypeOK /\ Control /\ cur \in Core
  BY InTick
<1>2. /\ p \in Packet /\ ejection' \in PacketSeqs /\ TickTypeOK'
      /\ pc' \in OutsideFsm
  BY IncomingTyped DEF ReceiveReadRequest
<1>3. SramsTypeOK'
  BY <1>1, ReleaseTyped, UnchangedTyped DEF ReceiveReadRequest, CoreTypeOK
<1>4. injection' \in PacketSeqs
  BY <1>1, <1>2, ResponseTyped, PushTyped
  DEF ReceiveReadRequest, CoreTypeOK, QueueTypeOK
<1>5. QueueTypeOK'
  <2>1. Append(remote[cur], p) \in Seq(Packet)
    BY <1>1, <1>2, AppendQueue DEF CoreTypeOK, QueueTypeOK, PacketSeqs
  <2> QED
    BY <1>1, <1>2, <1>4, <2>1
    DEF ReceiveReadRequest, CoreTypeOK, QueueTypeOK, PacketSeqs
<1>6. FsmTypeOK' /\ LoadTypeOK' /\ WriteTypeOK' /\ WbTypeOK' /\ Control'
  BY <1>1, <1>2, UnchangedTyped, ControlOutsideFsm
  DEF ReceiveReadRequest, CoreTypeOK
<1> QED
  BY <1>2, <1>3, <1>5, <1>6 DEF CoreTypeOK

LEMMA ReceiveWriteResponseTyped ==
    ASSUME TypeInv, ReceiveWriteResponse
    PROVE  CoreTypeOK' /\ Control'
<1>1. CoreTypeOK /\ Control /\ cur \in Core
  BY InTick
<1>2. ejection' \in PacketSeqs /\ TickTypeOK' /\ pc' \in OutsideFsm
  BY IncomingTyped DEF ReceiveWriteResponse
<1>3. SramsTypeOK'
  BY <1>1, ReleaseTyped DEF ReceiveWriteResponse
<1>4. QueueTypeOK' /\ WbTypeOK'
  BY <1>1, <1>2 DEF ReceiveWriteResponse, CoreTypeOK, QueueTypeOK, WbTypeOK
<1>5. FsmTypeOK' /\ LoadTypeOK' /\ WriteTypeOK' /\ Control'
  BY <1>1, <1>2, UnchangedTyped, ControlOutsideFsm
  DEF ReceiveWriteResponse, CoreTypeOK
<1> QED
  BY <1>2, <1>3, <1>4, <1>5 DEF CoreTypeOK

LEMMA EndIncomingTyped ==
    ASSUME TypeInv, EndIncoming
    PROVE  CoreTypeOK' /\ Control'
<1>1. CoreTypeOK /\ Control
  BY InTick
<1>2. TickTypeOK' /\ pc' \in OutsideFsm
  BY <1>1, TickControlTyped DEF EndIncoming, OutsideFsm, Label, CoreState
<1> QED
  BY <1>1, <1>2, UnchangedTyped, ControlOutsideFsm
  DEF EndIncoming, CoreTypeOK, netVars

LEMMA RetryAllocationTyped ==
    ASSUME TypeInv, RetryAllocation
    PROVE  CoreTypeOK' /\ Control'
<1> DEFINE p == retry[cur][cursor]
<1>1. CoreTypeOK /\ Control /\ cur \in Core /\ cursor \in Nat \ {0}
  BY InTick DEF CoreTypeOK, TickTypeOK
<1>2. retry[cur] \in Seq(Packet) /\ cursor \in 1 .. Len(retry[cur]) /\ p \in Packet
  BY <1>1 DEF RetryAllocation, CoreTypeOK, QueueTypeOK, PacketSeqs
<1>3. SramsTypeOK' /\ WriteTypeOK'
  BY <1>1, <1>2, AllocateInputTyped, StartWriteTyped, UnchangedTyped
  DEF RetryAllocation, CoreTypeOK
<1>4. QueueTypeOK'
  <2>1. RemoveAt(retry[cur], cursor) \in Seq(Packet)
    BY <1>2, RemoveAtQueue
  <2> QED
    BY <1>1, <2>1
    DEF RetryAllocation, CoreTypeOK, QueueTypeOK, PacketSeqs, netVars
<1>5. TickTypeOK' /\ pc' \in OutsideFsm
  BY <1>1, TickControlTyped
  DEF RetryAllocation, SameIteration, OutsideFsm, Label, CoreState
<1> QED
  BY <1>1, <1>3, <1>4, <1>5, UnchangedTyped, ControlOutsideFsm
  DEF RetryAllocation, CoreTypeOK

LEMMA EndRetryTyped ==
    ASSUME TypeInv, EndRetry
    PROVE  CoreTypeOK' /\ Control'
<1>1. CoreTypeOK /\ Control
  BY InTick
<1>2. TickTypeOK' /\ pc' \in OutsideFsm
  BY <1>1, EffectiveTyped
  DEF EndRetry, CoreTypeOK, TickTypeOK, OutsideFsm, Label, CoreState
<1> QED
  BY <1>1, <1>2, UnchangedTyped, ControlOutsideFsm
  DEF EndRetry, CoreTypeOK

(* The write that finishes is noticed. *)
LEMMA WriteDoneTyped ==
    ASSUME CoreTypeOK, NEW c \in Core, NEW t, WriteDone(c, t), UNCHANGED requested
    PROVE  SramsTypeOK' /\ LoadTypeOK'
<1>1. SramTypeOK(MarkReady(sram[c], t))
  BY MarkReadyTyped DEF CoreTypeOK, SramsTypeOK
<1> QED
  BY <1>1 DEF WriteDone, CoreTypeOK, SramsTypeOK, LoadTypeOK

LEMMA NextChunkTyped ==
    ASSUME CoreTypeOK, NEW c \in Core, writeQueue[c] # <<>>
    PROVE  /\ Head(writeQueue[c]).tid \in Tid /\ Head(writeQueue[c]).size \in Nat
           /\ Tail(writeQueue[c]) \in Seq(Chunk)
<1>1. writeQueue[c] \in Seq(Chunk)
  BY DEF CoreTypeOK, WriteTypeOK, ChunkSeqs
<1>2. Head(writeQueue[c]) \in Chunk /\ Tail(writeQueue[c]) \in Seq(Chunk)
  BY <1>1, HeadTailQueue
<1> QED
  BY <1>2 DEF Chunk

LEMMA DrainUnlimitedTyped ==
    ASSUME TypeInv, DrainUnlimited
    PROVE  CoreTypeOK' /\ Control'
<1>1. CoreTypeOK /\ Control /\ cur \in Core
  BY InTick
<1>2. SramsTypeOK' /\ LoadTypeOK'
  BY <1>1, WriteDoneTyped, UnchangedTyped DEF DrainUnlimited, CoreTypeOK, loadVars
<1>3. WriteTypeOK'
  <2>1. CASE writeQueue[cur] = <<>>
    BY <1>1, <2>1 DEF DrainUnlimited, CoreTypeOK, WriteTypeOK
  <2>2. CASE writeQueue[cur] # <<>>
    <3>1. /\ Head(writeQueue[cur]).tid \in Tid /\ Head(writeQueue[cur]).size \in Nat
          /\ Tail(writeQueue[cur]) \in Seq(Chunk)
      BY <1>1, <2>2, NextChunkTyped
    <3>2. /\ writeId' = [writeId EXCEPT ![cur] = Head(writeQueue[cur]).tid]
          /\ writeRem' = [writeRem EXCEPT ![cur] = Head(writeQueue[cur]).size]
          /\ writeQueue' = [writeQueue EXCEPT ![cur] = Tail(@)]
      BY <2>2 DEF DrainUnlimited
    <3> QED
      BY <1>1, <3>1, <3>2 DEF CoreTypeOK, WriteTypeOK, ChunkSeqs
  <2> QED
    BY <2>1, <2>2
<1>4. TickTypeOK' /\ pc' \in OutsideFsm
  BY <1>1, TickControlTyped
  DEF DrainUnlimited, SameIteration, OutsideFsm, Label, CoreState
<1> QED
  BY <1>1, <1>2, <1>3, <1>4, UnchangedTyped, ControlOutsideFsm
  DEF DrainUnlimited, CoreTypeOK

LEMMA DrainLimitedTyped ==
    ASSUME TypeInv, DrainLimited
    PROVE  CoreTypeOK' /\ Control'
<1> DEFINE fetch == writeRem[cur] = 0
           t     == IF fetch THEN Head(writeQueue[cur]).tid ELSE writeId[cur]
           rem   == IF fetch THEN Head(writeQueue[cur]).size ELSE writeRem[cur]
<1>1. CoreTypeOK /\ Control /\ cur \in Core
  BY InTick
<1>2. t \in Tid /\ rem \in Nat /\ budget \in Nat
  BY <1>1, NextChunkTyped
  DEF DrainLimited, CoreTypeOK, WriteTypeOK, TickTypeOK
<1>3. SramsTypeOK' /\ LoadTypeOK'
  BY <1>1, WriteDoneTyped, UnchangedTyped DEF DrainLimited, CoreTypeOK, loadVars
<1>4. WriteTypeOK'
  <2>1. /\ writeId' = [writeId EXCEPT ![cur] = t]
        /\ writeRem' = [writeRem EXCEPT ![cur] = Minus(rem, budget)]
        /\ \/ writeQueue' = writeQueue
           \/ /\ writeQueue[cur] # <<>>
              /\ writeQueue' = [writeQueue EXCEPT ![cur] = Tail(@)]
    BY <1>1 DEF DrainLimited, CoreTypeOK, WriteTypeOK
  <2>2. Minus(rem, budget) \in Nat
    BY <1>2, MinusTyped
  <2>3. writeQueue[cur] # <<>> => Tail(writeQueue[cur]) \in Seq(Chunk)
    BY <1>1, NextChunkTyped
  <2>4. writeId' \in [Core -> Tid] /\ writeRem' \in [Core -> Nat]
    <3> HIDE DEF t, rem
    <3> QED
      BY <1>1, <1>2, <2>1, <2>2 DEF CoreTypeOK, WriteTypeOK
  <2>5. writeQueue' \in ChunkSeqs
    <3> HIDE DEF t, rem
    <3> QED
      BY <1>1, <2>1, <2>3 DEF CoreTypeOK, WriteTypeOK, ChunkSeqs
  <2> QED
    BY <2>4, <2>5 DEF WriteTypeOK
<1>5. TickTypeOK' /\ pc' \in OutsideFsm
  BY <1>1, <1>2, MinusTyped
  DEF DrainLimited, CoreTypeOK, TickTypeOK, OutsideFsm, Label, CoreState
<1> QED
  BY <1>1, <1>3, <1>4, <1>5, UnchangedTyped, ControlOutsideFsm
  DEF DrainLimited, CoreTypeOK

LEMMA EndDrainTyped ==
    ASSUME TypeInv, EndDrain
    PROVE  CoreTypeOK' /\ Control'
<1>1. CoreTypeOK /\ Control
  BY InTick
<1>2. TickTypeOK' /\ pc' \in OutsideFsm
  BY <1>1 DEF EndDrain, CoreTypeOK, TickTypeOK, OutsideFsm, Label, CoreState
<1> QED
  BY <1>1, <1>2, UnchangedTyped, ControlOutsideFsm
  DEF EndDrain, CoreTypeOK

LEMMA ServeRemoteRequestTyped ==
    ASSUME TypeInv, ServeRemoteRequest
    PROVE  CoreTypeOK' /\ Control'
<1> DEFINE req == remote[cur][cursor]
<1>1. CoreTypeOK /\ Control /\ cur \in Core /\ cursor \in Nat \ {0}
  BY InTick DEF CoreTypeOK, TickTypeOK
<1>2. remote[cur] \in Seq(Packet) /\ cursor \in 1 .. Len(remote[cur]) /\ req \in Packet
  BY <1>1 DEF ServeRemoteRequest, CoreTypeOK, QueueTypeOK, PacketSeqs
<1>3. SramsTypeOK'
  BY <1>1, ReleaseTyped, UnchangedTyped DEF ServeRemoteRequest, CoreTypeOK
<1>4. injection' \in PacketSeqs
  BY <1>1, <1>2, ResponseTyped, PushTyped
  DEF ServeRemoteRequest, CoreTypeOK, QueueTypeOK
<1>5. QueueTypeOK'
  <2>1. RemoveAt(remote[cur], cursor) \in Seq(Packet)
    BY <1>2, RemoveAtQueue
  <2> QED
    BY <1>1, <1>4, <2>1
    DEF ServeRemoteRequest, CoreTypeOK, QueueTypeOK, PacketSeqs
<1>6. TickTypeOK' /\ pc' \in OutsideFsm
  BY <1>1, TickControlTyped
  DEF ServeRemoteRequest, SameIteration, OutsideFsm, Label, CoreState
<1> QED
  BY <1>1, <1>3, <1>5, <1>6, UnchangedTyped, ControlOutsideFsm
  DEF ServeRemoteRequest, CoreTypeOK

-----------------------------------------------------------------------------
(* The state machine.  A step either ends the tick or goes on to the phase
   that belongs to the state. *)

LEMMA ControlAfterTick ==
    ASSUME UNCHANGED ir, pc' \in OutsideFsm,
           \A c \in Core : state'[c] \in {"LOADING", "COMPUTING", "WRITEBACK"} =>
               idx'[c] <= Len(ir[c])
    PROVE  Control'
  BY DEF OutsideFsm, Label, CoreState, Control, PcMatchesState,
         WorkingHasWorkload, WritebackAhead, HasWorkload

LEMMA EndServeTyped ==
    ASSUME TypeInv, EndServe
    PROVE  CoreTypeOK' /\ Control'
<1>1. CoreTypeOK /\ Control /\ cur \in Core /\ state[cur] \in CoreState
  BY InTick DEF CoreTypeOK, FsmTypeOK
<1>2. TickTypeOK' /\ pc' = state[cur] /\ cur' = cur
  BY <1>1, TickControlTyped DEF EndServe, Label
<1>3. Control'
  BY <1>1, <1>2
  DEF EndServe, CoreState, fsmVars, Control, PcMatchesState,
      WorkingHasWorkload, WritebackAhead, HasWorkload
<1> QED
  BY <1>1, <1>2, <1>3, UnchangedTyped DEF EndServe, CoreTypeOK

LEMMA RetireCoreTyped ==
    ASSUME TypeInv, RetireCore
    PROVE  CoreTypeOK' /\ Control'
<1>1. CoreTypeOK /\ Control /\ cur \in Core
  BY InTick
<1>2. FsmTypeOK' /\ TickTypeOK' /\ pc' \in OutsideFsm
  BY <1>1, TickControlTyped DEF RetireCore, CoreTypeOK, FsmTypeOK, CoreState
<1>3. Control'
  BY <1>1, <1>2, ControlAfterTick
  DEF RetireCore, CoreTypeOK, FsmTypeOK, Control, WorkingHasWorkload, HasWorkload
<1> QED
  BY <1>1, <1>2, <1>3, UnchangedTyped DEF RetireCore, CoreTypeOK

LEMMA ForgetWritesTyped ==
    ASSUME CoreTypeOK, NEW c \in Core, ForgetWrites(c)
    PROVE  WriteTypeOK'
<1>1. <<>> \in Seq(Chunk)
  BY EmptySeq
<1> QED
  BY <1>1 DEF ForgetWrites, CoreTypeOK, WriteTypeOK, ChunkSeqs

LEMMA StartWorkloadTyped ==
    ASSUME TypeInv, StartWorkload
    PROVE  CoreTypeOK' /\ Control'
<1>1. CoreTypeOK /\ Control /\ cur \in Core /\ HasWorkload(cur)
  BY InTick DEF StartWorkload
<1>2. FsmTypeOK' /\ LoadTypeOK' /\ UNCHANGED <<ir, idx>>
  BY <1>1, CurrentTyped
  DEF StartWorkload, BeginCompute, CoreTypeOK, FsmTypeOK, LoadTypeOK, CoreState
<1>3. WriteTypeOK'
  BY <1>1, ForgetWritesTyped, UnchangedTyped DEF StartWorkload, CoreTypeOK
<1>4. TickTypeOK' /\ pc' \in OutsideFsm
  BY <1>1, TickControlTyped DEF StartWorkload
<1>5. Control'
  <2>1. ASSUME NEW c \in Core,
               state'[c] \in {"LOADING", "COMPUTING", "WRITEBACK"}
        PROVE  idx'[c] <= Len(ir[c])
    BY <1>1, <1>2, <2>1
    DEF StartWorkload, BeginCompute, CoreTypeOK, FsmTypeOK, Control,
        WorkingHasWorkload, HasWorkload
  <2> QED
    BY <1>2, <1>4, <2>1, ControlAfterTick
<1> QED
  BY <1>1, <1>2, <1>3, <1>4, <1>5, UnchangedTyped DEF StartWorkload, CoreTypeOK

LEMMA FetchSourceTyped ==
    ASSUME TypeInv, FetchSource
    PROVE  CoreTypeOK' /\ Control'
<1> DEFINE s == Sources(cur)[cursor]
           request == [type |-> "READ_REQUEST", src |-> cur, dst |-> s.from,
                       tid |-> s.tid, size |-> s.size]
<1>1. /\ CoreTypeOK /\ Control /\ cur \in Core /\ cursor \in Nat \ {0}
      /\ state[cur] = "LOADING" /\ HasWorkload(cur)
  BY InTick
  DEF FetchSource, CoreTypeOK, TickTypeOK, Control, PcMatchesState,
      WorkingHasWorkload, CoreState
<1>2. s \in Source /\ s.tid \in Tid
  <2>1. Sources(cur) \in Seq(Source)
    BY <1>1, CurrentTyped
  <2>2. cursor \in 1 .. Len(Sources(cur))
    BY <1>1, <2>1 DEF FetchSource, FetchDone
  <2>3. s \in Source
    BY <2>1, <2>2
  <2> QED
    BY <2>3 DEF Source
<1>3. request \in Packet
  <2> HIDE DEF s
  <2>1. s.from \in Endpoint /\ s.size \in Nat
    BY <1>2 DEF Source
  <2>2. Endpoint \subseteq Int /\ cur \in Int
    BY <1>1, CoreConstant DEF Endpoint, DRAM
  <2>3. s.from \in Int
    BY <2>1, <2>2
  <2> QED
    BY <1>2, <2>1, <2>2, <2>3 DEF Packet, PacketType
<1>4. LoadTypeOK'
  BY <1>1, <1>2 DEF FetchSource, CoreTypeOK, LoadTypeOK
<1>5. injection' \in PacketSeqs
  BY <1>1, <1>3, PushTyped DEF FetchSource, CoreTypeOK, QueueTypeOK
<1>6. QueueTypeOK'
  BY <1>1, <1>5 DEF FetchSource, CoreTypeOK, QueueTypeOK
<1>7. TickTypeOK' /\ pc' = pc /\ UNCHANGED cur
  BY <1>1, TickControlTyped DEF FetchSource, NextIteration
<1>8. Control'
  BY <1>1, <1>7
  DEF FetchSource, fsmVars, CoreState, Control, PcMatchesState,
      WorkingHasWorkload, WritebackAhead, HasWorkload
<1> QED
  BY <1>1, <1>4, <1>6, <1>7, <1>8, UnchangedTyped DEF FetchSource, CoreTypeOK

LEMMA EndFetchTyped ==
    ASSUME TypeInv, EndFetch
    PROVE  CoreTypeOK' /\ Control'
<1>1. /\ CoreTypeOK /\ Control /\ cur \in Core
      /\ state[cur] = "LOADING" /\ HasWorkload(cur)
  BY InTick
  DEF EndFetch, Control, PcMatchesState, WorkingHasWorkload, CoreState
<1>2. FsmTypeOK' /\ UNCHANGED <<ir, idx>>
  BY <1>1, CurrentTyped, UnchangedTyped
  DEF EndFetch, BeginCompute, CoreTypeOK, FsmTypeOK, CoreState, fsmVars
<1>3. TickTypeOK' /\ pc' \in OutsideFsm
  BY <1>1, TickControlTyped DEF EndFetch
<1>4. Control'
  <2>1. ASSUME NEW c \in Core,
               state'[c] \in {"LOADING", "COMPUTING", "WRITEBACK"}
        PROVE  idx'[c] <= Len(ir[c])
    BY <1>1, <1>2, <2>1
    DEF EndFetch, BeginCompute, CoreTypeOK, FsmTypeOK, Control, fsmVars,
        WorkingHasWorkload, HasWorkload
  <2> QED
    BY <1>2, <1>3, <2>1, ControlAfterTick
<1> QED
  BY <1>1, <1>2, <1>3, <1>4, UnchangedTyped DEF EndFetch, CoreTypeOK

LEMMA ComputeCycleTyped ==
    ASSUME TypeInv, ComputeCycle
    PROVE  CoreTypeOK' /\ Control'
<1>1. CoreTypeOK /\ Control /\ cur \in Core /\ state[cur] = "COMPUTING"
  BY InTick DEF ComputeCycle, Control, PcMatchesState, CoreState
<1>2. FsmTypeOK' /\ UNCHANGED <<ir, state, idx>>
  BY <1>1, MinusTyped DEF ComputeCycle, CoreTypeOK, FsmTypeOK
<1>3. CASE computeRem[cur] <= 1
  <2>1. TickTypeOK' /\ pc' = "outputs" /\ cur' = cur
    BY <1>1, <1>3, TickControlTyped DEF ComputeCycle, Label
  <2>2. Control'
    BY <1>1, <1>2, <2>1
    DEF CoreState, Control, PcMatchesState, WorkingHasWorkload, WritebackAhead,
        HasWorkload
  <2> QED
    BY <1>1, <1>2, <2>1, <2>2, UnchangedTyped DEF ComputeCycle, CoreTypeOK
<1>4. CASE ~(computeRem[cur] <= 1)
  <2>1. TickTypeOK' /\ pc' \in OutsideFsm
    BY <1>1, <1>4, TickControlTyped DEF ComputeCycle
  <2>2. Control'
    BY <1>1, <1>2, <2>1, ControlAfterTick
    DEF Control, WorkingHasWorkload, HasWorkload
  <2> QED
    BY <1>1, <1>2, <2>1, <2>2, UnchangedTyped DEF ComputeCycle, CoreTypeOK
<1> QED
  BY <1>3, <1>4

(* The outputs of a core that just finished a computation. *)
LEMMA OutputTyped ==
    ASSUME TypeInv, pc \in {"outputs", "free", "queue"}
    PROVE  /\ HasWorkload(cur) /\ Outputs(cur) \in Seq(Output)
           /\ Sources(cur) \in Seq(Source)
           /\ cursor <= Len(Outputs(cur)) =>
                 /\ cursor \in 1 .. Len(Outputs(cur))
                 /\ Outputs(cur)[cursor] \in Output
                 /\ Outputs(cur)[cursor].tid \in Tid
                 /\ Outputs(cur)[cursor].size \in Nat
<1>1. /\ CoreTypeOK /\ cur \in Core /\ cursor \in Nat \ {0}
      /\ state[cur] \in {"COMPUTING", "WRITEBACK"} /\ HasWorkload(cur)
  BY InTick DEF CoreTypeOK, TickTypeOK, Control, PcMatchesState, WorkingHasWorkload
<1>2. Outputs(cur) \in Seq(Output) /\ Sources(cur) \in Seq(Source)
  BY <1>1, CurrentTyped
<1>3. ASSUME cursor <= Len(Outputs(cur))
      PROVE  cursor \in 1 .. Len(Outputs(cur)) /\ Outputs(cur)[cursor] \in Output
  <2>1. cursor \in 1 .. Len(Outputs(cur))
    BY <1>1, <1>2, <1>3
  <2> QED
    BY <1>2, <2>1
<1> QED
  BY <1>1, <1>2, <1>3 DEF Output

LEMMA PublishOutputTyped ==
    ASSUME TypeInv, PublishOutput
    PROVE  CoreTypeOK' /\ Control'
<1> DEFINE out == Outputs(cur)[cursor]
           kept == Allocate(sram[cur], out.tid, out.size, OutputRefs(cur, out))
<1>1. CoreTypeOK /\ Control /\ cur \in Core
  BY InTick
<1>2. out \in Output /\ out.tid \in Tid /\ out.size \in Nat
  BY OutputTyped DEF PublishOutput
<1>3. SramsTypeOK'
  <2>1. SramTypeOK(kept)
    BY <1>1, <1>2, OutputRefsTyped, AllocateTyped DEF CoreTypeOK, SramsTypeOK
  <2>2. SramTypeOK(MarkReady(kept, out.tid))
    BY <2>1, MarkReadyTyped
  <2> QED
    BY <1>1, <2>2, SramUpdateTyped DEF PublishOutput, CoreTypeOK
<1>4. TickTypeOK' /\ pc' = pc /\ UNCHANGED cur
  BY <1>1, TickControlTyped DEF PublishOutput, NextIteration
<1>5. Control'
  BY <1>1, <1>4
  DEF PublishOutput, fsmVars, CoreState, Control, PcMatchesState,
      WorkingHasWorkload, WritebackAhead, HasWorkload
<1> QED
  BY <1>1, <1>3, <1>4, <1>5, UnchangedTyped DEF PublishOutput, CoreTypeOK

LEMMA EndOutputsTyped ==
    ASSUME TypeInv, EndOutputs
    PROVE  CoreTypeOK' /\ Control'
<1>1. CoreTypeOK /\ Control /\ cur \in Core
  BY InTick
<1>2. TickTypeOK' /\ pc' = "free" /\ cur' = cur
  BY <1>1, TickControlTyped DEF EndOutputs, Label
<1>3. Control'
  BY <1>1, <1>2
  DEF EndOutputs, fsmVars, CoreState, Control, PcMatchesState,
      WorkingHasWorkload, WritebackAhead, HasWorkload
<1> QED
  BY <1>1, <1>2, <1>3, UnchangedTyped DEF EndOutputs, CoreTypeOK

LEMMA FreeInputTyped ==
    ASSUME TypeInv, FreeInput
    PROVE  CoreTypeOK' /\ Control'
<1>1. CoreTypeOK /\ Control /\ cur \in Core
  BY InTick
<1>2. SramsTypeOK'
  BY <1>1, ReleaseTyped DEF FreeInput
<1>3. TickTypeOK' /\ pc' = pc /\ UNCHANGED cur
  BY <1>1, TickControlTyped DEF FreeInput, NextIteration
<1>4. Control'
  BY <1>1, <1>3
  DEF FreeInput, fsmVars, CoreState, Control, PcMatchesState,
      WorkingHasWorkload, WritebackAhead, HasWorkload
<1> QED
  BY <1>1, <1>2, <1>3, <1>4, UnchangedTyped DEF FreeInput, CoreTypeOK

(* A core that goes on to its next workload. *)
LEMMA NextWorkloadTyped ==
    ASSUME CoreTypeOK, Control, NEW c \in Core, NextWorkload(c), UNCHANGED ir
    PROVE  /\ FsmTypeOK'
           /\ \A d \in Core : state'[d] \in {"LOADING", "COMPUTING", "WRITEBACK"} =>
                 idx'[d] <= Len(ir[d])
<1>1. FsmTypeOK'
  BY DEF NextWorkload, CoreTypeOK, FsmTypeOK, CoreState
<1>2. ASSUME NEW d \in Core, state'[d] \in {"LOADING", "COMPUTING", "WRITEBACK"}
      PROVE  idx'[d] <= Len(ir[d])
  BY <1>2
  DEF NextWorkload, CoreTypeOK, FsmTypeOK, Control, WorkingHasWorkload, HasWorkload
<1> QED
  BY <1>1, <1>2

LEMMA FinishWorkloadTyped ==
    ASSUME TypeInv, FinishWorkload
    PROVE  CoreTypeOK' /\ Control'
<1>1. CoreTypeOK /\ Control /\ cur \in Core
  BY InTick
<1>2. TickTypeOK' /\ pc' \in OutsideFsm
  BY <1>1, TickControlTyped DEF FinishWorkload
<1>3. FsmTypeOK' /\ Control'
  BY <1>1, <1>2, NextWorkloadTyped, ControlAfterTick DEF FinishWorkload
<1> QED
  BY <1>1, <1>2, <1>3, UnchangedTyped DEF FinishWorkload, CoreTypeOK

LEMMA EnterWritebackTyped ==
    ASSUME TypeInv, EnterWriteback
    PROVE  CoreTypeOK' /\ Control'
<1>1. CoreTypeOK /\ Control /\ cur \in Core /\ HasWorkload(cur)
  BY InTick, OutputTyped DEF EnterWriteback
<1>2. FsmTypeOK'
  BY <1>1 DEF EnterWriteback, CoreTypeOK, FsmTypeOK, CoreState
<1>3. WbTypeOK'
  <2>1. <<>> \in Seq(Chunk)
    BY EmptySeq
  <2> QED
    BY <1>1, <2>1 DEF EnterWriteback, CoreTypeOK, WbTypeOK, ChunkSeqs
<1>4. TickTypeOK' /\ pc' = "queue" /\ cur' = cur /\ cursor' = 1
  BY <1>1, TickControlTyped DEF EnterWriteback, Label
<1>5. PcMatchesState' /\ WorkingHasWorkload'
  BY <1>1, <1>4
  DEF EnterWriteback, CoreTypeOK, FsmTypeOK, CoreState, Control, PcMatchesState,
      WorkingHasWorkload, HasWorkload
<1>6. WritebackAhead'
  <2>1. PICK out \in ToSet(Outputs(cur)) : ToDram(out)
    BY DEF EnterWriteback
  <2>2. PICK k \in 1 .. Len(Outputs(cur)) : out = Outputs(cur)[k]
    BY <2>1, OutputTyped, InToSet DEF EnterWriteback
  <2>3. UNCHANGED <<ir, idx>>
    BY DEF EnterWriteback
  <2> QED
    BY <1>4, <2>1, <2>2, <2>3 DEF WritebackAhead, Outputs, Current
<1> QED
  BY <1>1, <1>2, <1>3, <1>4, <1>5, <1>6, UnchangedTyped
  DEF EnterWriteback, CoreTypeOK, Control, netVars

(* The list of outputs to write back is not empty when it is complete: a core
   only enters WRITEBACK with an output for the DRAM. *)
LEMMA QueueWritebackTyped ==
    ASSUME TypeInv, QueueWriteback
    PROVE  CoreTypeOK' /\ Control'
<1> DEFINE out == Outputs(cur)[cursor]
           longer == Append(wbQueue[cur], [tid |-> out.tid, size |-> out.size])
<1>1. CoreTypeOK /\ Control /\ cur \in Core
  BY InTick
<1>2. /\ Outputs(cur) \in Seq(Output) /\ cursor \in 1 .. Len(Outputs(cur))
      /\ out.tid \in Tid /\ out.size \in Nat
  BY OutputTyped DEF QueueWriteback
<1>3. wbQueue[cur] \in Seq(Chunk) /\ longer \in Seq(Chunk) /\ longer # <<>>
  <2> HIDE DEF out
  <2>1. wbQueue[cur] \in Seq(Chunk)
    BY <1>1 DEF CoreTypeOK, WbTypeOK, ChunkSeqs
  <2>2. [tid |-> out.tid, size |-> out.size] \in Chunk
    BY <1>2 DEF Chunk
  <2> QED
    BY <2>1, <2>2, AppendQueue
<1>4. wbQueue' = IF ToDram(out) THEN [wbQueue EXCEPT ![cur] = longer] ELSE wbQueue
  BY DEF QueueWriteback
<1>5. wbQueue' \in ChunkSeqs /\ (ToDram(out) => wbQueue'[cur] # <<>>)
  <2> HIDE DEF out, longer
  <2> QED
    BY <1>1, <1>3, <1>4 DEF CoreTypeOK, WbTypeOK, ChunkSeqs
<1>6. WbTypeOK'
  BY <1>1, <1>5 DEF QueueWriteback, CoreTypeOK, WbTypeOK
<1>7. TickTypeOK' /\ pc' = pc /\ pc = "queue" /\ cur' = cur /\ cursor' = cursor + 1
  BY <1>1, TickControlTyped DEF QueueWriteback, NextIteration
<1>8. WritebackAhead'
  <2>1. CASE ToDram(out)
    BY <1>5, <1>7, <2>1 DEF WritebackAhead
  <2>2. CASE ~ToDram(out)
    <3>1. wbQueue' = wbQueue
      BY <1>4, <2>2
    <3>2. CASE wbQueue[cur] # <<>>
      BY <1>7, <3>1, <3>2 DEF WritebackAhead
    <3>3. CASE wbQueue[cur] = <<>>
      <4>1. PICK k \in cursor .. Len(Outputs(cur)) : ToDram(Outputs(cur)[k])
        BY <1>1, <1>7, <3>3 DEF Control, WritebackAhead
      <4>2. k \in cursor + 1 .. Len(Outputs(cur))
        <5>1. k # cursor
          BY <2>2, <4>1
        <5> QED
          BY <1>2, <4>1, <5>1
      <4>3. Outputs(cur)' = Outputs(cur)
        BY <1>7 DEF QueueWriteback, fsmVars, Outputs, Current
      <4>4. ToDram(Outputs(cur)[k])'
        BY <4>1, <4>3 DEF ToDram
      <4> QED
        BY <1>7, <4>2, <4>3, <4>4 DEF WritebackAhead
    <3> QED
      BY <3>2, <3>3
  <2> QED
    BY <2>1, <2>2
<1>9. PcMatchesState' /\ WorkingHasWorkload'
  BY <1>1, <1>7
  DEF QueueWriteback, fsmVars, Control, PcMatchesState, WorkingHasWorkload,
      HasWorkload
<1> QED
  BY <1>1, <1>6, <1>7, <1>8, <1>9, UnchangedTyped
  DEF QueueWriteback, CoreTypeOK, Control

LEMMA EndQueueTyped ==
    ASSUME TypeInv, EndQueue
    PROVE  CoreTypeOK' /\ Control'
<1>1. CoreTypeOK /\ Control /\ cur \in Core
  BY InTick
<1>2. wbQueue[cur] # <<>>
  <2>1. Outputs(cur) \in Seq(Output) /\ cursor > Len(Outputs(cur)) /\ cursor \in Nat
    BY <1>1, OutputTyped DEF EndQueue, CoreTypeOK, TickTypeOK
  <2>2. cursor .. Len(Outputs(cur)) = {}
    BY <2>1
  <2> QED
    BY <1>1, <2>2 DEF EndQueue, Control, WritebackAhead
<1>3. Head(wbQueue[cur]).size \in Nat
  <2>1. Head(wbQueue[cur]) \in Chunk
    BY <1>1, <1>2, HeadTailQueue DEF CoreTypeOK, WbTypeOK, ChunkSeqs
  <2> QED
    BY <2>1 DEF Chunk
<1>4. WbTypeOK'
  BY <1>1, <1>3 DEF EndQueue, CoreTypeOK, WbTypeOK
<1>5. TickTypeOK' /\ pc' \in OutsideFsm
  BY <1>1, TickControlTyped DEF EndQueue
<1> QED
  BY <1>1, <1>4, <1>5, UnchangedTyped, ControlOutsideFsm DEF EndQueue, CoreTypeOK

LEMMA WritebackUnreadTyped ==
    ASSUME CoreTypeOK, NEW c \in Core
    PROVE  WritebackUnread(c) \in Nat
  BY EffectiveTyped, MinusTyped DEF CoreTypeOK, WbTypeOK, WritebackUnread

LEMMA SendWriteTyped ==
    ASSUME CoreTypeOK, cur \in Core, SendWrite
    PROVE  WbTypeOK' /\ injection' \in PacketSeqs
<1> DEFINE out == Head(wbQueue[cur])
           left == Tail(wbQueue[cur])
           request == [type |-> "WRITE_REQUEST", src |-> cur, dst |-> DRAM,
                       tid |-> out.tid, size |-> out.size]
<1>1. out \in Chunk /\ left \in Seq(Chunk)
  BY HeadTailQueue DEF SendWrite, CoreTypeOK, WbTypeOK, ChunkSeqs
<1>2. out.tid \in Tid /\ out.size \in Nat
  BY <1>1 DEF Chunk
<1>3. (IF left = <<>> THEN 0 ELSE Head(left).size) \in Nat
  <2>1. left # <<>> => Head(left) \in Chunk
    BY <1>1, HeadTailQueue
  <2> QED
    BY <2>1 DEF Chunk
<1>4. injection' \in PacketSeqs
  <2>1. request \in Packet
    BY <1>2, CoreConstant DEF Packet, PacketType, DRAM
  <2> QED
    BY <2>1, PushTyped DEF SendWrite
<1>5. WbTypeOK'
  <2>1. /\ wbQueue' = [wbQueue EXCEPT ![cur] = left]
        /\ pendingWb' = [pendingWb EXCEPT ![cur] = @ \cup {out.tid}]
        /\ wbIssued' = [wbIssued EXCEPT ![cur] = @ \/ left = <<>>]
        /\ wbReadRem' = [wbReadRem EXCEPT ![cur] =
                             IF left = <<>> THEN 0 ELSE Head(left).size]
    BY DEF SendWrite
  <2> HIDE DEF out, left
  <2>2. /\ wbQueue' \in ChunkSeqs /\ pendingWb' \in [Core -> SUBSET Tid]
        /\ wbReadRem' \in [Core -> Nat]
    BY <1>1, <1>2, <1>3, <2>1 DEF CoreTypeOK, WbTypeOK, ChunkSeqs
  <2>3. wbIssued' \in [Core -> BOOLEAN]
    BY <2>1 DEF CoreTypeOK, WbTypeOK
  <2> QED
    BY <2>2, <2>3 DEF WbTypeOK
<1> QED
  BY <1>4, <1>5

LEMMA WritebackCycleTyped ==
    ASSUME TypeInv, WritebackCycle
    PROVE  CoreTypeOK' /\ Control'
<1>1. CoreTypeOK /\ Control /\ cur \in Core
  BY InTick
<1>2. WbTypeOK' /\ injection' \in PacketSeqs
  <2>1. CASE NothingToWrite
    BY <1>1, <2>1 DEF NothingToWrite, CoreTypeOK, WbTypeOK, QueueTypeOK
  <2>2. CASE ReadOut
    BY <1>1, <2>2, WritebackUnreadTyped
    DEF ReadOut, CoreTypeOK, WbTypeOK, QueueTypeOK
  <2>3. CASE SendWrite
    BY <1>1, <2>3, SendWriteTyped
  <2> QED
    BY <2>1, <2>2, <2>3 DEF WritebackCycle
<1>3. QueueTypeOK'
  BY <1>1, <1>2 DEF WritebackCycle, CoreTypeOK, QueueTypeOK
<1>4. TickTypeOK' /\ pc' \in OutsideFsm
  BY <1>1, TickControlTyped DEF WritebackCycle
<1>5. FsmTypeOK' /\ Control'
  <2>1. CASE NextWorkload(cur)
    BY <1>1, <1>4, <2>1, NextWorkloadTyped, ControlAfterTick DEF WritebackCycle
  <2>2. CASE UNCHANGED fsmVars
    BY <1>1, <1>4, <2>2, UnchangedTyped, ControlOutsideFsm
    DEF WritebackCycle, CoreTypeOK
  <2> QED
    BY <2>1, <2>2 DEF WritebackCycle
<1> QED
  BY <1>1, <1>2, <1>3, <1>4, <1>5, UnchangedTyped DEF WritebackCycle, CoreTypeOK

LEMMA IdleTickTyped ==
    ASSUME TypeInv, IdleTick
    PROVE  CoreTypeOK' /\ Control'
<1>1. CoreTypeOK /\ Control /\ cur \in Core
  BY InTick
<1>2. TickTypeOK' /\ pc' \in OutsideFsm
  BY <1>1, TickControlTyped DEF IdleTick
<1> QED
  BY <1>1, <1>2, UnchangedTyped, ControlOutsideFsm DEF IdleTick, CoreTypeOK

(* Every step of a core keeps the types and the agreement of phase and state. *)
LEMMA CoreTickTyped ==
    ASSUME TypeInv, CoreTick
    PROVE  CoreTypeOK' /\ Control'
  BY ReceiveReadResponseTyped, ReceiveReadRequestTyped, ReceiveWriteResponseTyped,
     EndIncomingTyped, RetryAllocationTyped, EndRetryTyped, DrainUnlimitedTyped,
     DrainLimitedTyped, EndDrainTyped, ServeRemoteRequestTyped, EndServeTyped,
     RetireCoreTyped, StartWorkloadTyped, FetchSourceTyped, EndFetchTyped,
     ComputeCycleTyped, PublishOutputTyped, EndOutputsTyped, FreeInputTyped,
     FinishWorkloadTyped, EnterWritebackTyped, QueueWritebackTyped, EndQueueTyped,
     WritebackCycleTyped, IdleTickTyped
  DEF CoreTick

-----------------------------------------------------------------------------
(* The network and the memory.                                             *)

LEMMA QuietTyped ==
    ASSUME TypeInv, QuietCores, injection' \in PacketSeqs, ejection' \in PacketSeqs,
           TickTypeOK', pc' \in OutsideFsm
    PROVE  CoreTypeOK' /\ Control'
  BY InTick, UnchangedTyped, ControlOutsideFsm
  DEF QuietCores, CoreTypeOK, QueueTypeOK

LEMMA NodeTyped ==
    /\ \A id : CoreToNoc(id) \in Int
    /\ ToSet(MemoryNodes) \subseteq Int
<1>1. ToSet(MemoryNodes) \subseteq Nat
  BY SimulatorAssumption, InToSet
<1> QED
  BY <1>1, SimulatorAssumption DEF CoreToNoc

LEMMA RoutedTyped ==
    ASSUME NEW p \in Packet, NEW q \in Routed(p)
    PROVE  q \in Packet
<1>1. CASE OnNoc
  <2>1. PICK node \in Int : q = [p EXCEPT !.src = CoreToNoc(p.src), !.dst = node]
    BY <1>1, NodeTyped DEF Routed
  <2>2. CoreToNoc(p.src) \in Int
    BY NodeTyped
  <2> QED
    BY <2>1, <2>2 DEF Packet
<1>2. CASE ~OnNoc
  BY <1>2 DEF Routed
<1> QED
  BY <1>1, <1>2

LEMMA ReplyTyped ==
    ASSUME NEW p \in Packet
    PROVE  Reply(p) \in Packet
  BY DEF Reply, Packet, PacketType

LEMMA NocInjectTyped ==
    ASSUME TransportTypeOK, NEW p \in Packet, NocInject(p)
    PROVE  noc' \in Seq(InFlight)
<1>1. PICK latency \in NocLatency : noc' = Append(noc, [pkt |-> p, ttl |-> latency])
  BY DEF NocInject
<1>2. [pkt |-> p, ttl |-> latency] \in InFlight
  BY SimulatorAssumption DEF InFlight
<1> QED
  BY <1>1, <1>2, AppendQueue DEF TransportTypeOK

LEMMA DramSendTyped ==
    ASSUME TransportTypeOK, NEW p \in Packet, DramSend(p)
    PROVE  dram' \in Seq(InFlight)
<1>1. PICK latency \in DramLatency :
        dram' = Append(dram, [pkt |-> Reply(p), ttl |-> latency])
  BY DEF DramSend
<1>2. [pkt |-> Reply(p), ttl |-> latency] \in InFlight
  BY SimulatorAssumption, ReplyTyped DEF InFlight
<1> QED
  BY <1>1, <1>2, AppendQueue DEF TransportTypeOK

LEMMA OneCycleTyped ==
    ASSUME NEW q \in Seq(InFlight)
    PROVE  /\ OneCycle(q) \in Seq(InFlight) /\ Len(OneCycle(q)) = Len(q)
           /\ \A i \in 1 .. Len(q) : OneCycle(q)[i].pkt = q[i].pkt
<1>1. DOMAIN q = 1 .. Len(q) /\ Len(q) \in Nat
  OBVIOUS
<1>2. ASSUME NEW i \in 1 .. Len(q)
      PROVE  /\ [q[i] EXCEPT !.ttl = Minus(@, 1)] \in InFlight
             /\ [q[i] EXCEPT !.ttl = Minus(@, 1)].pkt = q[i].pkt
  <2>1. q[i] \in InFlight
    OBVIOUS
  <2> QED
    BY <2>1, MinusTyped DEF InFlight
<1>3. OneCycle(q) \in [1 .. Len(q) -> InFlight]
  BY <1>1, <1>2 DEF OneCycle
<1>4. OneCycle(q) \in Seq(InFlight) /\ Len(OneCycle(q)) = Len(q)
  BY <1>1, <1>3
<1> QED
  BY <1>1, <1>2, <1>4 DEF OneCycle

(* The first packet that is due, in either list. *)
LEMMA DueTyped ==
    ASSUME TransportTypeOK
    PROVE  /\ \A node : DueAt(node) # {} =>
                 Min(DueAt(node)) \in DueAt(node) /\ DueAt(node) \subseteq 1 .. Len(noc)
           /\ DueResponses # {} =>
                 /\ Min(DueResponses) \in DueResponses
                 /\ DueResponses \subseteq 1 .. Len(dram)
<1>1. noc \in Seq(InFlight) /\ dram \in Seq(InFlight)
  BY DEF TransportTypeOK
<1>2. /\ \A node : DueAt(node) \subseteq 1 .. Len(noc) /\ DueAt(node) \in SUBSET Nat
      /\ DueResponses \subseteq 1 .. Len(dram) /\ DueResponses \in SUBSET Nat
  BY <1>1 DEF DueAt, DueResponses
<1> QED
  BY <1>2, MinInSet

LEMMA InFlightTyped ==
    ASSUME NEW q \in Seq(InFlight), NEW i \in 1 .. Len(q)
    PROVE  q[i].pkt \in Packet /\ q[i].ttl \in Nat /\ RemoveAt(q, i) \in Seq(InFlight)
<1>1. q[i] \in InFlight
  OBVIOUS
<1> QED
  BY <1>1, RemoveAtQueue DEF InFlight

LEMMA CollectPacketTyped ==
    ASSUME TypeInv, NEW c \in Core, CollectPacket(c)
    PROVE  TypeInv'
<1> DEFINE p == Head(injection[c])
<1>1. /\ CoreTypeOK /\ TransportTypeOK /\ WatchTypeOK /\ injection \in PacketSeqs
      /\ ejection \in PacketSeqs /\ pc = "collect"
  BY DEF CollectPacket, TypeInv, TypeOK, CoreTypeOK, QueueTypeOK
<1>2. p \in Packet /\ Tail(injection[c]) \in Seq(Packet)
  BY <1>1, HeadTailQueue DEF CollectPacket, PacketSeqs
<1>3. TransportTypeOK'
  <2>1. CASE p.dst = DRAM /\ ~OnNoc
    BY <1>1, <1>2, <2>1, DramSendTyped DEF CollectPacket, TransportTypeOK
  <2>2. CASE ~(p.dst = DRAM /\ ~OnNoc)
    <3>1. PICK q \in Routed(p) : NocInject(q)
      BY <2>2 DEF CollectPacket
    <3> QED
      BY <1>1, <1>2, <2>2, <3>1, RoutedTyped, NocInjectTyped
      DEF CollectPacket, TransportTypeOK
  <2> QED
    BY <2>1, <2>2
<1>4. /\ injection' \in PacketSeqs /\ ejection' \in PacketSeqs /\ TickTypeOK'
      /\ pc' \in OutsideFsm /\ WatchTypeOK'
  BY <1>1, <1>2, UnchangedTyped
  DEF CollectPacket, PacketSeqs, CoreTypeOK, OutsideFsm, Label, CoreState
<1> QED
  BY <1>3, <1>4, QuietTyped DEF CollectPacket, TypeInv, TypeOK

(* The steps that only go on to another phase. *)
LEMMA PhaseTyped ==
    ASSUME TypeInv, QuietCores, UNCHANGED <<netVars, transportVars>>, WatchTypeOK',
           NEW label \in OutsideFsm, Step(label)
    PROVE  TypeInv'
<1>1. CoreTypeOK /\ TransportTypeOK /\ label \in Label
  BY DEF TypeInv, TypeOK, OutsideFsm
<1>2. TickTypeOK' /\ pc' \in OutsideFsm /\ TransportTypeOK'
  BY <1>1, TickControlTyped, UnchangedTyped
<1>3. injection' \in PacketSeqs /\ ejection' \in PacketSeqs
  BY <1>1 DEF CoreTypeOK, QueueTypeOK, netVars
<1> QED
  BY <1>2, <1>3, QuietTyped DEF TypeInv, TypeOK

LEMMA EndPhaseTyped ==
    ASSUME TypeInv, EndCollect \/ EndReply \/ EndDeliver \/ EndForward \/ EndRespond
    PROVE  TypeInv'
<1>1. WatchTypeOK'
  BY UnchangedTyped
  DEF TypeInv, TypeOK, EndCollect, EndReply, EndDeliver, EndForward, EndRespond
<1>2. PICK label \in OutsideFsm : Step(label)
  BY DEF EndCollect, EndReply, EndDeliver, EndForward, EndRespond, OutsideFsm,
         Label, CoreState
<1> QED
  BY <1>1, <1>2, PhaseTyped
  DEF EndCollect, EndReply, EndDeliver, EndForward, EndRespond

LEMMA InjectDramResponseTyped ==
    ASSUME TypeInv, InjectDramResponse
    PROVE  TypeInv'
<1>1. /\ CoreTypeOK /\ TransportTypeOK /\ WatchTypeOK
      /\ dramReplies \in Seq(Packet) /\ dramReplies # <<>>
  BY DEF InjectDramResponse, TypeInv, TypeOK, TransportTypeOK
<1>2. Head(dramReplies) \in Packet /\ Tail(dramReplies) \in Seq(Packet)
  BY <1>1, HeadTailQueue
<1>3. TransportTypeOK' /\ WatchTypeOK'
  BY <1>1, <1>2, NocInjectTyped, UnchangedTyped DEF InjectDramResponse, TransportTypeOK
<1>4. /\ injection' \in PacketSeqs /\ ejection' \in PacketSeqs /\ TickTypeOK'
      /\ pc' \in OutsideFsm
  BY <1>1, UnchangedTyped
  DEF InjectDramResponse, CoreTypeOK, QueueTypeOK, netVars, OutsideFsm, Label, CoreState
<1> QED
  BY <1>3, <1>4, QuietTyped DEF InjectDramResponse, TypeInv, TypeOK

LEMMA AdvanceTyped ==
    ASSUME TypeInv, Advance
    PROVE  TypeInv'
<1>1. CoreTypeOK /\ TransportTypeOK /\ WatchTypeOK
  BY DEF TypeInv, TypeOK
<1>2. TransportTypeOK' /\ WatchTypeOK'
  BY <1>1, OneCycleTyped, UnchangedTyped DEF Advance, TransportTypeOK
<1>3. TickTypeOK' /\ pc' \in OutsideFsm
  BY <1>1, TickControlTyped DEF Advance, OutsideFsm, Label, CoreState
<1>4. injection' \in PacketSeqs /\ ejection' \in PacketSeqs
  BY <1>1 DEF Advance, netVars, CoreTypeOK, QueueTypeOK
<1> QED
  BY <1>2, <1>3, <1>4, QuietTyped DEF Advance, TypeInv, TypeOK

(* A packet that arrives, at a core or at nobody. *)
LEMMA ReceiveTyped ==
    ASSUME CoreTypeOK, NEW c, NEW p \in Packet, Receive(c, p)
    PROVE  ejection' \in PacketSeqs
<1>1. CASE c \in Core
  <2>1. Append(ejection[c], p) \in Seq(Packet)
    BY <1>1, AppendQueue DEF CoreTypeOK, QueueTypeOK, PacketSeqs
  <2> QED
    BY <1>1, <2>1 DEF Receive, CoreTypeOK, QueueTypeOK, PacketSeqs
<1>2. CASE c \notin Core
  BY <1>2 DEF Receive, CoreTypeOK, QueueTypeOK, PacketSeqs
<1> QED
  BY <1>1, <1>2

LEMMA DeliverToCoreTyped ==
    ASSUME TypeInv, NEW c \in Core, DeliverToCore(c)
    PROVE  TypeInv'
<1> DEFINE i == Min(DueAt(NodeId(c)))
<1>1. CoreTypeOK /\ TransportTypeOK /\ WatchTypeOK /\ noc \in Seq(InFlight)
  BY DEF TypeInv, TypeOK, TransportTypeOK
<1>2. i \in 1 .. Len(noc)
  BY <1>1, DueTyped DEF DeliverToCore
<1>3. noc[i].pkt \in Packet /\ RemoveAt(noc, i) \in Seq(InFlight)
  BY <1>1, <1>2, InFlightTyped
<1>4. ejection' \in PacketSeqs
  BY <1>1, <1>3, ReceiveTyped DEF DeliverToCore
<1>5. TransportTypeOK' /\ WatchTypeOK'
  BY <1>1, <1>3, UnchangedTyped DEF DeliverToCore, TransportTypeOK
<1>6. injection' \in PacketSeqs /\ TickTypeOK' /\ pc' \in OutsideFsm
  BY <1>1, UnchangedTyped
  DEF DeliverToCore, CoreTypeOK, QueueTypeOK, OutsideFsm, Label, CoreState
<1> QED
  BY <1>4, <1>5, <1>6, QuietTyped DEF DeliverToCore, TypeInv, TypeOK

LEMMA ForwardToDramTyped ==
    ASSUME TypeInv, NEW m \in DOMAIN MemoryNodes, ForwardToDram(m)
    PROVE  TypeInv'
<1> DEFINE i == Min(DueAt(MemoryNodes[m]))
<1>1. CoreTypeOK /\ TransportTypeOK /\ WatchTypeOK /\ noc \in Seq(InFlight)
  BY DEF TypeInv, TypeOK, TransportTypeOK
<1>2. i \in 1 .. Len(noc)
  BY <1>1, DueTyped DEF ForwardToDram
<1>3. noc[i].pkt \in Packet /\ RemoveAt(noc, i) \in Seq(InFlight)
  BY <1>1, <1>2, InFlightTyped
<1>4. TransportTypeOK' /\ WatchTypeOK'
  BY <1>1, <1>3, DramSendTyped, UnchangedTyped DEF ForwardToDram, TransportTypeOK
<1>5. /\ injection' \in PacketSeqs /\ ejection' \in PacketSeqs /\ TickTypeOK'
      /\ pc' \in OutsideFsm
  BY <1>1, UnchangedTyped
  DEF ForwardToDram, CoreTypeOK, QueueTypeOK, netVars, OutsideFsm, Label, CoreState
<1> QED
  BY <1>4, <1>5, QuietTyped DEF ForwardToDram, TypeInv, TypeOK

LEMMA DeliverDramResponseTyped ==
    ASSUME TypeInv, DeliverDramResponse
    PROVE  TypeInv'
<1> DEFINE i == Min(DueResponses)
           p == dram[i].pkt
<1>1. CoreTypeOK /\ TransportTypeOK /\ WatchTypeOK /\ dram \in Seq(InFlight)
  BY DEF TypeInv, TypeOK, TransportTypeOK
<1>2. i \in 1 .. Len(dram)
  BY <1>1, DueTyped DEF DeliverDramResponse
<1>3. p \in Packet /\ RemoveAt(dram, i) \in Seq(InFlight)
  BY <1>1, <1>2, InFlightTyped
<1>4. ejection' \in PacketSeqs /\ dramReplies' \in Seq(Packet)
  <2>1. CASE OnNoc
    <3>1. Append(dramReplies, p) \in Seq(Packet)
      BY <1>1, <1>3, AppendQueue DEF TransportTypeOK
    <3> QED
      BY <1>1, <2>1, <3>1 DEF DeliverDramResponse, CoreTypeOK, QueueTypeOK
  <2>2. CASE ~OnNoc
    BY <1>1, <1>3, <2>2, ReceiveTyped DEF DeliverDramResponse, TransportTypeOK
  <2> QED
    BY <2>1, <2>2
<1>5. TransportTypeOK' /\ WatchTypeOK'
  BY <1>1, <1>3, <1>4, UnchangedTyped DEF DeliverDramResponse, TransportTypeOK
<1>6. injection' \in PacketSeqs /\ TickTypeOK' /\ pc' \in OutsideFsm
  BY <1>1, UnchangedTyped
  DEF DeliverDramResponse, CoreTypeOK, QueueTypeOK, OutsideFsm, Label, CoreState
<1> QED
  BY <1>4, <1>5, <1>6, QuietTyped DEF DeliverDramResponse, TypeInv, TypeOK

-----------------------------------------------------------------------------
(* The loop and the watchdog.                                              *)

LEMMA LoopHeadLabel == LoopHead \in OutsideFsm
  BY DEF LoopHead, OutsideFsm, Label, CoreState

LEMMA NextCycleTyped ==
    ASSUME TypeInv, NextCycle
    PROVE  TypeInv'
<1>1. WatchTypeOK /\ CheckPeriod \in Nat \ {0} /\ sinceCheck \in 0 .. CheckPeriod - 1
  BY SimulatorAssumption DEF TypeInv, TypeOK, WatchTypeOK
<1>2. sinceCheck + 1 # CheckPeriod
  <2>1. CheckPeriod % CheckPeriod = 0
    BY <1>1
  <2> QED
    BY <2>1 DEF NextCycle, CheckTime
<1>3. WatchTypeOK'
  BY <1>1, <1>2 DEF NextCycle, WatchTypeOK
<1> QED
  BY <1>3, LoopHeadLabel, PhaseTyped DEF NextCycle

LEMMA CheckProgressTyped ==
    ASSUME TypeInv, CheckProgress
    PROVE  TypeInv'
<1>1. WatchTypeOK /\ completed \in Nat
  BY DEF TypeInv, TypeOK, CoreTypeOK, FsmTypeOK
<1>2. WatchTypeOK'
  BY <1>1, SimulatorAssumption DEF CheckProgress, WatchTypeOK
<1>3. (IF stalled' < CheckThreshold THEN LoopHead ELSE "resolve") \in OutsideFsm
  BY LoopHeadLabel DEF OutsideFsm, Label, CoreState
<1> QED
  BY <1>2, <1>3, PhaseTyped DEF CheckProgress

LEMMA GiveUpTyped ==
    ASSUME TypeInv, GiveUp
    PROVE  TypeInv'
<1>1. WatchTypeOK'
  BY UnchangedTyped DEF TypeInv, TypeOK, GiveUp
<1>2. (IF stalled >= AbortThreshold THEN "aborted" ELSE LoopHead) \in OutsideFsm
  BY LoopHeadLabel DEF OutsideFsm, Label, CoreState
<1> QED
  BY <1>1, <1>2, PhaseTyped DEF GiveUp

LEMMA ResolvedTyped ==
    ASSUME TypeInv, Resolved
    PROVE  /\ TickTypeOK' /\ pc' \in OutsideFsm
           /\ TransportTypeOK' /\ WatchTypeOK'
<1>1. CoreTypeOK /\ TransportTypeOK /\ WatchTypeOK
  BY DEF TypeInv, TypeOK
<1>2. TickTypeOK' /\ pc' \in OutsideFsm
  BY <1>1, TickControlTyped DEF Resolved, OutsideFsm, Label, CoreState
<1> QED
  BY <1>1, <1>2, UnchangedTyped DEF Resolved, WatchTypeOK

LEMMA ForceAdvanceLoadingTyped ==
    ASSUME TypeInv, NEW c \in Core, ForceAdvanceLoading(c), Resolved
    PROVE  TypeInv'
<1>1. CoreTypeOK /\ Control /\ HasWorkload(c)
  BY InTick DEF ForceAdvanceLoading, Control, WorkingHasWorkload
<1>2. /\ TickTypeOK' /\ pc' \in OutsideFsm
      /\ TransportTypeOK' /\ WatchTypeOK'
  BY ResolvedTyped
<1>3. FsmTypeOK' /\ LoadTypeOK'
  BY <1>1, CurrentTyped
  DEF ForceAdvanceLoading, BeginCompute, CoreTypeOK, FsmTypeOK, LoadTypeOK, CoreState
<1>4. WriteTypeOK'
  BY <1>1, ForgetWritesTyped DEF ForceAdvanceLoading
<1>5. QueueTypeOK'
  <2>1. <<>> \in Seq(Packet)
    BY EmptySeq
  <2> QED
    BY <1>1, <2>1
    DEF ForceAdvanceLoading, netVars, CoreTypeOK, QueueTypeOK, PacketSeqs
<1>6. Control'
  <2>1. ASSUME NEW d \in Core,
               state'[d] \in {"LOADING", "COMPUTING", "WRITEBACK"}
        PROVE  idx'[d] <= Len(ir[d])
    BY <1>1, <2>1
    DEF ForceAdvanceLoading, BeginCompute, CoreTypeOK, FsmTypeOK, Control,
        WorkingHasWorkload, HasWorkload
  <2> QED
    BY <1>2, <2>1, ControlAfterTick DEF ForceAdvanceLoading
<1> QED
  BY <1>1, <1>2, <1>3, <1>4, <1>5, <1>6, UnchangedTyped
  DEF ForceAdvanceLoading, TypeInv, TypeOK, CoreTypeOK

LEMMA ForceCompleteWritebackTyped ==
    ASSUME TypeInv, NEW c \in Core, ForceCompleteWriteback(c), Resolved
    PROVE  TypeInv'
<1>1. CoreTypeOK /\ Control
  BY InTick
<1>2. /\ TickTypeOK' /\ pc' \in OutsideFsm
      /\ TransportTypeOK' /\ WatchTypeOK'
  BY ResolvedTyped
<1>3. FsmTypeOK' /\ Control'
  BY <1>1, <1>2, NextWorkloadTyped, ControlAfterTick DEF ForceCompleteWriteback
<1>4. WbTypeOK'
  <2>1. <<>> \in Seq(Chunk)
    BY EmptySeq
  <2> QED
    BY <1>1, <2>1 DEF ForceCompleteWriteback, CoreTypeOK, WbTypeOK, ChunkSeqs
<1> QED
  BY <1>1, <1>2, <1>3, <1>4, UnchangedTyped
  DEF ForceCompleteWriteback, TypeInv, TypeOK, CoreTypeOK

(* The victim of an intervention is a core. *)
LEMMA VictimIsCore ==
    ASSUME NEW S \in SUBSET Core, S # {}
    PROVE  Min(S) \in Core
<1>1. S \in SUBSET Nat
  BY CoreConstant
<1> QED
  BY <1>1, MinInSet

LEMMA WatchdogTyped ==
    ASSUME TypeInv, Watchdog
    PROVE  TypeInv'
<1>1. ASSUME NEW S \in SUBSET Core, BreakCycle(S)
      PROVE  TypeInv'
  <2>1. Min(S) \in Core
    BY <1>1, VictimIsCore DEF BreakCycle, IsCycle
  <2> QED
    BY <1>1, <2>1, ForceAdvanceLoadingTyped DEF BreakCycle
<1>2. CASE RelievePressure
  <2>1. Min(Pressured) \in Core
    BY <1>2, VictimIsCore DEF RelievePressure, Pressured
  <2> QED
    BY <1>2, <2>1, ForceAdvanceLoadingTyped DEF RelievePressure
<1>3. CASE AbandonWriteback
  <2>1. Min(Writing) \in Core
    BY <1>3, VictimIsCore DEF AbandonWriteback, Writing
  <2> QED
    BY <1>3, <2>1, ForceCompleteWritebackTyped DEF AbandonWriteback
<1>4. CASE GiveUp
  BY <1>4, GiveUpTyped
<1> QED
  BY <1>1, <1>2, <1>3, <1>4 DEF Watchdog

-----------------------------------------------------------------------------
(* The invariant.                                                          *)

LEMMA InitTyped ==
    ASSUME Init
    PROVE  TypeInv
<1>1. ir \in [Core -> Seq(Workload)]
  BY SimulatorAssumption DEF Init
<1>2. \A S : <<>> \in Seq(S)
  BY EmptySeq
<1>3. FsmTypeOK /\ LoadTypeOK
  BY <1>1 DEF Init, CoreInit, FsmTypeOK, LoadTypeOK, CoreState
<1>4. SramsTypeOK
  BY EmptySramTyped DEF Init, CoreInit, SramsTypeOK
<1>5. WriteTypeOK /\ QueueTypeOK /\ WbTypeOK
  BY <1>2, TaskAssumption
  DEF Init, CoreInit, WriteTypeOK, QueueTypeOK, WbTypeOK, PacketSeqs, ChunkSeqs
<1>6. TickTypeOK
  BY CoreConstant DEF Init, CoreInit, TickTypeOK, Label
<1>7. TransportTypeOK /\ WatchTypeOK
  BY <1>2, SimulatorAssumption DEF Init, TransportTypeOK, WatchTypeOK
<1>8. Control
  BY DEF Init, CoreInit, Control, PcMatchesState, WorkingHasWorkload,
         WritebackAhead, CoreState
<1> QED
  BY <1>3, <1>4, <1>5, <1>6, <1>7, <1>8 DEF TypeInv, TypeOK, CoreTypeOK

LEMMA TickTyped ==
    ASSUME TypeInv, Tick
    PROVE  TypeInv'
<1>1. CASE CoreTick /\ UNCHANGED <<transportVars, watchVars>>
  BY <1>1, CoreTickTyped, UnchangedTyped DEF TypeInv, TypeOK
<1>2. ASSUME NEW c \in Core, CollectPacket(c) \/ DeliverToCore(c)
      PROVE  TypeInv'
  BY <1>2, CollectPacketTyped, DeliverToCoreTyped
<1>3. ASSUME NEW m \in DOMAIN MemoryNodes, ForwardToDram(m)
      PROVE  TypeInv'
  BY <1>3, ForwardToDramTyped
<1> QED
  BY <1>1, <1>2, <1>3, EndPhaseTyped, InjectDramResponseTyped, AdvanceTyped,
     DeliverDramResponseTyped
  DEF Tick

(* A step that changes nothing keeps everything. *)
LEMMA StutterTyped ==
    ASSUME TypeInv, UNCHANGED vars
    PROVE  TypeInv'
<1>1. UNCHANGED <<ir, fsmVars, loadVars, sram, retry, writeVars, remote, netVars,
                  wbVars, pc, cur, cursor, budget, transportVars, watchVars>>
  BY DEF vars, coreVars
<1>2. TypeOK'
  BY <1>1, UnchangedTyped DEF TypeInv, TypeOK, CoreTypeOK
<1>3. Control'
  BY <1>1
  DEF fsmVars, wbVars, TypeInv, Control, PcMatchesState, WorkingHasWorkload,
      WritebackAhead, HasWorkload, Outputs, Current
<1> QED
  BY <1>2, <1>3 DEF TypeInv

LEMMA NextTyped ==
    ASSUME TypeInv, [Next]_vars
    PROVE  TypeInv'
  BY TickTyped, NextCycleTyped, CheckProgressTyped, WatchdogTyped, StutterTyped
  DEF Next, Halted

(* TypeInv is an invariant, and inductive: a core at work has a workload, and a
   core that enters WRITEBACK finds an output to write, so that front() is never
   called on an empty list and no index leaves a workload list. *)
THEOREM TypeInvariant == Spec => []TypeInv
<1>1. Init => TypeInv
  BY InitTyped
<1>2. TypeInv /\ [Next]_vars => TypeInv'
  BY NextTyped
<1> QED
  BY <1>1, <1>2, PTL DEF Spec

(* Every variable of the simulator keeps its type, whatever network is mapped
   on whatever chip: the queues hold packets of known transfers only, and the
   counters of cycles, bytes and references stay natural numbers. *)
THEOREM TypeCorrect == Spec => []TypeOK
<1>1. TypeInv => TypeOK
  BY DEF TypeInv
<1> QED
  BY <1>1, TypeInvariant, PTL

-----------------------------------------------------------------------------
(* The operations there are on a scratchpad, with their arguments.         *)

Releases(s, new) == \E t : new = ReleaseRef(s, t)
Readies(s, new) == \E t : new = MarkReady(s, t)
Allocates(s, new) ==
    \E t \in Tid : \E size, ref \in Nat :
        \/ new = Allocate(s, t, size, ref)
        \/ new = MarkReady(Allocate(s, t, size, ref), t)

Operates(c) ==
    \E new : /\ sram' = [sram EXCEPT ![c] = new]
             /\ \/ Releases(sram[c], new) \/ Readies(sram[c], new)
                \/ Allocates(sram[c], new)

LEMMA AllocateInputOperates ==
    ASSUME TypeInv, NEW c \in Core, NEW p \in Packet, AllocateInput(c, p)
    PROVE  Operates(c)
<1>1. p.tid \in Tid /\ p.size \in Nat /\ InputRefs(c, p.tid) \in Nat
  BY InTick, InputRefsTyped DEF Packet
<1> QED
  BY <1>1 DEF AllocateInput, Operates, Allocates

LEMMA PublishOperates ==
    ASSUME TypeInv, PublishOutput
    PROVE  Operates(cur)
<1> DEFINE out == Outputs(cur)[cursor]
<1>1. CoreTypeOK /\ cur \in Core
  BY InTick
<1>2. out \in Output /\ out.tid \in Tid /\ out.size \in Nat
  BY OutputTyped DEF PublishOutput
<1>3. OutputRefs(cur, out) \in Nat
  BY <1>1, <1>2, OutputRefsTyped
<1> HIDE DEF out
<1>4. sram' = [sram EXCEPT ![cur] =
          MarkReady(Allocate(sram[cur], out.tid, out.size, OutputRefs(cur, out)), out.tid)]
  BY DEF PublishOutput, out
<1> QED
  BY <1>2, <1>3, <1>4 DEF Operates, Allocates

LEMMA CoreTickOperates ==
    ASSUME TypeInv, CoreTick
    PROVE  UNCHANGED sram \/ Operates(cur)
<1>1. CoreTypeOK /\ cur \in Core
  BY InTick
<1>2. CASE ReceiveReadResponse
  <2>1. Head(ejection[cur]) \in Packet
    BY <1>2, IncomingTyped DEF ReceiveReadResponse
  <2> QED
    BY <1>1, <1>2, <2>1, AllocateInputOperates DEF ReceiveReadResponse
<1>3. CASE RetryAllocation
  <2>1. retry[cur][cursor] \in Packet
    BY <1>1, <1>3
    DEF RetryAllocation, CoreTypeOK, QueueTypeOK, TickTypeOK, PacketSeqs
  <2> QED
    BY <1>1, <1>3, <2>1, AllocateInputOperates DEF RetryAllocation
<1>4. CASE ReceiveReadRequest \/ ReceiveWriteResponse \/ ServeRemoteRequest \/ FreeInput
  BY <1>4
  DEF ReceiveReadRequest, ReceiveWriteResponse, ServeRemoteRequest, FreeInput,
      Operates, Releases
<1>5. CASE DrainUnlimited \/ DrainLimited
  <2>1. UNCHANGED sram \/ \E t : WriteDone(cur, t)
    BY <1>5 DEF DrainUnlimited, DrainLimited
  <2> QED
    BY <2>1 DEF WriteDone, Operates, Readies
<1>6. CASE PublishOutput
  BY <1>6, PublishOperates
<1>7. CASE \/ EndIncoming \/ EndRetry \/ EndDrain \/ EndServe \/ RetireCore
           \/ StartWorkload \/ FetchSource \/ EndFetch \/ ComputeCycle
           \/ EndOutputs \/ FinishWorkload \/ EnterWriteback \/ QueueWriteback
           \/ EndQueue \/ WritebackCycle \/ IdleTick
  BY <1>7
  DEF EndIncoming, EndRetry, EndDrain, EndServe, RetireCore, StartWorkload,
      FetchSource, EndFetch, ComputeCycle, EndOutputs, FinishWorkload,
      EnterWriteback, QueueWriteback, EndQueue, WritebackCycle, IdleTick
<1> QED
  BY <1>2, <1>3, <1>4, <1>5, <1>6, <1>7 DEF CoreTick

(* Outside the cores nothing touches a scratchpad, the watchdog included: it
   moves a core on and leaves its entries where they are. *)
LEMMA OnlyCoresUseSram ==
    ASSUME [Next]_vars
    PROVE  UNCHANGED sram \/ CoreTick
<1>1. CASE UNCHANGED vars
  BY <1>1 DEF vars, coreVars
<1>2. CASE Watchdog
  BY <1>2
  DEF Watchdog, BreakCycle, RelievePressure, AbandonWriteback, GiveUp,
      ForceAdvanceLoading, ForceCompleteWriteback, QuietCores
<1>3. CASE NextCycle \/ CheckProgress \/ Halted
  BY <1>1, <1>3 DEF NextCycle, CheckProgress, Halted, QuietCores
<1>4. CASE Tick /\ ~CoreTick
  BY <1>4
  DEF Tick, CollectPacket, DeliverToCore, EndCollect, InjectDramResponse,
      EndReply, Advance, EndDeliver, ForwardToDram, EndForward,
      DeliverDramResponse, EndRespond, QuietCores
<1> QED
  BY <1>1, <1>2, <1>3, <1>4 DEF Next

LEMMA SramSteps ==
    ASSUME TypeInv, [Next]_vars
    PROVE  \/ UNCHANGED sram
           \/ \E c \in Core : \E new :
                /\ \A d \in Core : sram'[d] = IF d = c THEN new ELSE sram[d]
                /\ SramTypeOK(sram[c])
                /\ \/ Releases(sram[c], new) \/ Readies(sram[c], new)
                   \/ Allocates(sram[c], new)
<1>1. SramsTypeOK /\ cur \in Core
  BY DEF TypeInv, TypeOK, CoreTypeOK, TickTypeOK
<1>2. CASE Operates(cur)
  <2>1. PICK new : /\ sram' = [sram EXCEPT ![cur] = new]
                   /\ \/ Releases(sram[cur], new) \/ Readies(sram[cur], new)
                      \/ Allocates(sram[cur], new)
    BY <1>2 DEF Operates
  <2>2. \A d \in Core : sram'[d] = IF d = cur THEN new ELSE sram[d]
    BY <1>1, <2>1 DEF SramsTypeOK
  <2>3. SramTypeOK(sram[cur])
    BY <1>1 DEF SramsTypeOK
  <2> QED
    BY <1>1, <2>1, <2>2, <2>3
<1> QED
  BY <1>2, CoreTickOperates, OnlyCoresUseSram

-----------------------------------------------------------------------------
(* The capacity                                                            *)

LEMMA OperationWithinCapacity ==
    ASSUME NEW s, SramTypeOK(s), s.used <= Capacity, NEW new,
           Releases(s, new) \/ Readies(s, new) \/ Allocates(s, new)
    PROVE  new.used <= Capacity
<1>1. CASE Releases(s, new)
  <2>1. SramTypeOK(new) /\ new.used <= s.used
    BY <1>1, ReleaseRefTyped, ReleaseRefGivesBack DEF Releases
  <2>2. new.used \in Int /\ s.used \in Int
    BY <2>1 DEF SramTypeOK
  <2> QED
    BY <2>1, <2>2, CapacityAssumption
<1>2. CASE Readies(s, new)
  BY <1>2, MarkReadyKeepsUsed DEF Readies
<1>3. CASE Allocates(s, new)
  <2>1. PICK t \in Tid, size \in Nat, ref \in Nat :
            \/ new = Allocate(s, t, size, ref)
            \/ new = MarkReady(Allocate(s, t, size, ref), t)
    BY <1>3 DEF Allocates
  <2>2. /\ SramTypeOK(Allocate(s, t, size, ref))
        /\ Allocate(s, t, size, ref).used <= Capacity
    BY AllocateTyped, AllocateWithinCapacity
  <2> QED
    BY <2>1, <2>2, MarkReadyKeepsUsed
<1> QED
  BY <1>1, <1>2, <1>3

(* Whatever responses, retried responses and outputs compete for a scratchpad,
   what is allocated in it never exceeds its capacity: allocate() is the only
   operation that takes bytes, and it refuses those that do not fit. *)
THEOREM WithinCapacity == Spec => []SramWithinCapacity
<1>1. Init => CapacityInv
  BY InitTyped, CapacityAssumption
  DEF Init, CoreInit, EmptySram, CapacityInv, SramWithinCapacity
<1>2. CapacityInv /\ [Next]_vars => CapacityInv'
  <2> SUFFICES ASSUME CapacityInv, [Next]_vars
               PROVE  SramWithinCapacity'
    BY NextTyped DEF CapacityInv
  <2>1. \A c \in Core : sram[c].used <= Capacity
    BY DEF CapacityInv, SramWithinCapacity
  <2> QED
    BY <2>1, SramSteps, OperationWithinCapacity DEF CapacityInv, SramWithinCapacity
<1>3. CapacityInv => SramWithinCapacity
  BY DEF CapacityInv
<1> QED
  BY <1>1, <1>2, <1>3, PTL DEF Spec

-----------------------------------------------------------------------------
(* The accounting                                                          *)

BytesOf(t, n) == {<<t, k>> : k \in 1 .. n}

LEMMA BytesOfEntry ==
    ASSUME NEW t, NEW n \in Nat
    PROVE  IsFiniteSet(BytesOf(t, n)) /\ Cardinality(BytesOf(t, n)) = n
<1>1. BytesOf(t, n) = {t} \X (1 .. n)
  BY DEF BytesOf
<1>2. IsFiniteSet(1 .. n) /\ Cardinality(1 .. n) = n
  BY FS_Interval
<1>3. IsFiniteSet({t}) /\ Cardinality({t}) = 1
  BY FS_Singleton
<1>4. /\ IsFiniteSet({t} \X (1 .. n))
      /\ Cardinality({t} \X (1 .. n)) = 1 * n
  BY ZenonT(30), <1>2, <1>3, FS_Product
<1> QED
  BY <1>1, <1>4

(* What does not touch the sizes of the entries leaves the bytes. *)
LEMMA SameBytes ==
    ASSUME NEW s, NEW new, Accounted(s), new.used = s.used,
           DOMAIN new.entries = DOMAIN s.entries,
           \A t \in DOMAIN s.entries : new.entries[t].size = s.entries[t].size
    PROVE  Accounted(new)
<1>1. Bytes(new) = Bytes(s)
  BY DEF Bytes
<1> QED
  BY <1>1 DEF Accounted

LEMMA MarkReadyAccounted ==
    ASSUME NEW s, SramTypeOK(s), Accounted(s), NEW t
    PROVE  Accounted(MarkReady(s, t))
<1> DEFINE new == MarkReady(s, t)
<1>1. CASE HasData(s, t)
  <2>1. new = [s EXCEPT !.entries = [s.entries EXCEPT ![t].ready = TRUE]]
    BY <1>1 DEF MarkReady
  <2>2. /\ new.used = s.used
        /\ new.entries = [s.entries EXCEPT ![t].ready = TRUE]
    BY <2>1 DEF SramTypeOK
  <2>3. /\ DOMAIN new.entries = DOMAIN s.entries
        /\ \A u \in DOMAIN s.entries : new.entries[u].size = s.entries[u].size
    BY <2>2 DEF SramTypeOK, SramEntry
  <2> QED
    BY <2>2, <2>3, SameBytes
<1> QED
  BY <1>1 DEF MarkReady

LEMMA AllocateAccounted ==
    ASSUME NEW s, SramTypeOK(s), Accounted(s), NEW t, NEW size \in Nat, NEW ref
    PROVE  Accounted(Allocate(s, t, size, ref))
<1> DEFINE new == Insert(s, t, size, ref)
<1>1. CASE ~HasData(s, t)
  <2>1. Bytes(new) = Bytes(s) \cup BytesOf(t, size)
    <3>1. /\ DOMAIN new.entries = DOMAIN s.entries \cup {t}
          /\ new.entries[t].size = size
          /\ \A u \in DOMAIN s.entries : new.entries[u].size = s.entries[u].size
      BY <1>1 DEF Insert, HasData
    <3> HIDE DEF new
    <3> QED
      BY <3>1 DEF Bytes, BytesOf
  <2>2. Bytes(s) \cap BytesOf(t, size) = {}
    BY <1>1 DEF Bytes, BytesOf, HasData
  <2>3. IsFiniteSet(BytesOf(t, size)) /\ Cardinality(BytesOf(t, size)) = size
    BY BytesOfEntry
  <2>4. /\ Cardinality(Bytes(s)) \in Nat /\ Cardinality({}) = 0
        /\ new.used = s.used + size
    BY FS_CardinalityType, FS_EmptySet DEF Insert, Accounted
  <2> HIDE DEF new
  <2>5. /\ IsFiniteSet(Bytes(new))
        /\ Cardinality(Bytes(new)) = Cardinality(Bytes(s)) + size - 0
    <3>1. IsFiniteSet(Bytes(s))
      BY DEF Accounted
    <3> QED
      BY ZenonT(30), <2>1, <2>2, <2>3, <2>4, <3>1, FS_Union
  <2>6. Accounted(new)
    BY <2>4, <2>5 DEF Accounted
  <2> QED
    BY <2>6 DEF Allocate, new
<1> QED
  BY <1>1 DEF Allocate

LEMMA DeallocateAccounted ==
    ASSUME NEW s, SramTypeOK(s), Accounted(s), NEW t
    PROVE  Accounted(Deallocate(s, t))
<1> DEFINE new == Deallocate(s, t)
           size == s.entries[t].size
<1>1. CASE HasData(s, t)
  <2>1. /\ new.entries = [x \in DOMAIN s.entries \ {t} |-> s.entries[x]]
        /\ new.used = s.used - size
    BY <1>1 DEF Deallocate
  <2>2. size \in Nat
    BY <1>1 DEF HasData, SramTypeOK, SramEntry
  <2>3. Bytes(new) = Bytes(s) \ BytesOf(t, size)
    BY <2>1 DEF Bytes, BytesOf
  <2>4. Bytes(s) \cap BytesOf(t, size) = BytesOf(t, size)
    BY <1>1 DEF Bytes, BytesOf, HasData
  <2> HIDE DEF new, size
  <2>5. /\ IsFiniteSet(Bytes(new))
        /\ Cardinality(Bytes(new)) = Cardinality(Bytes(s)) - size
    <3>1. IsFiniteSet(Bytes(s)) /\ Cardinality(BytesOf(t, size)) = size
      BY <2>2, BytesOfEntry DEF Accounted
    <3>2. /\ IsFiniteSet(Bytes(s) \ BytesOf(t, size))
          /\ Cardinality(Bytes(s) \ BytesOf(t, size)) =
                Cardinality(Bytes(s)) - Cardinality(Bytes(s) \cap BytesOf(t, size))
      BY <3>1, FS_Difference
    <3> QED
      BY <2>3, <2>4, <3>1, <3>2
  <2>6. Accounted(new)
    BY <2>1, <2>5 DEF Accounted
  <2> QED
    BY <2>6 DEF new
<1> QED
  BY <1>1 DEF Deallocate

LEMMA ReleaseRefAccounted ==
    ASSUME NEW s, SramTypeOK(s), Accounted(s), NEW t
    PROVE  Accounted(ReleaseRef(s, t))
<1> DEFINE new == ReleaseRef(s, t)
<1>1. CASE HasData(s, t) /\ ~(s.entries[t].ref <= 1)
  <2>1. new = [s EXCEPT !.entries = [s.entries EXCEPT ![t].ref = @ - 1]]
    BY <1>1 DEF ReleaseRef
  <2>2. /\ new.used = s.used
        /\ new.entries = [s.entries EXCEPT ![t].ref = @ - 1]
    BY <2>1 DEF SramTypeOK
  <2>3. /\ DOMAIN new.entries = DOMAIN s.entries
        /\ \A u \in DOMAIN s.entries : new.entries[u].size = s.entries[u].size
    BY <2>2 DEF SramTypeOK, SramEntry
  <2> QED
    BY <2>2, <2>3, SameBytes
<1> QED
  BY <1>1, DeallocateAccounted DEF ReleaseRef

LEMMA OperationAccounted ==
    ASSUME NEW s, SramTypeOK(s), Accounted(s), NEW new,
           Releases(s, new) \/ Readies(s, new) \/ Allocates(s, new)
    PROVE  Accounted(new)
<1>1. CASE Releases(s, new) \/ Readies(s, new)
  BY <1>1, ReleaseRefAccounted, MarkReadyAccounted DEF Releases, Readies
<1>2. CASE Allocates(s, new)
  <2>1. PICK t \in Tid, size \in Nat, ref \in Nat :
            \/ new = Allocate(s, t, size, ref)
            \/ new = MarkReady(Allocate(s, t, size, ref), t)
    BY <1>2 DEF Allocates
  <2>2. SramTypeOK(Allocate(s, t, size, ref)) /\ Accounted(Allocate(s, t, size, ref))
    BY AllocateTyped, AllocateAccounted
  <2> QED
    BY <2>1, <2>2, MarkReadyAccounted
<1> QED
  BY <1>1, <1>2

(* used_bytes_ is what the entries take, at every step of every run: nothing
   is given back twice, nothing is kept after its entry is gone (sram.cpp).  It
   therefore never wraps below zero. *)
THEOREM UsedIsAccounted == Spec => []SramAccounting
<1>1. Init => AccountingInv
  <2>1. Bytes(EmptySram) = {}
    BY DEF Bytes, EmptySram
  <2>2. Accounted(EmptySram)
    BY <2>1, FS_EmptySet DEF Accounted, EmptySram
  <2> QED
    BY <2>2, InitTyped DEF Init, CoreInit, AccountingInv
<1>2. AccountingInv /\ [Next]_vars => AccountingInv'
  <2> SUFFICES ASSUME AccountingInv, [Next]_vars
               PROVE  \A c \in Core : Accounted(sram'[c])
    BY NextTyped DEF AccountingInv, Accounted, Bytes
  <2>1. CASE UNCHANGED sram
    BY <2>1 DEF AccountingInv
  <2> QED
    BY <2>1, SramSteps, OperationAccounted DEF AccountingInv
<1>3. AccountingInv => SramAccounting
  BY DEF AccountingInv, Accounted, SramAccounting
<1> QED
  BY <1>1, <1>2, <1>3, PTL DEF Spec

=============================================================================
