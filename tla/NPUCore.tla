------------------------------- MODULE NPUCore -------------------------------
(***************************************************************************)
(* The NPU cores of the simulator (src/src/core.cpp).                      *)
(*                                                                         *)
(* The program is one thread: Simulator::tick() calls NPUCore::tick() on   *)
(* one core after the other.  A tick is a fixed sequence of phases and     *)
(* several of them are loops, so the model executes a tick as a chain of   *)
(* steps, one per loop iteration, under a program counter.  The chain has  *)
(* no choice in it: splitting it adds no interleaving, it only lets the    *)
(* loops be written without recursion.  The phases, in order, are          *)
(*   "incoming"  process_incoming_packets, one packet a step               *)
(*   "retry"     retry_sram_allocations, one queued response a step        *)
(*   "drain"     drain_sram_writes, one write a step                       *)
(*   "serve"     serve_pending_remote_requests, one request a step         *)
(* and then the switch on state_: the program counter becomes the state;   *)
(* the end of a computation continues with "outputs"                       *)
(* (mark_outputs_available), "free" (free_consumed_buffers) and "queue"    *)
(* (the list of outputs to write back).                                    *)
(***************************************************************************)
EXTENDS Sram, SequencesExt, FiniteSets

CONSTANTS
    InjectionCapacity,  \* injection_queue_capacity_
    ReadBandwidth,      \* sram bandwidths by operator class, 0 = unset
    WriteBandwidth

Bandwidth == [pe : Nat, vp : Nat, any : Nat]

ASSUME CoreAssumption ==
    /\ InjectionCapacity \in Nat
    /\ ReadBandwidth \in Bandwidth /\ WriteBandwidth \in Bandwidth

CoreState == {"IDLE", "LOADING", "COMPUTING", "WRITEBACK", "DONE"}
PacketType == {"READ_REQUEST", "READ_RESPONSE",
               "WRITE_REQUEST", "WRITE_RESPONSE"}

(* src and dst are core ids, or node ids once the packet is on the NoC. *)
Packet == [type : PacketType, src : Int, dst : Int, tid : Tid, size : Nat]
Chunk  == [tid : Tid, size : Nat]

VARIABLES
    ir,             \* ir[c]: workload_queue_ of core c, fixed at start
    state,          \* state_
    idx,            \* current_workload_idx_ (from 1)
    computeRem,     \* compute_remaining_
    completed,      \* stats_.workloads_completed, summed over the cores
    pendingLoads,   \* pending_loads_
    requested,      \* requested_transfers_
    sram,           \* sram_
    retry,          \* sram_retry_queue_
    writeId,        \* sram_write_current_id_
    writeRem,       \* sram_write_bytes_remaining_
    writeQueue,     \* sram_write_queue_
    remote,         \* pending_remote_requests_
    injection,      \* injection_queue_
    ejection,       \* ejection_queue_
    pendingWb,      \* pending_writebacks_
    wbIssued,       \* writeback_requests_issued_
    wbQueue,        \* writeback_pending_
    wbReadRem,      \* writeback_read_remaining_
    pc,             \* phase of the tick
    cur,            \* core being ticked
    cursor,         \* iterator of the loop being executed
    budget          \* write_bw left to drain_sram_writes in this tick

fsmVars   == <<state, idx, computeRem, completed>>
loadVars  == <<pendingLoads, requested>>
writeVars == <<writeId, writeRem, writeQueue>>
netVars   == <<injection, ejection>>
wbVars    == <<pendingWb, wbIssued, wbQueue, wbReadRem>>
coreVars  == <<ir, fsmVars, loadVars, sram, retry, writeVars, remote,
               netVars, wbVars, pc, cur, cursor, budget>>

CoreInit ==
    /\ state = [c \in Core |-> "IDLE"]
    /\ idx = [c \in Core |-> 1]
    /\ computeRem = [c \in Core |-> 0]
    /\ completed = 0
    /\ pendingLoads = [c \in Core |-> {}]
    /\ requested = [c \in Core |-> {}]
    /\ sram = [c \in Core |-> EmptySram]
    /\ retry = [c \in Core |-> <<>>]
    /\ writeId = [c \in Core |-> 0]
    /\ writeRem = [c \in Core |-> 0]
    /\ writeQueue = [c \in Core |-> <<>>]
    /\ remote = [c \in Core |-> <<>>]
    /\ injection = [c \in Core |-> <<>>]
    /\ ejection = [c \in Core |-> <<>>]
    /\ pendingWb = [c \in Core |-> {}]
    /\ wbIssued = [c \in Core |-> FALSE]
    /\ wbQueue = [c \in Core |-> <<>>]
    /\ wbReadRem = [c \in Core |-> 0]
    /\ pc = "incoming" /\ cur = 0 /\ cursor = 1 /\ budget = 0

-----------------------------------------------------------------------------
(* What the code computes from the workload list.                          *)

HasWorkload(c) == idx[c] <= Len(ir[c])
Current(c) == ir[c][idx[c]]
Sources(c) == Current(c).sources
Outputs(c) == Current(c).outputs
(* Faulty: only the DRAM is waited for. *)
SourceTidsOfDram(c) == {s.tid : s \in {x \in ToSet(Sources(c)) : x.from = DRAM}}

SourceTids(c) == {s.tid : s \in ToSet(Sources(c))}

(* The references an input is allocated with: its uses in the current
   workload; a response for a transfer the workload does not name gets one. *)
InputRefs(c, t) ==
    LET uses == Cardinality({j \in DOMAIN Sources(c) : Sources(c)[j].tid = t})
    IN  IF ~HasWorkload(c) THEN 0 ELSE IF uses > 0 THEN uses ELSE 1

LocalFutureUses(c, t) ==
    Cardinality(UNION {
        {<<i, j>> : j \in {k \in DOMAIN ir[c][i].sources :
                              /\ ir[c][i].sources[k].tid = t
                              /\ ir[c][i].sources[k].from = c}}
        : i \in idx[c] + 1 .. Len(ir[c])})

ToDram(out) == DRAM \in ToSet(out.dests)

(* Faulty: the write-back takes no reference. *)
OutputRefsOfCores(c, out) ==
    Len(SelectSeq(out.dests, LAMBDA d : d # DRAM)) + LocalFutureUses(c, out.tid)

OutputRefs(c, out) ==
    Cardinality({d \in DOMAIN out.dests : out.dests[d] # DRAM})
    + LocalFutureUses(c, out.tid)
    + (IF ToDram(out) THEN 1 ELSE 0)

IsPe(c) == HasWorkload(c) /\ Current(c).pe

Effective(bandwidth, c) ==
    LET own == IF IsPe(c) THEN bandwidth.pe ELSE bandwidth.vp
    IN  IF own > 0 THEN own ELSE bandwidth.any

(* Faulty: goes below zero. *)
MinusUnchecked(a, b) == a - b

Minus(a, b) == IF a > b THEN a - b ELSE 0

InjectionFull(c) == Len(injection[c]) >= InjectionCapacity
Push(c, p) == injection' = [injection EXCEPT ![c] = Append(@, p)]

Response(c, req) == [type |-> "READ_RESPONSE", src |-> c, dst |-> req.src,
                     tid |-> req.tid, size |-> req.size]

Goto(label) == pc' = label /\ cursor' = 1 /\ UNCHANGED <<cur, budget>>
NextIteration == cursor' = cursor + 1 /\ UNCHANGED <<pc, cur, budget>>
SameIteration == UNCHANGED <<pc, cur, cursor, budget>>

EndTick ==
    /\ IF cur = NumCores - 1 THEN pc' = "collect" /\ cur' = 0
                             ELSE pc' = "incoming" /\ cur' = cur + 1
    /\ cursor' = 1 /\ UNCHANGED budget

-----------------------------------------------------------------------------
(* process_incoming_packets                                                *)

Incoming(type) ==
    /\ pc = "incoming"
    /\ ejection[cur] # <<>> /\ Head(ejection[cur]).type = type
    /\ ejection' = [ejection EXCEPT ![cur] = Tail(@)]
    /\ SameIteration

(* Faulty: the write in progress is overwritten. *)
StartWriteOver(c, p) ==
    /\ writeId' = [writeId EXCEPT ![c] = p.tid]
    /\ writeRem' = [writeRem EXCEPT ![c] = p.size]
    /\ UNCHANGED writeQueue

(* The data starts its write into the SRAM at once or queues behind the
   write that is in progress. *)
StartWrite(c, p) ==
    IF writeRem[c] = 0
        THEN /\ writeId' = [writeId EXCEPT ![c] = p.tid]
             /\ writeRem' = [writeRem EXCEPT ![c] = p.size]
             /\ UNCHANGED writeQueue
        ELSE /\ writeQueue' = [writeQueue EXCEPT ![c] =
                                  Append(@, [tid |-> p.tid, size |-> p.size])]
             /\ UNCHANGED <<writeId, writeRem>>

AllocateInput(c, p) ==
    sram' = [sram EXCEPT ![c] = Allocate(@, p.tid, p.size, InputRefs(c, p.tid))]

(* Faulty: the response is dropped. *)
PostponeNot(c, p) == UNCHANGED retry

Postpone(c, p) == retry' = [retry EXCEPT ![c] = Append(@, p)]

ReceiveReadResponse ==
    LET p == Head(ejection[cur])
    IN  /\ Incoming("READ_RESPONSE")
        /\ IF CanAllocate(sram[cur], p.tid, p.size)
             THEN /\ AllocateInput(cur, p)
                  /\ StartWrite(cur, p)
                  /\ UNCHANGED retry
             ELSE /\ Postpone(cur, p)
                  /\ UNCHANGED <<sram, writeVars>>
        /\ UNCHANGED <<ir, fsmVars, loadVars, remote, injection, wbVars>>

(* A request for ready data is answered whatever the length of the injection
   queue; any other request waits in pending_remote_requests_. *)
ReceiveReadRequest ==
    LET p == Head(ejection[cur])
    IN  /\ Incoming("READ_REQUEST")
        /\ IF IsReady(sram[cur], p.tid)
             THEN /\ Push(cur, Response(cur, p))
                  /\ sram' = [sram EXCEPT ![cur] = ReleaseRef(@, p.tid)]
                  /\ UNCHANGED remote
             ELSE /\ remote' = [remote EXCEPT ![cur] = Append(@, p)]
                  /\ UNCHANGED <<sram, injection>>
        /\ UNCHANGED <<ir, fsmVars, loadVars, retry, writeVars, wbVars>>

ReceiveWriteResponse ==
    LET p == Head(ejection[cur])
    IN  /\ Incoming("WRITE_RESPONSE")
        /\ pendingWb' = [pendingWb EXCEPT ![cur] = @ \ {p.tid}]
        /\ sram' = [sram EXCEPT ![cur] = ReleaseRef(@, p.tid)]
        /\ UNCHANGED <<ir, fsmVars, loadVars, retry, writeVars, remote,
                       injection, wbIssued, wbQueue, wbReadRem>>

EndIncoming ==
    /\ pc = "incoming" /\ ejection[cur] = <<>>
    /\ Goto("retry")
    /\ UNCHANGED <<ir, fsmVars, loadVars, sram, retry, writeVars, remote,
                   netVars, wbVars>>

-----------------------------------------------------------------------------
(* retry_sram_allocations                                                  *)

RetryAllocation ==
    /\ pc = "retry" /\ cursor <= Len(retry[cur])
    /\ LET p == retry[cur][cursor]
       IN  IF CanAllocate(sram[cur], p.tid, p.size)
             THEN /\ AllocateInput(cur, p)
                  /\ StartWrite(cur, p)
                  /\ retry' = [retry EXCEPT ![cur] = RemoveAt(@, cursor)]
                  /\ SameIteration
             ELSE /\ NextIteration
                  /\ UNCHANGED <<sram, writeVars, retry>>
    /\ UNCHANGED <<ir, fsmVars, loadVars, remote, netVars, wbVars>>

EndRetry ==
    /\ pc = "retry" /\ cursor > Len(retry[cur])
    /\ pc' = "drain" /\ budget' = Effective(WriteBandwidth, cur)
    /\ UNCHANGED <<ir, fsmVars, loadVars, sram, retry, writeVars, remote,
                   netVars, wbVars, cur, cursor>>

-----------------------------------------------------------------------------
(* drain_sram_writes.  A configured bandwidth of zero means unlimited.     *)

(* Faulty: the core is not told. *)
WriteDoneUnnoticed(c, t) ==
    sram' = [sram EXCEPT ![c] = MarkReady(@, t)] /\ UNCHANGED pendingLoads

WriteDone(c, t) ==
    /\ pendingLoads' = [pendingLoads EXCEPT ![c] = @ \ {t}]
    /\ sram' = [sram EXCEPT ![c] = MarkReady(@, t)]

DrainUnlimited ==
    /\ pc = "drain" /\ Effective(WriteBandwidth, cur) = 0
    /\ writeRem[cur] > 0 \/ writeQueue[cur] # <<>>
    /\ IF writeRem[cur] > 0 THEN WriteDone(cur, writeId[cur])
                            ELSE UNCHANGED <<pendingLoads, sram>>
    /\ IF writeQueue[cur] = <<>>
         THEN /\ writeRem' = [writeRem EXCEPT ![cur] = 0]
              /\ UNCHANGED <<writeId, writeQueue>>
         ELSE /\ writeId' = [writeId EXCEPT ![cur] = Head(writeQueue[cur]).tid]
              /\ writeRem' = [writeRem EXCEPT ![cur] =
                                 Head(writeQueue[cur]).size]
              /\ writeQueue' = [writeQueue EXCEPT ![cur] = Tail(@)]
    /\ SameIteration
    /\ UNCHANGED <<ir, fsmVars, requested, retry, remote, netVars, wbVars>>

DrainLimited ==
    LET fetch == writeRem[cur] = 0
        t     == IF fetch THEN Head(writeQueue[cur]).tid ELSE writeId[cur]
        rem   == IF fetch THEN Head(writeQueue[cur]).size ELSE writeRem[cur]
    IN  /\ pc = "drain" /\ budget > 0
        /\ writeRem[cur] > 0 \/ writeQueue[cur] # <<>>
        /\ writeQueue' = IF fetch
                           THEN [writeQueue EXCEPT ![cur] = Tail(@)]
                           ELSE writeQueue
        /\ writeId' = [writeId EXCEPT ![cur] = t]
        /\ writeRem' = [writeRem EXCEPT ![cur] = Minus(rem, budget)]
        /\ budget' = Minus(budget, rem)
        /\ IF rem <= budget THEN WriteDone(cur, t)
                            ELSE UNCHANGED <<pendingLoads, sram>>
        /\ UNCHANGED <<ir, fsmVars, requested, retry, remote, netVars, wbVars,
                       pc, cur, cursor>>

EndDrain ==
    /\ pc = "drain"
    /\ \/ writeRem[cur] = 0 /\ writeQueue[cur] = <<>>
       \/ budget = 0 /\ Effective(WriteBandwidth, cur) > 0
    /\ pc' = "serve" /\ cursor' = 1 /\ budget' = 0
    /\ UNCHANGED <<ir, fsmVars, loadVars, sram, retry, writeVars, remote,
                   netVars, wbVars, cur>>

-----------------------------------------------------------------------------
(* serve_pending_remote_requests                                           *)

ServeRemoteRequest ==
    /\ pc = "serve" /\ cursor <= Len(remote[cur])
    /\ LET req == remote[cur][cursor]
       IN  IF IsReady(sram[cur], req.tid) /\ ~InjectionFull(cur)
             THEN /\ Push(cur, Response(cur, req))
                  /\ sram' = [sram EXCEPT ![cur] = ReleaseRef(@, req.tid)]
                  /\ remote' = [remote EXCEPT ![cur] = RemoveAt(@, cursor)]
                  /\ SameIteration
             ELSE /\ NextIteration
                  /\ UNCHANGED <<injection, sram, remote>>
    /\ UNCHANGED <<ir, fsmVars, loadVars, retry, writeVars, ejection, wbVars>>

EndServe ==
    /\ pc = "serve" /\ cursor > Len(remote[cur])
    /\ Goto(state[cur])
    /\ UNCHANGED <<ir, fsmVars, loadVars, sram, retry, writeVars, remote,
                   netVars, wbVars>>

-----------------------------------------------------------------------------
(* The switch on state_: IDLE is try_start_next_workload.                  *)

RetireCore ==
    /\ pc = "IDLE" /\ ~HasWorkload(cur)
    /\ state' = [state EXCEPT ![cur] = "DONE"]
    /\ EndTick
    /\ UNCHANGED <<ir, idx, computeRem, completed, loadVars, sram, retry,
                   writeVars, remote, netVars, wbVars>>

BeginCompute(c) ==
    /\ state' = [state EXCEPT ![c] = "COMPUTING"]
    /\ computeRem' = [computeRem EXCEPT ![c] = Current(c).cycles]
    /\ UNCHANGED <<idx, completed>>

ForgetWrites(c) ==
    /\ writeRem' = [writeRem EXCEPT ![c] = 0]
    /\ writeQueue' = [writeQueue EXCEPT ![c] = <<>>]
    /\ UNCHANGED writeId

StartWorkload ==
    /\ pc = "IDLE" /\ HasWorkload(cur)
    /\ pendingLoads' = [pendingLoads EXCEPT ![cur] = SourceTids(cur)]
    /\ requested' = [requested EXCEPT ![cur] = {}]
    /\ IF SourceTids(cur) = {}
         THEN BeginCompute(cur) /\ UNCHANGED writeVars
         ELSE /\ state' = [state EXCEPT ![cur] = "LOADING"]
              /\ ForgetWrites(cur)
              /\ UNCHANGED <<idx, computeRem, completed>>
    /\ EndTick
    /\ UNCHANGED <<ir, sram, retry, remote, netVars, wbVars>>

(* Faulty: forgets what is under way. *)
AlreadyLoaded(c, t) == t \notin pendingLoads[c]

AlreadyRequested(c, t) == t \in requested[c]

(* LOADING: issue_fetch_requests, then all_buffers_loaded.  The loop stops
   for this tick at the first source that finds the injection queue full. *)
FetchStalled ==
    /\ cursor <= Len(Sources(cur))
    /\ ~AlreadyRequested(cur, Sources(cur)[cursor].tid)
    /\ ~IsReady(sram[cur], Sources(cur)[cursor].tid)
    /\ InjectionFull(cur)

FetchDone == cursor > Len(Sources(cur)) \/ FetchStalled

FetchSource ==
    /\ pc = "LOADING" /\ ~FetchDone
    /\ LET s == Sources(cur)[cursor]
       IN  /\ requested' = [requested EXCEPT ![cur] = @ \cup {s.tid}]
           /\ IF AlreadyRequested(cur, s.tid)
                THEN UNCHANGED <<pendingLoads, injection>>
              ELSE IF IsReady(sram[cur], s.tid)
                THEN /\ pendingLoads' = [pendingLoads EXCEPT
                                            ![cur] = @ \ {s.tid}]
                     /\ UNCHANGED injection
              ELSE /\ Push(cur, [type |-> "READ_REQUEST", src |-> cur,
                                 dst |-> s.from, tid |-> s.tid,
                                 size |-> s.size])
                   /\ UNCHANGED pendingLoads
    /\ NextIteration
    /\ UNCHANGED <<ir, fsmVars, sram, retry, writeVars, remote, ejection,
                   wbVars>>

EndFetch ==
    /\ pc = "LOADING" /\ FetchDone
    /\ IF pendingLoads[cur] = {} THEN BeginCompute(cur)
                                 ELSE UNCHANGED fsmVars
    /\ EndTick
    /\ UNCHANGED <<ir, loadVars, sram, retry, writeVars, remote, netVars,
                   wbVars>>

(* COMPUTING: one cycle, and at zero the outputs, the inputs and the exit. *)
ComputeCycle ==
    /\ pc = "COMPUTING"
    /\ computeRem' = [computeRem EXCEPT ![cur] = Minus(@, 1)]
    /\ IF computeRem[cur] <= 1 THEN Goto("outputs") ELSE EndTick
    /\ UNCHANGED <<ir, state, idx, completed, loadVars, sram, retry,
                   writeVars, remote, netVars, wbVars>>

(* mark_outputs_available ignores what allocate() answers. *)
PublishOutput ==
    /\ pc = "outputs" /\ cursor <= Len(Outputs(cur))
    /\ LET out == Outputs(cur)[cursor]
       IN  sram' = [sram EXCEPT ![cur] =
                      MarkReady(Allocate(@, out.tid, out.size,
                                         OutputRefs(cur, out)), out.tid)]
    /\ NextIteration
    /\ UNCHANGED <<ir, fsmVars, loadVars, retry, writeVars, remote, netVars,
                   wbVars>>

EndOutputs ==
    /\ pc = "outputs" /\ cursor > Len(Outputs(cur))
    /\ Goto("free")
    /\ UNCHANGED <<ir, fsmVars, loadVars, sram, retry, writeVars, remote,
                   netVars, wbVars>>

FreeInput ==
    /\ pc = "free" /\ cursor <= Len(Sources(cur))
    /\ sram' = [sram EXCEPT ![cur] = ReleaseRef(@, Sources(cur)[cursor].tid)]
    /\ NextIteration
    /\ UNCHANGED <<ir, fsmVars, loadVars, retry, writeVars, remote, netVars,
                   wbVars>>

NextWorkload(c) ==
    /\ completed' = completed + 1
    /\ idx' = [idx EXCEPT ![c] = @ + 1]
    /\ state' = [state EXCEPT ![c] = "IDLE"]
    /\ UNCHANGED computeRem

FinishWorkload ==
    /\ pc = "free" /\ cursor > Len(Sources(cur))
    /\ \A out \in ToSet(Outputs(cur)) : ~ToDram(out)
    /\ NextWorkload(cur)
    /\ EndTick
    /\ UNCHANGED <<ir, loadVars, sram, retry, writeVars, remote, netVars,
                   wbVars>>

EnterWriteback ==
    /\ pc = "free" /\ cursor > Len(Sources(cur))
    /\ \E out \in ToSet(Outputs(cur)) : ToDram(out)
    /\ state' = [state EXCEPT ![cur] = "WRITEBACK"]
    /\ wbIssued' = [wbIssued EXCEPT ![cur] = FALSE]
    /\ wbQueue' = [wbQueue EXCEPT ![cur] = <<>>]
    /\ wbReadRem' = [wbReadRem EXCEPT ![cur] = 0]
    /\ Goto("queue")
    /\ UNCHANGED <<ir, idx, computeRem, completed, loadVars, sram, retry,
                   writeVars, remote, netVars, pendingWb>>

QueueWriteback ==
    /\ pc = "queue" /\ cursor <= Len(Outputs(cur))
    /\ LET out == Outputs(cur)[cursor]
       IN  wbQueue' = IF ToDram(out)
                        THEN [wbQueue EXCEPT ![cur] =
                                Append(@, [tid |-> out.tid, size |-> out.size])]
                        ELSE wbQueue
    /\ NextIteration
    /\ UNCHANGED <<ir, fsmVars, loadVars, sram, retry, writeVars, remote,
                   netVars, pendingWb, wbIssued, wbReadRem>>

EndQueue ==
    /\ pc = "queue" /\ cursor > Len(Outputs(cur))
    /\ wbReadRem' = [wbReadRem EXCEPT ![cur] = Head(wbQueue[cur]).size]
    /\ EndTick
    /\ UNCHANGED <<ir, fsmVars, loadVars, sram, retry, writeVars, remote,
                   netVars, pendingWb, wbIssued, wbQueue>>

(* WRITEBACK: issue_writeback_requests, then all_writebacks_complete. *)
WritebackUnread(c) ==
    LET bandwidth == Effective(ReadBandwidth, c)
    IN  IF bandwidth = 0 THEN 0 ELSE Minus(wbReadRem[c], bandwidth)

NothingToWrite ==
    /\ wbQueue[cur] = <<>>
    /\ wbIssued' = [wbIssued EXCEPT ![cur] = TRUE]
    /\ UNCHANGED <<pendingWb, wbQueue, wbReadRem, injection>>

ReadOut ==
    /\ wbQueue[cur] # <<>>
    /\ WritebackUnread(cur) > 0 \/ InjectionFull(cur)
    /\ wbReadRem' = [wbReadRem EXCEPT ![cur] = WritebackUnread(cur)]
    /\ UNCHANGED <<pendingWb, wbQueue, wbIssued, injection>>

SendWrite ==
    LET out == Head(wbQueue[cur])
        left == Tail(wbQueue[cur])
    IN  /\ wbQueue[cur] # <<>>
        /\ WritebackUnread(cur) = 0 /\ ~InjectionFull(cur)
        /\ Push(cur, [type |-> "WRITE_REQUEST", src |-> cur, dst |-> DRAM,
                      tid |-> out.tid, size |-> out.size])
        /\ wbQueue' = [wbQueue EXCEPT ![cur] = left]
        /\ pendingWb' = [pendingWb EXCEPT ![cur] = @ \cup {out.tid}]
        /\ wbIssued' = [wbIssued EXCEPT ![cur] = @ \/ left = <<>>]
        /\ wbReadRem' = [wbReadRem EXCEPT ![cur] =
                           IF left = <<>> THEN 0 ELSE Head(left).size]

WritebackCycle ==
    /\ pc = "WRITEBACK"
    /\ NothingToWrite \/ ReadOut \/ SendWrite
    /\ IF wbIssued'[cur] /\ pendingWb'[cur] = {} THEN NextWorkload(cur)
                                                 ELSE UNCHANGED fsmVars
    /\ EndTick
    /\ UNCHANGED <<ir, loadVars, sram, retry, writeVars, remote, ejection>>

IdleTick ==
    /\ pc = "DONE"
    /\ EndTick
    /\ UNCHANGED <<ir, fsmVars, loadVars, sram, retry, writeVars, remote,
                   netVars, wbVars>>

CoreTick ==
    \/ ReceiveReadResponse \/ ReceiveReadRequest \/ ReceiveWriteResponse
    \/ EndIncoming
    \/ RetryAllocation \/ EndRetry
    \/ DrainUnlimited \/ DrainLimited \/ EndDrain
    \/ ServeRemoteRequest \/ EndServe
    \/ RetireCore \/ StartWorkload
    \/ FetchSource \/ EndFetch
    \/ ComputeCycle \/ PublishOutput \/ EndOutputs
    \/ FreeInput \/ FinishWorkload
    \/ EnterWriteback \/ QueueWriteback \/ EndQueue
    \/ WritebackCycle
    \/ IdleTick

-----------------------------------------------------------------------------
(* What the simulator's watchdog does to a core.                           *)

ForceAdvanceLoading(c) ==
    /\ state[c] = "LOADING"
    /\ pendingLoads' = [pendingLoads EXCEPT ![c] = {}]
    /\ retry' = [retry EXCEPT ![c] = <<>>]
    /\ ForgetWrites(c)
    /\ BeginCompute(c)
    /\ UNCHANGED <<ir, requested, sram, remote, netVars, wbVars>>

ForceCompleteWriteback(c) ==
    /\ state[c] = "WRITEBACK"
    /\ pendingWb' = [pendingWb EXCEPT ![c] = {}]
    /\ wbQueue' = [wbQueue EXCEPT ![c] = <<>>]
    /\ wbIssued' = [wbIssued EXCEPT ![c] = TRUE]
    /\ wbReadRem' = [wbReadRem EXCEPT ![c] = 0]
    /\ NextWorkload(c)
    /\ UNCHANGED <<ir, loadVars, sram, retry, writeVars, remote, netVars>>

(* get_pending_wait_info: the sources a loading core still waits for. *)
PendingSources(c) ==
    IF state[c] = "LOADING" /\ HasWorkload(c)
        THEN {s \in ToSet(Sources(c)) : s.tid \in pendingLoads[c]}
        ELSE {}

=============================================================================
