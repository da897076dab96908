------------------------- MODULE SimulatorProperties -------------------------
(***************************************************************************)
(* What the simulator is expected to guarantee.                            *)
(***************************************************************************)
EXTENDS Simulator

-----------------------------------------------------------------------------
(* Types                                                                   *)

PacketSeqs == [Core -> Seq(Packet)]
ChunkSeqs  == [Core -> Seq(Chunk)]

Label == CoreState \cup
    {"incoming", "retry", "drain", "serve", "outputs", "free", "queue",
     "collect", "reply", "advance", "deliver", "forward", "respond", "check",
     "resolve", "complete", "aborted"}

FsmTypeOK ==
    /\ ir \in [Core -> Seq(Workload)]
    /\ state \in [Core -> CoreState]
    /\ idx \in [Core -> Nat \ {0}]
    /\ computeRem \in [Core -> Nat]
    /\ completed \in Nat
LoadTypeOK ==
    pendingLoads \in [Core -> SUBSET Tid] /\ requested \in [Core -> SUBSET Tid]
SramsTypeOK ==
    sram = [c \in Core |-> sram[c]] /\ \A c \in Core : SramTypeOK(sram[c])
WriteTypeOK ==
    /\ writeId \in [Core -> Tid] /\ writeRem \in [Core -> Nat]
    /\ writeQueue \in ChunkSeqs
QueueTypeOK ==
    /\ retry \in PacketSeqs /\ remote \in PacketSeqs
    /\ injection \in PacketSeqs /\ ejection \in PacketSeqs
WbTypeOK ==
    /\ pendingWb \in [Core -> SUBSET Tid]
    /\ wbIssued \in [Core -> BOOLEAN]
    /\ wbQueue \in ChunkSeqs
    /\ wbReadRem \in [Core -> Nat]
TickTypeOK ==
    pc \in Label /\ cur \in Core /\ cursor \in Nat \ {0} /\ budget \in Nat

CoreTypeOK ==
    /\ FsmTypeOK /\ LoadTypeOK /\ SramsTypeOK /\ WriteTypeOK
    /\ QueueTypeOK /\ WbTypeOK /\ TickTypeOK

TransportTypeOK ==
    noc \in Seq(InFlight) /\ dram \in Seq(InFlight) /\ dramReplies \in Seq(Packet)
WatchTypeOK ==
    /\ sinceCheck \in 0 .. CheckPeriod - 1
    /\ stalled \in Nat /\ lastCompleted \in Nat /\ resolutions \in Nat

(* Every variable of the core loop and of the cycle loop keeps its type; in
   particular no queue ever holds anything but packets of known transfers. *)
TypeOK == CoreTypeOK /\ TransportTypeOK /\ WatchTypeOK

-----------------------------------------------------------------------------
(* SRAM accounting                                                         *)

(* The bytes that belong to an entry, each numbered within it. *)
Bytes(s) ==
    UNION {{<<t, k>> : k \in 1 .. s.entries[t].size} : t \in DOMAIN s.entries}

(* used_bytes_ is at all times what the entries take together: no path, a late
   write acknowledgement or the watchdog's included, frees an entry twice or
   drops one without giving its bytes back (sram.cpp). *)
SramAccounting == \A c \in Core : sram[c].used = Cardinality(Bytes(sram[c]))

(* A core never holds more than its capacity, whichever of responses, retried
   responses and outputs compete for the room. *)
SramWithinCapacity == \A c \in Core : sram[c].used <= Capacity

-----------------------------------------------------------------------------
(* Loads and write-backs are carried by exactly one token                  *)

(* How many elements of a queue are in S, and of the queues of all cores. *)
Held(q, S) == Cardinality({i \in DOMAIN q : q[i] \in S})
Places(f, S) ==
    UNION {{<<c, i>> : i \in {j \in DOMAIN f[c] : f[c][j] \in S}} : c \in Core}
HeldByCores(f, S) == Cardinality(Places(f, S))

(* The packets for transfer t that node n sent, and those it is to get. *)
From(n, type, t) ==
    [type : {type}, src : {n}, dst : Int, tid : {t}, size : Nat]
To(n, type, t) ==
    [type : {type}, src : Int, dst : {n}, tid : {t}, size : Nat]

(* How many packets there are in all queues: those of sent in an injection
   queue, where a packet holds a core id, those of taken anywhere else. *)
UnderWay(sent, taken) ==
    HeldByCores(injection, sent) + HeldByCores(ejection, taken)
    + HeldByCores(remote, taken) + HeldByCores(retry, taken)
    + Held(noc, [pkt : taken, ttl : Nat]) + Held(dram, [pkt : taken, ttl : Nat])
    + Held(dramReplies, taken)

(* The packets that travel for core c: its requests and the answers to it. *)
Carried(c, t, request, response) ==
    UnderWay(From(c, request, t) \cup To(NodeId(c), response, t),
             From(NodeId(c), request, t) \cup To(NodeId(c), response, t))

(* The writes of a transfer into the memory of core c, begun or queued. *)
Writes(c, t) ==
    Held(writeQueue[c], [tid : {t}, size : Nat])
    + IF writeRem[c] > 0 /\ writeId[c] = t THEN 1 ELSE 0

LoadTokens(c, t) == Carried(c, t, "READ_REQUEST", "READ_RESPONSE") + Writes(c, t)
WritebackTokens(c, t) == Carried(c, t, "WRITE_REQUEST", "WRITE_RESPONSE")

Awaited(c) ==
    IF state[c] = "LOADING" THEN pendingLoads[c] \cap requested[c] ELSE {}

(* A transfer a loading core has asked for and still waits for is in exactly
   one place: request, response, or write into the SRAM.  None would be a core
   that waits for ever, two a second reference taken at the producer.  Nothing
   else travels: a core that does not wait for a transfer gets none. *)
OneTokenPerLoad ==
    \A c \in Core : \A t \in Tid :
        LoadTokens(c, t) = IF t \in Awaited(c) THEN 1 ELSE 0

(* A write-back that was issued and is not acknowledged is in exactly one
   place between the core and the memory, and no other write travels. *)
OneTokenPerWriteback ==
    \A c \in Core : \A t \in Tid :
        WritebackTokens(c, t) = IF t \in pendingWb[c] THEN 1 ELSE 0

-----------------------------------------------------------------------------
(* Reference counts                                                        *)

(* Output k of workload i of core p has been through mark_outputs_available. *)
Published(p, i, k) ==
    \/ i < idx[p]
    \/ /\ i = idx[p]
       /\ \/ state[p] = "WRITEBACK"
          \/ cur = p /\ pc = "free"
          \/ cur = p /\ pc = "outputs" /\ k < cursor

Reads(d, j, p, t) ==
    \E s \in ToSet(ir[d][j].sources) : s.tid = t /\ s.from = p

Requesting(d, t) ==
    UnderWay(From(d, "READ_REQUEST", t), From(NodeId(d), "READ_REQUEST", t)) > 0

(* Workload i of core d has not been answered yet if it reads t. *)
ReadOpen(d, i, t) ==
    \/ i > idx[d] \/ state[d] = "IDLE"
    \/ /\ state[d] = "LOADING"
       /\ t \notin requested[d] \/ Requesting(d, t)

(* Workloads of other cores whose read of t at p has not been answered. *)
RemoteReads(p, t) ==
    UNION {{<<d, j>> : j \in {i \in idx[d] .. Len(ir[d]) :
                                Reads(d, i, p, t) /\ ReadOpen(d, i, t)}}
        : d \in Core \ {p}}

(* Sources of p's own workloads that name t and are not freed yet. *)
LocalReads(p, t) ==
    UNION {{<<j, k>> : k \in {i \in DOMAIN ir[p][j].sources :
              /\ ir[p][j].sources[i].tid = t /\ ir[p][j].sources[i].from = p
              /\ \/ j > idx[p]
                 \/ /\ state[p] # "WRITEBACK"
                    /\ cur = p /\ pc = "free" => i >= cursor}}
        : j \in idx[p] .. Len(ir[p])}

WritebackLeft(p, i, out) ==
    IF /\ i = idx[p] /\ ToDram(out)
       /\ \/ state[p] = "COMPUTING"
          \/ cur = p /\ pc = "queue"
          \/ out.tid \in pendingWb[p]
          \/ \E chunk \in ToSet(wbQueue[p]) : chunk.tid = out.tid
      THEN 1 ELSE 0

ReadsLeft(p, i, out) ==
    Cardinality(RemoteReads(p, out.tid)) + Cardinality(LocalReads(p, out.tid))
    + WritebackLeft(p, i, out)

Kept(p, t, n) == IsReady(sram[p], t) /\ sram[p].entries[t].ref >= n

ForPublished(Claim(_, _, _)) ==
    \A p \in Core : \A i \in DOMAIN ir[p] : \A k \in DOMAIN ir[p][i].outputs :
        Published(p, i, k) =>
            LET out == ir[p][i].outputs[k]
            IN  Claim(p, out.tid, ReadsLeft(p, i, out))

(* A published output stays in its producer's SRAM, with a reference for each,
   as long as a core still has to read it or the DRAM to acknowledge it. *)
ConsumersKeepData ==
    ForPublished(LAMBDA p, t, n : n > 0 => Kept(p, t, n))

LocallyRead(p, t) == \E j \in DOMAIN ir[p] : Reads(p, j, p, t)

(* An output that only other cores and the DRAM read has as many references as
   they have claims left, and the last one frees the entry. *)
ExactRemoteRefs ==
    ForPublished(LAMBDA p, t, n :
        LocallyRead(p, t) \/
        IF n = 0 THEN ~HasData(sram[p], t)
                 ELSE Kept(p, t, n) /\ sram[p].entries[t].ref = n)

(* ref_count is the number of consumers still needing the data (sram.h:14),
   and the last one frees the entry. *)
ExactRefs ==
    ForPublished(LAMBDA p, t, n :
        IF n = 0 THEN ~HasData(sram[p], t)
                 ELSE Kept(p, t, n) /\ sram[p].entries[t].ref = n)

(* No data is freed while a consumer still needs it (sram.h:14).  The fix of the
   destinations "to reflect actual consumers" (gemini_parser.cpp:448) counts the
   producer's own core only: an IR that lists a core once for all its readers
   gives the output one reference, and the first answer frees it. *)
NeededDataStays ==
    ForPublished(LAMBDA p, t, n : n > 0 => HasData(sram[p], t))

-----------------------------------------------------------------------------
(* Order of the workloads                                                  *)

PhaseOf(s) == CASE s \in {"IDLE", "LOADING"} -> "waiting"
                [] s = "COMPUTING"           -> "running"
                [] s = "WRITEBACK"           -> "writing"
                [] s = "DONE"                -> "retired"

D == INSTANCE Dataflow WITH next <- idx,
                            phase <- [c \in Core |-> PhaseOf(state[c])]

(* Without the watchdog every run of the simulator is a run of Dataflow. *)
ImplementsDataflow == D!Spec

(* With it, every step but the watchdog's own still is a step of Dataflow. *)
OwnStepsInDataflowOrder == [][pc # "resolve" => D!Next]_(D!vars)

-----------------------------------------------------------------------------
(* Progress                                                                *)

(* The watchdog has not intervened. *)
NeverForced == resolutions = 0 /\ pc # "resolve"

(* All workloads of all cores are executed. *)
Completes == <>(pc = "complete")

(* The simulation ends, by completing or by giving up. *)
Ends == <>(pc \in {"complete", "aborted"})

-----------------------------------------------------------------------------
(* What the documentation says and the code does not do.                   *)

(* A finished computation has its outputs in the SRAM, ready (c4.tex:25);
   mark_outputs_available ignores that allocate() failed. *)
OutputsAreReady ==
    pc = "free" /\ cursor = 1 =>
        \A out \in ToSet(Outputs(cur)) : IsReady(sram[cur], out.tid)

(* The producer answers the consumer (README.md:101): a response arrives at a
   core that asked for it.  The answer's destination is the node the request
   came from, which collect_core_packets takes for a core id. *)
AnswersReachConsumer ==
    \A c \in Core : \A p \in ToSet(ejection[c]) :
        p.type = "READ_RESPONSE" => p.tid \in requested[c]

=============================================================================
