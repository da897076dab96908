------------------------- MODULE SimulatorInvariants -------------------------
(***************************************************************************)
(* The inductive invariants behind the theorems about Simulator.           *)
(***************************************************************************)
EXTENDS SimulatorProperties

(* Control: the phase of a tick agrees with the state of the core, a core at
   work has a workload, and a core that collects its write-backs finds one. *)
PcMatchesState ==
    /\ pc \in CoreState => state[cur] = pc
    /\ pc \in {"outputs", "free"} => state[cur] = "COMPUTING"
    /\ pc = "queue" => state[cur] = "WRITEBACK"

WorkingHasWorkload ==
    \A c \in Core : state[c] \in {"LOADING", "COMPUTING", "WRITEBACK"} =>
        HasWorkload(c)

WritebackAhead ==
    pc = "queue" =>
        \/ wbQueue[cur] # <<>>
        \/ \E k \in cursor .. Len(Outputs(cur)) : ToDram(Outputs(cur)[k])

Control == PcMatchesState /\ WorkingHasWorkload /\ WritebackAhead

TypeInv == TypeOK /\ Control

CapacityInv == TypeInv /\ SramWithinCapacity

Accounted(s) == IsFiniteSet(Bytes(s)) /\ s.used = Cardinality(Bytes(s))
AccountingInv == TypeInv /\ \A c \in Core : Accounted(sram[c])

-----------------------------------------------------------------------------
(* Availability of data                                                    *)

CoreSource(x) == x.from # DRAM

(* What an IR has to be for the order of the dataflow to be kept: a transfer
   is read from cores or from the DRAM, not from both, and the core a source
   names is the only one that outputs the transfer. *)
SourcesAgree(prog) ==
    \A c, d \in Core : \A i \in DOMAIN prog[c] : \A j \in DOMAIN prog[d] :
        \A s \in ToSet(prog[c][i].sources) :
            /\ \A r \in ToSet(prog[d][j].sources) :
                  r.tid = s.tid => (CoreSource(r) <=> CoreSource(s))
            /\ \A out \in ToSet(prog[d][j].outputs) :
                  out.tid = s.tid /\ CoreSource(s) => s.from = d

ASSUME ProgramAssumption == \A prog \in Programs : SourcesAgree(prog)

(* A transfer some workload reads from a core. *)
ReadFromCore(t) ==
    \E c \in Core : \E i \in DOMAIN ir[c] : \E s \in ToSet(ir[c][i].sources) :
        s.tid = t /\ CoreSource(s)

(* Data of t may exist outside its producer's computation. *)
Available(t) == ReadFromCore(t) => \E p \in Core : D!Produced(p, t)

IsRequest(p) == p.type \in {"READ_REQUEST", "WRITE_REQUEST"}

DataPacket(p) == p.type = "READ_RESPONSE" => Available(p.tid)

(* A read that goes to the memory is for a transfer of the DRAM. *)
MemoryRead(p) == p.type = "READ_REQUEST" => ~ReadFromCore(p.tid)

CorePacketsCarryData ==
    \A c \in Core :
        /\ \A p \in ToSet(injection[c]) :
              DataPacket(p) /\ (p.dst = DRAM => MemoryRead(p))
        /\ \A p \in ToSet(ejection[c]) : DataPacket(p)
        /\ \A p \in ToSet(retry[c]) : Available(p.tid)

WritesCarryData ==
    \A c \in Core :
        /\ \A chunk \in ToSet(writeQueue[c]) : Available(chunk.tid)
        /\ writeRem[c] > 0 => Available(writeId[c])

TransportCarriesData ==
    /\ \A f \in ToSet(noc) :
          /\ DataPacket(f.pkt)
          /\ f.pkt.dst \in ToSet(MemoryNodes) => MemoryRead(f.pkt)
    /\ \A f \in ToSet(dram) : DataPacket(f.pkt) /\ ~IsRequest(f.pkt)
    /\ \A p \in ToSet(dramReplies) : DataPacket(p) /\ ~IsRequest(p)

(* Core c is between mark_outputs_available and the end of the workload. *)
Publishing(c, t) ==
    /\ cur = c /\ pc \in {"outputs", "free"}
    /\ \E out \in ToSet(Outputs(c)) : out.tid = t

(* What is ready in a memory was produced, or is being published. *)
ReadyMeansProduced ==
    \A c \in Core : \A t \in Tid :
        IsReady(sram[c], t) => Available(t) \/ Publishing(c, t)

LoadedMeansProduced ==
    \A c \in Core : state[c] = "LOADING" =>
        \A s \in ToSet(Sources(c)) : s.tid \in pendingLoads[c] \/ Available(s.tid)

CoresCarryData ==
    /\ CorePacketsCarryData /\ WritesCarryData
    /\ ReadyMeansProduced /\ LoadedMeansProduced

(* Data of a core exists, in a packet, in a write or in another core's memory,
   only once a workload that outputs it has been computed. *)
DataComesFromProducers ==
    CoresCarryData /\ TransportCarriesData

OrderInv == TypeInv /\ ir \in Programs /\ DataComesFromProducers

-----------------------------------------------------------------------------
(* The way of the loads and the write-backs                                *)

(* Every source has bytes.  A response of none that finds no write in progress
   is neither written nor queued (core.cpp:203): its core waits for ever. *)
SourcesHaveBytes ==
    \A prog \in Programs : \A c \in Core : \A i \in DOMAIN prog[c] :
        \A s \in ToSet(prog[c][i].sources) : s.size > 0

(* No workload writes the same transfer to the memory twice: the core counts
   its acknowledgements by transfer id. *)
WritesEachOnce ==
    \A prog \in Programs : \A c \in Core : \A i \in DOMAIN prog[c] :
        LET outs == prog[c][i].outputs
        IN  \A j, k \in DOMAIN outs :
              ToDram(outs[j]) /\ ToDram(outs[k]) /\ outs[j].tid = outs[k].tid
                  => j = k

(* A response is addressed to the node of its core and routed as if that were a
   core id: the two have to be the same. *)
CoreIdsAreNodes == OnNoc => \A c \in Core : NodeOf[c] = c

HasBytes(x) == SourcesHaveBytes => x.size > 0

CoreNodes == {NodeId(c) : c \in Core}

ReadRequest(p)  == p.type = "READ_REQUEST" /\ HasBytes(p)
ReadResponse(p) == p.type = "READ_RESPONSE" /\ HasBytes(p)
Answer(p) == ReadResponse(p) \/ p.type = "WRITE_RESPONSE"

(* What a core sends: its own requests, and answers to a node. *)
SentBy(c, p) ==
    \/ ReadRequest(p) /\ p.src = c
    \/ p.type = "WRITE_REQUEST" /\ p.src = c /\ p.dst = DRAM
    \/ ReadResponse(p) /\ p.dst \in CoreNodes

(* What a core is given: reads of other cores and the answers to its own
   requests. *)
GivenTo(c, p) ==
    \/ ReadRequest(p) /\ p.src \in CoreNodes
    \/ Answer(p) /\ p.dst = NodeId(c)

(* On the network a write is on its way to the memory, and no answer is. *)
OnNetwork(p) ==
    \/ ReadRequest(p) /\ p.src \in CoreNodes
    \/ /\ p.type = "WRITE_REQUEST" /\ p.src \in CoreNodes
       /\ p.dst \in ToSet(MemoryNodes)
    \/ Answer(p) /\ p.dst \notin ToSet(MemoryNodes)

FromMemory(p) == Answer(p) /\ p.dst \in CoreNodes

CoresAddressed ==
    \A c \in Core :
        /\ \A p \in ToSet(injection[c]) : SentBy(c, p)
        /\ \A p \in ToSet(ejection[c]) : GivenTo(c, p)
        /\ \A p \in ToSet(remote[c]) : ReadRequest(p) /\ p.src \in CoreNodes
        /\ \A p \in ToSet(retry[c]) : ReadResponse(p) /\ p.dst = NodeId(c)
        /\ \A chunk \in ToSet(writeQueue[c]) : HasBytes(chunk)

TransportAddressed ==
    /\ \A f \in ToSet(noc) : OnNetwork(f.pkt)
    /\ \A f \in ToSet(dram) : FromMemory(f.pkt)
    /\ \A p \in ToSet(dramReplies) : FromMemory(p)

(* Every packet is of a kind its queue is for, and addressed to who gets it. *)
AddressInv ==
    TypeInv /\ ir \in Programs /\ CoresAddressed /\ TransportAddressed

(* What a loading core has not asked for yet it still waits for. *)
LoadsAhead ==
    \A c \in Core : state[c] = "LOADING" =>
        SourceTids(c) \ requested[c] \subseteq pendingLoads[c]

LoadInv == AddressInv /\ LoadsAhead /\ OneTokenPerLoad

(* The writes a core has collected and not sent are different ones, and none
   of them is under way. *)
WritesDiffer ==
    \A c \in Core :
        state[c] = "WRITEBACK" =>
            \A j \in DOMAIN wbQueue[c] :
                /\ wbQueue[c][j].tid \notin pendingWb[c]
                /\ \A k \in DOMAIN wbQueue[c] :
                      wbQueue[c][j].tid = wbQueue[c][k].tid => j = k

(* While they are collected they are those before the cursor. *)
CollectedSoFar ==
    pc = "queue" =>
        /\ pendingWb[cur] = {}
        /\ \A j \in DOMAIN wbQueue[cur] : \E k \in 1 .. cursor - 1 :
              /\ k \in DOMAIN Outputs(cur) /\ ToDram(Outputs(cur)[k])
              /\ wbQueue[cur][j].tid = Outputs(cur)[k].tid

WritesUnderWay == \A c \in Core : state[c] # "WRITEBACK" => pendingWb[c] = {}

WritebackInv ==
    /\ AddressInv
    /\ WritesDiffer /\ CollectedSoFar /\ WritesUnderWay
    /\ OneTokenPerWriteback

-----------------------------------------------------------------------------
(* The data an output's readers wait for                                   *)

Outs(prog, c, i) == DOMAIN prog[c][i].outputs

(* No transfer is output twice. *)
OutputsOnce(prog) ==
    \A c, d \in Core : \A i \in DOMAIN prog[c] : \A j \in DOMAIN prog[d] :
        \A k \in Outs(prog, c, i) : \A l \in Outs(prog, d, j) :
            prog[c][i].outputs[k].tid = prog[d][j].outputs[l].tid =>
                c = d /\ i = j /\ k = l

(* A transfer that some workload outputs is read from its core, and there only
   by later workloads. *)
SourcesFollowOutputs(prog) ==
    \A c, p \in Core : \A j \in DOMAIN prog[c] : \A i \in DOMAIN prog[p] :
        \A s \in ToSet(prog[c][j].sources) : \A out \in ToSet(prog[p][i].outputs) :
            out.tid = s.tid => s.from = p /\ (p = c => i < j)

(* The workloads of other cores that read t at p, and the readers an output
   lists. *)
RemoteReaders(prog, p, t) ==
    {x \in UNION {{<<d, j>> : j \in DOMAIN prog[d]} : d \in Core \ {p}} :
        \E s \in ToSet(prog[x[1]][x[2]].sources) : s.tid = t /\ s.from = p}
Listed(out) == Cardinality({d \in DOMAIN out.dests : out.dests[d] # DRAM})

(* An output lists a destination for every workload of another core that reads
   it, as GEMINI writes its IRs; fix_output_ref_counts looks at the producer's
   own core only. *)
DestsCoverReaders(prog) ==
    \A p \in Core : \A i \in DOMAIN prog[p] : \A out \in ToSet(prog[p][i].outputs) :
        Cardinality(RemoteReaders(prog, p, out.tid)) <= Listed(out)

CountedPrograms ==
    \A prog \in Programs :
        OutputsOnce(prog) /\ SourcesFollowOutputs(prog) /\ DestsCoverReaders(prog)

(* mark_outputs_available finds no room and goes on. *)
OutputLost ==
    /\ PublishOutput
    /\ LET out == Outputs(cur)[cursor]
       IN  ~CanAllocate(sram[cur], out.tid, out.size)

(* Where a workload's inputs and output fit together none is lost: what is kept
   for readers on other cores keeps the inputs waiting, not the output out. *)
NoOutputLost == [][~OutputLost]_vars

OutputOf(p, t) ==
    \E i \in DOMAIN ir[p] : \E out \in ToSet(ir[p][i].outputs) : out.tid = t

(* A loading core waits for sources of its current workload. *)
LoadsOfWorkload ==
    \A c \in Core : state[c] = "LOADING" => pendingLoads[c] \subseteq SourceTids(c)

(* A core finds its own outputs in its memory and never asks for them. *)
OwnOutputsAtHand ==
    \A c \in Core : \A t \in Awaited(c) : ~OutputOf(c, t)

(* No entry is there before its output. *)
NoEntryBefore ==
    \A p \in Core : \A i \in DOMAIN ir[p] : \A k \in DOMAIN ir[p][i].outputs :
        ~Published(p, i, k) => ~HasData(sram[p], ir[p][i].outputs[k].tid)

(* What is written back are outputs of the current workload. *)
OwnWrites ==
    \A c \in Core : state[c] = "WRITEBACK" =>
        \A t \in pendingWb[c] \cup {chunk.tid : chunk \in ToSet(wbQueue[c])} :
            \E out \in ToSet(Outputs(c)) : ToDram(out) /\ out.tid = t

KeepInv ==
    /\ LoadInv /\ WritebackInv
    /\ LoadsOfWorkload /\ OwnOutputsAtHand /\ NoEntryBefore /\ OwnWrites
    /\ ConsumersKeepData

(* And for the count to be exact: a core that a source names outputs it, each
   destination is a reader, and an output has one. *)
ReadersListed(prog) ==
    \A p \in Core : \A i \in DOMAIN prog[p] :
        /\ \A s \in ToSet(prog[p][i].sources) : s.from # DRAM =>
              \E j \in DOMAIN prog[s.from] :
                 \E out \in ToSet(prog[s.from][j].outputs) : out.tid = s.tid
        /\ \A out \in ToSet(prog[p][i].outputs) :
              \/ \E j \in DOMAIN prog[p] :
                    \E s \in ToSet(prog[p][j].sources) : s.tid = out.tid
              \/ /\ Listed(out) = Cardinality(RemoteReaders(prog, p, out.tid))
                 /\ out.dests # <<>>

IsRead(p) == p.type = "READ_REQUEST"
NoOutput(t) == \A c \in Core : ~OutputOf(c, t)

(* A read request goes to the memory for what no core outputs, and else to the
   core that does. *)
ToProducer(p) ==
    IsRead(p) => \/ p.dst = DRAM /\ NoOutput(p.tid)
                 \/ p.dst \in Core /\ OutputOf(p.dst, p.tid)
AtProducer(c, p) == IsRead(p) => OutputOf(c, p.tid)
OnItsWay(p) ==
    IsRead(p) => \/ p.dst \in ToSet(MemoryNodes) /\ NoOutput(p.tid)
                 \/ \E c \in Core : p.dst = NodeId(c) /\ OutputOf(c, p.tid)

ReadsGoToProducers ==
    /\ \A c \in Core :
          /\ \A p \in ToSet(injection[c]) : ToProducer(p)
          /\ \A p \in ToSet(ejection[c]) \cup ToSet(remote[c]) : AtProducer(c, p)
    /\ \A f \in ToSet(noc) : OnItsWay(f.pkt)
    /\ \A f \in ToSet(dram) : ~IsRead(f.pkt)
    /\ \A p \in ToSet(dramReplies) : ~IsRead(p)

(* The uses of t by the current workload of core c that are not freed. *)
InputUses(c, t) ==
    {k \in DOMAIN Sources(c) :
        Sources(c)[k].tid = t /\ (cur = c /\ pc = "free" => k >= cursor)}

(* An input that is not an output of the core itself is in its memory only for
   the current workload, with a reference for each use. *)
InputHeld(c, t) ==
    /\ state[c] \in {"LOADING", "COMPUTING"}
    /\ state[c] = "LOADING" => t \in requested[c]
    /\ sram[c].entries[t].ref = Cardinality(InputUses(c, t))
    /\ InputUses(c, t) # {}

InputsOfWorkload ==
    \A c \in Core : \A t \in DOMAIN sram[c].entries :
        OutputOf(c, t) \/ InputHeld(c, t)

(* A write-back is collected before any is sent, and all are sent before they
   count as issued. *)
WritesCollected ==
    /\ \A c \in Core : state[c] = "WRITEBACK" /\ wbIssued[c] => wbQueue[c] = <<>>
    /\ pc = "queue" =>
        /\ ~wbIssued[cur]
        /\ \A k \in DOMAIN Outputs(cur) : k < cursor /\ ToDram(Outputs(cur)[k]) =>
              \E chunk \in ToSet(wbQueue[cur]) : chunk.tid = Outputs(cur)[k].tid

(* Nobody is past the read of an output that is not there. *)
ReadersWait ==
    \A p \in Core : \A i \in DOMAIN ir[p] : \A k \in DOMAIN ir[p][i].outputs :
        LET t == ir[p][i].outputs[k].tid
        IN  ~Published(p, i, k) => RemoteReaders(ir, p, t) \subseteq RemoteReads(p, t)

NoReferenceLeft ==
    ForPublished(LAMBDA p, t, n :
        ~LocallyRead(p, t) /\ HasData(sram[p], t) =>
            n > 0 /\ sram[p].entries[t].ref <= n)

RefInv ==
    /\ KeepInv
    /\ ReadsGoToProducers /\ InputsOfWorkload /\ WritesCollected /\ ReadersWait
    /\ NoReferenceLeft

=============================================================================
