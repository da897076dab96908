------------------------------ MODULE Simulator ------------------------------
(***************************************************************************)
(* The cycle loop of the simulator (src/src/simulator.cpp): the cores of   *)
(* NPUCore, the NoC, the DRAM and the progress watchdog.                   *)
(*                                                                         *)
(* Simulator::run() repeats tick() and, every CheckPeriod cycles, the      *)
(* watchdog.  The phases of a tick after the cores' own are                *)
(*   "collect"  collect_core_packets: every injection queue is emptied     *)
(*   "reply"    inject_dram_responses, when the DRAM sits on the NoC       *)
(*   "advance"  noc_->tick() and dram_->tick()                             *)
(*   "deliver"  deliver_noc_packets to the cores                           *)
(*   "forward"  deliver_noc_packets to the DRAM controllers                *)
(*   "respond"  deliver_dram_responses                                     *)
(*   "check"    the end of run()'s loop body, "resolve" its watchdog       *)
(* NoC and DRAM are the lists of packets in flight of SimpleNoC and        *)
(* SimpleDRAM.  A packet's latency is any member of NocLatency or          *)
(* DramLatency, chosen when it enters; it stands for the distance on the   *)
(* mesh, the clock ratio and the contention of the other backends.         *)
(***************************************************************************)
EXTENDS NPUCore

CONSTANTS
    Programs,       \* the IRs load_ir may have read
    NodeOf,         \* core_noc_ids_: core -> NoC node
    MemoryNodes,    \* dram_noc_ids_; <<>> when the DRAM bypasses the NoC
    NocLatency,
    DramLatency,
    CheckPeriod,    \* 100000 cycles in the code
    CheckThreshold, \* DEADLOCK_CHECK_THRESHOLD, in check periods
    AbortThreshold, \* DEADLOCK_ABORT_THRESHOLD, in check periods
    MaxResolutions  \* MAX_DEADLOCK_RESOLUTIONS

OnNoc == MemoryNodes # <<>>

(* A core node is never a DRAM node: Topology::validate throws. *)
ASSUME SimulatorAssumption ==
    /\ Programs \subseteq [Core -> Seq(Workload)]
    /\ NodeOf \in [Core -> Nat] /\ MemoryNodes \in Seq(Nat)
    /\ \A c, d \in Core : NodeOf[c] = NodeOf[d] => c = d
    /\ \A c \in Core : NodeOf[c] \notin ToSet(MemoryNodes)
    /\ NocLatency \subseteq Nat \ {0} /\ NocLatency # {}
    /\ DramLatency \subseteq Nat \ {0} /\ DramLatency # {}
    /\ CheckPeriod \in Nat \ {0}
    /\ CheckThreshold \in Nat \ {0} /\ AbortThreshold \in Nat
    /\ MaxResolutions \in Nat

InFlight == [pkt : Packet, ttl : Nat]

VARIABLES
    noc,            \* SimpleNoC::in_flight_, ttl = deliver_cycle - cycle_
    dram,           \* SimpleDRAM::in_flight_, already turned into responses
    dramReplies,    \* pending_dram_responses_
    sinceCheck,     \* current_cycle_ modulo CheckPeriod
    stalled,        \* check periods since last_progress_cycle_
    lastCompleted,  \* last_completed_count_
    resolutions     \* deadlock_resolutions_

transportVars == <<noc, dram, dramReplies>>
watchVars == <<sinceCheck, stalled, lastCompleted, resolutions>>
vars == <<coreVars, transportVars, watchVars>>

Init ==
    /\ ir \in Programs
    /\ CoreInit
    /\ noc = <<>> /\ dram = <<>> /\ dramReplies = <<>>
    /\ sinceCheck = 0 /\ stalled = 0 /\ lastCompleted = 0 /\ resolutions = 0

-----------------------------------------------------------------------------
(* Topology: the node of a core; an id out of range maps to -1.            *)

CoreToNoc(id) == IF id \in Core THEN NodeOf[id] ELSE -1
NodeId(c) == IF OnNoc THEN NodeOf[c] ELSE c

(* Faulty: a core id is taken for a controller's. *)
RoutedToMemory(p) ==
    IF ~OnNoc THEN {p}
    ELSE {[p EXCEPT !.src = CoreToNoc(p.src), !.dst = node] :
            node \in ToSet(MemoryNodes)}

(* The packet as it enters the network.  The controller that
   select_dram_controller picks depends on the policy: any of them. *)
Routed(p) ==
    IF ~OnNoc THEN {p}
    ELSE {[p EXCEPT !.src = CoreToNoc(p.src), !.dst = node] :
            node \in IF p.dst = DRAM THEN ToSet(MemoryNodes)
                                     ELSE {CoreToNoc(p.dst)}}

(* Faulty: sent back to the memory; takes every request for a read. *)
ReplyToSelf(p) ==
    [p EXCEPT !.type = IF p.type = "READ_REQUEST" THEN "READ_RESPONSE"
                                                  ELSE "WRITE_RESPONSE"]
ReplyWithData(p) == [p EXCEPT !.type = "READ_RESPONSE",
                              !.src = p.dst, !.dst = p.src]

Reply(p) ==
    [p EXCEPT !.type = IF p.type = "READ_REQUEST" THEN "READ_RESPONSE"
                                                  ELSE "WRITE_RESPONSE",
              !.src = p.dst, !.dst = p.src]

NocInject(p) ==
    \E latency \in NocLatency : noc' = Append(noc, [pkt |-> p, ttl |-> latency])

DramSend(p) ==
    \E latency \in DramLatency :
        dram' = Append(dram, [pkt |-> Reply(p), ttl |-> latency])

Step(label) == pc' = label /\ UNCHANGED <<cur, cursor, budget>>

QuietCores == UNCHANGED <<ir, fsmVars, loadVars, sram, retry, writeVars,
                          remote, wbVars>>

CollectPacket(c) ==
    LET p == Head(injection[c])
    IN  /\ pc = "collect"
        /\ injection[c] # <<>> /\ \A d \in 0 .. c - 1 : injection[d] = <<>>
        /\ injection' = [injection EXCEPT ![c] = Tail(@)]
        /\ IF p.dst = DRAM /\ ~OnNoc
             THEN DramSend(p) /\ UNCHANGED noc
             ELSE (\E q \in Routed(p) : NocInject(q)) /\ UNCHANGED dram
        /\ QuietCores
        /\ UNCHANGED <<ejection, dramReplies, watchVars, pc, cur, cursor,
                       budget>>

(* Faulty: the DRAM's responses are left out. *)
EndCollectSkipping ==
    /\ pc = "collect" /\ \A c \in Core : injection[c] = <<>>
    /\ Step("advance")
    /\ QuietCores
    /\ UNCHANGED <<netVars, transportVars, watchVars>>

EndCollect ==
    /\ pc = "collect" /\ \A c \in Core : injection[c] = <<>>
    /\ Step(IF OnNoc THEN "reply" ELSE "advance")
    /\ QuietCores
    /\ UNCHANGED <<netVars, transportVars, watchVars>>

(* SimpleNoC::can_inject is always true, so no response is kept back. *)
InjectDramResponse ==
    /\ pc = "reply" /\ dramReplies # <<>>
    /\ NocInject(Head(dramReplies))
    /\ dramReplies' = Tail(dramReplies)
    /\ QuietCores
    /\ UNCHANGED <<netVars, dram, watchVars, pc, cur, cursor, budget>>

EndReply ==
    /\ pc = "reply" /\ dramReplies = <<>>
    /\ Step("advance")
    /\ QuietCores
    /\ UNCHANGED <<netVars, transportVars, watchVars>>

OneCycle(q) == [i \in DOMAIN q |-> [q[i] EXCEPT !.ttl = Minus(@, 1)]]

Advance ==
    /\ pc = "advance"
    /\ noc' = OneCycle(noc) /\ dram' = OneCycle(dram)
    /\ Step("deliver")
    /\ QuietCores
    /\ UNCHANGED <<netVars, dramReplies, watchVars>>

DueAt(node) == {i \in DOMAIN noc : noc[i].ttl = 0 /\ noc[i].pkt.dst = node}
DueResponses == {i \in DOMAIN dram : dram[i].ttl = 0}

Receive(c, p) == ejection' = [ejection EXCEPT ![c] = Append(@, p)]

DeliverToCore(c) ==
    /\ pc = "deliver"
    /\ DueAt(NodeId(c)) # {} /\ \A d \in 0 .. c - 1 : DueAt(NodeId(d)) = {}
    /\ LET i == Min(DueAt(NodeId(c)))
       IN  Receive(c, noc[i].pkt) /\ noc' = RemoveAt(noc, i)
    /\ QuietCores
    /\ UNCHANGED <<injection, dram, dramReplies, watchVars, pc, cur, cursor,
                   budget>>

EndDeliver ==
    /\ pc = "deliver" /\ \A c \in Core : DueAt(NodeId(c)) = {}
    /\ Step(IF OnNoc THEN "forward" ELSE "respond")
    /\ QuietCores
    /\ UNCHANGED <<netVars, transportVars, watchVars>>

ForwardToDram(m) ==
    /\ pc = "forward"
    /\ DueAt(MemoryNodes[m]) # {}
    /\ \A k \in 1 .. m - 1 : DueAt(MemoryNodes[k]) = {}
    /\ LET i == Min(DueAt(MemoryNodes[m]))
       IN  DramSend(noc[i].pkt) /\ noc' = RemoveAt(noc, i)
    /\ QuietCores
    /\ UNCHANGED <<netVars, dramReplies, watchVars, pc, cur, cursor, budget>>

EndForward ==
    /\ pc = "forward" /\ \A m \in DOMAIN MemoryNodes : DueAt(MemoryNodes[m]) = {}
    /\ Step("respond")
    /\ QuietCores
    /\ UNCHANGED <<netVars, transportVars, watchVars>>

DeliverDramResponse ==
    /\ pc = "respond" /\ DueResponses # {}
    /\ LET i == Min(DueResponses)
           p == dram[i].pkt
       IN  /\ dram' = RemoveAt(dram, i)
           /\ IF OnNoc
                THEN /\ dramReplies' = Append(dramReplies, p)
                     /\ UNCHANGED ejection
                ELSE Receive(p.dst, p) /\ UNCHANGED dramReplies
    /\ QuietCores
    /\ UNCHANGED <<injection, noc, watchVars, pc, cur, cursor, budget>>

EndRespond ==
    /\ pc = "respond" /\ DueResponses = {}
    /\ Step("check")
    /\ QuietCores
    /\ UNCHANGED <<netVars, transportVars, watchVars>>

-----------------------------------------------------------------------------
(* The loop of run() and its watchdog.  last_progress_cycle_ only takes    *)
(* values at the checks, so the time without progress is a whole number of *)
(* periods.                                                                *)

AllCoresDone == \A c \in Core : state[c] = "DONE"
LoopHead == IF AllCoresDone THEN "complete" ELSE "incoming"
CheckTime == (sinceCheck + 1) % CheckPeriod = 0

NextCycle ==
    /\ pc = "check" /\ ~CheckTime
    /\ sinceCheck' = sinceCheck + 1
    /\ Step(LoopHead)
    /\ QuietCores
    /\ UNCHANGED <<netVars, transportVars, stalled, lastCompleted, resolutions>>

(* Faulty: counts standing still as progress. *)
ProgressedOrNot == completed >= lastCompleted

Progressed == completed > lastCompleted

CheckProgress ==
    /\ pc = "check" /\ CheckTime
    /\ sinceCheck' = 0
    /\ IF Progressed
         THEN stalled' = 0 /\ lastCompleted' = completed
         ELSE stalled' = stalled + 1 /\ UNCHANGED lastCompleted
    /\ Step(IF stalled' < CheckThreshold THEN LoopHead ELSE "resolve")
    /\ QuietCores
    /\ UNCHANGED <<netVars, transportVars, resolutions>>

(* build_wait_for_graph: producers that are done, and the DRAM, are not
   waited for. *)
WaitsFor(c, d) ==
    /\ state[d] # "DONE"
    /\ \E s \in PendingSources(c) : s.from = d

(* find_cycle_dfs: some cycle, if there is one; which one depends on the
   order of the adjacency lists. *)
IsCycle(S) ==
    /\ S # {}
    /\ \E succ \in [S -> S] :
         /\ \A c \in S : WaitsFor(c, succ[c])
         /\ \A T \in (SUBSET S) \ {{}} : (\A c \in T : succ[c] \in T) => T = S

HasCycle == \E S \in SUBSET Core : IsCycle(S)

(* The first core stuck on SRAM pressure, else the first in WRITEBACK. *)
Pressured == {c \in Core : state[c] = "LOADING" /\ retry[c] # <<>>}
Writing   == {c \in Core : state[c] = "WRITEBACK"}

Resolved ==
    /\ resolutions' = resolutions + 1
    /\ stalled' = 0
    /\ Step("incoming")
    /\ UNCHANGED <<transportVars, sinceCheck, lastCompleted>>

(* Every core of the cycle counts one remaining workload, so the victim is
   the one with the lowest id. *)
BreakCycle(S) ==
    /\ pc = "resolve" /\ IsCycle(S) /\ resolutions < MaxResolutions
    /\ ForceAdvanceLoading(Min(S))
    /\ Resolved

RelievePressure ==
    /\ pc = "resolve" /\ ~HasCycle /\ Pressured # {}
    /\ ForceAdvanceLoading(Min(Pressured))
    /\ Resolved

AbandonWriteback ==
    /\ pc = "resolve" /\ ~HasCycle /\ Pressured = {} /\ Writing # {}
    /\ ForceCompleteWriteback(Min(Writing))
    /\ Resolved

Unresolvable ==
    IF HasCycle THEN resolutions >= MaxResolutions
                ELSE Pressured = {} /\ Writing = {}

GiveUp ==
    /\ pc = "resolve" /\ Unresolvable
    /\ Step(IF stalled >= AbortThreshold THEN "aborted" ELSE LoopHead)
    /\ QuietCores
    /\ UNCHANGED <<netVars, transportVars, watchVars>>

Watchdog ==
    \/ \E S \in SUBSET Core : BreakCycle(S)
    \/ RelievePressure \/ AbandonWriteback \/ GiveUp

Tick ==
    \/ CoreTick /\ UNCHANGED <<transportVars, watchVars>>
    \/ \E c \in Core : CollectPacket(c) \/ DeliverToCore(c)
    \/ EndCollect \/ InjectDramResponse \/ EndReply \/ Advance \/ EndDeliver
    \/ \E m \in DOMAIN MemoryNodes : ForwardToDram(m)
    \/ EndForward \/ DeliverDramResponse \/ EndRespond

Halted == pc \in {"complete", "aborted"} /\ UNCHANGED vars

Next == Tick \/ NextCycle \/ CheckProgress \/ Watchdog \/ Halted

Spec == Init /\ [][Next]_vars

(* One thread runs the whole program and nothing in it waits. *)
FairSpec == Spec /\ WF_vars(Next)

=============================================================================
