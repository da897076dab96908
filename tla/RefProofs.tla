------------------------------ MODULE RefProofs ------------------------------
(***************************************************************************)
(* A published output stays in its producer's memory for as long as it is  *)
(* needed, and its reference count is what the readers in other cores and  *)
(* the DRAM still need.  A claim on an output is a workload elsewhere      *)
(* whose request is not answered, a source of a later workload of the same *)
(* core, or a write-back: claims are sets, a step of the program only      *)
(* takes elements out of them, and takes one out where it releases a       *)
(* reference.                                                              *)
(***************************************************************************)
EXTENDS TokenProofs

-----------------------------------------------------------------------------
(* One entry of a scratchpad under its operations.                         *)

Alike(s, new, t) ==
    /\ HasData(new, t) <=> HasData(s, t)
    /\ HasData(s, t) => new.entries[t].ref = s.entries[t].ref
    /\ IsReady(s, t) => IsReady(new, t)

LEMMA AllocateEntry ==
    ASSUME NEW s, SramTypeOK(s), NEW t, NEW size, NEW ref, NEW u
    PROVE  /\ u # t \/ HasData(s, u) => Alike(s, Allocate(s, t, size, ref), u)
           /\ HasData(Allocate(s, t, size, ref), u) =>
                 \/ HasData(s, u)
                 \/ u = t /\ Allocate(s, t, size, ref).entries[u].ref = ref
           /\ CanAllocate(s, t, size) => HasData(Allocate(s, t, size, ref), t)
  BY DEF SramTypeOK, Allocate, Insert, HasData, IsReady, Alike, CanAllocate

LEMMA MarkReadyEntry ==
    ASSUME NEW s, SramTypeOK(s), NEW t, NEW u
    PROVE  /\ Alike(s, MarkReady(s, t), u)
           /\ HasData(s, t) => IsReady(MarkReady(s, t), t)
  BY DEF SramTypeOK, MarkReady, HasData, IsReady, Alike, SramEntry

LEMMA ReleaseEntry ==
    ASSUME NEW s, SramTypeOK(s), NEW t, NEW u
    PROVE  /\ u # t => Alike(s, ReleaseRef(s, t), u)
           /\ HasData(ReleaseRef(s, t), t) =>
                 /\ HasData(s, t) /\ s.entries[t].ref \in Nat /\ s.entries[t].ref >= 2
                 /\ ReleaseRef(s, t).entries[t].ref = s.entries[t].ref - 1
           /\ IsReady(s, t) /\ s.entries[t].ref >= 2 => IsReady(ReleaseRef(s, t), t)
  BY DEF SramTypeOK, ReleaseRef, Deallocate, HasData, IsReady, Alike, SramEntry

-----------------------------------------------------------------------------
(* The read requests of core d for t that are under way.                   *)

Asking(d, t) == From(d, "READ_REQUEST", t)
AskingTaken(d, t) == From(NodeId(d), "READ_REQUEST", t)
Asked(d, t) == UnderWay(Asking(d, t), AskingTaken(d, t))

LEMMA RequestingIsAsked ==
    ASSUME NEW d, NEW t
    PROVE  /\ Requesting(d, t) <=> Asked(d, t) > 0
           /\ Requesting(d, t)' <=> Asked(d, t)' > 0
  BY DEF Requesting, Asked, Asking, AskingTaken

LEMMA InAsking ==
    ASSUME NEW p \in Packet, NEW d, NEW t
    PROVE  /\ p \in Asking(d, t) <=> IsRead(p) /\ p.src = d /\ p.tid = t
           /\ p \in AskingTaken(d, t) <=> IsRead(p) /\ p.src = NodeId(d) /\ p.tid = t
  BY DEF Asking, AskingTaken, From, Packet, IsRead

LEMMA AskedTyped ==
    ASSUME TypeInv, TypeInv', NEW d, NEW t
    PROVE  Asked(d, t) \in Nat /\ Asked(d, t)' \in Nat
  BY UnderWayTyped, UnderWayStaysTyped DEF Asked, Asking, AskingTaken

LEMMA SameAsked ==
    ASSUME UNCHANGED <<netVars, remote, retry, transportVars>>, NEW d, NEW t
    PROVE  Asked(d, t)' = Asked(d, t)
  BY SameUnderWay DEF Asked, Asking, AskingTaken

(* A request for t that is about to go to the memory. *)
MemoryAsked(t) ==
    \/ \E c \in Core : \E p \in ToSet(injection[c]) :
          IsRead(p) /\ p.tid = t /\ p.dst = DRAM
    \/ \E f \in ToSet(noc) :
          IsRead(f.pkt) /\ f.pkt.tid = t /\ f.pkt.dst \in ToSet(MemoryNodes)

(* No request of d for t is lost but to the memory. *)
AskedKept(d, t) ==
    /\ Asked(d, t)' <= Asked(d, t)
    /\ Asked(d, t)' = Asked(d, t) \/ MemoryAsked(t)

LEMMA ReplyIsNoRead ==
    ASSUME NEW p \in Packet
    PROVE  Reply(p) \in Packet /\ ~IsRead(Reply(p))
<1>1. Reply(p).type \in {"READ_RESPONSE", "WRITE_RESPONSE"}
  BY DEF Reply, Packet
<1> QED
  BY <1>1, ReplyTyped DEF IsRead

LEMMA CollectPacketAsks ==
    ASSUME AddressInv, TypeInv', NEW c \in Core, CollectPacket(c),
           NEW d \in Core, NEW t
    PROVE  AskedKept(d, t)
<1> DEFINE p == Head(injection[c])
<1>1. TypeInv /\ CoresAddressed
  BY DEF AddressInv
<1>2. /\ p \in Packet /\ p \in ToSet(injection[c])
      /\ \E q \in Packet :
            /\ IF p.dst = DRAM /\ ~OnNoc THEN q = Reply(p) ELSE q \in Routed(p)
            /\ Asked(d, t)' + One(p, Asking(d, t))
                    = Asked(d, t) + One(q, AskingTaken(d, t))
  BY <1>1, CollectPacketCounts DEF Asked, Asking, AskingTaken
<1> HIDE DEF p
<1>3. PICK q \in Packet :
        /\ IF p.dst = DRAM /\ ~OnNoc THEN q = Reply(p) ELSE q \in Routed(p)
        /\ Asked(d, t)' + One(p, Asking(d, t)) = Asked(d, t) + One(q, AskingTaken(d, t))
  BY <1>2
<1>4. SentBy(c, p)
  BY <1>1, <1>2 DEF CoresAddressed
<1>5. Asked(d, t) \in Nat /\ Asked(d, t)' \in Nat
  BY <1>1, AskedTyped
<1>6. CASE p.dst = DRAM /\ ~OnNoc
  <2>1. One(q, AskingTaken(d, t)) = 0
    BY <1>3, <1>2, <1>6, ReplyIsNoRead, InAsking DEF One
  <2>2. One(p, Asking(d, t)) = 0 \/ (One(p, Asking(d, t)) = 1 /\ MemoryAsked(t))
    BY <1>2, <1>6, InAsking DEF One, MemoryAsked
  <2> QED
    BY <1>3, <1>5, <2>1, <2>2 DEF AskedKept
<1>7. CASE ~(p.dst = DRAM /\ ~OnNoc)
  <2>1. q \in Routed(p) /\ q.type = p.type
    BY <1>2, <1>3, <1>4, <1>7, RoutedOnNetwork
  <2>2. q.tid = p.tid /\ q.src = IF OnNoc THEN CoreToNoc(p.src) ELSE p.src
    BY <1>2, <2>1 DEF Routed, Packet
  <2>3. IsRead(p) => p.src = c
    BY <1>4 DEF SentBy, IsRead, ReadResponse
  <2>4. IsRead(p) => (q.src = NodeId(d) <=> p.src = d)
    <3>1. IsRead(p) => q.src = NodeId(c)
      BY <2>2, <2>3, NodesApart
    <3> QED
      BY <2>3, <3>1, NodesApart
  <2>5. p \in Asking(d, t) <=> q \in AskingTaken(d, t)
    BY <1>2, <2>1, <2>2, <2>4, InAsking DEF IsRead
  <2>6. One(p, Asking(d, t)) = One(q, AskingTaken(d, t)) /\ One(p, Asking(d, t)) \in Nat
    BY <2>5, OneEqual, OneTyped
  <2> QED
    BY <1>3, <1>5, <2>6 DEF AskedKept
<1> QED
  BY <1>6, <1>7

LEMMA ForwardToDramAsks ==
    ASSUME AddressInv, TypeInv', NEW m \in DOMAIN MemoryNodes, ForwardToDram(m),
           NEW d \in Core, NEW t
    PROVE  AskedKept(d, t)
<1>1. TypeInv
  BY DEF AddressInv
<1>2. PICK i \in 1 .. Len(noc) :
        /\ noc[i].pkt.dst \in ToSet(MemoryNodes) /\ noc[i].pkt \in Packet
        /\ Asked(d, t)' + One(noc[i].pkt, AskingTaken(d, t))
                = Asked(d, t) + One(Reply(noc[i].pkt), AskingTaken(d, t))
  BY <1>1, ForwardToDramCounts DEF Asked, Asking, AskingTaken
<1>3. Asked(d, t) \in Nat /\ Asked(d, t)' \in Nat
  BY <1>1, AskedTyped
<1>4. One(Reply(noc[i].pkt), AskingTaken(d, t)) = 0
  BY <1>2, ReplyIsNoRead, InAsking DEF One
<1>5. noc[i] \in ToSet(noc)
  BY <1>1, QueuesTyped, InToSet
<1>6. \/ One(noc[i].pkt, AskingTaken(d, t)) = 0
      \/ One(noc[i].pkt, AskingTaken(d, t)) = 1 /\ MemoryAsked(t)
  BY <1>2, <1>5, InAsking DEF One, MemoryAsked
<1> QED
  BY <1>2, <1>3, <1>4, <1>6 DEF AskedKept

LEMMA TransportAsks ==
    ASSUME AddressInv, TypeInv', TransportStep, NEW d \in Core, NEW t
    PROVE  AskedKept(d, t)
<1>1. TypeInv /\ Asked(d, t) \in Nat
  BY AskedTyped DEF AddressInv
<1>2. ASSUME Asked(d, t)' = Asked(d, t)
      PROVE  AskedKept(d, t)
  BY <1>1, <1>2 DEF AskedKept
<1>3. ASSUME NEW c \in Core, CollectPacket(c) \/ DeliverToCore(c)
      PROVE  AskedKept(d, t)
  BY <1>1, <1>2, <1>3, CollectPacketAsks, DeliverToCoreCounts
  DEF Asked, Asking, AskingTaken
<1>4. CASE \E m \in DOMAIN MemoryNodes : ForwardToDram(m)
  BY <1>4, ForwardToDramAsks
<1>5. CASE InjectDramResponse \/ Advance
  BY <1>1, <1>2, <1>5, InjectDramResponseCounts, AdvanceCounts
  DEF Asked, Asking, AskingTaken
<1>6. CASE DeliverDramResponse
  <2>1. ~OnNoc => \A i \in 1 .. Len(dram) : dram[i].pkt.dst \in Core
    <3>1. \A i \in 1 .. Len(dram) : dram[i] \in ToSet(dram)
      BY <1>1, QueuesTyped, InToSet
    <3> QED
      BY <3>1, NodesApart DEF AddressInv, TransportAddressed, FromMemory
  <2> QED
    BY <1>1, <1>2, <1>6, <2>1, DeliverDramResponseCounts DEF Asked, Asking, AskingTaken
<1>7. CASE \/ EndCollect \/ EndReply \/ EndDeliver \/ EndForward \/ EndRespond
           \/ NextCycle \/ CheckProgress \/ GiveUp
  <2>1. UNCHANGED <<netVars, remote, retry, transportVars>>
    BY <1>7 DEF EndCollect, EndReply, EndDeliver, EndForward, EndRespond, NextCycle,
                CheckProgress, GiveUp, QuietCores
  <2> QED
    BY <1>2, <2>1, SameAsked
<1> QED
  BY <1>3, <1>4, <1>5, <1>6, <1>7 DEF TransportStep

LEMMA SilentAsks ==
    ASSUME TypeInv, SilentStep, UNCHANGED transportVars, NEW d \in Core, NEW t
    PROVE  AskedKept(d, t)
<1>1. UNCHANGED <<netVars, remote, retry>>
  BY DEF SilentStep, EndIncoming, EndRetry, DrainUnlimited, DrainLimited, EndDrain,
         EndServe, RetireCore, StartWorkload, EndFetch, ComputeCycle, PublishOutput,
         EndOutputs, FreeInput, FinishWorkload, EnterWriteback, QueueWriteback,
         EndQueue, WritebackCycle, NothingToWrite, ReadOut, IdleTick, netVars
<1>2. Asked(d, t) \in Nat
  BY UnderWayTyped DEF Asked, Asking, AskingTaken
<1> QED
  BY <1>1, <1>2, SameAsked DEF AskedKept

(* Answers that arrive and writes that leave are no requests. *)
LEMMA ResponseAsks ==
    ASSUME AddressInv, TypeInv', UNCHANGED transportVars,
           ReceiveReadResponse \/ ReceiveWriteResponse \/ RetryAllocation,
           NEW d \in Core, NEW t
    PROVE  AskedKept(d, t)
<1>1. TypeInv /\ Asked(d, t) \in Nat
  BY UnderWayTyped DEF AddressInv, Asked, Asking, AskingTaken
<1>2. ASSUME NEW p \in Packet, ~IsRead(p),
             \/ Asked(d, t)' = Asked(d, t)
             \/ Asked(d, t) = Asked(d, t)' + One(p, AskingTaken(d, t))
      PROVE  AskedKept(d, t)
  <2>1. One(p, AskingTaken(d, t)) = 0
    BY <1>2, InAsking DEF One
  <2>2. Asked(d, t)' \in Nat
    BY <1>1, <1>2, AskedTyped
  <2> QED
    BY <1>1, <1>2, <2>1, <2>2 DEF AskedKept
<1>3. CASE ReceiveReadResponse
  BY <1>1, <1>2, <1>3, ReceiveReadResponseCounts, ArrivingGiven
  DEF Asked, Asking, AskingTaken, ReceiveReadResponse, IsRead
<1>4. CASE ReceiveWriteResponse
  BY <1>1, <1>2, <1>4, ReceiveWriteResponseCounts, ArrivingGiven
  DEF Asked, Asking, AskingTaken, ReceiveWriteResponse, IsRead
<1>5. CASE RetryAllocation
  BY <1>1, <1>2, <1>5, RetryAllocationCounts, RetriedAddressed
  DEF Asked, Asking, AskingTaken, IsRead, ReadResponse
<1> QED
  BY <1>3, <1>4, <1>5

LEMMA SendWriteAsks ==
    ASSUME AddressInv, WritebackCycle, SendWrite, UNCHANGED transportVars,
           NEW d \in Core, NEW t
    PROVE  AskedKept(d, t)
<1>1. /\ TypeInv /\ WriteRequest \in Packet /\ cur \in Core /\ Push(cur, WriteRequest)
      /\ UNCHANGED <<ejection, remote, retry, transportVars>>
  BY WriteRequestTyped DEF AddressInv, WritebackCycle
<1>2. Asked(d, t)' = Asked(d, t) + One(WriteRequest, Asking(d, t))
  BY <1>1, SendCounts DEF Asked, Asking, AskingTaken
<1>3. One(WriteRequest, Asking(d, t)) = 0
  <2>1. ~IsRead(WriteRequest)
    BY DEF IsRead, WriteRequest
  <2> QED
    BY <1>1, <2>1, InAsking DEF One
<1>4. Asked(d, t) \in Nat
  BY <1>1, UnderWayTyped DEF Asked, Asking, AskingTaken
<1> QED
  BY <1>2, <1>3, <1>4 DEF AskedKept

(* Core d, which is at source s, asks for it: it has neither asked before nor
   the data in its memory. *)
AsksFor(d, s) ==
    /\ s.tid \notin requested[d] /\ ~IsReady(sram[d], s.tid)
    /\ Asked(d, s.tid)' = Asked(d, s.tid) + 1
    /\ UNCHANGED pendingLoads
    /\ \A e \in Core : \A t : e # d \/ t # s.tid => AskedKept(e, t)

(* It does not, as it has asked or finds the data. *)
AsksNot(d, s) ==
    /\ \A e \in Core : \A t : AskedKept(e, t)
    /\ \/ s.tid \in requested[d] /\ UNCHANGED pendingLoads
       \/ /\ IsReady(sram[d], s.tid)
          /\ pendingLoads' = [pendingLoads EXCEPT ![d] = @ \ {s.tid}]

LEMMA FetchSourceAsks ==
    ASSUME AddressInv, FetchSource, UNCHANGED transportVars
    PROVE  \E d \in Core : \E s \in Source :
             /\ d = cur /\ s = Sources(d)[cursor] /\ cursor \in DOMAIN Sources(d)
             /\ requested' = [requested EXCEPT ![d] = @ \cup {s.tid}]
             /\ AsksFor(d, s) \/ AsksNot(d, s)
<1>1. PICK d \in Core, s \in Source :
        /\ d = cur /\ s = Sources(cur)[cursor] /\ TypeInv
        /\ [type |-> "READ_REQUEST", src |-> d, dst |-> s.from,
            tid |-> s.tid, size |-> s.size] \in Packet
  BY FetchedHasBytes
<1> DEFINE request == [type |-> "READ_REQUEST", src |-> d, dst |-> s.from,
                       tid |-> s.tid, size |-> s.size]
<1>2. UNCHANGED <<ejection, remote, retry, transportVars>>
  BY DEF FetchSource
<1>3. cursor \in DOMAIN Sources(d)
  <2>1. /\ CoreTypeOK /\ cursor \in Nat \ {0} /\ HasWorkload(d)
    BY <1>1, InTick
    DEF FetchSource, CoreTypeOK, TickTypeOK, Control, PcMatchesState, WorkingHasWorkload,
        CoreState
  <2>2. Sources(d) \in Seq(Source)
    BY <1>1, <2>1, CurrentTyped
  <2> QED
    BY <1>1, <2>1, <2>2 DEF FetchSource, FetchDone
<1>4. \A e \in Core : \A t : Asked(e, t) \in Nat
  BY <1>1, UnderWayTyped DEF Asked, Asking, AskingTaken
<1>5. requested' = [requested EXCEPT ![d] = @ \cup {s.tid}]
  BY <1>1 DEF FetchSource
<1>6. CASE s.tid \in requested[d] \/ IsReady(sram[d], s.tid)
  <2>1. UNCHANGED injection
    BY <1>1, <1>6 DEF FetchSource, AlreadyRequested
  <2>2. \A e \in Core : \A t : AskedKept(e, t)
    BY <1>2, <1>4, <2>1, SameAsked DEF AskedKept, netVars
  <2>3. AsksNot(d, s)
    BY <1>1, <1>6, <2>2 DEF FetchSource, AlreadyRequested, AsksNot
  <2> QED
    BY <1>1, <1>3, <1>5, <2>3
<1>7. CASE s.tid \notin requested[d] /\ ~IsReady(sram[d], s.tid)
  <2>1. Push(d, request) /\ UNCHANGED pendingLoads
    BY <1>1, <1>7 DEF FetchSource, AlreadyRequested
  <2>2. /\ request \in Packet
        /\ request.type = "READ_REQUEST" /\ request.src = d /\ request.tid = s.tid
    BY <1>1
  <2> HIDE DEF request
  <2>3. ASSUME NEW e \in Core, NEW t
        PROVE  Asked(e, t)' = Asked(e, t) + One(request, Asking(e, t))
    BY <1>1, <1>2, <2>1, <2>2, SendCounts DEF Asked, Asking, AskingTaken
  <2>4. ASSUME NEW e \in Core, NEW t
        PROVE  One(request, Asking(e, t)) = IF e = d /\ t = s.tid THEN 1 ELSE 0
    BY <2>2, InAsking DEF One, IsRead
  <2>5. \A e \in Core : \A t : e # d \/ t # s.tid => AskedKept(e, t)
    BY <1>4, <2>3, <2>4 DEF AskedKept
  <2>6. Asked(d, s.tid)' = Asked(d, s.tid) + 1
    BY <1>4, <2>3, <2>4
  <2>7. AsksFor(d, s)
    BY <1>7, <2>1, <2>5, <2>6 DEF AsksFor
  <2> QED
    BY <1>1, <1>3, <1>5, <2>7
<1> QED
  BY <1>6, <1>7

(* Core cur answers request req of core d. *)
Answered(req, d) ==
    /\ Answers(req) /\ req \in Packet /\ IsRead(req) /\ cur \in Core
    /\ UNCHANGED <<state, idx, requested, pendingLoads>>
    /\ req \in ToSet(ejection[cur]) \cup ToSet(remote[cur])
    /\ Asked(d, req.tid) = Asked(d, req.tid)' + 1
    /\ \A e \in Core : \A t : e # d \/ t # req.tid => AskedKept(e, t)

LEMMA AnswersChange ==
    ASSUME TypeInv, NEW req, Answers(req), UNCHANGED sram
    PROVE  FALSE
<1>1. cur \in Core /\ SramTypeOK(sram[cur]) /\ sram[cur] = ReleaseRef(sram[cur], req.tid)
  BY InTick DEF CoreTypeOK, SramsTypeOK, Answers
<1>2. HasData(sram[cur], req.tid)
  BY DEF Answers, IsReady
<1> QED
  BY <1>1, <1>2, ReleaseEntry

LEMMA AnsweredBy ==
    ASSUME AddressInv, TypeInv', NEW req \in Packet, ReadRequest(req), req.src \in CoreNodes,
           req \in ToSet(ejection[cur]) \cup ToSet(remote[cur]), cur \in Core,
           UNCHANGED <<state, idx, requested, pendingLoads>>,
           \A d \in Core : \A t :
              \/ Asked(d, t)' = Asked(d, t) /\ UNCHANGED sram
              \/ /\ Asked(d, t)' + One(req, AskingTaken(d, t))
                        = Asked(d, t) + One(Response(cur, req), Asking(d, t))
                 /\ Answers(req)
    PROVE  \/ UNCHANGED sram /\ \A d \in Core : \A t : AskedKept(d, t)
           \/ \E d \in Core : Answered(req, d)
<1>1. TypeInv /\ \A d \in Core : \A t : Asked(d, t) \in Nat /\ Asked(d, t)' \in Nat
  BY AskedTyped DEF AddressInv
<1>2. CASE UNCHANGED sram
  BY <1>1, <1>2, AnswersChange DEF AskedKept
<1>3. CASE ~UNCHANGED sram
  <2>1. PICK d \in Core : req.src = NodeId(d)
    BY DEF CoreNodes
  <2>2. IsRead(req) /\ Response(cur, req) \in Packet /\ ~IsRead(Response(cur, req))
    BY ResponseTyped DEF ReadRequest, IsRead, Response
  <2>3. ASSUME NEW e \in Core, NEW t
        PROVE  Asked(e, t) = Asked(e, t)' + (IF e = d /\ t = req.tid THEN 1 ELSE 0)
    <3>1. One(Response(cur, req), Asking(e, t)) = 0
      BY <2>2, InAsking DEF One
    <3>2. One(req, AskingTaken(e, t)) = IF e = d /\ t = req.tid THEN 1 ELSE 0
      BY <2>1, <2>2, InAsking, NodesApart DEF One
    <3> QED
      BY <1>1, <1>3, <3>1, <3>2
  <2>4. Answers(req)
    BY <1>3, <2>1
  <2>5. \A e \in Core : \A t : e # d \/ t # req.tid => AskedKept(e, t)
    BY <1>1, <2>3 DEF AskedKept
  <2>6. Asked(d, req.tid) = Asked(d, req.tid)' + 1
    BY <1>1, <2>3
  <2> QED
    BY <2>2, <2>4, <2>5, <2>6 DEF Answered
<1> QED
  BY <1>2, <1>3

LEMMA AnswerAsks ==
    ASSUME AddressInv, TypeInv', UNCHANGED transportVars,
           ReceiveReadRequest \/ ServeRemoteRequest
    PROVE  \/ UNCHANGED sram /\ \A d \in Core : \A t : AskedKept(d, t)
           \/ \E req : \E d \in Core : Answered(req, d)
<1>1. /\ TypeInv /\ CoresAddressed /\ cur \in Core
      /\ UNCHANGED <<state, idx, requested, pendingLoads>>
  BY InTick DEF AddressInv, ReceiveReadRequest, ServeRemoteRequest, fsmVars, loadVars
<1>2. CASE ReceiveReadRequest
  <2>1. /\ Arriving \in Packet /\ ReadRequest(Arriving) /\ Arriving.src \in CoreNodes
    BY <1>2, ArrivingGiven DEF ReceiveReadRequest, GivenTo, Answer, ReadResponse
  <2>2. Arriving \in ToSet(ejection[cur])
    BY <1>1, <1>2, QueuesTyped, HeadTailQueue
    DEF ReceiveReadRequest, Incoming, Queues, Arriving
  <2>3. \A d \in Core : \A t :
          \/ Asked(d, t)' = Asked(d, t) /\ UNCHANGED sram
          \/ /\ Asked(d, t)' + One(Arriving, AskingTaken(d, t))
                    = Asked(d, t) + One(Response(cur, Arriving), Asking(d, t))
             /\ Answers(Arriving)
    BY <1>1, <1>2, ReceiveReadRequestCounts DEF Asked, Asking, AskingTaken
  <2> QED
    BY <1>1, <2>1, <2>2, <2>3, AnsweredBy
<1>3. CASE ServeRemoteRequest
  <2> DEFINE req == remote[cur][cursor]
  <2>1. \A d \in Core : \A t :
          \/ Asked(d, t)' = Asked(d, t) /\ UNCHANGED sram
          \/ /\ Asked(d, t)' + One(req, AskingTaken(d, t))
                    = Asked(d, t) + One(Response(cur, req), Asking(d, t))
             /\ Answers(req) /\ req \in ToSet(remote[cur]) /\ req \in Packet
    BY <1>1, <1>3, ServeRemoteRequestCounts DEF Asked, Asking, AskingTaken
  <2> HIDE DEF req
  <2>2. CASE UNCHANGED sram
    <3>1. \A d \in Core : \A t : Asked(d, t)' = Asked(d, t)
      BY <1>1, <2>1, <2>2, AnswersChange
    <3>2. \A d \in Core : \A t : Asked(d, t) \in Nat
      BY <1>1, AskedTyped
    <3> QED
      BY <2>2, <3>1, <3>2 DEF AskedKept
  <2>3. CASE ~UNCHANGED sram
    <3>1. req \in ToSet(remote[cur]) /\ req \in Packet
      BY <1>1, <2>1, <2>3
    <3>2. ReadRequest(req) /\ req.src \in CoreNodes
      BY <1>1, <3>1 DEF CoresAddressed
    <3> QED
      BY <1>1, <2>1, <3>1, <3>2, AnsweredBy
  <2> QED
    BY <2>2, <2>3
<1> QED
  BY <1>2, <1>3

-----------------------------------------------------------------------------
(* The way of a core through its workloads, with the loops at the end of a *)
(* computation told apart from the states they run in.                     *)

Loops == {"outputs", "free", "queue"}
Stage(c) == IF cur = c /\ pc \in Loops THEN pc ELSE state[c]
At(c) == IF cur = c /\ pc \in Loops THEN cursor ELSE 0

Moves(c, from, to) == Stage(c) = from /\ Stage(c)' = to
Iterates(c, q) == /\ Stage(c)' = Stage(c) /\ idx'[c] = idx[c]
                  /\ At(c) \in DOMAIN q /\ At(c)' = At(c) + 1
Through(c, q) == At(c) > Len(q)

Rests(c) == Stage(c)' = Stage(c) /\ At(c)' = At(c) /\ idx'[c] = idx[c]

Starts(c) ==
    /\ Stage(c) = "IDLE" /\ idx'[c] = idx[c]
    /\ \/ Stage(c)' = "DONE" /\ ~HasWorkload(c)
       \/ /\ Stage(c)' \in {"LOADING", "COMPUTING"} /\ HasWorkload(c)
          /\ Stage(c)' = "COMPUTING" => SourceTids(c) = {}
          /\ requested'[c] = {} /\ pendingLoads'[c] = SourceTids(c)

Works(c) ==
    /\ idx'[c] = idx[c] /\ HasWorkload(c)
    /\ \/ Moves(c, "LOADING", "COMPUTING") /\ pendingLoads[c] = {}
       \/ Moves(c, "COMPUTING", "outputs") /\ At(c)' = 1
       \/ Stage(c) = "outputs" /\ Iterates(c, Outputs(c)) /\ PublishOutput /\ cur = c
       \/ Moves(c, "outputs", "free") /\ Through(c, Outputs(c)) /\ At(c)' = 1
       \/ Stage(c) = "free" /\ Iterates(c, Sources(c)) /\ FreeInput /\ cur = c
       \/ /\ Moves(c, "free", "queue") /\ Through(c, Sources(c)) /\ At(c)' = 1
          /\ EnterWriteback /\ cur = c
       \/ Stage(c) = "queue" /\ Iterates(c, Outputs(c)) /\ QueueWriteback /\ cur = c
       \/ Moves(c, "queue", "WRITEBACK") /\ Through(c, Outputs(c))

Retires(c) ==
    /\ Stage(c)' = "IDLE" /\ idx'[c] = idx[c] + 1
    /\ \/ /\ Stage(c) = "free" /\ Through(c, Sources(c))
          /\ \A out \in ToSet(Outputs(c)) : ~ToDram(out)
       \/ /\ Stage(c) = "WRITEBACK" /\ WritebackCycle /\ cur = c
          /\ wbIssued'[c] /\ pendingWb'[c] = {}

Turn(c) == Rests(c) \/ Starts(c) \/ Works(c) \/ Retires(c)

(* A core stays where it is in the steps of others, and in its own outside the
   loops that leave its state alone. *)
LEMMA OthersRest ==
    ASSUME NEW c, NEW d, cur = c, c # d, cur' = c \/ pc' \notin Loops,
           state'[d] = state[d], idx'[d] = idx[d]
    PROVE  Rests(d)
  BY DEF Rests, Stage, At

LEMMA RestsOutside ==
    ASSUME NEW c, cur = c => pc \notin Loops, cur' = c => pc' \notin Loops,
           state'[c] = state[c], idx'[c] = idx[c]
    PROVE  Rests(c)
  BY DEF Rests, Stage, At

LEMMA LabelsApart ==
    /\ Loops \cap CoreState = {}
    /\ Loops \cap {"incoming", "retry", "drain", "serve", "collect", "reply", "advance",
                   "deliver", "forward", "respond", "check", "resolve", "complete",
                   "aborted"} = {}
  BY DEF Loops, CoreState

LEMMA OthersInTick ==
    ASSUME TypeInv, CoreTick, NEW d \in Core, d # cur
    PROVE  Rests(d)
<1>1. /\ cur \in Core /\ state \in [Core -> CoreState] /\ idx \in [Core -> Nat \ {0}]
  BY InTick DEF CoreTypeOK, FsmTypeOK
<1>2. cur' = cur \/ pc' \notin Loops
  <2>1. SameIteration \/ NextIteration \/ (\E label : Goto(label)) => cur' = cur
    BY DEF SameIteration, NextIteration, Goto
  <2>2. EndTick => pc' \notin Loops
    BY DEF EndTick, Loops
  <2>3. CASE EndRetry \/ EndDrain \/ DrainLimited
    BY <2>3 DEF EndRetry, EndDrain, DrainLimited
  <2>4. CASE ReceiveReadResponse \/ ReceiveReadRequest \/ ReceiveWriteResponse
    BY <2>1, <2>4 DEF ReceiveReadResponse, ReceiveReadRequest, ReceiveWriteResponse, Incoming
  <2>5. CASE RetryAllocation \/ ServeRemoteRequest \/ DrainUnlimited
    BY <2>1, <2>5 DEF RetryAllocation, ServeRemoteRequest, DrainUnlimited
  <2>6. CASE \/ EndIncoming \/ EndServe \/ FetchSource \/ PublishOutput \/ EndOutputs
             \/ FreeInput \/ EnterWriteback \/ QueueWriteback
    BY <2>1, <2>6 DEF EndIncoming, EndServe, FetchSource, PublishOutput, EndOutputs,
                      FreeInput, EnterWriteback, QueueWriteback
  <2>7. CASE \/ RetireCore \/ StartWorkload \/ EndFetch \/ FinishWorkload \/ EndQueue
             \/ WritebackCycle \/ IdleTick
    BY <2>2, <2>7 DEF RetireCore, StartWorkload, EndFetch, FinishWorkload, EndQueue,
                      WritebackCycle, IdleTick
  <2>8. CASE ComputeCycle
    BY <2>1, <2>2, <2>8 DEF ComputeCycle
  <2> QED
    BY <2>3, <2>4, <2>5, <2>6, <2>7, <2>8 DEF CoreTick
<1>3. state'[d] = state[d] /\ idx'[d] = idx[d]
  <2>1. CASE UNCHANGED <<state, idx>>
    BY <2>1
  <2>2. CASE RetireCore \/ StartWorkload \/ EndFetch \/ FinishWorkload \/ EnterWriteback
             \/ WritebackCycle
    BY <1>1, <2>2 DEF RetireCore, StartWorkload, EndFetch, FinishWorkload, EnterWriteback,
                      WritebackCycle, NextWorkload, BeginCompute, fsmVars
  <2> QED
    BY <2>1, <2>2
    DEF CoreTick, ReceiveReadResponse, ReceiveReadRequest, ReceiveWriteResponse,
        EndIncoming, RetryAllocation, EndRetry, DrainUnlimited, DrainLimited, EndDrain,
        ServeRemoteRequest, EndServe, FetchSource, ComputeCycle, PublishOutput,
        EndOutputs, FreeInput, QueueWriteback, EndQueue, IdleTick, fsmVars
<1> QED
  BY <1>1, <1>2, <1>3, OthersRest

(* Where the core whose tick it is stands. *)
LEMMA StageOfTick ==
    ASSUME TypeInv, NEW c, c = cur
    PROVE  /\ c \in Core /\ state[c] \in CoreState /\ idx[c] \in Nat
           /\ pc \in CoreState => Stage(c) = pc /\ state[c] = pc
           /\ pc \in Loops => Stage(c) = pc /\ At(c) = cursor
           /\ pc' \in Loops /\ cur' = c => Stage(c)' = pc' /\ At(c)' = cursor'
           /\ pc' \notin Loops => Stage(c)' = state'[c]
           /\ Stage(c) \in {"LOADING", "COMPUTING", "WRITEBACK"} \cup Loops =>
                 /\ HasWorkload(c)
                 /\ Sources(c) \in Seq(Source) /\ Outputs(c) \in Seq(Output)
           /\ cursor \in Nat \ {0}
<1>1. /\ cur \in Core /\ state \in [Core -> CoreState] /\ idx \in [Core -> Nat \ {0}]
      /\ Control /\ CoreTypeOK /\ cursor \in Nat \ {0}
  BY InTick DEF CoreTypeOK, FsmTypeOK, TickTypeOK
<1>2. pc \in CoreState => Stage(c) = pc /\ state[c] = pc
  BY <1>1, LabelsApart DEF Control, PcMatchesState, Stage
<1>3. Stage(c) \in {"LOADING", "COMPUTING", "WRITEBACK"} \cup Loops => HasWorkload(c)
  BY <1>1 DEF Control, PcMatchesState, Stage, WorkingHasWorkload, Loops, CoreState
<1>4. HasWorkload(c) => Sources(c) \in Seq(Source) /\ Outputs(c) \in Seq(Output)
  BY <1>1, CurrentTyped
<1> QED
  BY <1>1, <1>2, <1>3, <1>4 DEF Stage, At

LEMMA OwnTurn ==
    ASSUME TypeInv, CoreTick, NEW c, c = cur
    PROVE  Turn(c)
<1>1. /\ c \in Core /\ state \in [Core -> CoreState] /\ idx \in [Core -> Nat \ {0}]
      /\ requested \in [Core -> SUBSET Tid] /\ pendingLoads \in [Core -> SUBSET Tid]
      /\ cursor \in Nat \ {0}
  BY InTick DEF CoreTypeOK, FsmTypeOK, LoadTypeOK, TickTypeOK
<1>2. /\ pc \in CoreState => pc \notin Loops /\ Stage(c) = pc /\ state[c] = pc
      /\ pc \in Loops => Stage(c) = pc /\ At(c) = cursor
      /\ pc' \in Loops /\ cur' = c => Stage(c)' = pc' /\ At(c)' = cursor'
      /\ pc' \notin Loops => Stage(c)' = state'[c]
      /\ Stage(c) \in {"LOADING", "COMPUTING", "WRITEBACK"} \cup Loops =>
            /\ HasWorkload(c)
            /\ Sources(c) \in Seq(Source) /\ Outputs(c) \in Seq(Output)
  BY StageOfTick, LabelsApart
<1>3. EndTick => pc' \notin Loops
  BY DEF EndTick, Loops
<1>4. /\ NextIteration => pc' = pc /\ cur' = c /\ cursor' = cursor + 1
      /\ \A label : Goto(label) => pc' = label /\ cur' = c /\ cursor' = 1
  BY DEF NextIteration, Goto
<1>5. ASSUME pc \notin Loops, pc' \notin Loops, UNCHANGED <<state, idx>>
      PROVE  Turn(c)
  BY <1>5, RestsOutside DEF Turn
<1>6. CASE \/ ReceiveReadResponse \/ ReceiveReadRequest \/ ReceiveWriteResponse
           \/ EndIncoming \/ RetryAllocation \/ EndRetry \/ DrainUnlimited \/ DrainLimited
           \/ EndDrain \/ ServeRemoteRequest \/ FetchSource \/ IdleTick
  <2>1. /\ pc \in {"incoming", "retry", "drain", "serve", "LOADING", "DONE"}
        /\ \/ pc' \in {"incoming", "retry", "drain", "serve", "LOADING"}
           \/ EndTick
        /\ UNCHANGED <<state, idx>>
    BY <1>6
    DEF ReceiveReadResponse, ReceiveReadRequest, ReceiveWriteResponse, Incoming,
        EndIncoming, RetryAllocation, EndRetry, DrainUnlimited, DrainLimited, EndDrain,
        ServeRemoteRequest, FetchSource, IdleTick, fsmVars, SameIteration,
        NextIteration, Goto
  <2> QED
    BY <1>3, <1>5, <2>1 DEF Loops
<1>7. CASE EndServe
  <2>1. pc = "serve" /\ pc' = state[c] /\ UNCHANGED <<state, idx>>
    BY <1>7 DEF EndServe, Goto, fsmVars
  <2>2. state[c] \notin Loops
    BY <1>1, LabelsApart
  <2> QED
    BY <1>5, <2>1, <2>2 DEF Loops
<1>8. CASE RetireCore
  <2>1. pc = "IDLE" /\ state'[c] = "DONE" /\ idx'[c] = idx[c] /\ ~HasWorkload(c) /\ EndTick
    BY <1>1, <1>8 DEF RetireCore
  <2> QED
    BY <1>2, <1>3, <2>1 DEF Turn, Starts, CoreState
<1>9. CASE StartWorkload
  <2>1. /\ pc = "IDLE" /\ HasWorkload(c) /\ idx'[c] = idx[c] /\ EndTick
        /\ requested'[c] = {} /\ pendingLoads'[c] = SourceTids(c)
        /\ IF SourceTids(c) = {} THEN state'[c] = "COMPUTING" ELSE state'[c] = "LOADING"
    BY <1>1, <1>9 DEF StartWorkload, BeginCompute
  <2> QED
    BY <1>2, <1>3, <2>1 DEF Turn, Starts, CoreState
<1>10. CASE EndFetch
  <2>1. pc = "LOADING" /\ EndTick /\ idx'[c] = idx[c]
    BY <1>10 DEF EndFetch, BeginCompute, fsmVars
  <2>2. CASE pendingLoads[c] = {}
    <3>1. state'[c] = "COMPUTING"
      BY <1>1, <1>10, <2>2 DEF EndFetch, BeginCompute
    <3> QED
      BY <1>2, <1>3, <2>1, <2>2, <3>1 DEF Turn, Works, Moves, CoreState
  <2>3. CASE pendingLoads[c] # {}
    <3>1. UNCHANGED <<state, idx>>
      BY <1>10, <2>3 DEF EndFetch, fsmVars
    <3> QED
      BY <1>2, <1>3, <1>5, <2>1, <3>1 DEF CoreState
  <2> QED
    BY <2>2, <2>3
<1>11. CASE ComputeCycle
  <2>1. pc = "COMPUTING" /\ UNCHANGED <<state, idx>> /\ (EndTick \/ Goto("outputs"))
    BY <1>11 DEF ComputeCycle
  <2>2. CASE EndTick
    BY <1>2, <1>3, <1>5, <2>1, <2>2 DEF CoreState
  <2>3. CASE Goto("outputs")
    <3>1. pc' \in Loops /\ cur' = c /\ cursor' = 1 /\ pc' = "outputs"
      BY <1>4, <2>3 DEF Loops
    <3> QED
      BY <1>2, <2>1, <3>1 DEF Turn, Works, Moves, CoreState
  <2> QED
    BY <2>1, <2>2, <2>3
<1>12. CASE PublishOutput \/ QueueWriteback
  <2>1. /\ pc \in {"outputs", "queue"} /\ (pc = "outputs" <=> PublishOutput)
        /\ cursor <= Len(Outputs(c)) /\ NextIteration
        /\ UNCHANGED <<state, idx>>
    BY <1>12 DEF PublishOutput, QueueWriteback, fsmVars
  <2>2. pc \in Loops /\ pc' \in Loops /\ cur' = c /\ pc' = pc /\ cursor' = cursor + 1
    BY <1>4, <2>1 DEF Loops
  <2>3. cursor \in DOMAIN Outputs(c)
    BY <1>1, <1>2, <2>1, <2>2
  <2>4. Iterates(c, Outputs(c))
    BY <1>2, <2>1, <2>2, <2>3 DEF Iterates
  <2> QED
    BY <1>2, <1>12, <2>1, <2>2, <2>4 DEF Turn, Works
<1>13. CASE EndOutputs
  <2>1. /\ pc = "outputs" /\ cursor > Len(Outputs(c)) /\ Goto("free")
        /\ UNCHANGED <<state, idx>>
    BY <1>13 DEF EndOutputs, fsmVars
  <2>2. pc \in Loops /\ pc' \in Loops /\ cur' = c /\ pc' = "free" /\ cursor' = 1
    BY <1>4, <2>1 DEF Loops
  <2> QED
    BY <1>2, <2>1, <2>2 DEF Turn, Works, Moves, Through
<1>14. CASE FreeInput
  <2>1. /\ pc = "free" /\ cursor <= Len(Sources(c)) /\ NextIteration
        /\ UNCHANGED <<state, idx>>
    BY <1>14 DEF FreeInput, fsmVars
  <2>2. pc \in Loops /\ pc' \in Loops /\ cur' = c /\ pc' = pc /\ cursor' = cursor + 1
    BY <1>4, <2>1 DEF Loops
  <2>3. cursor \in DOMAIN Sources(c)
    BY <1>1, <1>2, <2>1, <2>2
  <2>4. Iterates(c, Sources(c))
    BY <1>2, <2>1, <2>2, <2>3 DEF Iterates
  <2> QED
    BY <1>2, <1>14, <2>1, <2>2, <2>4 DEF Turn, Works
<1>15. CASE FinishWorkload
  <2>1. /\ pc = "free" /\ cursor > Len(Sources(c)) /\ EndTick
        /\ \A out \in ToSet(Outputs(c)) : ~ToDram(out)
        /\ state'[c] = "IDLE" /\ idx'[c] = idx[c] + 1
    BY <1>1, <1>15 DEF FinishWorkload, NextWorkload
  <2> QED
    BY <1>2, <1>3, <2>1 DEF Turn, Retires, Through, Loops
<1>16. CASE EnterWriteback
  <2>1. /\ pc = "free" /\ cursor > Len(Sources(c)) /\ Goto("queue") /\ idx'[c] = idx[c]
    BY <1>16 DEF EnterWriteback
  <2>2. pc \in Loops /\ pc' \in Loops /\ cur' = c /\ pc' = "queue" /\ cursor' = 1
    BY <1>4, <2>1 DEF Loops
  <2> QED
    BY <1>2, <1>16, <2>1, <2>2 DEF Turn, Works, Moves, Through
<1>17. CASE EndQueue
  <2>1. /\ pc = "queue" /\ cursor > Len(Outputs(c)) /\ EndTick
        /\ UNCHANGED <<state, idx>> /\ state[c] = "WRITEBACK"
    BY <1>17, InTick DEF EndQueue, fsmVars, Control, PcMatchesState
  <2> QED
    BY <1>2, <1>3, <2>1 DEF Turn, Works, Moves, Through, Loops
<1>18. CASE WritebackCycle
  <2>1. pc = "WRITEBACK" /\ EndTick
    BY <1>18 DEF WritebackCycle
  <2>2. CASE UNCHANGED fsmVars
    BY <1>2, <1>3, <1>5, <2>1, <2>2 DEF fsmVars, CoreState
  <2>3. CASE /\ wbIssued'[cur] /\ pendingWb'[cur] = {} /\ NextWorkload(cur)
    <3>1. state'[c] = "IDLE" /\ idx'[c] = idx[c] + 1
      BY <1>1, <2>3 DEF NextWorkload
    <3> QED
      BY <1>2, <1>3, <1>18, <2>1, <2>3, <3>1 DEF Turn, Retires, CoreState
  <2> QED
    BY <1>18, <2>2, <2>3 DEF WritebackCycle
<1> QED
  BY <1>6, <1>7, <1>8, <1>9, <1>10, <1>11, <1>12, <1>13, <1>14, <1>15, <1>16, <1>17, <1>18
  DEF CoreTick

(* Unless the watchdog takes a core out of its way, every core goes it. *)
Orderly == [Next]_vars /\ ~ForcedLoad /\ ~AbandonWriteback

LEMMA OrderlySteps ==
    ASSUME Orderly
    PROVE  \/ CoreTick /\ UNCHANGED transportVars
           \/ TransportStep
           \/ UNCHANGED vars
  BY DEF Orderly, Next, Tick, TransportStep, Watchdog, Halted, ForcedLoad

LEMMA TransportQuiet ==
    ASSUME TransportStep
    PROVE  QuietCores /\ pc' \notin Loops /\ pc \notin Loops
<1>1. QuietCores
  BY DEF TransportStep, CollectPacket, DeliverToCore, EndCollect, InjectDramResponse,
         EndReply, Advance, EndDeliver, ForwardToDram, EndForward, DeliverDramResponse,
         EndRespond, NextCycle, CheckProgress, GiveUp
<1>2. /\ pc \in {"collect", "reply", "advance", "deliver", "forward", "respond", "check",
                 "resolve"}
      /\ pc' \in {"collect", "reply", "advance", "deliver", "forward", "respond", "check",
                  "resolve", "complete", "incoming", "aborted"}
  BY DEF TransportStep, CollectPacket, DeliverToCore, EndCollect, InjectDramResponse,
         EndReply, Advance, EndDeliver, ForwardToDram, EndForward, DeliverDramResponse,
         EndRespond, NextCycle, CheckProgress, GiveUp, Step, LoopHead
<1> QED
  BY <1>1, <1>2, LabelsApart

LEMMA EveryTurn ==
    ASSUME TypeInv, Orderly, NEW c \in Core
    PROVE  Turn(c)
<1>1. CASE CoreTick
  BY <1>1, OwnTurn, OthersInTick DEF Turn
<1>2. CASE TransportStep
  BY <1>2, TransportQuiet, RestsOutside DEF Turn, QuietCores, fsmVars
<1>3. CASE UNCHANGED vars
  BY <1>3 DEF vars, coreVars, fsmVars, Turn, Rests, Stage, At
<1> QED
  BY <1>1, <1>2, <1>3, OrderlySteps

-----------------------------------------------------------------------------
(* What is under way, as far as the invariants tell.                       *)

LEMMA MoreHeld ==
    ASSUME NEW T, NEW q \in Seq(T), NEW S, NEW U, S \subseteq U
    PROVE  Held(q, S) <= Held(q, U)
<1>1. /\ IsFiniteSet({i \in DOMAIN q : q[i] \in U})
      /\ {i \in DOMAIN q : q[i] \in S} \subseteq {i \in DOMAIN q : q[i] \in U}
  BY HeldTyped
<1> QED
  BY <1>1, FS_Subset DEF Held

LEMMA MoreHeldByCores ==
    ASSUME NEW f \in Queues(Packet), NEW S, NEW U, S \subseteq U
    PROVE  HeldByCores(f, S) <= HeldByCores(f, U)
<1>1. IsFiniteSet(Places(f, U))
  BY PlacesFinite DEF Queues
<1>2. Places(f, S) \subseteq Places(f, U)
  BY DEF Places
<1> QED
  BY <1>1, <1>2, FS_Subset DEF HeldByCores

LEMMA MoreUnderWay ==
    ASSUME TypeInv, NEW sent, NEW taken, NEW moreSent, NEW moreTaken,
           sent \subseteq moreSent, taken \subseteq moreTaken
    PROVE  UnderWay(sent, taken) <= UnderWay(moreSent, moreTaken)
<1>1. Flying(taken) \subseteq Flying(moreTaken)
  BY DEF Flying
<1>2. /\ HeldByCores(injection, sent) <= HeldByCores(injection, moreSent)
      /\ HeldByCores(ejection, taken) <= HeldByCores(ejection, moreTaken)
      /\ HeldByCores(remote, taken) <= HeldByCores(remote, moreTaken)
      /\ HeldByCores(retry, taken) <= HeldByCores(retry, moreTaken)
      /\ Held(dramReplies, taken) <= Held(dramReplies, moreTaken)
  BY QueuesTyped, MoreHeld, MoreHeldByCores
<1>3. /\ Held(noc, Flying(taken)) <= Held(noc, Flying(moreTaken))
      /\ Held(dram, Flying(taken)) <= Held(dram, Flying(moreTaken))
  BY <1>1, QueuesTyped, MoreHeld
<1>4. /\ UnderWay(sent, taken) =
            HeldByCores(injection, sent) + HeldByCores(ejection, taken)
            + HeldByCores(remote, taken) + HeldByCores(retry, taken)
            + Held(noc, Flying(taken)) + Held(dram, Flying(taken))
            + Held(dramReplies, taken)
      /\ UnderWay(moreSent, moreTaken) =
            HeldByCores(injection, moreSent) + HeldByCores(ejection, moreTaken)
            + HeldByCores(remote, moreTaken) + HeldByCores(retry, moreTaken)
            + Held(noc, Flying(moreTaken)) + Held(dram, Flying(moreTaken))
            + Held(dramReplies, moreTaken)
  BY UnderWaySum
<1> QED
  BY <1>2, <1>3, <1>4, UnderWaySum

(* A core asks at most once, and only for what it waits for. *)
LEMMA AskedIsAwaited ==
    ASSUME LoadInv, NEW d \in Core, NEW t
    PROVE  /\ Asked(d, t) \in Nat /\ Asked(d, t) <= 1
           /\ Asked(d, t) > 0 => t \in Awaited(d)
<1>1. TypeInv /\ OneTokenPerLoad
  BY DEF LoadInv, AddressInv
<1>2. Asked(d, t) <= ReadsCarried(d, t)
  <2> DEFINE sent == Sent(d, t, "READ_REQUEST", "READ_RESPONSE")
             taken == Taken(d, t, "READ_REQUEST", "READ_RESPONSE")
  <2>1. Asking(d, t) \subseteq sent /\ AskingTaken(d, t) \subseteq taken
    BY DEF Asking, AskingTaken, Sent, Taken
  <2>2. UnderWay(Asking(d, t), AskingTaken(d, t)) <= UnderWay(sent, taken)
    BY <1>1, <2>1, MoreUnderWay
  <2> QED
    BY <2>2, CarriedIsUnderWay DEF Asked, ReadsCarried
<1>3. Asked(d, t) \in Nat
  BY <1>1, UnderWayTyped DEF Asked, Asking, AskingTaken
<1>4. CASE t \in Tid
  BY <1>1, <1>2, <1>3, <1>4, LoadTokensTyped DEF OneTokenPerLoad
<1>5. CASE t \notin Tid
  <2>1. \A p \in Packet : p \notin Asking(d, t) /\ p \notin AskingTaken(d, t)
    BY <1>5 DEF Asking, AskingTaken, From, Packet
  <2>2. Asked(d, t) = 0
    <3>1. ASSUME NEW f \in Queues(Packet), NEW S, \A p \in Packet : p \notin S
          PROVE  HeldByCores(f, S) = 0
      <4>1. Places(f, S) = {}
        <5>1. \A c \in Core : \A i \in DOMAIN f[c] : f[c][i] \in Packet
          BY SeqElements DEF Queues
        <5> QED
          BY <3>1, <5>1 DEF Places
      <4> QED
        BY <4>1, FS_EmptySet DEF HeldByCores
    <3>2. ASSUME NEW q \in Seq(InFlight)
          PROVE  Held(q, Flying(AskingTaken(d, t))) = 0
      <4>1. \A x \in ToSet(q) : x \notin Flying(AskingTaken(d, t))
        BY <2>1, InToSet DEF Flying, InFlight
      <4> QED
        BY <4>1, HeldNone
    <3>3. Held(dramReplies, AskingTaken(d, t)) = 0
      <4>1. \A x \in ToSet(dramReplies) : x \notin AskingTaken(d, t)
        BY <1>1, <2>1, QueuesTyped, InToSet
      <4> QED
        BY <1>1, <4>1, QueuesTyped, HeldNone
    <3>4. /\ HeldByCores(injection, Asking(d, t)) = 0
          /\ HeldByCores(ejection, AskingTaken(d, t)) = 0
          /\ HeldByCores(remote, AskingTaken(d, t)) = 0
          /\ HeldByCores(retry, AskingTaken(d, t)) = 0
      BY <1>1, <2>1, <3>1, QueuesTyped
    <3>5. Held(noc, Flying(AskingTaken(d, t))) = 0 /\ Held(dram, Flying(AskingTaken(d, t))) = 0
      BY <1>1, <3>2, QueuesTyped
    <3> QED
      BY <1>1, <3>3, <3>4, <3>5, UnderWaySum DEF Asked
  <2> QED
    BY <2>2
<1> QED
  BY <1>4, <1>5

LEMMA AckIsPending ==
    ASSUME WritebackInv, NEW c \in Core, NEW p \in Packet, p.type = "WRITE_RESPONSE",
           p.dst = NodeId(c), p \in ToSet(ejection[c])
    PROVE  p.tid \in pendingWb[c]
<1>1. TypeInv /\ OneTokenPerWriteback /\ p.tid \in Tid
  BY DEF WritebackInv, AddressInv, Packet
<1>2. p \in Taken(c, p.tid, "WRITE_REQUEST", "WRITE_RESPONSE")
  BY InSentOrTaken
<1>3. Carried(c, p.tid, "WRITE_REQUEST", "WRITE_RESPONSE") >= 1
  BY <1>1, <1>2, PresentIsUnderWay, CarriedIsUnderWay
<1> QED
  BY <1>1, <1>3 DEF OneTokenPerWriteback, WritebackTokens

(* What a step does to the memory of core p: the data of a response it waits for
   gets an entry, or one is made ready; it answers a request, an output of it is
   acknowledged, it publishes one, or frees an input. *)
Gets(p) ==
    \E t \in Awaited(p) : \E size :
        /\ sram'[p] = Allocate(sram[p], t, size, InputRefs(p, t))
        /\ cur = p /\ pc \in {"incoming", "retry"} /\ pc' = pc /\ cur' = cur
        /\ UNCHANGED <<state, idx, requested>>
Marks(p) == \E t : sram'[p] = MarkReady(sram[p], t)
Answering(p) == cur = p /\ \E req : \E d \in Core : Answered(req, d)
Acknowledged(p) ==
    /\ cur = p /\ ReceiveWriteResponse /\ UNCHANGED transportVars
    /\ Arriving.tid \in pendingWb[p]
Publishes(p) == cur = p /\ PublishOutput /\ UNCHANGED transportVars
Frees(p) == cur = p /\ FreeInput /\ UNCHANGED transportVars

MemoryStep(p) ==
    \/ sram'[p] = sram[p] \/ Gets(p) \/ Marks(p) \/ Answering(p)
    \/ Acknowledged(p) \/ Publishes(p) \/ Frees(p)

LEMMA SramKnown ==
    ASSUME TypeInv
    PROVE  /\ sram = [c \in Core |-> sram[c]] /\ \A c \in Core : SramTypeOK(sram[c])
           /\ \A c \in Core : \A new :
                 sram' = [sram EXCEPT ![c] = new] =>
                    \A d \in Core : sram'[d] = IF d = c THEN new ELSE sram[d]
<1>1. sram = [c \in Core |-> sram[c]] /\ \A c \in Core : SramTypeOK(sram[c])
  BY InTick DEF CoreTypeOK, SramsTypeOK
<1> QED
  BY <1>1

Allocated(x) ==
    \A d \in Core :
        sram'[d] = IF d = cur THEN Allocate(sram[d], x.tid, x.size, InputRefs(d, x.tid))
                              ELSE sram[d]

LEMMA InputAllocated ==
    ASSUME TypeInv, NEW x, AllocateInput(cur, x)
    PROVE  Allocated(x)
<1> DEFINE new == Allocate(sram[cur], x.tid, x.size, InputRefs(cur, x.tid))
<1>1. sram' = [sram EXCEPT ![cur] = new]
  BY DEF AllocateInput
<1> HIDE DEF new
<1>2. \A d \in Core : sram'[d] = IF d = cur THEN new ELSE sram[d]
  BY <1>1, SramKnown, InTick
<1> QED
  BY <1>2 DEF Allocated, new

LEMMA MemorySteps ==
    ASSUME LoadInv, WritebackInv, Orderly, NEW p \in Core
    PROVE  MemoryStep(p)
<1>1. /\ AddressInv /\ TypeInv /\ CoresAddressed /\ cur \in Core /\ TypeInv'
      /\ \A c \in Core : \A new :
            sram' = [sram EXCEPT ![c] = new] =>
               \A d \in Core : sram'[d] = IF d = c THEN new ELSE sram[d]
  BY InTick, NextTyped, SramKnown DEF LoadInv, AddressInv, Orderly
<1>2. CASE UNCHANGED sram
  BY <1>2 DEF MemoryStep
<1>3. CASE CoreTick /\ UNCHANGED transportVars /\ ~UNCHANGED sram
  <2>1. CASE ReceiveReadResponse
    <3>1. /\ Arriving \in Packet /\ Arriving.type = "READ_RESPONSE"
          /\ Arriving.dst = NodeId(cur) /\ Arriving \in ToSet(ejection[cur])
      BY <1>1, <2>1, ArrivingGiven, QueuesTyped, HeadTailQueue
      DEF ReceiveReadResponse, Incoming, GivenTo, ReadRequest, Queues, Arriving
    <3>2. Arriving.tid \in Awaited(cur)
      BY <1>1, <3>1, ResponseIsAwaited
    <3>3. AllocateInput(cur, Arriving)
      BY <1>3, <2>1 DEF ReceiveReadResponse, Arriving
    <3>4. /\ UNCHANGED <<state, idx, requested>>
          /\ pc = "incoming" /\ pc' = pc /\ cur' = cur
      BY <2>1 DEF ReceiveReadResponse, fsmVars, loadVars, Incoming, SameIteration
    <3>5. Allocated(Arriving)
      BY <1>1, <3>3, InputAllocated
    <3> QED
      BY <3>2, <3>4, <3>5 DEF MemoryStep, Gets, Allocated
  <2>2. CASE RetryAllocation
    <3> DEFINE r == retry[cur][cursor]
    <3>1. /\ r \in Packet /\ r.type = "READ_RESPONSE"
          /\ r.dst = NodeId(cur) /\ r \in ToSet(retry[cur])
      BY <1>1, <2>2, RetriedAddressed, QueuesTyped, InToSet DEF ReadResponse, Queues
    <3>2. r.tid \in Awaited(cur)
      BY <1>1, <3>1, ResponseIsAwaited
    <3>3. AllocateInput(cur, r) /\ SameIteration
      BY <1>3, <2>2 DEF RetryAllocation
    <3> HIDE DEF r
    <3>4. /\ UNCHANGED <<state, idx, requested>>
          /\ pc = "retry" /\ pc' = pc /\ cur' = cur
      BY <2>2, <3>3 DEF RetryAllocation, fsmVars, loadVars, SameIteration
    <3>5. Allocated(r)
      BY <1>1, <3>3, InputAllocated
    <3> QED
      BY <3>2, <3>4, <3>5 DEF MemoryStep, Gets, Allocated
  <2>3. CASE DrainUnlimited \/ DrainLimited
    <3>1. PICK t : sram' = [sram EXCEPT ![cur] = MarkReady(@, t)]
      BY <1>3, <2>3 DEF DrainUnlimited, DrainLimited, WriteDone
    <3> QED
      BY <1>1, <3>1 DEF MemoryStep, Marks
  <2>4. CASE ReceiveReadRequest \/ ServeRemoteRequest
    <3>1. \E req : \E d \in Core : Answered(req, d)
      BY <1>1, <1>3, <2>4, AnswerAsks
    <3>2. p # cur => sram'[p] = sram[p]
      BY <1>1, <3>1 DEF Answered, Answers
    <3> QED
      BY <3>1, <3>2 DEF MemoryStep, Answering
  <2>5. CASE ReceiveWriteResponse
    <3>1. /\ Arriving \in Packet /\ Arriving.type = "WRITE_RESPONSE"
          /\ Arriving.dst = NodeId(cur) /\ Arriving \in ToSet(ejection[cur])
      BY <1>1, <2>5, ArrivingGiven, QueuesTyped, HeadTailQueue
      DEF ReceiveWriteResponse, Incoming, GivenTo, ReadRequest, Queues, Arriving
    <3>2. Arriving.tid \in pendingWb[cur]
      BY <1>1, <3>1, AckIsPending
    <3>3. p # cur => sram'[p] = sram[p]
      BY <1>1, <2>5 DEF ReceiveWriteResponse
    <3> QED
      BY <1>3, <2>5, <3>2, <3>3 DEF MemoryStep, Acknowledged
  <2>6. CASE PublishOutput \/ FreeInput
    <3>1. p # cur => sram'[p] = sram[p]
      BY <1>1, <2>6 DEF PublishOutput, FreeInput
    <3> QED
      BY <1>3, <2>6, <3>1 DEF MemoryStep, Publishes, Frees
  <2> QED
    BY <1>3, <2>1, <2>2, <2>3, <2>4, <2>5, <2>6
    DEF CoreTick, EndIncoming, EndRetry, EndDrain, EndServe, RetireCore, StartWorkload,
        FetchSource, EndFetch, ComputeCycle, EndOutputs, FinishWorkload, EnterWriteback,
        QueueWriteback, EndQueue, WritebackCycle, IdleTick
<1>4. CASE TransportStep \/ UNCHANGED vars
  BY <1>2, <1>4, TransportQuiet DEF QuietCores, vars, coreVars
<1> QED
  BY <1>2, <1>3, <1>4, OrderlySteps

(* Core d, which loads, is at source s. *)
Fetches(d, s) ==
    /\ state[d] = "LOADING" /\ HasWorkload(d)
    /\ cursor \in DOMAIN Sources(d) /\ s = Sources(d)[cursor]
    /\ requested' = [requested EXCEPT ![d] = @ \cup {s.tid}]
    /\ AsksFor(d, s) \/ AsksNot(d, s)
    /\ UNCHANGED <<state, idx, sram>>

(* Nothing is asked, but what a starting core has to load is new. *)
AsksNothing ==
    /\ \A d \in Core : \A t : AskedKept(d, t)
    /\ \A d \in Core :
          Stage(d) # "IDLE" =>
             requested'[d] = requested[d] /\ pendingLoads'[d] \subseteq pendingLoads[d]

RequestStep ==
    \/ AsksNothing
    \/ \E d \in Core : \E s \in Source : Fetches(d, s)
    \/ \E req : \E d \in Core : Answered(req, d)

LEMMA FetchSourceFetches ==
    ASSUME AddressInv, FetchSource, UNCHANGED transportVars
    PROVE  \E d \in Core : \E s \in Source : Fetches(d, s)
<1>1. PICK d \in Core, s \in Source :
        /\ d = cur /\ s = Sources(d)[cursor] /\ cursor \in DOMAIN Sources(d)
        /\ requested' = [requested EXCEPT ![d] = @ \cup {s.tid}]
        /\ AsksFor(d, s) \/ AsksNot(d, s)
  BY FetchSourceAsks
<1>2. state[d] = "LOADING" /\ UNCHANGED <<state, idx, sram>>
  BY <1>1, FetchedHasBytes DEF FetchSource, fsmVars
<1>3. HasWorkload(d)
  BY <1>1, <1>2, InTick DEF AddressInv, Control, WorkingHasWorkload
<1> QED
  BY <1>1, <1>2, <1>3 DEF Fetches

LEMMA RequestSteps ==
    ASSUME AddressInv, Orderly
    PROVE  RequestStep
<1>1. /\ TypeInv /\ TypeInv' /\ cur \in Core /\ Control
      /\ pendingLoads \in [Core -> SUBSET Tid] /\ requested \in [Core -> SUBSET Tid]
      /\ \A d \in Core : \A t : Asked(d, t) \in Nat
  BY InTick, NextTyped, AskedTyped DEF AddressInv, Orderly, CoreTypeOK, LoadTypeOK
<1>2. ASSUME \A d \in Core : \A t : AskedKept(d, t), UNCHANGED loadVars
      PROVE  RequestStep
  BY <1>2 DEF RequestStep, AsksNothing, loadVars
<1>3. CASE CoreTick /\ UNCHANGED transportVars
  <2>1. CASE SilentStep
    <3>1. \A d \in Core : \A t : AskedKept(d, t)
      BY <1>1, <1>3, <2>1, SilentAsks
    <3>2. CASE DrainUnlimited \/ DrainLimited
      <4>1. \A d \in Core : requested'[d] = requested[d]
                            /\ pendingLoads'[d] \subseteq pendingLoads[d]
        BY <1>1, <3>2 DEF DrainUnlimited, DrainLimited, WriteDone
      <4> QED
        BY <3>1, <4>1 DEF RequestStep, AsksNothing
    <3>3. CASE StartWorkload
      <4>1. Stage(cur) = "IDLE"
        BY <1>1, <3>3, StageOfTick DEF StartWorkload, CoreState
      <4>2. ASSUME NEW d \in Core, Stage(d) # "IDLE"
            PROVE  requested'[d] = requested[d] /\ pendingLoads'[d] \subseteq pendingLoads[d]
        <5>1. d # cur
          BY <4>1, <4>2
        <5> QED
          BY <1>1, <3>3, <5>1 DEF StartWorkload
      <4> QED
        BY <3>1, <4>2 DEF RequestStep, AsksNothing
    <3>4. CASE UNCHANGED loadVars
      BY <1>2, <3>1, <3>4
    <3> QED
      BY <2>1, <3>2, <3>3, <3>4
      DEF SilentStep, EndIncoming, EndRetry, EndDrain, EndServe, RetireCore, EndFetch,
          ComputeCycle, PublishOutput, EndOutputs, FreeInput, FinishWorkload,
          EnterWriteback, QueueWriteback, EndQueue, WritebackCycle, IdleTick
  <2>2. CASE ReceiveReadResponse \/ ReceiveWriteResponse \/ RetryAllocation
    <3>1. UNCHANGED loadVars
      BY <2>2 DEF ReceiveReadResponse, ReceiveWriteResponse, RetryAllocation
    <3> QED
      BY <1>1, <1>2, <1>3, <2>2, <3>1, ResponseAsks
  <2>3. CASE ReceiveReadRequest \/ ServeRemoteRequest
    <3>1. UNCHANGED loadVars
      BY <2>3 DEF ReceiveReadRequest, ServeRemoteRequest
    <3> QED
      BY <1>1, <1>2, <1>3, <2>3, <3>1, AnswerAsks DEF RequestStep
  <2>4. CASE WritebackCycle /\ SendWrite
    <3>1. UNCHANGED loadVars
      BY <2>4 DEF WritebackCycle
    <3> QED
      BY <1>1, <1>2, <1>3, <2>4, <3>1, SendWriteAsks
  <2>5. CASE FetchSource
    BY <1>3, <2>5, FetchSourceFetches DEF RequestStep
  <2> QED
    BY <1>3, <2>1, <2>2, <2>3, <2>4, <2>5 DEF CoreTick, SilentStep
<1>4. CASE TransportStep
  BY <1>1, <1>2, <1>4, TransportAsks, TransportQuiet DEF QuietCores
<1>5. CASE UNCHANGED vars
  <2>1. UNCHANGED <<netVars, remote, retry, transportVars>> /\ UNCHANGED loadVars
    BY <1>5 DEF vars, coreVars
  <2> QED
    BY <1>1, <1>2, <2>1, SameAsked DEF AskedKept
<1> QED
  BY <1>3, <1>4, <1>5, OrderlySteps

-----------------------------------------------------------------------------
(* The claims on an output, in terms of where the cores stand.             *)

LEMMA PublishedStage ==
    ASSUME NEW p \in Core, NEW i, NEW k
    PROVE  /\ TypeInv =>
                (Published(p, i, k) <=>
                    \/ i < idx[p]
                    \/ /\ i = idx[p]
                       /\ \/ Stage(p) \in {"WRITEBACK", "queue", "free"}
                          \/ Stage(p) = "outputs" /\ k < At(p))
           /\ TypeInv' =>
                (Published(p, i, k)' <=>
                    \/ i < idx'[p]
                    \/ /\ i = idx'[p]
                       /\ \/ Stage(p)' \in {"WRITEBACK", "queue", "free"}
                          \/ Stage(p)' = "outputs" /\ k < At(p)')
<1>1. /\ TypeInv =>
           /\ state[p] = "WRITEBACK" <=> Stage(p) \in {"WRITEBACK", "queue"}
           /\ cur = p /\ pc = "free" <=> Stage(p) = "free"
           /\ cur = p /\ pc = "outputs" <=> Stage(p) = "outputs"
           /\ Stage(p) = "outputs" => At(p) = cursor
      /\ TypeInv' =>
           /\ state'[p] = "WRITEBACK" <=> Stage(p)' \in {"WRITEBACK", "queue"}
           /\ cur' = p /\ pc' = "free" <=> Stage(p)' = "free"
           /\ cur' = p /\ pc' = "outputs" <=> Stage(p)' = "outputs"
           /\ Stage(p)' = "outputs" => At(p)' = cursor'
  BY LabelsApart DEF TypeInv, TypeOK, CoreTypeOK, FsmTypeOK, Control, PcMatchesState,
                     Stage, At, Loops, CoreState
<1> QED
  BY <1>1 DEF Published

LEMMA ReadOpenStage ==
    ASSUME NEW d \in Core, NEW i, NEW t
    PROVE  /\ TypeInv =>
                (ReadOpen(d, i, t) <=>
                    \/ i > idx[d] \/ Stage(d) = "IDLE"
                    \/ Stage(d) = "LOADING" /\ (t \notin requested[d] \/ Asked(d, t) > 0))
           /\ TypeInv' =>
                (ReadOpen(d, i, t)' <=>
                    \/ i > idx'[d] \/ Stage(d)' = "IDLE"
                    \/ /\ Stage(d)' = "LOADING"
                       /\ t \notin requested'[d] \/ Asked(d, t)' > 0)
<1>1. /\ TypeInv => (state[d] = Stage(d) \/
                       (state[d] \in {"COMPUTING", "WRITEBACK"} /\ Stage(d) \in Loops))
      /\ TypeInv' => (state'[d] = Stage(d)' \/
                       (state'[d] \in {"COMPUTING", "WRITEBACK"} /\ Stage(d)' \in Loops))
  BY DEF TypeInv, Control, PcMatchesState, Stage, Loops
<1> QED
  BY <1>1, RequestingIsAsked DEF ReadOpen, Loops

(* A workload elsewhere that still has to be answered, and a source of a later
   use at home. *)
Waits(d, j, p, t) ==
    /\ d \in Core \ {p} /\ j \in idx[d] .. Len(ir[d])
    /\ Reads(d, j, p, t) /\ ReadOpen(d, j, t)

LocalUse(p, j, k, t) ==
    /\ j \in DOMAIN ir[p] /\ k \in DOMAIN ir[p][j].sources
    /\ ir[p][j].sources[k].tid = t /\ ir[p][j].sources[k].from = p

LocalWaits(p, j, k, t) ==
    /\ LocalUse(p, j, k, t) /\ j >= idx[p]
    /\ \/ j > idx[p]
       \/ /\ Stage(p) \notin {"WRITEBACK", "queue"}
          /\ Stage(p) = "free" => k >= At(p)

LEMMA InRemoteReads ==
    ASSUME NEW p, NEW t
    PROVE  /\ \A x : x \in RemoteReads(p, t) <=> \E d, j : x = <<d, j>> /\ Waits(d, j, p, t)
           /\ \A x : x \in RemoteReads(p, t)' <=> \E d, j : x = <<d, j>> /\ Waits(d, j, p, t)'
  BY DEF RemoteReads, Waits

LEMMA InLocalReads ==
    ASSUME NEW p \in Core, NEW t
    PROVE  /\ TypeInv => \A x : x \in LocalReads(p, t) <=>
                \E j, k : x = <<j, k>> /\ LocalWaits(p, j, k, t)
           /\ TypeInv' => \A x : x \in LocalReads(p, t)' <=>
                \E j, k : x = <<j, k>> /\ LocalWaits(p, j, k, t)'
<1>1. ASSUME TypeInv
      PROVE  \A x : x \in LocalReads(p, t) <=>
                \E j, k : x = <<j, k>> /\ LocalWaits(p, j, k, t)
  <2>1. /\ ir[p] \in Seq(Workload) /\ idx[p] \in Nat \ {0}
    BY <1>1, InTick DEF CoreTypeOK, FsmTypeOK
  <2>2. \A j : j \in idx[p] .. Len(ir[p]) <=> j \in DOMAIN ir[p] /\ j >= idx[p]
    BY <2>1
  <2>3. /\ state[p] = "WRITEBACK" <=> Stage(p) \in {"WRITEBACK", "queue"}
        /\ cur = p /\ pc = "free" <=> Stage(p) = "free"
        /\ Stage(p) = "free" => At(p) = cursor
    BY <1>1, InTick, LabelsApart
    DEF CoreTypeOK, FsmTypeOK, Control, PcMatchesState, Stage, At, Loops, CoreState
  <2> QED
    BY <2>2, <2>3 DEF LocalReads, LocalWaits, LocalUse
<1>2. ASSUME TypeInv'
      PROVE  \A x : x \in LocalReads(p, t)' <=>
                \E j, k : x = <<j, k>> /\ LocalWaits(p, j, k, t)'
  <2>1. ir'[p] \in Seq(Workload) /\ idx'[p] \in Nat \ {0} /\ state'[p] \in CoreState
    BY <1>2 DEF TypeInv, TypeOK, CoreTypeOK, FsmTypeOK
  <2>2. \A j : j \in idx'[p] .. Len(ir'[p]) <=> j \in DOMAIN ir'[p] /\ j >= idx'[p]
    BY <2>1
  <2>3. /\ state'[p] = "WRITEBACK" <=> Stage(p)' \in {"WRITEBACK", "queue"}
        /\ cur' = p /\ pc' = "free" <=> Stage(p)' = "free"
        /\ Stage(p)' = "free" => At(p)' = cursor'
    BY <1>2, <2>1, LabelsApart
    DEF TypeInv, Control, PcMatchesState, Stage, At, Loops, CoreState
  <2> QED
    BY <2>2, <2>3 DEF LocalReads, LocalWaits, LocalUse
<1> QED
  BY <1>1, <1>2

(* The parts of a program that claims are made of are finite. *)
SourceUses(p) == UNION {{<<j, k>> : k \in DOMAIN ir[p][j].sources} : j \in DOMAIN ir[p]}

LEMMA SourceUsesFinite ==
    ASSUME TypeInv, NEW p \in Core
    PROVE  IsFiniteSet(SourceUses(p))
<1> DEFINE Pairs(j) == {<<j, k>> : k \in DOMAIN ir[p][j].sources}
           All == {Pairs(j) : j \in DOMAIN ir[p]}
<1>1. /\ ir[p] \in Seq(Workload) /\ IsFiniteSet(DOMAIN ir[p])
  BY InTick, CountIsNat DEF CoreTypeOK, FsmTypeOK
<1>2. ASSUME NEW j \in DOMAIN ir[p]
      PROVE  IsFiniteSet(Pairs(j))
  <2>1. ir[p][j] \in Workload
    BY <1>1, SeqElements
  <2>2. IsFiniteSet(DOMAIN ir[p][j].sources)
    BY <2>1, CountIsNat DEF Workload
  <2>3. [k \in DOMAIN ir[p][j].sources |-> <<j, k>>]
            \in Surjection(DOMAIN ir[p][j].sources, Pairs(j))
    BY DEF Surjection
  <2> HIDE DEF Pairs
  <2> QED
    BY SMTT(30), <2>2, <2>3, FS_Surjection
<1>3. IsFiniteSet(All)
  <2>1. [j \in DOMAIN ir[p] |-> Pairs(j)] \in Surjection(DOMAIN ir[p], All)
    BY DEF Surjection
  <2> HIDE DEF All, Pairs
  <2> QED
    BY SMTT(30), <1>1, <2>1, FS_Surjection
<1>4. IsFiniteSet(UNION All)
  BY <1>2, <1>3, FS_UNION
<1> QED
  BY <1>4 DEF SourceUses

LEMMA ClaimsFinite ==
    ASSUME TypeInv, NEW p \in Core, NEW t
    PROVE  /\ IsFiniteSet(RemoteReads(p, t)) /\ Cardinality(RemoteReads(p, t)) \in Nat
           /\ IsFiniteSet(LocalReads(p, t)) /\ Cardinality(LocalReads(p, t)) \in Nat
<1>1. /\ ir \in [Core -> Seq(Workload)] /\ idx \in [Core -> Nat \ {0}]
  BY InTick DEF CoreTypeOK, FsmTypeOK
<1>2. RemoteReads(p, t) \subseteq Places(ir, Workload)
  <2> SUFFICES ASSUME NEW d, NEW j, Waits(d, j, p, t)
               PROVE  <<d, j>> \in Places(ir, Workload)
    BY InRemoteReads
  <2>1. d \in Core /\ j \in DOMAIN ir[d] /\ ir[d][j] \in Workload
    BY <1>1 DEF Waits
  <2> QED
    BY <2>1 DEF Places
<1>3. LocalReads(p, t) \subseteq SourceUses(p)
  BY InLocalReads DEF LocalWaits, LocalUse, SourceUses
<1> QED
  BY <1>1, <1>2, <1>3, PlacesFinite, SourceUsesFinite, FS_Subset, FS_CardinalityType

(* What core c has collected for the memory and has no acknowledgement of. *)
Unwritten(c) == pendingWb[c] \cup {chunk.tid : chunk \in ToSet(wbQueue[c])}

Writing1(p, i, out) ==
    /\ i = idx[p] /\ ToDram(out)
    /\ Stage(p) \in {"COMPUTING", "outputs", "free", "queue"} \/ out.tid \in Unwritten(p)

LEMMA WritebackStage ==
    ASSUME NEW p \in Core, NEW i, NEW out
    PROVE  /\ TypeInv =>
                WritebackLeft(p, i, out) = IF Writing1(p, i, out) THEN 1 ELSE 0
           /\ TypeInv' =>
                WritebackLeft(p, i, out)' = IF Writing1(p, i, out)' THEN 1 ELSE 0
<1>1. /\ TypeInv => (Stage(p) \in {"COMPUTING", "outputs", "free", "queue"} <=>
                        state[p] = "COMPUTING" \/ (cur = p /\ pc = "queue"))
      /\ TypeInv' => (Stage(p)' \in {"COMPUTING", "outputs", "free", "queue"} <=>
                        state'[p] = "COMPUTING" \/ (cur' = p /\ pc' = "queue"))
  BY LabelsApart DEF TypeInv, TypeOK, CoreTypeOK, FsmTypeOK, Control, PcMatchesState,
                     Stage, Loops, CoreState
<1>2. /\ out.tid \in Unwritten(p) <=>
            out.tid \in pendingWb[p] \/ \E chunk \in ToSet(wbQueue[p]) : chunk.tid = out.tid
      /\ out.tid \in Unwritten(p)' <=>
            out.tid \in pendingWb'[p] \/ \E chunk \in ToSet(wbQueue'[p]) : chunk.tid = out.tid
  BY DEF Unwritten
<1> QED
  BY <1>1, <1>2 DEF WritebackLeft, Writing1

-----------------------------------------------------------------------------
(* Claims are only given up.                                               *)

LEMMA TurnStages ==
    ASSUME NEW c \in Core, TypeInv, Turn(c)
    PROVE  /\ idx[c] \in Nat /\ idx'[c] \in {idx[c], idx[c] + 1}
           /\ idx'[c] # idx[c] => Stage(c)' = "IDLE" /\ Stage(c) \in {"free", "WRITEBACK"}
           /\ Stage(c)' = "IDLE" /\ idx'[c] = idx[c] => Stage(c) = "IDLE"
           /\ Stage(c)' = "LOADING" => Stage(c) \in {"IDLE", "LOADING"} /\ idx'[c] = idx[c]
<1>1. idx[c] \in Nat
  BY InTick DEF CoreTypeOK, FsmTypeOK
<1> QED
  BY <1>1 DEF Turn, Rests, Starts, Works, Retires, Moves, Iterates

(* Whoever has asked does not forget it. *)
LEMMA LoadingGoesOn ==
    ASSUME AddressInv, Orderly, NEW d \in Core, Stage(d) # "IDLE", NEW t
    PROVE  /\ requested[d] \subseteq requested'[d]
           /\ pendingLoads'[d] \subseteq pendingLoads[d]
           /\ Asked(d, t)' > 0 => Asked(d, t) > 0 \/ t \notin requested[d]
<1>1. RequestStep
  BY RequestSteps
<1>2. /\ TypeInv /\ TypeInv' /\ Asked(d, t) \in Nat /\ Asked(d, t)' \in Nat
      /\ requested \in [Core -> SUBSET Tid] /\ pendingLoads \in [Core -> SUBSET Tid]
  BY InTick, NextTyped, AskedTyped DEF AddressInv, Orderly, CoreTypeOK, LoadTypeOK
<1>3. AskedKept(d, t) => (Asked(d, t)' > 0 => Asked(d, t) > 0)
  BY <1>2 DEF AskedKept
<1>4. CASE AsksNothing
  BY <1>3, <1>4 DEF AsksNothing
<1>5. ASSUME NEW e \in Core, NEW s \in Source, Fetches(e, s)
      PROVE  /\ requested[d] \subseteq requested'[d]
             /\ pendingLoads'[d] \subseteq pendingLoads[d]
             /\ Asked(d, t)' > 0 => Asked(d, t) > 0 \/ t \notin requested[d]
  <2>1. requested[d] \subseteq requested'[d]
    BY <1>2, <1>5 DEF Fetches
  <2>2. pendingLoads'[d] \subseteq pendingLoads[d]
    BY <1>2, <1>5 DEF Fetches, AsksFor, AsksNot
  <2>3. AskedKept(d, t) \/ t \notin requested[d]
    BY <1>5 DEF Fetches, AsksFor, AsksNot
  <2> QED
    BY <1>3, <2>1, <2>2, <2>3
<1>6. ASSUME NEW req, NEW e \in Core, Answered(req, e)
      PROVE  /\ requested[d] \subseteq requested'[d]
             /\ pendingLoads'[d] \subseteq pendingLoads[d]
             /\ Asked(d, t)' > 0 => Asked(d, t) > 0 \/ t \notin requested[d]
  <2>1. AskedKept(d, t) \/ Asked(d, t) = Asked(d, t)' + 1
    BY <1>6 DEF Answered
  <2>2. requested' = requested /\ pendingLoads' = pendingLoads
    BY <1>6 DEF Answered
  <2> QED
    BY <1>2, <1>3, <2>1, <2>2
<1> QED
  BY <1>1, <1>4, <1>5, <1>6 DEF RequestStep

LEMMA RemoteReadsShrink ==
    ASSUME AddressInv, Orderly, NEW p, NEW t
    PROVE  RemoteReads(p, t)' \subseteq RemoteReads(p, t)
<1>1. TypeInv /\ TypeInv' /\ UNCHANGED ir
  BY NextTyped, NextKeepsIr DEF AddressInv, Orderly
<1> SUFFICES ASSUME NEW d, NEW j, Waits(d, j, p, t)'
             PROVE  Waits(d, j, p, t)
  BY InRemoteReads
<1>2. /\ d \in Core \ {p} /\ j \in idx'[d] .. Len(ir[d]) /\ Reads(d, j, p, t)
      /\ ReadOpen(d, j, t)'
  BY <1>1 DEF Waits, Reads
<1>3. /\ idx[d] \in Nat /\ idx'[d] \in {idx[d], idx[d] + 1}
      /\ idx'[d] # idx[d] => Stage(d)' = "IDLE" /\ Stage(d) \in {"free", "WRITEBACK"}
      /\ Stage(d)' = "IDLE" /\ idx'[d] = idx[d] => Stage(d) = "IDLE"
      /\ Stage(d)' = "LOADING" => Stage(d) \in {"IDLE", "LOADING"} /\ idx'[d] = idx[d]
  BY <1>1, <1>2, EveryTurn, TurnStages
<1>4. j \in idx[d] .. Len(ir[d]) /\ (idx'[d] # idx[d] => j > idx[d]) /\ j \in Int
  BY <1>2, <1>3
<1>5. ReadOpen(d, j, t)
  <2>1. CASE j > idx[d] \/ Stage(d) = "IDLE"
    BY <1>1, <1>2, <2>1, ReadOpenStage
  <2>2. CASE Stage(d) = "LOADING" /\ Stage(d)' = "LOADING" /\ idx'[d] = idx[d] /\ ~(j > idx[d])
    <3>1. t \notin requested'[d] \/ Asked(d, t)' > 0
      BY <1>1, <1>2, <2>2, ReadOpenStage
    <3>2. t \notin requested[d] \/ Asked(d, t) > 0
      BY <1>2, <2>2, <3>1, LoadingGoesOn
    <3> QED
      BY <1>1, <1>2, <2>2, <3>2, ReadOpenStage
  <2>3. j > idx'[d] \/ Stage(d)' \in {"IDLE", "LOADING"}
    BY <1>1, <1>2, ReadOpenStage
  <2> QED
    BY <1>3, <1>4, <2>1, <2>2, <2>3
<1> QED
  BY <1>2, <1>4, <1>5 DEF Waits

LEMMA LocalReadsShrink ==
    ASSUME TypeInv, Orderly, NEW p \in Core, NEW t
    PROVE  LocalReads(p, t)' \subseteq LocalReads(p, t)
<1>1. TypeInv' /\ UNCHANGED ir
  BY NextTyped, NextKeepsIr DEF Orderly
<1> SUFFICES ASSUME NEW j, NEW k, LocalWaits(p, j, k, t)'
             PROVE  LocalWaits(p, j, k, t)
  BY <1>1, InLocalReads
<1>2. /\ LocalUse(p, j, k, t) /\ j >= idx'[p]
      /\ \/ j > idx'[p]
         \/ /\ Stage(p)' \notin {"WRITEBACK", "queue"}
            /\ Stage(p)' = "free" => k >= At(p)'
  BY <1>1 DEF LocalWaits, LocalUse
<1>3. j \in Nat /\ k \in Nat /\ idx[p] \in Nat
  <2>1. ir[p] \in Seq(Workload) /\ idx[p] \in Nat
    BY InTick DEF CoreTypeOK, FsmTypeOK
  <2>2. j \in Nat /\ ir[p][j] \in Workload
    BY <1>2, <2>1, SeqElements DEF LocalUse
  <2>3. ir[p][j].sources \in Seq(Source)
    BY <2>2 DEF Workload
  <2> QED
    BY <1>2, <2>1, <2>2, <2>3, SeqElements DEF LocalUse
<1>4. Turn(p) /\ idx'[p] \in {idx[p], idx[p] + 1}
  BY EveryTurn, TurnStages
<1>5. CASE j > idx[p]
  BY <1>2, <1>3, <1>5 DEF LocalWaits
<1>6. CASE j = idx[p] /\ idx'[p] = idx[p]
  <2>1. /\ Stage(p) \notin {"WRITEBACK", "queue"}
        /\ Stage(p) = "free" => Stage(p)' = "free" /\ At(p)' \in {At(p), At(p) + 1}
    BY <1>2, <1>3, <1>4, <1>6
    DEF Turn, Rests, Starts, Works, Retires, Moves, Iterates
  <2>2. At(p) \in Nat
    BY InTick DEF At, CoreTypeOK, TickTypeOK
  <2> QED
    BY <1>2, <1>3, <1>6, <2>1, <2>2 DEF LocalWaits
<1> QED
  BY <1>2, <1>3, <1>4, <1>5, <1>6

-----------------------------------------------------------------------------
(* The writes a core has collected and not seen acknowledged.              *)

UnwrittenStep(p) ==
    \/ Unwritten(p)' = Unwritten(p)
    \/ /\ cur = p /\ ReceiveWriteResponse /\ UNCHANGED transportVars
       /\ wbQueue'[p] = wbQueue[p] /\ pendingWb'[p] = pendingWb[p] \ {Arriving.tid}
    \/ cur = p /\ EnterWriteback /\ Unwritten(p)' = pendingWb[p]
    \/ /\ cur = p /\ QueueWriteback /\ cursor \in DOMAIN Outputs(p)
       /\ LET out == Outputs(p)[cursor]
          IN  Unwritten(p)' = Unwritten(p) \cup (IF ToDram(out) THEN {out.tid} ELSE {})

LEMMA HeadAndTail ==
    ASSUME NEW S, NEW s \in Seq(S), s # <<>>
    PROVE  ToSet(s) = {Head(s)} \cup ToSet(Tail(s))
<1>1. /\ Head(s) = s[1] /\ Tail(s) \in Seq(S) /\ Len(Tail(s)) = Len(s) - 1
      /\ \A i \in 1 .. Len(Tail(s)) : Tail(s)[i] = s[i + 1]
  BY HeadTailProperties
<1>2. Head(s) \in ToSet(s) /\ ToSet(Tail(s)) \subseteq ToSet(s)
  BY HeadTailQueue
<1>3. ASSUME NEW x \in ToSet(s), x # Head(s)
      PROVE  x \in ToSet(Tail(s))
  <2>1. PICK i \in 1 .. Len(s) : x = s[i]
    BY InToSet
  <2>2. i # 1 /\ i - 1 \in 1 .. Len(Tail(s))
    BY <1>1, <1>3, <2>1
  <2>3. Tail(s)[i - 1] = x
    BY <1>1, <2>1, <2>2
  <2> QED
    BY <1>1, <2>2, <2>3, InToSet
<1> QED
  BY <1>2, <1>3

LEMMA UnwrittenIs ==
    ASSUME NEW c
    PROVE  /\ Unwritten(c) = pendingWb[c] \cup {chunk.tid : chunk \in ToSet(wbQueue[c])}
           /\ Unwritten(c)' = pendingWb'[c] \cup {chunk.tid : chunk \in ToSet(wbQueue'[c])}
  BY DEF Unwritten

LEMMA SendWriteUnwritten ==
    ASSUME TypeInv, SendWrite, NEW c, c = cur
    PROVE  Unwritten(c)' = Unwritten(c)
<1>1. /\ c \in Core /\ pendingWb \in [Core -> SUBSET Tid] /\ wbQueue \in [Core -> Seq(Chunk)]
  BY InTick DEF CoreTypeOK, WbTypeOK, ChunkSeqs
<1> DEFINE q == wbQueue[c]
<1>2. /\ q \in Seq(Chunk) /\ q # <<>>
      /\ wbQueue'[c] = Tail(q) /\ pendingWb'[c] = pendingWb[c] \cup {Head(q).tid}
  BY <1>1 DEF SendWrite
<1>3. ToSet(q) = {Head(q)} \cup ToSet(Tail(q))
  BY <1>2, HeadAndTail
<1>4. /\ Unwritten(c) = pendingWb[c] \cup {chunk.tid : chunk \in ToSet(q)}
      /\ Unwritten(c)' = pendingWb'[c] \cup {chunk.tid : chunk \in ToSet(wbQueue'[c])}
  BY UnwrittenIs
<1> HIDE DEF q
<1> QED
  BY <1>2, <1>3, <1>4

LEMMA QueueWritebackUnwritten ==
    ASSUME TypeInv, QueueWriteback, NEW c, c = cur
    PROVE  /\ cursor \in DOMAIN Outputs(c)
           /\ LET out == Outputs(c)[cursor]
              IN  Unwritten(c)' = Unwritten(c)
                                    \cup (IF ToDram(out) THEN {out.tid} ELSE {})
<1> DEFINE out == Outputs(c)[cursor]
           q == wbQueue[c]
           chunk == [tid |-> out.tid, size |-> out.size]
<1>1. /\ c \in Core /\ wbQueue \in [Core -> Seq(Chunk)] /\ pc = "queue"
      /\ cursor \in Nat \ {0} /\ HasWorkload(c)
  BY InTick DEF CoreTypeOK, WbTypeOK, ChunkSeqs, TickTypeOK, QueueWriteback, Control,
                PcMatchesState, WorkingHasWorkload
<1>2. Outputs(c) \in Seq(Output)
  BY <1>1, InTick, CurrentTyped
<1>3. cursor \in DOMAIN Outputs(c)
  BY <1>1, <1>2 DEF QueueWriteback
<1>4. out \in Output
  BY <1>2, <1>3, SeqElements
<1>5. chunk \in Chunk
  BY <1>4 DEF Output, Chunk
<1>6. /\ q \in Seq(Chunk) /\ pendingWb'[c] = pendingWb[c]
      /\ wbQueue'[c] = IF ToDram(out) THEN Append(q, chunk) ELSE q
  BY <1>1 DEF QueueWriteback
<1>7. /\ Unwritten(c) = pendingWb[c] \cup {ch.tid : ch \in ToSet(q)}
      /\ Unwritten(c)' = pendingWb'[c] \cup {ch.tid : ch \in ToSet(wbQueue'[c])}
  BY UnwrittenIs
<1>8. chunk.tid = out.tid
  OBVIOUS
<1>9. Unwritten(c)' = Unwritten(c) \cup (IF ToDram(out) THEN {out.tid} ELSE {})
  <2> HIDE DEF q, chunk, out
  <2>1. ToSet(Append(q, chunk)) = ToSet(q) \cup {chunk}
    BY <1>5, <1>6, AppendQueue
  <2> QED
    BY <1>6, <1>7, <1>8, <2>1
<1> QED
  BY <1>3, <1>9

LEMMA UnwrittenSteps ==
    ASSUME TypeInv, Orderly, NEW p \in Core
    PROVE  UnwrittenStep(p)
<1>1. /\ cur \in Core /\ pendingWb \in [Core -> SUBSET Tid] /\ wbQueue \in [Core -> Seq(Chunk)]
  BY InTick DEF CoreTypeOK, WbTypeOK, ChunkSeqs
<1>2. ASSUME pendingWb'[p] = pendingWb[p], wbQueue'[p] = wbQueue[p]
      PROVE  UnwrittenStep(p)
  BY <1>2, UnwrittenIs DEF UnwrittenStep
<1>3. CASE CoreTick /\ UNCHANGED transportVars
  <2>1. CASE p # cur
    <3>1. pendingWb'[p] = pendingWb[p] /\ wbQueue'[p] = wbQueue[p]
      <4>1. CASE UNCHANGED wbVars
        BY <4>1 DEF wbVars
      <4>2. CASE ReceiveWriteResponse \/ EnterWriteback \/ QueueWriteback \/ EndQueue
        BY <1>1, <2>1, <4>2
        DEF ReceiveWriteResponse, EnterWriteback, QueueWriteback, EndQueue
      <4>3. CASE WritebackCycle
        BY <1>1, <2>1, <4>3 DEF WritebackCycle, NothingToWrite, ReadOut, SendWrite
      <4> QED
        BY <1>3, <4>1, <4>2, <4>3
        DEF CoreTick, ReceiveReadResponse, ReceiveReadRequest, EndIncoming,
            RetryAllocation, EndRetry, DrainUnlimited, DrainLimited, EndDrain,
            ServeRemoteRequest, EndServe, RetireCore, StartWorkload, FetchSource,
            EndFetch, ComputeCycle, PublishOutput, EndOutputs, FreeInput,
            FinishWorkload, IdleTick
    <3> QED
      BY <1>2, <3>1
  <2>2. CASE p = cur
    <3>1. CASE UNCHANGED wbVars
      BY <1>2, <3>1 DEF wbVars
    <3>2. CASE ReceiveWriteResponse
      <4>1. wbQueue'[p] = wbQueue[p] /\ pendingWb'[p] = pendingWb[p] \ {Arriving.tid}
        BY <1>1, <2>2, <3>2 DEF ReceiveWriteResponse, Arriving
      <4> QED
        BY <1>3, <2>2, <3>2, <4>1 DEF UnwrittenStep
    <3>3. CASE EnterWriteback
      <4>1. pendingWb'[p] = pendingWb[p] /\ wbQueue'[p] = <<>>
        BY <1>1, <2>2, <3>3 DEF EnterWriteback
      <4>2. ToSet(<<>>) = {}
        BY DEF ToSet
      <4>3. Unwritten(p)' = pendingWb'[p] \cup {chunk.tid : chunk \in ToSet(wbQueue'[p])}
        BY UnwrittenIs
      <4>4. Unwritten(p)' = pendingWb[p]
        BY <4>1, <4>2, <4>3
      <4> QED
        BY <2>2, <3>3, <4>4 DEF UnwrittenStep
    <3>4. CASE QueueWriteback
      BY <2>2, <3>4, QueueWritebackUnwritten DEF UnwrittenStep
    <3>5. CASE EndQueue
      BY <1>2, <3>5 DEF EndQueue
    <3>6. CASE WritebackCycle
      <4>1. CASE SendWrite
        BY <2>2, <4>1, SendWriteUnwritten DEF UnwrittenStep
      <4>2. CASE NothingToWrite \/ ReadOut
        BY <1>2, <4>2 DEF NothingToWrite, ReadOut
      <4> QED
        BY <3>6, <4>1, <4>2 DEF WritebackCycle
    <3> QED
      BY <1>3, <3>1, <3>2, <3>3, <3>4, <3>5, <3>6
      DEF CoreTick, ReceiveReadResponse, ReceiveReadRequest, EndIncoming,
          RetryAllocation, EndRetry, DrainUnlimited, DrainLimited, EndDrain,
          ServeRemoteRequest, EndServe, RetireCore, StartWorkload, FetchSource,
          EndFetch, ComputeCycle, PublishOutput, EndOutputs, FreeInput,
          FinishWorkload, IdleTick
  <2> QED
    BY <2>1, <2>2
<1>4. CASE TransportStep \/ UNCHANGED vars
  BY <1>2, <1>4, TransportQuiet DEF QuietCores, vars, coreVars, wbVars
<1> QED
  BY <1>3, <1>4, OrderlySteps

-----------------------------------------------------------------------------
(* An output from its publication on.                                      *)

IsOutput(p, i, k, out) ==
    /\ p \in Core /\ i \in DOMAIN ir[p] /\ k \in DOMAIN ir[p][i].outputs
    /\ out = ir[p][i].outputs[k]

LEMMA OutputFacts ==
    ASSUME TypeInv, NEW p, NEW i, NEW k, NEW out, IsOutput(p, i, k, out)
    PROVE  /\ p \in Core /\ i \in Nat \ {0} /\ k \in Nat \ {0} /\ i \in DOMAIN ir[p]
           /\ out \in Output /\ out.tid \in Tid
           /\ out \in ToSet(ir[p][i].outputs) /\ OutputOf(p, out.tid)
           /\ idx[p] \in Nat \ {0} /\ i <= Len(ir[p])
           /\ i = idx[p] => /\ k \in DOMAIN Outputs(p) /\ Outputs(p)[k] = out
                            /\ out \in ToSet(Outputs(p)) /\ HasWorkload(p)
                            /\ Outputs(p) \in Seq(Output) /\ k <= Len(Outputs(p))
<1>1. ir[p] \in Seq(Workload) /\ idx[p] \in Nat \ {0} /\ i \in DOMAIN ir[p] /\ p \in Core
  BY InTick DEF IsOutput, CoreTypeOK, FsmTypeOK
<1>2. ir[p][i] \in Workload /\ i \in Nat \ {0} /\ i <= Len(ir[p])
  BY <1>1, SeqElements
<1>3. ir[p][i].outputs \in Seq(Output)
  BY <1>2 DEF Workload
<1> DEFINE q == ir[p][i].outputs
<1>4. q \in Seq(Output) /\ k \in DOMAIN q /\ out = q[k] /\ (i = idx[p] => Outputs(p) = q)
  BY <1>3 DEF IsOutput, Outputs, Current
<1>5. i = idx[p] => HasWorkload(p)
  BY <1>2 DEF HasWorkload
<1>6. q = ir[p][i].outputs
  OBVIOUS
<1> HIDE DEF q
<1>7. k \in 1 .. Len(q) /\ out \in Output
  BY <1>4, SeqElements
<1>8. out \in ToSet(q)
  BY <1>4, <1>7, InToSet
<1>9. out.tid \in Tid
  BY <1>7 DEF Output
<1> QED
  BY <1>1, <1>2, <1>4, <1>5, <1>6, <1>7, <1>8, <1>9 DEF OutputOf

LEMMA PublishedStays ==
    ASSUME TypeInv, Orderly, NEW p \in Core, NEW i \in Nat, NEW k \in Nat,
           Published(p, i, k)
    PROVE  Published(p, i, k)'
<1>1. TypeInv' /\ idx[p] \in Nat /\ Turn(p) /\ At(p) \in Nat
  BY NextTyped, EveryTurn, TurnStages, InTick DEF Orderly, At, CoreTypeOK, TickTypeOK
<1>2. \/ i < idx[p]
      \/ /\ i = idx[p]
         /\ \/ Stage(p) \in {"WRITEBACK", "queue", "free"}
            \/ Stage(p) = "outputs" /\ k < At(p)
  BY <1>1, PublishedStage
<1>3. \/ i < idx'[p]
      \/ /\ i = idx'[p]
         /\ \/ Stage(p)' \in {"WRITEBACK", "queue", "free"}
            \/ Stage(p)' = "outputs" /\ k < At(p)'
  BY <1>1, <1>2 DEF Turn, Rests, Starts, Works, Retires, Moves, Iterates
<1> QED
  BY <1>1, <1>3, PublishedStage

LEMMA PublishedNow ==
    ASSUME TypeInv, Orderly, NEW p, NEW i, NEW k, NEW out, IsOutput(p, i, k, out),
           ~Published(p, i, k), Published(p, i, k)'
    PROVE  /\ PublishOutput /\ cur = p /\ i = idx[p] /\ k = cursor
           /\ Stage(p) = "outputs" /\ Stage(p)' = "outputs" /\ idx'[p] = idx[p]
<1>1. /\ TypeInv' /\ p \in Core /\ idx[p] \in Nat /\ Turn(p) /\ At(p) \in Nat
      /\ i \in Nat /\ k \in Nat \ {0}
      /\ i = idx[p] => k <= Len(Outputs(p)) /\ Len(Outputs(p)) \in Nat
  <2>1. p \in Core
    BY DEF IsOutput
  <2> QED
    BY <2>1, NextTyped, EveryTurn, TurnStages, InTick, OutputFacts
    DEF Orderly, At, CoreTypeOK, TickTypeOK
<1>2. ~ \/ i < idx[p]
        \/ /\ i = idx[p]
           /\ \/ Stage(p) \in {"WRITEBACK", "queue", "free"}
              \/ Stage(p) = "outputs" /\ k < At(p)
  BY <1>1, PublishedStage
<1>3. \/ i < idx'[p]
      \/ /\ i = idx'[p]
         /\ \/ Stage(p)' \in {"WRITEBACK", "queue", "free"}
            \/ Stage(p)' = "outputs" /\ k < At(p)'
  BY <1>1, PublishedStage
<1>4. CASE Rests(p) \/ Starts(p)
  BY <1>1, <1>2, <1>3, <1>4 DEF Rests, Starts
<1>5. CASE Works(p)
  <2>1. i = idx[p] /\ idx'[p] = idx[p]
    BY <1>1, <1>2, <1>3, <1>5 DEF Works
  <2>2. Stage(p) = "outputs" /\ Iterates(p, Outputs(p)) /\ PublishOutput /\ cur = p
    BY <1>1, <1>2, <1>3, <1>5, <2>1 DEF Works, Moves, Iterates, Through
  <2>3. k = At(p) /\ At(p) = cursor /\ Stage(p)' = "outputs"
    <3>1. At(p) = cursor
      BY <2>2 DEF At, PublishOutput, Loops
    <3> QED
      BY <1>1, <1>2, <1>3, <2>1, <2>2, <3>1 DEF Iterates
  <2> QED
    BY <2>1, <2>2, <2>3
<1>6. CASE Retires(p)
  BY <1>1, <1>2, <1>3, <1>6 DEF Retires, Through
<1> QED
  BY <1>1, <1>4, <1>5, <1>6 DEF Turn

(* Once published, an output's write-back is only ever taken off. *)
LEMMA WritebackShrinks ==
    ASSUME TypeInv, Orderly, NEW p, NEW i, NEW k, NEW out, IsOutput(p, i, k, out),
           Published(p, i, k), Writing1(p, i, out)'
    PROVE  Writing1(p, i, out)
<1>1. /\ TypeInv' /\ p \in Core /\ idx[p] \in Nat /\ Turn(p)
      /\ i \in Nat /\ k \in Nat
  <2>1. p \in Core
    BY DEF IsOutput
  <2> QED
    BY <2>1, NextTyped, EveryTurn, TurnStages, InTick, OutputFacts
    DEF Orderly
<1>2. \/ i < idx[p]
      \/ i = idx[p] /\ Stage(p) \in {"WRITEBACK", "queue", "free", "outputs"}
  BY <1>1, PublishedStage
<1>3. /\ i = idx'[p] /\ ToDram(out)
      /\ Stage(p)' \in {"COMPUTING", "outputs", "free", "queue"} \/ out.tid \in Unwritten(p)'
  BY DEF Writing1, ToDram
<1>4. i = idx[p] /\ idx'[p] = idx[p]
  BY <1>1, <1>2, <1>3, TurnStages
<1>5. CASE Stage(p) # "WRITEBACK"
  BY <1>1, <1>2, <1>3, <1>4, <1>5 DEF Writing1
<1>6. CASE Stage(p) = "WRITEBACK"
  <2>1. Stage(p)' = "WRITEBACK"
    BY <1>1, <1>4, <1>6 DEF Turn, Rests, Starts, Works, Retires, Moves
  <2>2. Unwritten(p)' \subseteq Unwritten(p)
    <3>1. UnwrittenStep(p)
      BY <1>1, UnwrittenSteps
    <3>2. ~(cur = p /\ (EnterWriteback \/ QueueWriteback))
      BY <1>6 DEF Stage, EnterWriteback, QueueWriteback, Loops
    <3> QED
      BY <3>1, <3>2, UnwrittenIs DEF UnwrittenStep
  <2> QED
    BY <1>3, <1>4, <2>1, <2>2 DEF Writing1
<1> QED
  BY <1>5, <1>6

LEMMA ReadsLeftTyped ==
    ASSUME AddressInv, Orderly, NEW p \in Core, NEW i, NEW out
    PROVE  /\ ReadsLeft(p, i, out) \in Nat /\ ReadsLeft(p, i, out)' \in Nat
           /\ Cardinality(RemoteReads(p, out.tid)') \in Nat
           /\ Cardinality(LocalReads(p, out.tid)') \in Nat
           /\ Cardinality(RemoteReads(p, out.tid)') <= Cardinality(RemoteReads(p, out.tid))
           /\ Cardinality(LocalReads(p, out.tid)') <= Cardinality(LocalReads(p, out.tid))
           /\ ReadsLeft(p, i, out) =
                Cardinality(RemoteReads(p, out.tid)) + Cardinality(LocalReads(p, out.tid))
                + (IF Writing1(p, i, out) THEN 1 ELSE 0)
           /\ ReadsLeft(p, i, out)' =
                Cardinality(RemoteReads(p, out.tid)') + Cardinality(LocalReads(p, out.tid)')
                + (IF Writing1(p, i, out)' THEN 1 ELSE 0)
<1>1. TypeInv /\ TypeInv'
  BY NextTyped DEF AddressInv, Orderly
<1>2. /\ IsFiniteSet(RemoteReads(p, out.tid)) /\ Cardinality(RemoteReads(p, out.tid)) \in Nat
      /\ IsFiniteSet(LocalReads(p, out.tid)) /\ Cardinality(LocalReads(p, out.tid)) \in Nat
  BY <1>1, ClaimsFinite
<1>3. /\ RemoteReads(p, out.tid)' \subseteq RemoteReads(p, out.tid)
      /\ LocalReads(p, out.tid)' \subseteq LocalReads(p, out.tid)
  BY <1>1, RemoteReadsShrink, LocalReadsShrink
<1>4. /\ Cardinality(RemoteReads(p, out.tid)') \in Nat
      /\ Cardinality(LocalReads(p, out.tid)') \in Nat
      /\ Cardinality(RemoteReads(p, out.tid)') <= Cardinality(RemoteReads(p, out.tid))
      /\ Cardinality(LocalReads(p, out.tid)') <= Cardinality(LocalReads(p, out.tid))
  BY <1>2, <1>3, FS_Subset, FS_CardinalityType
<1>5. /\ WritebackLeft(p, i, out) = IF Writing1(p, i, out) THEN 1 ELSE 0
      /\ WritebackLeft(p, i, out)' = IF Writing1(p, i, out)' THEN 1 ELSE 0
  BY <1>1, WritebackStage
<1> QED
  BY <1>2, <1>4, <1>5 DEF ReadsLeft

-----------------------------------------------------------------------------
(* A release of a reference to a published output takes a claim off.       *)

LEMMA OneLess ==
    ASSUME NEW S, IsFiniteSet(S), NEW T, T \subseteq S, NEW x \in S, x \notin T
    PROVE  /\ Cardinality(T) \in Nat /\ Cardinality(S) \in Nat
           /\ Cardinality(T) <= Cardinality(S) - 1
<1>1. T \subseteq S \ {x} /\ IsFiniteSet(S \ {x})
  BY FS_Subset
<1>2. Cardinality(S \ {x}) = Cardinality(S) - 1
  BY FS_RemoveElement
<1>3. IsFiniteSet(T) /\ Cardinality(T) <= Cardinality(S \ {x})
  BY <1>1, FS_Subset
<1> QED
  BY <1>2, <1>3, FS_CardinalityType

(* A source of the current workload that names an output. *)
LEMMA SourceOfOutput ==
    ASSUME AddressInv, CountedPrograms, NEW p \in Core, NEW t, OutputOf(p, t),
           NEW d \in Core, HasWorkload(d)
    PROVE  /\ idx[d] \in DOMAIN ir[d]
           /\ \A s \in ToSet(Sources(d)) : s.tid = t => s.from = p
           /\ t \in SourceTids(d) => Reads(d, idx[d], p, t)
<1>1. ir[d] \in Seq(Workload) /\ idx[d] \in Nat \ {0} /\ ir \in Programs
  BY InTick DEF AddressInv, CoreTypeOK, FsmTypeOK
<1>2. idx[d] \in DOMAIN ir[d]
  BY <1>1 DEF HasWorkload
<1>3. PICK i \in DOMAIN ir[p] : \E out \in ToSet(ir[p][i].outputs) : out.tid = t
  BY DEF OutputOf
<1>4. \A s \in ToSet(ir[d][idx[d]].sources) : s.tid = t => s.from = p
  BY <1>1, <1>2, <1>3 DEF CountedPrograms, SourcesFollowOutputs
<1> QED
  BY <1>2, <1>4 DEF Sources, Current, SourceTids, Reads

LEMMA AnswerTakesClaim ==
    ASSUME LoadInv, LoadsOfWorkload, OwnOutputsAtHand, CountedPrograms, Orderly,
           NEW p \in Core, NEW t, OutputOf(p, t),
           NEW req, NEW d \in Core, Answered(req, d), req.tid = t
    PROVE  d # p /\ <<d, idx[d]>> \in RemoteReads(p, t) \ RemoteReads(p, t)'
<1>1. /\ AddressInv /\ TypeInv /\ TypeInv' /\ idx[d] \in Nat
      /\ UNCHANGED <<state, idx, requested, pendingLoads, ir>>
  BY NextTyped, NextKeepsIr, InTick
  DEF LoadInv, AddressInv, Orderly, CoreTypeOK, FsmTypeOK, Answered
<1>2. Asked(d, t) = Asked(d, t)' + 1 /\ Asked(d, t) \in Nat /\ Asked(d, t)' \in Nat
  BY <1>1, AskedTyped DEF Answered
<1>3. t \in Awaited(d) /\ Asked(d, t) > 0 /\ Asked(d, t)' = 0
  BY <1>2, AskedIsAwaited
<1>4. state[d] = "LOADING" /\ t \in pendingLoads[d] /\ t \in requested[d]
  BY <1>3 DEF Awaited
<1>5. d # p
  BY <1>3 DEF OwnOutputsAtHand
<1>6. HasWorkload(d) /\ t \in SourceTids(d)
  BY <1>1, <1>4, InTick DEF LoadsOfWorkload, Control, WorkingHasWorkload
<1>7. idx[d] \in 1 .. Len(ir[d]) /\ Reads(d, idx[d], p, t)
  <2>1. idx[d] \in DOMAIN ir[d] /\ ir[d] \in Seq(Workload)
    BY <1>1, <1>6, SourceOfOutput, InTick DEF CoreTypeOK, FsmTypeOK
  <2> QED
    BY <1>1, <1>6, <2>1, SourceOfOutput
<1>8. Stage(d) = "LOADING" /\ Stage(d)' = "LOADING"
  BY <1>1, <1>4 DEF Stage, TypeInv, Control, PcMatchesState, Loops
<1>9. ReadOpen(d, idx[d], t)
  BY <1>1, <1>3, <1>8, ReadOpenStage
<1>10. \A j : j = idx[d] => ~ReadOpen(d, j, t)'
  BY <1>1, <1>3, <1>4, <1>8, ReadOpenStage
<1>11. Waits(d, idx[d], p, t)
  BY <1>1, <1>5, <1>7, <1>9 DEF Waits
<1>12. \A j : j = idx[d] => ~Waits(d, j, p, t)'
  BY <1>10 DEF Waits
<1> QED
  BY <1>5, <1>11, <1>12, InRemoteReads

LEMMA FreeTakesClaim ==
    ASSUME AddressInv, CountedPrograms, Orderly,
           NEW p \in Core, NEW t, OutputOf(p, t),
           cur = p, FreeInput, Sources(p)[cursor].tid = t
    PROVE  <<idx[p], cursor>> \in LocalReads(p, t) \ LocalReads(p, t)'
<1>1. /\ TypeInv /\ TypeInv' /\ UNCHANGED <<state, idx, ir>>
      /\ cursor \in Nat \ {0} /\ pc = "free" /\ cursor' = cursor + 1 /\ pc' = pc /\ cur' = p
      /\ cursor <= Len(Sources(p))
  BY NextTyped, NextKeepsIr, InTick
  DEF AddressInv, Orderly, CoreTypeOK, TickTypeOK, FreeInput, NextIteration, fsmVars
<1>2. /\ Stage(p) = "free" /\ At(p) = cursor /\ Stage(p)' = "free" /\ At(p)' = cursor + 1
  BY <1>1 DEF Stage, At, Loops
<1>3. HasWorkload(p) /\ Sources(p) \in Seq(Source) /\ idx[p] \in Nat
  BY <1>1, <1>2, StageOfTick DEF Loops
<1>4. cursor \in DOMAIN Sources(p) /\ Sources(p)[cursor] \in ToSet(Sources(p))
  BY <1>1, <1>3, InToSet
<1>5. Sources(p)[cursor].from = p /\ idx[p] \in DOMAIN ir[p]
  BY <1>3, <1>4, SourceOfOutput
<1>6. LocalWaits(p, idx[p], cursor, t)
  BY <1>2, <1>3, <1>4, <1>5 DEF LocalWaits, LocalUse, Sources, Current
<1>7. \A j, k : j = idx[p] /\ k = cursor => ~LocalWaits(p, j, k, t)'
  BY <1>1, <1>2, <1>3 DEF LocalWaits
<1> QED
  BY <1>1, <1>6, <1>7, InLocalReads

LEMMA AckTakesClaim ==
    ASSUME WritebackInv, OwnWrites, CountedPrograms, Orderly,
           NEW p, NEW i, NEW k, NEW out, IsOutput(p, i, k, out),
           Acknowledged(p), Arriving.tid = out.tid
    PROVE  Writing1(p, i, out) /\ ~Writing1(p, i, out)'
<1>1. /\ AddressInv /\ TypeInv /\ ir \in Programs /\ p \in Core /\ cur = p /\ pc = "incoming"
      /\ pc' = pc /\ UNCHANGED <<state, idx, wbQueue>> /\ out.tid \in pendingWb[p]
      /\ pendingWb'[p] = pendingWb[p] \ {out.tid}
  <2>1. AddressInv /\ TypeInv /\ ir \in Programs /\ p \in Core
    BY DEF WritebackInv, AddressInv, IsOutput
  <2>2. pendingWb \in [Core -> SUBSET Tid]
    BY <2>1, InTick DEF CoreTypeOK, WbTypeOK
  <2> QED
    BY <2>1, <2>2
    DEF Acknowledged, ReceiveWriteResponse, Incoming, SameIteration, fsmVars, Arriving
<1>2. state[p] = "WRITEBACK"
  BY <1>1 DEF WritebackInv, WritesUnderWay
<1>3. Stage(p) = "WRITEBACK" /\ Stage(p)' = "WRITEBACK"
  BY <1>1, <1>2 DEF Stage, Loops
<1>4. PICK o \in ToSet(Outputs(p)) : ToDram(o) /\ o.tid = out.tid
  BY <1>1, <1>2 DEF OwnWrites
<1>5. HasWorkload(p) /\ Outputs(p) \in Seq(Output) /\ idx[p] \in Nat \ {0} /\ ir[p] \in Seq(Workload)
  <2>1. HasWorkload(p)
    BY <1>1, <1>2, InTick DEF Control, WorkingHasWorkload
  <2> QED
    BY <1>1, <2>1, CurrentTyped, InTick DEF CoreTypeOK, FsmTypeOK
<1>6. PICK l \in DOMAIN Outputs(p) : o = Outputs(p)[l]
  BY <1>4, <1>5, InToSet
<1>7. idx[p] \in DOMAIN ir[p] /\ Outputs(p) = ir[p][idx[p]].outputs
  BY <1>5 DEF HasWorkload, Outputs, Current
<1>8. OutputsOnce(ir)
  BY <1>1 DEF CountedPrograms
<1>9. i = idx[p] /\ k = l
  <2>1. k \in Outs(ir, p, i) /\ l \in Outs(ir, p, idx[p])
    BY <1>6, <1>7 DEF IsOutput, Outs
  <2>2. ir[p][i].outputs[k].tid = ir[p][idx[p]].outputs[l].tid /\ i \in DOMAIN ir[p]
    BY <1>4, <1>6, <1>7 DEF IsOutput
  <2> QED
    BY <1>1, <1>7, <1>8, <2>1, <2>2 DEF OutputsOnce
<1>10. out = o
  BY <1>6, <1>7, <1>9 DEF IsOutput
<1>11. Writing1(p, i, out)
  BY <1>1, <1>4, <1>9, <1>10 DEF Writing1, Unwritten
<1>12. out.tid \notin Unwritten(p)'
  <2>1. wbQueue[p] \in Seq(Chunk)
    BY <1>1, InTick DEF CoreTypeOK, WbTypeOK, ChunkSeqs
  <2>2. \A ch \in ToSet(wbQueue[p]) : ch.tid # out.tid
    <3> SUFFICES ASSUME NEW ch \in ToSet(wbQueue[p]), ch.tid = out.tid
                 PROVE  FALSE
      OBVIOUS
    <3>1. PICK j \in DOMAIN wbQueue[p] : ch = wbQueue[p][j]
      BY <2>1, InToSet
    <3>2. wbQueue[p][j].tid \notin pendingWb[p]
      BY <1>1, <1>2 DEF WritebackInv, WritesDiffer
    <3> QED
      BY <1>1, <3>1, <3>2
  <2>3. Unwritten(p)' = pendingWb'[p] \cup {chunk.tid : chunk \in ToSet(wbQueue'[p])}
    BY UnwrittenIs
  <2> QED
    BY <1>1, <2>2, <2>3
<1>13. ~Writing1(p, i, out)'
  BY <1>3, <1>12 DEF Writing1
<1> QED
  BY <1>11, <1>13

-----------------------------------------------------------------------------
(* A published output stays, with a reference for every claim.             *)

ClaimTaken(p, t) ==
    \/ cur = p /\ \E req : \E d \in Core : Answered(req, d) /\ req.tid = t
    \/ Acknowledged(p) /\ Arriving.tid = t
    \/ Frees(p) /\ Sources(p)[cursor].tid = t

LEMMA AlikeTwice ==
    ASSUME NEW s, NEW mid, NEW new, NEW t, Alike(s, mid, t), Alike(mid, new, t)
    PROVE  Alike(s, new, t)
  BY DEF Alike, IsReady

LEMMA ReleaseStep ==
    ASSUME TypeInv, NEW p \in Core, NEW t, NEW u,
           sram' = [sram EXCEPT ![p] = ReleaseRef(@, u)]
    PROVE  /\ sram'[p] = ReleaseRef(sram[p], u)
           /\ u # t => Alike(sram[p], sram'[p], t)
<1> DEFINE new == ReleaseRef(sram[p], u)
<1>1. sram' = [sram EXCEPT ![p] = new] /\ SramTypeOK(sram[p])
  BY SramKnown
<1>2. u # t => Alike(sram[p], new, t)
  BY <1>1, ReleaseEntry
<1> HIDE DEF new
<1>3. sram'[p] = new
  BY <1>1, SramKnown
<1> QED
  BY <1>2, <1>3 DEF new

LEMMA MemoryOfOutput ==
    ASSUME TypeInv, NEW p \in Core, MemoryStep(p), NEW t, HasData(sram[p], t)
    PROVE  \/ Alike(sram[p], sram'[p], t)
           \/ sram'[p] = ReleaseRef(sram[p], t) /\ ClaimTaken(p, t)
<1>1. SramTypeOK(sram[p])
  BY SramKnown
<1>2. CASE sram'[p] = sram[p]
  BY <1>2 DEF Alike
<1>3. CASE Gets(p)
  BY <1>1, <1>3, AllocateEntry DEF Gets
<1>4. CASE Marks(p)
  BY <1>1, <1>4, MarkReadyEntry DEF Marks
<1>5. CASE Answering(p)
  <2>1. PICK req : cur = p /\ \E d \in Core : Answered(req, d)
    BY <1>5 DEF Answering
  <2>2. sram' = [sram EXCEPT ![p] = ReleaseRef(@, req.tid)]
    BY <2>1 DEF Answered, Answers
  <2> QED
    BY <2>1, <2>2, ReleaseStep DEF ClaimTaken
<1>6. CASE Acknowledged(p)
  <2>1. sram' = [sram EXCEPT ![p] = ReleaseRef(@, Arriving.tid)]
    BY <1>6 DEF Acknowledged, ReceiveWriteResponse, Arriving
  <2> QED
    BY <1>6, <2>1, ReleaseStep DEF ClaimTaken
<1>7. CASE Publishes(p)
  <2> DEFINE out == Outputs(p)[cursor]
             mid == Allocate(sram[p], out.tid, out.size, OutputRefs(p, out))
             new == MarkReady(mid, out.tid)
  <2>1. sram' = [sram EXCEPT ![p] = new]
    BY <1>7 DEF Publishes, PublishOutput
  <2>2. Alike(sram[p], mid, t)
    BY <1>1, AllocateEntry
  <2>3. SramTypeOK(mid)
    <3>1. /\ HasWorkload(p) /\ Outputs(p) \in Seq(Output) /\ cursor \in DOMAIN Outputs(p)
      <4>1. pc = "outputs" /\ cursor <= Len(Outputs(p)) /\ cur = p
        BY <1>7 DEF Publishes, PublishOutput
      <4>2. Stage(p) = "outputs"
        BY <4>1 DEF Stage, Loops
      <4> QED
        BY <4>1, <4>2, StageOfTick DEF Loops
    <3>2. out \in Output
      BY <3>1, SeqElements
    <3>3. OutputRefs(p, out) \in Nat
      BY <3>1, <3>2, InTick, OutputRefsTyped
    <3>4. out.tid \in Tid /\ out.size \in Nat
      BY <3>2 DEF Output
    <3> QED
      BY <1>1, <3>3, <3>4, AllocateTyped
  <2> HIDE DEF mid
  <2>4. Alike(mid, new, t)
    BY <2>3, MarkReadyEntry
  <2> HIDE DEF new
  <2>5. sram'[p] = new
    BY <2>1, SramKnown
  <2> QED
    BY <2>2, <2>4, <2>5, AlikeTwice
<1>8. CASE Frees(p)
  <2>1. sram' = [sram EXCEPT ![p] = ReleaseRef(@, Sources(p)[cursor].tid)]
    BY <1>8 DEF Frees, FreeInput
  <2> QED
    BY <1>8, <2>1, ReleaseStep DEF ClaimTaken
<1> QED
  BY <1>2, <1>3, <1>4, <1>5, <1>6, <1>7, <1>8 DEF MemoryStep

LEMMA TakenIsLess ==
    ASSUME KeepInv, CountedPrograms, Orderly, NEW p, NEW i, NEW k, NEW out,
           IsOutput(p, i, k, out), Published(p, i, k), ClaimTaken(p, out.tid)
    PROVE  ReadsLeft(p, i, out)' <= ReadsLeft(p, i, out) - 1
<1> DEFINE t == out.tid
<1>1. /\ AddressInv /\ TypeInv /\ p \in Core /\ OutputOf(p, t)
      /\ LoadInv /\ WritebackInv /\ LoadsOfWorkload /\ OwnOutputsAtHand /\ OwnWrites
  BY OutputFacts DEF KeepInv, LoadInv, AddressInv
<1>2. /\ IsFiniteSet(RemoteReads(p, t)) /\ Cardinality(RemoteReads(p, t)) \in Nat
      /\ IsFiniteSet(LocalReads(p, t)) /\ Cardinality(LocalReads(p, t)) \in Nat
      /\ RemoteReads(p, t)' \subseteq RemoteReads(p, t)
      /\ LocalReads(p, t)' \subseteq LocalReads(p, t)
  BY <1>1, ClaimsFinite, RemoteReadsShrink, LocalReadsShrink
<1>3. /\ Cardinality(RemoteReads(p, t)') \in Nat
      /\ Cardinality(LocalReads(p, t)') \in Nat
      /\ Cardinality(RemoteReads(p, t)') <= Cardinality(RemoteReads(p, t))
      /\ Cardinality(LocalReads(p, t)') <= Cardinality(LocalReads(p, t))
      /\ ReadsLeft(p, i, out) =
            Cardinality(RemoteReads(p, t)) + Cardinality(LocalReads(p, t))
            + (IF Writing1(p, i, out) THEN 1 ELSE 0)
      /\ ReadsLeft(p, i, out)' =
            Cardinality(RemoteReads(p, t)') + Cardinality(LocalReads(p, t)')
            + (IF Writing1(p, i, out)' THEN 1 ELSE 0)
  BY <1>1, ReadsLeftTyped
<1>4. Writing1(p, i, out)' => Writing1(p, i, out)
  BY <1>1, WritebackShrinks
<1>5. ASSUME NEW req, NEW d \in Core, Answered(req, d), req.tid = t
      PROVE  Cardinality(RemoteReads(p, t)') <= Cardinality(RemoteReads(p, t)) - 1
  <2>1. <<d, idx[d]>> \in RemoteReads(p, t) \ RemoteReads(p, t)'
    BY <1>1, <1>5, AnswerTakesClaim
  <2> QED
    BY <1>2, <2>1, OneLess
<1>6. ASSUME Frees(p), Sources(p)[cursor].tid = t
      PROVE  Cardinality(LocalReads(p, t)') <= Cardinality(LocalReads(p, t)) - 1
  <2>1. <<idx[p], cursor>> \in LocalReads(p, t) \ LocalReads(p, t)'
    BY <1>1, <1>6, FreeTakesClaim DEF Frees
  <2> QED
    BY <1>2, <2>1, OneLess
<1>7. ASSUME Acknowledged(p), Arriving.tid = t
      PROVE  Writing1(p, i, out) /\ ~Writing1(p, i, out)'
  BY <1>1, <1>7, AckTakesClaim
<1> HIDE DEF t
<1>8. \/ Cardinality(RemoteReads(p, t)') <= Cardinality(RemoteReads(p, t)) - 1
      \/ Cardinality(LocalReads(p, t)') <= Cardinality(LocalReads(p, t)) - 1
      \/ Writing1(p, i, out) /\ ~Writing1(p, i, out)'
  BY <1>5, <1>6, <1>7 DEF ClaimTaken, t
<1> QED
  BY <1>2, <1>3, <1>4, <1>8

(* Every published output, one by one. *)
LEMMA EachKept ==
    /\ ConsumersKeepData <=>
          \A p, i, k, out :
             IsOutput(p, i, k, out) /\ Published(p, i, k) /\ ReadsLeft(p, i, out) > 0 =>
                Kept(p, out.tid, ReadsLeft(p, i, out))
    /\ ConsumersKeepData' <=>
          \A p, i, k, out :
             IsOutput(p, i, k, out)' /\ Published(p, i, k)' /\ ReadsLeft(p, i, out)' > 0 =>
                Kept(p, out.tid, ReadsLeft(p, i, out))'
  BY DEF ConsumersKeepData, ForPublished, IsOutput

LEMMA StaysKept ==
    ASSUME KeepInv, CountedPrograms, Orderly, NEW p, NEW i, NEW k, NEW out,
           IsOutput(p, i, k, out), Published(p, i, k), ReadsLeft(p, i, out)' > 0
    PROVE  Kept(p, out.tid, ReadsLeft(p, i, out))'
<1> DEFINE t == out.tid
           left == ReadsLeft(p, i, out)
           after == ReadsLeft(p, i, out)'
<1>1. /\ AddressInv /\ TypeInv /\ p \in Core /\ LoadInv /\ WritebackInv /\ t \in Tid
  BY OutputFacts DEF KeepInv, LoadInv, AddressInv
<1>2. left \in Nat /\ after \in Nat
  BY <1>1, ReadsLeftTyped
<1>3. left >= after
  <2>1. Writing1(p, i, out)' => Writing1(p, i, out)
    BY <1>1, WritebackShrinks
  <2>2. /\ IsFiniteSet(RemoteReads(p, t)) /\ Cardinality(RemoteReads(p, t)) \in Nat
        /\ IsFiniteSet(LocalReads(p, t)) /\ Cardinality(LocalReads(p, t)) \in Nat
    BY <1>1, ClaimsFinite
  <2>3. /\ Cardinality(RemoteReads(p, t)') \in Nat
        /\ Cardinality(LocalReads(p, t)') \in Nat
        /\ Cardinality(RemoteReads(p, t)') <= Cardinality(RemoteReads(p, t))
        /\ Cardinality(LocalReads(p, t)') <= Cardinality(LocalReads(p, t))
        /\ ReadsLeft(p, i, out) =
              Cardinality(RemoteReads(p, t)) + Cardinality(LocalReads(p, t))
              + (IF Writing1(p, i, out) THEN 1 ELSE 0)
        /\ ReadsLeft(p, i, out)' =
              Cardinality(RemoteReads(p, t)') + Cardinality(LocalReads(p, t)')
              + (IF Writing1(p, i, out)' THEN 1 ELSE 0)
    BY <1>1, ReadsLeftTyped
  <2> HIDE DEF t
  <2> QED
    BY <2>1, <2>2, <2>3
<1>4. after > 0
  OBVIOUS
<1> HIDE DEF after
<1>5. Kept(p, t, left)
  BY <1>2, <1>3, <1>4, EachKept DEF KeepInv
<1>6. IsReady(sram[p], t) /\ sram[p].entries[t].ref >= left
  BY <1>5 DEF Kept
<1>7. SramTypeOK(sram[p]) /\ sram[p].entries[t].ref \in Nat /\ HasData(sram[p], t)
  BY <1>1, <1>6, SramKnown DEF SramTypeOK, IsReady, HasData, SramEntry
<1> HIDE DEF left
<1>8. IsReady(sram'[p], t) /\ sram'[p].entries[t].ref >= after
  <2>1. CASE Alike(sram[p], sram'[p], t)
    BY <1>2, <1>3, <1>6, <1>7, <2>1 DEF Alike
  <2>2. CASE sram'[p] = ReleaseRef(sram[p], t) /\ ClaimTaken(p, t)
    <3>1. after <= left - 1
      BY <1>1, <2>2, TakenIsLess DEF left, after
    <3>2. sram[p].entries[t].ref >= 2
      BY <1>2, <1>4, <1>6, <1>7, <3>1
    <3>3. IsReady(ReleaseRef(sram[p], t), t)
      BY <1>6, <1>7, <3>2, ReleaseEntry
    <3>4. sram'[p].entries[t].ref = sram[p].entries[t].ref - 1
      BY <1>7, <2>2, <3>3, ReleaseEntry DEF IsReady
    <3> QED
      BY <1>2, <1>6, <1>7, <2>2, <3>1, <3>3, <3>4
  <2> QED
    BY <1>1, <1>7, <2>1, <2>2, MemorySteps, MemoryOfOutput
<1> QED
  BY <1>8 DEF Kept, after, t

(* The uses at home that a workload's output is counted for. *)
FutureUses(p, t) ==
    UNION {{<<i, j>> : j \in {k \in DOMAIN ir[p][i].sources :
                                 ir[p][i].sources[k].tid = t /\ ir[p][i].sources[k].from = p}}
           : i \in idx[p] + 1 .. Len(ir[p])}

LEMMA InFutureUses ==
    ASSUME TypeInv, NEW p \in Core, NEW t
    PROVE  /\ LocalFutureUses(p, t) = Cardinality(FutureUses(p, t))
           /\ \A x : x \in FutureUses(p, t) <=>
                \E j, k : x = <<j, k>> /\ LocalUse(p, j, k, t) /\ j > idx[p]
<1>1. ir[p] \in Seq(Workload) /\ idx[p] \in Nat \ {0}
  BY InTick DEF CoreTypeOK, FsmTypeOK
<1>2. \A j : j \in idx[p] + 1 .. Len(ir[p]) <=> j \in DOMAIN ir[p] /\ j > idx[p]
  BY <1>1
<1>3. LocalFutureUses(p, t) = Cardinality(FutureUses(p, t))
  BY DEF LocalFutureUses, FutureUses
<1>4. \A x : x \in FutureUses(p, t) <=>
        \E j, k : x = <<j, k>> /\ LocalUse(p, j, k, t) /\ j > idx[p]
  BY <1>2 DEF FutureUses, LocalUse
<1> QED
  BY <1>3, <1>4

LEMMA ReadersFinite ==
    ASSUME TypeInv, NEW p, NEW t
    PROVE  IsFiniteSet(RemoteReaders(ir, p, t)) /\ Cardinality(RemoteReaders(ir, p, t)) \in Nat
<1>1. ir \in [Core -> Seq(Workload)]
  BY InTick DEF CoreTypeOK, FsmTypeOK
<1>2. RemoteReaders(ir, p, t) \subseteq Places(ir, Workload)
  <2> SUFFICES ASSUME NEW d \in Core, NEW j \in DOMAIN ir[d]
               PROVE  <<d, j>> \in Places(ir, Workload)
    BY DEF RemoteReaders
  <2>1. ir[d][j] \in Workload
    BY <1>1, SeqElements
  <2> QED
    BY <2>1 DEF Places
<1> QED
  BY <1>1, <1>2, PlacesFinite, FS_Subset, FS_CardinalityType

LEMMA ReadsAreReaders ==
    ASSUME TypeInv, NEW p \in Core, NEW t
    PROVE  RemoteReads(p, t) \subseteq RemoteReaders(ir, p, t)
<1> SUFFICES ASSUME NEW d, NEW j, Waits(d, j, p, t)
             PROVE  <<d, j>> \in RemoteReaders(ir, p, t)
  BY InRemoteReads
<1>1. d \in Core \ {p} /\ j \in idx[d] .. Len(ir[d]) /\ Reads(d, j, p, t)
  BY DEF Waits
<1>2. j \in DOMAIN ir[d]
  <2>1. ir[d] \in Seq(Workload) /\ idx[d] \in Nat \ {0}
    BY <1>1, InTick DEF CoreTypeOK, FsmTypeOK
  <2> QED
    BY <1>1, <2>1
<1> DEFINE x == <<d, j>>
<1>3. x \in UNION {{<<e, l>> : l \in DOMAIN ir[e]} : e \in Core \ {p}}
  BY <1>1, <1>2
<1>4. x[1] = d /\ x[2] = j
  OBVIOUS
<1> HIDE DEF x
<1>5. x \in RemoteReaders(ir, p, t)
  BY <1>1, <1>3, <1>4 DEF RemoteReaders, Reads
<1> QED
  BY <1>5 DEF x

(* What is published has a reference for each claim there can be, and they are
   all there if nobody is past its read. *)
LEMMA PublishedClaims ==
    ASSUME AddressInv, CountedPrograms, Orderly, NEW p, NEW i, NEW k, NEW out,
           IsOutput(p, i, k, out), ~Published(p, i, k), Published(p, i, k)'
    PROVE  /\ LocalReads(p, out.tid)' = FutureUses(p, out.tid)
           /\ Writing1(p, i, out)' <=> ToDram(out)
<1> DEFINE t == out.tid
<1>1. /\ TypeInv /\ TypeInv' /\ UNCHANGED ir /\ ir \in Programs /\ p \in Core
      /\ idx'[p] = idx[p] /\ i = idx[p] /\ Stage(p)' = "outputs"
      /\ out \in ToSet(ir[p][i].outputs) /\ i \in DOMAIN ir[p] /\ i \in Nat
  BY NextTyped, NextKeepsIr, OutputFacts, PublishedNow DEF AddressInv, Orderly
<1>2. \A j, l : LocalUse(p, j, l, t) => j # i /\ j \in Nat
  <2> SUFFICES ASSUME NEW j, NEW l, LocalUse(p, j, l, t)
               PROVE  i < j /\ j \in Nat
    BY <1>1
  <2>1. ir[p] \in Seq(Workload) /\ j \in DOMAIN ir[p]
    BY <1>1, InTick DEF CoreTypeOK, FsmTypeOK, LocalUse
  <2>2. ir[p][j] \in Workload /\ j \in Nat
    BY <2>1, SeqElements
  <2>3. ir[p][j].sources \in Seq(Source)
    BY <2>2 DEF Workload
  <2>4. PICK s \in ToSet(ir[p][j].sources) : s.tid = t
    BY <2>3, InToSet DEF LocalUse
  <2>5. SourcesFollowOutputs(ir)
    BY <1>1 DEF CountedPrograms
  <2> QED
    BY <1>1, <2>1, <2>2, <2>4, <2>5 DEF SourcesFollowOutputs
<1>3. \A j, l : LocalWaits(p, j, l, t)' <=> LocalUse(p, j, l, t) /\ j > idx[p]
  <2>1. \A j, l : LocalUse(p, j, l, t)' <=> LocalUse(p, j, l, t)
    BY <1>1 DEF LocalUse
  <2> QED
    BY <1>1, <1>2, <2>1 DEF LocalWaits
<1>4. LocalReads(p, t)' = FutureUses(p, t)
  <2>1. \A x : x \in LocalReads(p, t)' <=> x \in FutureUses(p, t)
    BY <1>1, <1>3, InLocalReads, InFutureUses
  <2> QED
    BY <2>1
<1>5. Writing1(p, i, out)' <=> ToDram(out)
  BY <1>1 DEF Writing1, ToDram
<1> QED
  BY <1>4, <1>5

(* The entry a publication makes. *)
LEMMA PublishedEntry ==
    ASSUME TypeInv, NoEntryBefore, Orderly, ~OutputLost, NEW p, NEW i, NEW k, NEW out,
           IsOutput(p, i, k, out), ~Published(p, i, k), Published(p, i, k)'
    PROVE  /\ IsReady(sram'[p], out.tid)
           /\ sram'[p].entries[out.tid].ref = OutputRefs(p, out)
           /\ OutputRefs(p, out) \in Nat
<1> DEFINE t == out.tid
           mid == Allocate(sram[p], t, out.size, OutputRefs(p, out))
           new == MarkReady(mid, t)
<1>1. /\ p \in Core /\ cur = p /\ PublishOutput /\ Outputs(p)[cursor] = out /\ out \in Output
      /\ CoreTypeOK
  BY PublishedNow, OutputFacts, InTick
<1>2. SramTypeOK(sram[p]) /\ OutputRefs(p, out) \in Nat /\ t \in Tid /\ out.size \in Nat
  BY <1>1, SramKnown, OutputRefsTyped DEF Output
<1>3. SramTypeOK(mid)
  BY <1>2, AllocateTyped
<1>4. sram' = [sram EXCEPT ![p] = new]
  BY <1>1 DEF PublishOutput
<1>5. ~HasData(sram[p], t)
  BY DEF NoEntryBefore, IsOutput
<1>6. CanAllocate(sram[p], t, out.size)
  BY <1>1 DEF OutputLost
<1>7. HasData(mid, t)
  BY <1>2, <1>6, AllocateEntry
<1>8. mid.entries[t].ref = OutputRefs(p, out)
  BY <1>2, <1>5, <1>7, AllocateEntry
<1> HIDE DEF mid
<1>9. IsReady(new, t) /\ new.entries[t].ref = mid.entries[t].ref
  BY <1>3, <1>7, MarkReadyEntry DEF Alike
<1> HIDE DEF new
<1>10. sram'[p] = new
  BY <1>1, <1>4, SramKnown
<1> QED
  BY <1>2, <1>8, <1>9, <1>10

LEMMA NewKept ==
    ASSUME AddressInv, NoEntryBefore, CountedPrograms, Orderly, ~OutputLost,
           NEW p, NEW i, NEW k, NEW out, IsOutput(p, i, k, out),
           ~Published(p, i, k), Published(p, i, k)'
    PROVE  Kept(p, out.tid, ReadsLeft(p, i, out))'
<1> DEFINE t == out.tid
           remote1 == Cardinality(RemoteReads(p, t)')
           readers == Cardinality(RemoteReaders(ir, p, t))
           uses == Cardinality(FutureUses(p, t))
<1>1. /\ TypeInv /\ p \in Core /\ ir \in Programs
      /\ out \in ToSet(ir[p][i].outputs) /\ i \in DOMAIN ir[p] /\ out \in Output
  BY OutputFacts DEF AddressInv
<1>2. /\ IsReady(sram'[p], t) /\ sram'[p].entries[t].ref = OutputRefs(p, out)
  BY <1>1, PublishedEntry
<1>3. /\ LocalReads(p, t)' = FutureUses(p, t) /\ (Writing1(p, i, out)' <=> ToDram(out))
  BY PublishedClaims
<1>4. readers <= Listed(out) /\ Listed(out) \in Nat
  <2>1. DestsCoverReaders(ir)
    BY <1>1 DEF CountedPrograms
  <2>2. Listed(out) \in Nat
    BY <1>1, CountIsNat DEF Output, Listed
  <2> QED
    BY <1>1, <2>1, <2>2 DEF DestsCoverReaders
<1>5. remote1 <= readers /\ readers \in Nat /\ remote1 \in Nat
  <2>1. RemoteReads(p, t)' \subseteq RemoteReaders(ir, p, t)
    BY <1>1, RemoteReadsShrink, ReadsAreReaders
  <2> QED
    BY <1>1, <2>1, ReadersFinite, FS_Subset, FS_CardinalityType
<1>6. OutputRefs(p, out) = Listed(out) + uses + (IF ToDram(out) THEN 1 ELSE 0)
  BY <1>1, InFutureUses DEF OutputRefs, Listed
<1>7. /\ uses \in Nat
      /\ ReadsLeft(p, i, out)' = remote1 + uses + (IF ToDram(out) THEN 1 ELSE 0)
  BY <1>1, <1>3, ReadsLeftTyped
<1> HIDE DEF t, remote1, readers, uses
<1>8. OutputRefs(p, out) >= ReadsLeft(p, i, out)'
  BY <1>4, <1>5, <1>6, <1>7
<1> QED
  BY <1>2, <1>8 DEF Kept, t

LEMMA KeepsData ==
    ASSUME KeepInv, CountedPrograms, Orderly, ~OutputLost
    PROVE  ConsumersKeepData'
<1>1. UNCHANGED ir /\ AddressInv /\ NoEntryBefore
  BY NextKeepsIr DEF Orderly, KeepInv, LoadInv
<1> SUFFICES ASSUME NEW p, NEW i, NEW k, NEW out, IsOutput(p, i, k, out),
                    Published(p, i, k)', ReadsLeft(p, i, out)' > 0
             PROVE  Kept(p, out.tid, ReadsLeft(p, i, out))'
  BY <1>1, EachKept DEF IsOutput
<1> QED
  BY <1>1, StaysKept, NewKept

-----------------------------------------------------------------------------
(* The rest of the invariant.                                              *)

LEMMA LoadingStage ==
    ASSUME NEW c \in Core
    PROVE  /\ TypeInv /\ state[c] = "LOADING" => Stage(c) = "LOADING"
           /\ TypeInv' /\ state'[c] = "LOADING" => Stage(c)' = "LOADING"
           /\ TypeInv /\ Stage(c) = "LOADING" => state[c] = "LOADING"
           /\ TypeInv /\ state[c] = "WRITEBACK" => Stage(c) \in {"WRITEBACK", "queue"}
           /\ TypeInv' /\ state'[c] = "WRITEBACK" => Stage(c)' \in {"WRITEBACK", "queue"}
           /\ TypeInv /\ Stage(c) \in {"WRITEBACK", "queue"} => state[c] = "WRITEBACK"
  BY DEF TypeInv, TypeOK, CoreTypeOK, FsmTypeOK, CoreState, Control, PcMatchesState,
         Stage, Loops

LEMMA KeepsLoads ==
    ASSUME AddressInv, LoadsOfWorkload, Orderly
    PROVE  LoadsOfWorkload'
<1>1. TypeInv /\ TypeInv' /\ UNCHANGED ir
  BY NextTyped, NextKeepsIr DEF AddressInv, Orderly
<1> SUFFICES ASSUME NEW c \in Core, state'[c] = "LOADING"
             PROVE  pendingLoads'[c] \subseteq SourceTids(c)'
  BY DEF LoadsOfWorkload
<1>2. Stage(c)' = "LOADING" /\ Turn(c)
  BY <1>1, LoadingStage, EveryTurn
<1>3. Stage(c) \in {"IDLE", "LOADING"} /\ idx'[c] = idx[c]
  BY <1>1, <1>2, TurnStages
<1>4. SourceTids(c)' = SourceTids(c)
  BY <1>1, <1>3 DEF SourceTids, Sources, Current
<1>5. CASE Stage(c) = "LOADING"
  <2>1. pendingLoads'[c] \subseteq pendingLoads[c]
    BY <1>5, LoadingGoesOn
  <2> QED
    BY <1>1, <1>4, <1>5, <2>1, LoadingStage DEF LoadsOfWorkload
<1>6. CASE Stage(c) = "IDLE"
  BY <1>2, <1>4, <1>6 DEF Turn, Rests, Starts, Works, Moves, Iterates, Retires
<1> QED
  BY <1>3, <1>5, <1>6

(* A core that looks for an output of its own finds it. *)
LEMMA OwnIsFound ==
    ASSUME KeepInv, CountedPrograms, NEW c \in Core, NEW s, Fetches(c, s),
           OutputOf(c, s.tid)
    PROVE  IsReady(sram[c], s.tid)
<1> DEFINE t == s.tid
<1>1. /\ TypeInv /\ AddressInv /\ ir \in Programs /\ HasWorkload(c)
      /\ state[c] = "LOADING" /\ cursor \in DOMAIN Sources(c) /\ s = Sources(c)[cursor]
      /\ ir[c] \in Seq(Workload) /\ idx[c] \in Nat
  BY InTick DEF KeepInv, LoadInv, AddressInv, Fetches, CoreTypeOK, FsmTypeOK
<1>2. Stage(c) = "LOADING"
  BY <1>1, LoadingStage
<1>3. Sources(c) \in Seq(Source) /\ s \in ToSet(Sources(c)) /\ idx[c] \in DOMAIN ir[c]
  <2>1. Sources(c) \in Seq(Source)
    BY <1>1, InTick, CurrentTyped
  <2> QED
    BY <1>1, <2>1, InToSet, SourceOfOutput
<1>4. PICK i \in DOMAIN ir[c] : \E out \in ToSet(ir[c][i].outputs) : out.tid = t
  BY DEF OutputOf
<1>5. PICK out \in ToSet(ir[c][i].outputs) : out.tid = t
  BY <1>4
<1>6. s.from = c /\ i < idx[c]
  <2>1. SourcesFollowOutputs(ir) /\ s \in ToSet(ir[c][idx[c]].sources)
    BY <1>1, <1>3 DEF CountedPrograms, Sources, Current
  <2> QED
    BY <1>3, <1>4, <1>5, <2>1 DEF SourcesFollowOutputs
<1>7. PICK k \in DOMAIN ir[c][i].outputs : out = ir[c][i].outputs[k]
  <2>1. ir[c][i] \in Workload
    BY <1>1, SeqElements
  <2>2. ir[c][i].outputs \in Seq(Output)
    BY <2>1 DEF Workload
  <2> QED
    BY <2>2, <1>5, InToSet
<1>8. IsOutput(c, i, k, out) /\ Published(c, i, k)
  BY <1>6, <1>7 DEF IsOutput, Published
<1>9. LocalWaits(c, idx[c], cursor, t)
  BY <1>1, <1>2, <1>3, <1>6 DEF LocalWaits, LocalUse, Sources, Current
<1>10. <<idx[c], cursor>> \in LocalReads(c, t)
  BY <1>1, <1>9, InLocalReads
<1>11. ReadsLeft(c, i, out) > 0
  <2>1. IsFiniteSet(LocalReads(c, t)) /\ Cardinality(LocalReads(c, t)) \in Nat
        /\ Cardinality(RemoteReads(c, t)) \in Nat
    BY <1>1, ClaimsFinite
  <2>2. Cardinality(LocalReads(c, t)) # 0
    BY <1>10, <2>1, FS_EmptySet
  <2>3. WritebackLeft(c, i, out) \in {0, 1}
    BY DEF WritebackLeft
  <2> QED
    BY <1>5, <2>1, <2>2, <2>3 DEF ReadsLeft
<1> QED
  BY <1>5, <1>8, <1>11, EachKept DEF KeepInv, Kept

LEMMA KeepsOwnAtHand ==
    ASSUME KeepInv, CountedPrograms, Orderly
    PROVE  OwnOutputsAtHand'
<1>1. TypeInv /\ TypeInv' /\ UNCHANGED ir /\ AddressInv /\ OwnOutputsAtHand
  BY NextTyped, NextKeepsIr DEF KeepInv, LoadInv, AddressInv, Orderly
<1>2. pendingLoads \in [Core -> SUBSET Tid] /\ requested \in [Core -> SUBSET Tid]
  BY <1>1, InTick DEF CoreTypeOK, LoadTypeOK
<1> SUFFICES ASSUME NEW c \in Core, NEW t, state'[c] = "LOADING",
                    t \in pendingLoads'[c], t \in requested'[c], OutputOf(c, t)
             PROVE  FALSE
  <2>1. \A c, t : OutputOf(c, t)' <=> OutputOf(c, t)
    BY <1>1 DEF OutputOf
  <2> QED
    BY <2>1 DEF OwnOutputsAtHand, Awaited
<1>3. Stage(c)' = "LOADING" /\ Turn(c)
  BY <1>1, LoadingStage, EveryTurn
<1>4. Stage(c) = "LOADING" /\ state[c] = "LOADING"
  <2>1. Stage(c) \in {"IDLE", "LOADING"}
    BY <1>1, <1>3, TurnStages
  <2>2. Stage(c) # "IDLE"
    BY <1>3 DEF Turn, Rests, Starts, Works, Moves, Iterates, Retires
  <2> QED
    BY <1>1, <2>1, <2>2, LoadingStage
<1>5. t \in pendingLoads[c]
  BY <1>1, <1>4, LoadingGoesOn
<1>6. t \notin requested[c]
  BY <1>1, <1>4, <1>5 DEF OwnOutputsAtHand, Awaited
<1>7. RequestStep
  BY <1>1, RequestSteps
<1>8. PICK d \in Core, s \in Source : Fetches(d, s)
  BY <1>4, <1>6, <1>7 DEF RequestStep, AsksNothing, Answered
<1>9. d = c /\ s.tid = t
  BY <1>2, <1>6, <1>8 DEF Fetches
<1>10. IsReady(sram[c], t)
  BY <1>8, <1>9, OwnIsFound
<1>11. AsksNot(c, s)
  BY <1>8, <1>9, <1>10 DEF Fetches, AsksFor
<1> QED
  BY <1>2, <1>6, <1>9, <1>11 DEF AsksNot

LEMMA NewEntry ==
    ASSUME TypeInv, NEW p \in Core, MemoryStep(p), NEW t,
           HasData(sram'[p], t), ~HasData(sram[p], t)
    PROVE  \/ /\ t \in Awaited(p) /\ sram'[p].entries[t].ref = InputRefs(p, t)
              /\ cur = p /\ pc \in {"incoming", "retry"} /\ pc' = pc /\ cur' = cur
              /\ UNCHANGED <<state, idx, requested>>
           \/ Publishes(p) /\ Outputs(p)[cursor].tid = t
<1>1. SramTypeOK(sram[p])
  BY SramKnown
<1>2. CASE Gets(p)
  BY <1>1, <1>2, AllocateEntry DEF Gets
<1>3. CASE Marks(p)
  BY <1>1, <1>3, MarkReadyEntry DEF Marks, Alike
<1>4. ASSUME NEW u, sram' = [sram EXCEPT ![p] = ReleaseRef(@, u)]
      PROVE  FALSE
  <2>1. sram'[p] = ReleaseRef(sram[p], u)
    BY <1>4, ReleaseStep
  <2> QED
    BY <1>1, <2>1, ReleaseEntry DEF Alike
<1>5. CASE Answering(p)
  <2>1. PICK req : cur = p /\ \E d \in Core : Answered(req, d)
    BY <1>5 DEF Answering
  <2>2. sram' = [sram EXCEPT ![p] = ReleaseRef(@, req.tid)]
    BY <2>1 DEF Answered, Answers
  <2> QED
    BY <1>4, <2>2
<1>6. CASE Acknowledged(p)
  BY <1>4, <1>6 DEF Acknowledged, ReceiveWriteResponse
<1>7. CASE Frees(p)
  BY <1>4, <1>7 DEF Frees, FreeInput
<1>8. CASE Publishes(p)
  <2> DEFINE out == Outputs(p)[cursor]
             mid == Allocate(sram[p], out.tid, out.size, OutputRefs(p, out))
             new == MarkReady(mid, out.tid)
  <2>1. sram' = [sram EXCEPT ![p] = new]
    BY <1>8 DEF Publishes, PublishOutput
  <2>2. HasData(mid, t) => out.tid = t
    BY <1>1, AllocateEntry
  <2>3. HasData(new, t) => HasData(mid, t)
    <3> HIDE DEF mid
    <3> QED
      BY DEF MarkReady, HasData
  <2> HIDE DEF new
  <2>4. sram'[p] = new
    BY <2>1, SramKnown
  <2> QED
    BY <1>8, <2>2, <2>3, <2>4
<1> QED
  BY <1>2, <1>3, <1>5, <1>6, <1>7, <1>8 DEF MemoryStep

LEMMA KeepsEntriesAway ==
    ASSUME KeepInv, CountedPrograms, Orderly
    PROVE  NoEntryBefore'
<1>1. /\ TypeInv /\ UNCHANGED ir /\ AddressInv /\ LoadInv /\ WritebackInv
      /\ OwnOutputsAtHand /\ NoEntryBefore /\ ir \in Programs
  BY NextKeepsIr DEF KeepInv, LoadInv, AddressInv, Orderly
<1> SUFFICES ASSUME NEW p, NEW i, NEW k, NEW out, IsOutput(p, i, k, out),
                    ~Published(p, i, k)', HasData(sram'[p], out.tid)
             PROVE  FALSE
  BY <1>1 DEF NoEntryBefore, IsOutput
<1>2. p \in Core /\ i \in Nat /\ k \in Nat /\ OutputOf(p, out.tid)
  BY <1>1, OutputFacts
<1>3. ~Published(p, i, k)
  BY <1>1, <1>2, PublishedStays
<1>4. ~HasData(sram[p], out.tid)
  BY <1>1, <1>3 DEF NoEntryBefore, IsOutput
<1>5. out.tid \notin Awaited(p)
  BY <1>1, <1>2 DEF OwnOutputsAtHand
<1>6. Publishes(p) /\ Outputs(p)[cursor].tid = out.tid
  BY <1>1, <1>2, <1>4, <1>5, MemorySteps, NewEntry
<1>7. /\ cur = p /\ pc = "outputs" /\ cursor <= Len(Outputs(p)) /\ idx'[p] = idx[p]
      /\ pc' = pc /\ cur' = cur /\ cursor' = cursor + 1 /\ cursor \in Nat \ {0}
  BY <1>1, <1>6, InTick DEF Publishes, PublishOutput, NextIteration, fsmVars, CoreTypeOK,
                            TickTypeOK
<1>8. HasWorkload(p) /\ Outputs(p) \in Seq(Output)
  <2>1. Stage(p) = "outputs"
    BY <1>7 DEF Stage, Loops
  <2> QED
    BY <1>1, <1>7, <2>1, StageOfTick DEF Loops
<1>9. i = idx[p] /\ k = cursor
  <2>1. idx[p] \in DOMAIN ir[p] /\ cursor \in DOMAIN Outputs(p)
    BY <1>1, <1>7, <1>8, InTick DEF HasWorkload, CoreTypeOK, FsmTypeOK
  <2>2. OutputsOnce(ir)
    BY <1>1 DEF CountedPrograms
  <2>3. /\ i \in DOMAIN ir[p] /\ k \in Outs(ir, p, i) /\ cursor \in Outs(ir, p, idx[p])
        /\ ir[p][i].outputs[k].tid = ir[p][idx[p]].outputs[cursor].tid
    BY <1>6, <2>1 DEF IsOutput, Outs, Outputs, Current
  <2> QED
    BY <1>2, <2>1, <2>2, <2>3 DEF OutputsOnce
<1>10. Published(p, i, k)'
  BY <1>7, <1>9 DEF Published
<1> QED
  BY <1>10

LEMMA KeepsWrites ==
    ASSUME WritebackInv, OwnWrites, Orderly
    PROVE  OwnWrites'
<1>1. TypeInv /\ TypeInv' /\ UNCHANGED ir /\ WritesUnderWay /\ CoreTypeOK
  BY NextTyped, NextKeepsIr, InTick DEF WritebackInv, AddressInv, Orderly
<1> SUFFICES ASSUME NEW c \in Core, state'[c] = "WRITEBACK", NEW t \in Unwritten(c)'
             PROVE  \E out \in ToSet(Outputs(c)') : ToDram(out) /\ out.tid = t
  BY DEF OwnWrites, Unwritten, ToDram
<1>2. Stage(c)' \in {"WRITEBACK", "queue"} /\ Turn(c)
  BY <1>1, LoadingStage, EveryTurn
<1>3. idx'[c] = idx[c]
  BY <1>1, <1>2, TurnStages
<1>4. Outputs(c)' = Outputs(c)
  BY <1>1, <1>3 DEF Outputs, Current
<1>5. CASE cur = c /\ EnterWriteback
  <2>1. pendingWb'[c] = pendingWb[c] /\ wbQueue'[c] = <<>> /\ state[c] = "COMPUTING"
    BY <1>1, <1>5 DEF EnterWriteback, CoreTypeOK, WbTypeOK, ChunkSeqs, TypeInv, Control,
                      PcMatchesState
  <2>2. ToSet(<<>>) = {} /\ pendingWb[c] = {}
    BY <1>1, <2>1 DEF ToSet, WritesUnderWay
  <2>3. Unwritten(c)' = pendingWb'[c] \cup {chunk.tid : chunk \in ToSet(wbQueue'[c])}
    BY UnwrittenIs
  <2> QED
    BY <2>1, <2>2, <2>3
<1>6. CASE ~(cur = c /\ EnterWriteback)
  <2>1. Stage(c) \in {"WRITEBACK", "queue"}
    BY <1>2, <1>6 DEF Turn, Rests, Starts, Works, Retires, Moves, Iterates
  <2>2. \A u \in Unwritten(c) : \E out \in ToSet(Outputs(c)) : ToDram(out) /\ out.tid = u
    BY <1>1, <2>1, LoadingStage DEF OwnWrites, Unwritten
  <2>3. UnwrittenStep(c)
    BY <1>1, UnwrittenSteps
  <2>4. CASE t \in Unwritten(c)
    BY <1>4, <2>2, <2>4
  <2>5. CASE t \notin Unwritten(c)
    <3>1. /\ QueueWriteback /\ cur = c /\ cursor \in DOMAIN Outputs(c)
          /\ ToDram(Outputs(c)[cursor]) /\ t = Outputs(c)[cursor].tid
      BY <1>6, <2>3, <2>5, UnwrittenIs DEF UnwrittenStep
    <3>2. Outputs(c) \in Seq(Output)
      BY <1>1, <2>1, StageOfTick, <3>1 DEF Loops
    <3>3. Outputs(c)[cursor] \in ToSet(Outputs(c))
      BY <3>1, <3>2, InToSet
    <3> QED
      BY <1>4, <3>1, <3>3
  <2> QED
    BY <2>4, <2>5
<1> QED
  BY <1>5, <1>6

LEMMA NextKeep ==
    ASSUME CountedPrograms, SourcesHaveBytes, CoreIdsAreNodes, KeepInv, Orderly, ~OutputLost
    PROVE  KeepInv'
<1>1. WritesEachOnce
  <2> SUFFICES ASSUME NEW prog \in Programs, NEW c \in Core, NEW i \in DOMAIN prog[c],
                      NEW j \in DOMAIN prog[c][i].outputs,
                      NEW k \in DOMAIN prog[c][i].outputs,
                      prog[c][i].outputs[j].tid = prog[c][i].outputs[k].tid
               PROVE  j = k
    BY DEF WritesEachOnce
  <2>1. OutputsOnce(prog)
    BY DEF CountedPrograms
  <2> QED
    BY <2>1 DEF OutputsOnce, Outs
<1>2. LoadInv /\ WritebackInv /\ AddressInv
  BY DEF KeepInv, LoadInv
<1>3. LoadInv' /\ WritebackInv'
  BY <1>1, <1>2, NextLoads, NextWrites DEF Orderly
<1>4. LoadsOfWorkload' /\ OwnOutputsAtHand' /\ NoEntryBefore' /\ OwnWrites'
  BY <1>2, KeepsLoads, KeepsOwnAtHand, KeepsEntriesAway, KeepsWrites DEF KeepInv
<1> QED
  BY <1>3, <1>4, KeepsData DEF KeepInv

LEMMA NothingPublished ==
    ASSUME Init, NEW p \in Core, NEW i \in DOMAIN ir[p], NEW k
    PROVE  ~Published(p, i, k) /\ ~HasData(sram[p], k) /\ state[p] = "IDLE"
<1>1. /\ idx[p] = 1 /\ state[p] = "IDLE" /\ pc = "incoming" /\ sram[p] = EmptySram
  BY DEF Init, CoreInit
<1>2. ~HasData(EmptySram, k)
  BY DEF HasData, EmptySram
<1>3. i \in Nat /\ ~(i < idx[p])
  <2>1. ir[p] \in Seq(Workload)
    BY InitTyped, InTick DEF CoreTypeOK, FsmTypeOK
  <2> QED
    BY <1>1, <2>1
<1>4. ~Published(p, i, k)
  BY <1>1, <1>3 DEF Published
<1> QED
  BY <1>1, <1>2, <1>4

LEMMA InitKeep ==
    ASSUME Init
    PROVE  KeepInv
<1>1. state = [c \in Core |-> "IDLE"]
  BY DEF Init, CoreInit
<1>2. LoadsOfWorkload /\ OwnOutputsAtHand /\ OwnWrites
  BY <1>1 DEF LoadsOfWorkload, OwnOutputsAtHand, OwnWrites, Awaited
<1>3. NoEntryBefore /\ ConsumersKeepData
  <2>1. NoEntryBefore
    BY NothingPublished DEF NoEntryBefore
  <2>2. ConsumersKeepData
    BY NothingPublished, EachKept DEF IsOutput
  <2> QED
    BY <2>1, <2>2
<1> QED
  BY <1>2, <1>3, InitLoads, InitWrites DEF KeepInv

LEMMA ExcludedAreSteps ==
    ASSUME TypeInv, UNCHANGED vars, ForcedLoad \/ AbandonWriteback \/ OutputLost
    PROVE  FALSE
<1>1. ForcedLoad \/ AbandonWriteback => pc = "resolve" /\ pc' = "incoming"
  BY DEF ForcedLoad, BreakCycle, RelievePressure, AbandonWriteback, Resolved, Step
<1>2. OutputLost => cursor' = cursor + 1 /\ cursor \in Nat
  BY InTick DEF OutputLost, PublishOutput, NextIteration, CoreTypeOK, TickTypeOK
<1> QED
  BY <1>1, <1>2 DEF vars, coreVars

(* As long as the watchdog stays out and no output is lost for want of room, a
   published output is in its producer's memory, ready and with a reference for
   each, while a workload of another core has not been answered, a later workload
   of its own has not freed it, or the DRAM has not acknowledged it.  An output
   has to list a destination for each workload of another core that reads it. *)
THEOREM ConsumersKept ==
    ASSUME CountedPrograms, SourcesHaveBytes, CoreIdsAreNodes
    PROVE  Spec /\ [][~ForcedLoad]_vars /\ [][~AbandonWriteback]_vars
                /\ [][~OutputLost]_vars => []ConsumersKeepData
<1>1. Init => KeepInv
  BY InitKeep
<1>2. KeepInv /\ [Next]_vars /\ [~ForcedLoad]_vars /\ [~AbandonWriteback]_vars
              /\ [~OutputLost]_vars => KeepInv'
  <2> SUFFICES ASSUME KeepInv, [Next]_vars, [~ForcedLoad]_vars, [~AbandonWriteback]_vars,
                      [~OutputLost]_vars
               PROVE  KeepInv'
    OBVIOUS
  <2>1. TypeInv
    BY DEF KeepInv, LoadInv, AddressInv
  <2>2. ~ForcedLoad /\ ~AbandonWriteback /\ ~OutputLost
    BY <2>1, ExcludedAreSteps
  <2> QED
    BY <2>2, NextKeep DEF Orderly
<1>3. KeepInv => ConsumersKeepData
  BY DEF KeepInv
<1> QED
  BY <1>1, <1>2, <1>3, PTL DEF Spec

-----------------------------------------------------------------------------
(* Read requests go to the core that outputs what they ask for.            *)

LEMMA SameProducers ==
    ASSUME ir' = ir
    PROVE  /\ \A c, t : OutputOf(c, t)' <=> OutputOf(c, t)
           /\ \A p : ToProducer(p)' <=> ToProducer(p)
           /\ \A c, p : AtProducer(c, p)' <=> AtProducer(c, p)
           /\ \A p : OnItsWay(p)' <=> OnItsWay(p)
<1>1. \A c, t : OutputOf(c, t)' <=> OutputOf(c, t)
  BY DEF OutputOf
<1>2. \A t : NoOutput(t)' <=> NoOutput(t)
  BY <1>1 DEF NoOutput
<1> QED
  BY <1>1, <1>2 DEF ToProducer, AtProducer, OnItsWay

(* What is new in the queues of core c goes where its data comes from. *)
LEMMA CoreReadsKept ==
    ASSUME ReadsGoToProducers, ir' = ir, UNCHANGED transportVars,
           NEW c, NEW sent, NEW waiting,
           Adds(injection, injection', c, sent), \A p \in sent : ToProducer(p),
           Adds(ejection, ejection', c, {}),
           Adds(remote, remote', c, waiting), \A p \in waiting : AtProducer(c, p)
    PROVE  ReadsGoToProducers'
<1>1. \A d \in Core : \A p \in ToSet(injection'[d]) : ToProducer(p)
  BY DEF Adds, ReadsGoToProducers
<1>2. \A d \in Core : \A p \in ToSet(ejection'[d]) : AtProducer(d, p)
  BY DEF Adds, ReadsGoToProducers
<1>3. \A d \in Core : \A p \in ToSet(remote'[d]) : AtProducer(d, p)
  BY DEF Adds, ReadsGoToProducers
<1>4. /\ \A d \in Core : \A p \in ToSet(injection'[d]) : ToProducer(p)'
      /\ \A d \in Core : \A p \in ToSet(ejection'[d]) \cup ToSet(remote'[d]) : AtProducer(d, p)'
  BY <1>1, <1>2, <1>3, SameProducers
<1>5. /\ \A f \in ToSet(noc') : OnItsWay(f.pkt)'
      /\ \A f \in ToSet(dram') : ~IsRead(f.pkt)
      /\ \A p \in ToSet(dramReplies') : ~IsRead(p)
  BY SameProducers DEF ReadsGoToProducers, transportVars
<1> QED
  BY <1>4, <1>5 DEF ReadsGoToProducers, IsRead

LEMMA SameReads ==
    ASSUME ReadsGoToProducers, ir' = ir,
           UNCHANGED <<netVars, remote, transportVars>>
    PROVE  ReadsGoToProducers'
<1>1. \A X : \A c : /\ Adds(injection, injection', c, X) /\ Adds(ejection, ejection', c, X)
                    /\ Adds(remote, remote', c, X)
  BY AddsSame DEF netVars
<1> QED
  BY <1>1, CoreReadsKept

LEMMA ResponseIsNoRead ==
    ASSUME NEW c, NEW req
    PROVE  ~IsRead(Response(c, req)) /\ ToProducer(Response(c, req))
  BY DEF IsRead, Response, ToProducer

LEMMA AnswerReads ==
    ASSUME AddressInv, ReadsGoToProducers, UNCHANGED transportVars,
           ReceiveReadRequest \/ ServeRemoteRequest
    PROVE  ReadsGoToProducers'
<1>0. TypeInv /\ cur \in Core /\ remote \in Queues(Packet)
  BY CurrentTyped, QueuesTyped, InTick DEF AddressInv, CoreTypeOK, TickTypeOK
<1>1. CASE ReceiveReadRequest
  <2>1. /\ Arriving \in Packet /\ Arriving \in ToSet(ejection[cur])
        /\ Adds(ejection, ejection', cur, {}) /\ ir' = ir /\ ReadRequest(Arriving)
    <3>1. ejection[cur] \in Seq(Packet) /\ ejection[cur] # <<>>
      BY <1>0, <1>1, QueuesTyped DEF ReceiveReadRequest, Incoming, Queues
    <3>2. Arriving \in ToSet(ejection[cur])
      BY <3>1, HeadTailQueue DEF Arriving
    <3>3. Incoming("READ_REQUEST") /\ ir' = ir
      BY <1>1 DEF ReceiveReadRequest
    <3> QED
      BY <3>2, <3>3, ArrivingGiven DEF GivenTo, Answer, ReadResponse
  <2>2. AtProducer(cur, Arriving)
    BY <1>0, <2>1 DEF ReadsGoToProducers
  <2>3. Response(cur, Arriving) \in Packet
    <3>1. Arriving.src \in CoreNodes
      BY <1>1, ArrivingGiven DEF GivenTo, Answer, ReadResponse, ReceiveReadRequest
    <3> QED
      BY <1>0, <2>1, <3>1, ResponseTyped
  <2>4. /\ Adds(injection, injection', cur, {Response(cur, Arriving)})
        /\ Adds(remote, remote', cur, {Arriving})
    <3>1. CASE IsReady(sram[cur], Arriving.tid)
      <4>1. Push(cur, Response(cur, Arriving)) /\ remote' = remote
        BY <1>1, <3>1 DEF ReceiveReadRequest, Arriving
      <4> QED
        BY <1>0, <2>3, <4>1, AddsPush, AddsSame
    <3>2. CASE ~IsReady(sram[cur], Arriving.tid)
      <4>1. /\ Changes(remote, remote', cur, Append(remote[cur], Arriving))
            /\ injection' = injection
        BY <1>1, <3>2 DEF ReceiveReadRequest, Changes, Arriving
      <4> QED
        BY <1>0, <2>1, <4>1, AddsPushed, AddsSame
    <3> QED
      BY <3>1, <3>2
  <2> HIDE DEF Arriving
  <2> QED
    BY <2>1, <2>2, <2>4, ResponseIsNoRead, CoreReadsKept
<1>2. CASE ServeRemoteRequest
  <2> DEFINE req == remote[cur][cursor]
  <2>1. /\ remote[cur] \in Seq(Packet) /\ cursor \in 1 .. Len(remote[cur])
    BY <1>0, <1>2, InTick DEF ServeRemoteRequest, CoreTypeOK, TickTypeOK, Queues
  <2>2. req \in Packet /\ req \in ToSet(remote[cur])
    BY <2>1, InToSet
  <2>3. ReadRequest(req) /\ req.src \in CoreNodes
    BY <1>0, <2>2 DEF AddressInv, CoresAddressed
  <2>4. Response(cur, req) \in Packet
    BY <1>0, <2>2, <2>3, ResponseTyped
  <2>5. Adds(ejection, ejection', cur, {}) /\ ir' = ir
    BY <1>2, AddsSame DEF ServeRemoteRequest
  <2>6. /\ Adds(injection, injection', cur, {Response(cur, req)})
        /\ Adds(remote, remote', cur, {})
    <3>1. CASE IsReady(sram[cur], req.tid) /\ ~InjectionFull(cur)
      <4>1. /\ Push(cur, Response(cur, req))
            /\ Changes(remote, remote', cur, RemoveAt(remote[cur], cursor))
        BY <1>2, <3>1 DEF ServeRemoteRequest, Changes
      <4> HIDE DEF req
      <4> QED
        BY <1>0, <2>1, <2>4, <4>1, AddsPush, AddsTaken
    <3>2. CASE ~(IsReady(sram[cur], req.tid) /\ ~InjectionFull(cur))
      BY <1>2, <3>2, AddsSame DEF ServeRemoteRequest
    <3> QED
      BY <3>1, <3>2
  <2> HIDE DEF req
  <2> QED
    BY <2>5, <2>6, ResponseIsNoRead, CoreReadsKept
<1> QED
  BY <1>1, <1>2

(* What a core asks for comes from the core that the source names. *)
LEMMA FetchReads ==
    ASSUME AddressInv, ReadsGoToProducers, CountedPrograms, ReadersListed(ir),
           FetchSource, UNCHANGED transportVars
    PROVE  ReadsGoToProducers'
<1> DEFINE s == Sources(cur)[cursor]
           request == [type |-> "READ_REQUEST", src |-> cur, dst |-> s.from,
                       tid |-> s.tid, size |-> s.size]
<1>1. /\ s \in Source /\ request \in Packet /\ cur \in Core /\ TypeInv
  BY FetchedHasBytes
<1>2. PICK d \in Core : \E r \in Source :
        d = cur /\ r = Sources(d)[cursor] /\ cursor \in DOMAIN Sources(d)
  BY FetchSourceAsks
<1>3. /\ HasWorkload(cur) /\ Sources(cur) \in Seq(Source) /\ idx[cur] \in DOMAIN ir[cur]
  <2>1. Stage(cur) = "LOADING"
    BY <1>1, StageOfTick DEF FetchSource, CoreState
  <2>2. HasWorkload(cur) /\ Sources(cur) \in Seq(Source)
    BY <1>1, <2>1, StageOfTick
  <2>3. ir[cur] \in Seq(Workload) /\ idx[cur] \in Nat \ {0}
    BY <1>1 DEF FsmTypeOK, CoreTypeOK, TypeInv, TypeOK
  <2> QED
    BY <2>2, <2>3 DEF HasWorkload
<1>4. s \in ToSet(ir[cur][idx[cur]].sources)
  <2>1. s \in ToSet(Sources(cur))
    BY <1>2, <1>3, InToSet
  <2> QED
    BY <2>1 DEF Sources, Current
<1>5. s.from = DRAM => ToProducer(request)
  <2> HAVE s.from = DRAM
  <2>1. NoOutput(s.tid)
    <3> SUFFICES ASSUME NEW p \in Core, OutputOf(p, s.tid) PROVE FALSE
      BY DEF NoOutput
    <3>1. SourcesFollowOutputs(ir) /\ s \in ToSet(ir[cur][idx[cur]].sources)
      BY <1>4 DEF CountedPrograms, AddressInv
    <3>2. PICK i \in DOMAIN ir[p] : \E out \in ToSet(ir[p][i].outputs) : out.tid = s.tid
      BY DEF OutputOf
    <3> HIDE DEF s
    <3>3. s.from = p
      BY <1>1, <1>3, <3>1, <3>2 DEF SourcesFollowOutputs
    <3> QED
      BY <3>3, CoreConstant DEF DRAM, s
  <2> QED
    BY <2>1 DEF ToProducer
<1>6. s.from # DRAM => ToProducer(request)
  <2> HAVE s.from # DRAM
  <2>1. s.from \in Core
    BY <1>1 DEF Source, Endpoint
  <2> HIDE DEF s
  <2>2. OutputOf(s.from, s.tid)
    BY <1>1, <1>3, <1>4 DEF ReadersListed, OutputOf, s
  <2> QED
    BY <2>1, <2>2 DEF ToProducer, s
<1>7. injection' = injection \/ Push(cur, request)
  BY DEF FetchSource
<1>8. /\ Adds(ejection, ejection', cur, {}) /\ Adds(remote, remote', cur, {}) /\ ir' = ir
  BY AddsSame DEF FetchSource
<1>9. ToProducer(request)
  BY <1>5, <1>6
<1> HIDE DEF request
<1>10. Adds(injection, injection', cur, {request})
  BY <1>1, <1>7, AddsPush, AddsSame
<1> QED
  BY <1>8, <1>9, <1>10, CoreReadsKept

LEMMA SendWriteReads ==
    ASSUME AddressInv, ReadsGoToProducers, WritebackCycle, SendWrite,
           UNCHANGED transportVars
    PROVE  ReadsGoToProducers'
<1>1. /\ WriteRequest \in Packet /\ Push(cur, WriteRequest) /\ cur \in Core /\ TypeInv
      /\ ToProducer(WriteRequest)
  BY WriteRequestTyped DEF AddressInv, ToProducer, IsRead, WriteRequest
<1>2. /\ Adds(ejection, ejection', cur, {}) /\ Adds(remote, remote', cur, {}) /\ ir' = ir
  BY AddsSame DEF WritebackCycle
<1> HIDE DEF WriteRequest
<1>3. Adds(injection, injection', cur, {WriteRequest})
  BY <1>1, AddsPush
<1> QED
  BY <1>1, <1>2, <1>3, CoreReadsKept

LEMMA ResponseReads ==
    ASSUME AddressInv, ReadsGoToProducers, UNCHANGED transportVars,
           ReceiveReadResponse \/ ReceiveWriteResponse \/ RetryAllocation
    PROVE  ReadsGoToProducers'
<1>1. CASE RetryAllocation
  BY <1>1, SameReads DEF RetryAllocation
<1>2. CASE ReceiveReadResponse \/ ReceiveWriteResponse
  <2>1. \A X : Adds(ejection, ejection', cur, X)
    BY <1>2, ArrivingGiven DEF ReceiveReadResponse, ReceiveWriteResponse
  <2>2. /\ \A X : Adds(injection, injection', cur, X) /\ Adds(remote, remote', cur, X)
        /\ ir' = ir
    BY <1>2, AddsSame DEF ReceiveReadResponse, ReceiveWriteResponse
  <2> QED
    BY <2>1, <2>2, CoreReadsKept
<1> QED
  BY <1>1, <1>2

LEMMA SilentReads ==
    ASSUME ReadsGoToProducers, SilentStep, UNCHANGED transportVars
    PROVE  ReadsGoToProducers'
<1>1. UNCHANGED <<netVars, remote>> /\ ir' = ir
  BY DEF SilentStep, EndIncoming, EndRetry, DrainUnlimited, DrainLimited, EndDrain,
         EndServe, RetireCore, StartWorkload, EndFetch, ComputeCycle, PublishOutput,
         EndOutputs, FreeInput, FinishWorkload, EnterWriteback, QueueWriteback,
         EndQueue, WritebackCycle, NothingToWrite, ReadOut, IdleTick, netVars
<1> QED
  BY <1>1, SameReads

LEMMA CoreTickReads ==
    ASSUME AddressInv, ReadsGoToProducers, CountedPrograms, ReadersListed(ir),
           CoreTick, UNCHANGED transportVars
    PROVE  ReadsGoToProducers'
<1>1. \/ ReceiveReadRequest \/ ServeRemoteRequest
      \/ ReceiveReadResponse \/ ReceiveWriteResponse \/ RetryAllocation
      \/ FetchSource \/ (WritebackCycle /\ SendWrite) \/ SilentStep
  BY DEF CoreTick, SilentStep
<1> QED
  BY <1>1, AnswerReads, ResponseReads, FetchReads, SendWriteReads, SilentReads

-----------------------------------------------------------------------------
(* And so they do on their way.                                            *)

LEMMA TransportReadsKept ==
    ASSUME ReadsGoToProducers, QuietCores, NEW c, NEW given,
           Adds(injection, injection', c, {}),
           Adds(ejection, ejection', c, given), \A p \in given : AtProducer(c, p),
           \A f \in ToSet(noc') : (\E g \in ToSet(noc) : g.pkt = f.pkt) \/ OnItsWay(f.pkt),
           \A f \in ToSet(dram') : (\E g \in ToSet(dram) : g.pkt = f.pkt) \/ ~IsRead(f.pkt),
           \A p \in ToSet(dramReplies') : p \in ToSet(dramReplies) \/ ~IsRead(p)
    PROVE  ReadsGoToProducers'
<1>0. ir' = ir /\ remote' = remote
  BY DEF QuietCores
<1>1. /\ \A d \in Core : \A p \in ToSet(injection'[d]) : ToProducer(p)
      /\ \A d \in Core : \A p \in ToSet(ejection'[d]) : AtProducer(d, p)
      /\ \A d \in Core : \A p \in ToSet(remote'[d]) : AtProducer(d, p)
  BY <1>0 DEF Adds, ReadsGoToProducers
<1>2. /\ \A f \in ToSet(noc') : OnItsWay(f.pkt)
      /\ \A f \in ToSet(dram') : ~IsRead(f.pkt)
      /\ \A p \in ToSet(dramReplies') : ~IsRead(p)
  BY DEF ReadsGoToProducers
<1>3. /\ \A d \in Core : \A p \in ToSet(injection'[d]) : ToProducer(p)'
      /\ \A d \in Core : \A p \in ToSet(ejection'[d]) \cup ToSet(remote'[d]) : AtProducer(d, p)'
      /\ \A f \in ToSet(noc') : OnItsWay(f.pkt)'
  BY <1>0, <1>1, <1>2, SameProducers
<1> QED
  BY <1>2, <1>3 DEF ReadsGoToProducers, IsRead

LEMMA RoutedReads ==
    ASSUME NEW c \in Core, NEW p \in Packet, SentBy(c, p), ~(p.dst = DRAM /\ ~OnNoc),
           ToProducer(p), NEW q \in Routed(p)
    PROVE  OnItsWay(q)
<1> SUFFICES ASSUME IsRead(q) PROVE OnItsWay(q)
  BY DEF OnItsWay
<1>1. q.type = p.type /\ q.tid = p.tid
  BY RoutedOnNetwork DEF Routed, Packet
<1>2. IsRead(p)
  BY <1>1 DEF IsRead
<1>3. CASE p.dst = DRAM /\ NoOutput(p.tid)
  <2>1. q.dst \in ToSet(MemoryNodes)
    BY <1>3 DEF Routed, Packet
  <2> QED
    BY <1>1, <1>3, <2>1 DEF OnItsWay
<1>4. CASE p.dst \in Core /\ OutputOf(p.dst, p.tid)
  <2>1. q.dst = NodeId(p.dst)
    <3>1. p.dst # DRAM
      BY <1>4, CoreConstant DEF DRAM
    <3>2. CASE OnNoc
      <4>1. q.dst = CoreToNoc(p.dst)
        BY <3>1, <3>2 DEF Routed, Packet
      <4> QED
        BY <1>4, <3>2, <4>1, NodesApart
    <3>3. CASE ~OnNoc
      BY <1>4, <3>3, NodesApart DEF Routed
    <3> QED
      BY <3>2, <3>3
  <2> QED
    BY <1>1, <1>4, <2>1 DEF OnItsWay
<1> QED
  BY <1>2, <1>3, <1>4 DEF ToProducer

LEMMA CollectPacketReads ==
    ASSUME AddressInv, ReadsGoToProducers, NEW c \in Core, CollectPacket(c)
    PROVE  ReadsGoToProducers'
<1> DEFINE p == Head(injection[c])
<1>1. /\ TypeInv /\ CoresAddressed /\ QuietCores
      /\ injection \in Queues(Packet) /\ injection[c] \in Seq(Packet)
      /\ injection[c] # <<>>
  BY QueuesTyped DEF CollectPacket, Queues, AddressInv
<1>2. p \in Packet /\ p \in ToSet(injection[c])
  BY <1>1, HeadTailQueue
<1>3. SentBy(c, p) /\ ToProducer(p)
  BY <1>1, <1>2 DEF CoresAddressed, ReadsGoToProducers
<1>4. /\ Adds(injection, injection', c, {}) /\ Adds(ejection, ejection', c, {})
  <2>1. Changes(injection, injection', c, Tail(injection[c])) /\ ejection' = ejection
    BY DEF CollectPacket, Changes
  <2> QED
    BY <1>1, <2>1, AddsPopped, AddsSame
<1>5. CASE p.dst = DRAM /\ ~OnNoc
  <2>1. DramSend(p) /\ UNCHANGED <<noc, dramReplies>>
    BY <1>5 DEF CollectPacket
  <2> HIDE DEF p
  <2>2. \A f \in ToSet(dram') : f \in ToSet(dram) \/ ~IsRead(f.pkt)
    BY <1>1, <1>2, <2>1, DramSendEnters, ReplyIsNoRead
  <2> QED
    BY <1>1, <1>4, <2>1, <2>2, TransportReadsKept
<1>6. CASE ~(p.dst = DRAM /\ ~OnNoc)
  <2>1. UNCHANGED <<dram, dramReplies>> /\ \E q \in Routed(p) : NocInject(q)
    BY <1>6 DEF CollectPacket
  <2>2. PICK q \in Routed(p) : NocInject(q)
    BY <2>1
  <2> HIDE DEF p
  <2>3. q \in Packet /\ OnItsWay(q)
    BY <1>2, <1>3, <1>6, RoutedTyped, RoutedReads
  <2>4. \A f \in ToSet(noc') : f \in ToSet(noc) \/ OnItsWay(f.pkt)
    BY <1>1, <2>2, <2>3, NocInjectEnters
  <2> QED
    BY <1>1, <1>4, <2>1, <2>4, TransportReadsKept
<1> QED
  BY <1>5, <1>6

LEMMA DeliverToCoreReads ==
    ASSUME AddressInv, ReadsGoToProducers, NEW c \in Core, DeliverToCore(c)
    PROVE  ReadsGoToProducers'
<1>1. TypeInv /\ QuietCores
  BY DEF AddressInv, DeliverToCore
<1>2. PICK i \in 1 .. Len(noc) :
        /\ noc[i].pkt.dst = NodeId(c)
        /\ Receive(c, noc[i].pkt) /\ noc' = RemoveAt(noc, i)
  BY <1>1, DeliverToCoreMoves
<1>3. UNCHANGED <<injection, dram, dramReplies>>
  BY <1>1, DeliverToCoreMoves
<1>4. /\ noc[i] \in ToSet(noc) /\ noc[i].pkt \in Packet
      /\ ToSet(noc') \subseteq ToSet(noc)
  BY <1>1, <1>2, QueuesTyped, LeavesFlight
<1>5. OnItsWay(noc[i].pkt)
  BY <1>4 DEF ReadsGoToProducers
<1>6. AtProducer(c, noc[i].pkt)
  BY <1>2, <1>5, NodesApart DEF OnItsWay, AtProducer
<1>7. /\ Adds(injection, injection', c, {}) /\ Adds(ejection, ejection', c, {noc[i].pkt})
  BY <1>1, <1>2, <1>3, <1>4, AddsSame, AddsReceive
<1> QED
  BY <1>1, <1>3, <1>4, <1>6, <1>7, TransportReadsKept

LEMMA ForwardToDramReads ==
    ASSUME AddressInv, ReadsGoToProducers, NEW m \in DOMAIN MemoryNodes, ForwardToDram(m)
    PROVE  ReadsGoToProducers'
<1>1. TypeInv /\ QuietCores
  BY DEF AddressInv, ForwardToDram
<1>2. PICK i \in 1 .. Len(noc) :
        /\ noc[i].pkt.dst \in ToSet(MemoryNodes)
        /\ DramSend(noc[i].pkt) /\ noc' = RemoveAt(noc, i)
  BY <1>1, ForwardToDramMoves
<1>3. UNCHANGED <<injection, ejection, remote, retry, dramReplies>>
  BY <1>1, ForwardToDramMoves
<1>4. /\ noc[i].pkt \in Packet /\ ToSet(noc') \subseteq ToSet(noc)
  BY <1>1, <1>2, QueuesTyped, LeavesFlight
<1>5. \A f \in ToSet(dram') : f \in ToSet(dram) \/ ~IsRead(f.pkt)
  BY <1>1, <1>2, <1>4, DramSendEnters, ReplyIsNoRead
<1>6. Adds(injection, injection', cur, {}) /\ Adds(ejection, ejection', cur, {})
  BY <1>3, AddsSame
<1> QED
  BY <1>1, <1>3, <1>4, <1>5, <1>6, TransportReadsKept

LEMMA DeliverDramResponseReads ==
    ASSUME AddressInv, ReadsGoToProducers, DeliverDramResponse
    PROVE  ReadsGoToProducers'
<1>1. TypeInv /\ QuietCores
  BY DEF AddressInv, DeliverDramResponse
<1>2. PICK i \in 1 .. Len(dram) :
        /\ dram' = RemoveAt(dram, i)
        /\ \/ /\ dramReplies' = Append(dramReplies, dram[i].pkt)
              /\ ejection' = ejection
           \/ Receive(dram[i].pkt.dst, dram[i].pkt) /\ dramReplies' = dramReplies /\ ~OnNoc
  BY <1>1, DeliverDramResponseMoves
<1>3. UNCHANGED <<injection, remote, noc>>
  BY <1>1 DEF DeliverDramResponse, QuietCores
<1>4. /\ dram[i] \in ToSet(dram) /\ dram[i].pkt \in Packet
      /\ ToSet(dram') \subseteq ToSet(dram)
  BY <1>1, <1>2, QueuesTyped, LeavesFlight
<1>5. ~IsRead(dram[i].pkt)
  BY <1>4 DEF ReadsGoToProducers
<1>6. CASE /\ dramReplies' = Append(dramReplies, dram[i].pkt)
           /\ ejection' = ejection
  <2>1. ToSet(dramReplies') = ToSet(dramReplies) \cup {dram[i].pkt}
    BY <1>1, <1>4, <1>6, QueuesTyped, AppendQueue
  <2>2. Adds(injection, injection', cur, {}) /\ Adds(ejection, ejection', cur, {})
    BY <1>3, <1>6, AddsSame
  <2> QED
    BY <1>1, <1>3, <1>4, <1>5, <2>1, <2>2, TransportReadsKept
<1>7. CASE Receive(dram[i].pkt.dst, dram[i].pkt) /\ dramReplies' = dramReplies /\ ~OnNoc
  <2>1. dram[i].pkt.dst \in Core
    BY <1>4, <1>7, NodesApart DEF AddressInv, TransportAddressed, FromMemory
  <2>2. PICK c \in Core : c = dram[i].pkt.dst
    BY <2>1
  <2>3. /\ Adds(injection, injection', c, {})
        /\ Adds(ejection, ejection', c, {dram[i].pkt}) /\ AtProducer(c, dram[i].pkt)
    BY <1>1, <1>3, <1>4, <1>5, <1>7, <2>2, AddsSame, AddsReceive DEF AtProducer
  <2> QED
    BY <1>1, <1>3, <1>4, <1>7, <2>3, TransportReadsKept
<1> QED
  BY <1>2, <1>6, <1>7

LEMMA TransportReads ==
    ASSUME AddressInv, ReadsGoToProducers, TransportStep
    PROVE  ReadsGoToProducers'
<1>1. TypeInv /\ QuietCores
  BY TransportQuiet DEF AddressInv
<1>2. ASSUME NEW c \in Core, CollectPacket(c) \/ DeliverToCore(c)
      PROVE  ReadsGoToProducers'
  BY <1>2, CollectPacketReads, DeliverToCoreReads
<1>3. CASE \E m \in DOMAIN MemoryNodes : ForwardToDram(m)
  BY <1>3, ForwardToDramReads
<1>4. CASE InjectDramResponse
  <2> DEFINE p == Head(dramReplies)
  <2>1. dramReplies \in Seq(Packet) /\ dramReplies # <<>>
    BY <1>1, <1>4, QueuesTyped DEF InjectDramResponse
  <2>2. /\ p \in Packet /\ p \in ToSet(dramReplies)
        /\ ToSet(Tail(dramReplies)) \subseteq ToSet(dramReplies)
    BY <2>1, HeadTailQueue
  <2>3. NocInject(p) /\ dramReplies' = Tail(dramReplies) /\ UNCHANGED <<dram, netVars>>
    BY <1>4 DEF InjectDramResponse
  <2> HIDE DEF p
  <2>4. OnItsWay(p)
    BY <2>2 DEF ReadsGoToProducers, OnItsWay
  <2>5. Adds(injection, injection', cur, {}) /\ Adds(ejection, ejection', cur, {})
    BY <2>3, AddsSame DEF netVars
  <2>6. \A f \in ToSet(noc') : f \in ToSet(noc) \/ OnItsWay(f.pkt)
    BY <1>1, <2>2, <2>3, <2>4, NocInjectEnters
  <2> QED
    BY <1>1, <2>2, <2>3, <2>5, <2>6, TransportReadsKept
<1>5. CASE Advance
  <2>1. noc' = OneCycle(noc) /\ dram' = OneCycle(dram) /\ UNCHANGED <<dramReplies, netVars>>
    BY <1>5 DEF Advance
  <2> HIDE DEF OneCycle
  <2>2. Adds(injection, injection', cur, {}) /\ Adds(ejection, ejection', cur, {})
    BY <2>1, AddsSame DEF netVars
  <2>3. /\ \A f \in ToSet(noc') : \E g \in ToSet(noc) : g.pkt = f.pkt
        /\ \A f \in ToSet(dram') : \E g \in ToSet(dram) : g.pkt = f.pkt
    BY <1>1, <2>1, QueuesTyped, OneCycleAddressed
  <2> QED
    BY <1>1, <2>1, <2>2, <2>3, TransportReadsKept
<1>6. CASE DeliverDramResponse
  BY <1>6, DeliverDramResponseReads
<1>7. CASE \/ EndCollect \/ EndReply \/ EndDeliver \/ EndForward \/ EndRespond
           \/ NextCycle \/ CheckProgress \/ GiveUp
  <2>1. UNCHANGED <<netVars, remote, transportVars>> /\ ir' = ir
    BY <1>7 DEF EndCollect, EndReply, EndDeliver, EndForward, EndRespond, NextCycle,
                CheckProgress, GiveUp, QuietCores
  <2> QED
    BY <2>1, SameReads
<1> QED
  BY <1>2, <1>3, <1>4, <1>5, <1>6, <1>7 DEF TransportStep

LEMMA KeepsReads ==
    ASSUME AddressInv, ReadsGoToProducers, CountedPrograms, ReadersListed(ir), Orderly
    PROVE  ReadsGoToProducers'
<1>1. CASE UNCHANGED vars
  BY <1>1, SameReads DEF vars, coreVars
<1> QED
  BY <1>1, OrderlySteps, CoreTickReads, TransportReads

-----------------------------------------------------------------------------
(* An input has as many references as it has uses left.                    *)

LEMMA InputStage ==
    ASSUME NEW c \in Core, NEW t
    PROVE  /\ TypeInv =>
                /\ state[c] \in {"LOADING", "COMPUTING"} <=>
                      Stage(c) \in {"LOADING", "COMPUTING", "outputs", "free"}
                /\ \A k : k \in InputUses(c, t) <=>
                      /\ k \in DOMAIN Sources(c) /\ Sources(c)[k].tid = t
                      /\ Stage(c) = "free" => k >= At(c)
           /\ TypeInv' =>
                /\ state'[c] \in {"LOADING", "COMPUTING"} <=>
                      Stage(c)' \in {"LOADING", "COMPUTING", "outputs", "free"}
                /\ \A k : k \in InputUses(c, t)' <=>
                      /\ k \in DOMAIN Sources(c)' /\ Sources(c)'[k].tid = t
                      /\ Stage(c)' = "free" => k >= At(c)'
<1>1. ASSUME TypeInv
      PROVE  /\ state[c] \in {"LOADING", "COMPUTING"} <=>
                   Stage(c) \in {"LOADING", "COMPUTING", "outputs", "free"}
             /\ cur = c /\ pc = "free" <=> Stage(c) = "free"
             /\ Stage(c) = "free" => At(c) = cursor
  BY <1>1 DEF TypeInv, TypeOK, CoreTypeOK, FsmTypeOK, Control, PcMatchesState, Stage, At,
              Loops, CoreState
<1>2. ASSUME TypeInv'
      PROVE  /\ state'[c] \in {"LOADING", "COMPUTING"} <=>
                   Stage(c)' \in {"LOADING", "COMPUTING", "outputs", "free"}
             /\ cur' = c /\ pc' = "free" <=> Stage(c)' = "free"
             /\ Stage(c)' = "free" => At(c)' = cursor'
  BY <1>2 DEF TypeInv, TypeOK, CoreTypeOK, FsmTypeOK, Control, PcMatchesState, Stage, At,
              Loops, CoreState
<1> QED
  BY <1>1, <1>2 DEF InputUses

LEMMA SameSources ==
    ASSUME NEW c \in Core, UNCHANGED ir, idx'[c] = idx[c]
    PROVE  Sources(c)' = Sources(c)
  BY DEF Sources, Current

LEMMA InputUsesFinite ==
    ASSUME TypeInv, NEW c \in Core, HasWorkload(c), NEW t
    PROVE  IsFiniteSet(InputUses(c, t)) /\ Cardinality(InputUses(c, t)) \in Nat
<1>1. Sources(c) \in Seq(Source)
  BY CurrentTyped DEF TypeInv, TypeOK
<1>2. IsFiniteSet(DOMAIN Sources(c))
  BY <1>1, FS_Interval
<1>3. InputUses(c, t) \subseteq DOMAIN Sources(c)
  BY DEF InputUses
<1> QED
  BY <1>2, <1>3, FS_Subset, FS_CardinalityType

(* The uses of an input while its entry is not touched. *)
LEMMA UsesStay ==
    ASSUME AddressInv, Orderly, NEW c \in Core, NEW t, InputHeld(c, t),
           ~(Frees(c) /\ Sources(c)[cursor].tid = t)
    PROVE  /\ InputUses(c, t)' = InputUses(c, t)
           /\ state'[c] \in {"LOADING", "COMPUTING"}
           /\ state'[c] = "LOADING" => t \in requested'[c]
<1>1. TypeInv /\ TypeInv' /\ UNCHANGED ir /\ Turn(c)
  BY NextTyped, NextKeepsIr, EveryTurn DEF AddressInv, Orderly
<1>2. /\ Stage(c) \in {"LOADING", "COMPUTING", "outputs", "free"}
      /\ state[c] = "LOADING" => t \in requested[c]
      /\ InputUses(c, t) # {}
  BY <1>1, InputStage DEF InputHeld
<1>3. HasWorkload(c) /\ Sources(c) \in Seq(Source)
  <2>1. HasWorkload(c)
    BY <1>1 DEF InputHeld, TypeInv, Control, WorkingHasWorkload
  <2> QED
    BY <1>1, <2>1, CurrentTyped DEF TypeInv, TypeOK
<1>4. ~(Stage(c) = "free" /\ Through(c, Sources(c)))
  <2> SUFFICES ASSUME Stage(c) = "free", At(c) > Len(Sources(c)) PROVE FALSE
    BY DEF Through
  <2>1. PICK k : k \in DOMAIN Sources(c) /\ k >= At(c)
    BY <1>1, <1>2, InputStage
  <2>2. At(c) \in Nat
    BY <1>1 DEF At, TypeInv, TypeOK, CoreTypeOK, TickTypeOK
  <2> QED
    BY <1>3, <2>1, <2>2
<1>5. /\ idx'[c] = idx[c] /\ Stage(c)' \in {"LOADING", "COMPUTING", "outputs", "free"}
      /\ Stage(c)' = "LOADING" => Stage(c) = "LOADING"
      /\ \/ Stage(c)' = "free" /\ Stage(c) = "outputs" /\ At(c)' = 1
         \/ Stage(c) = "free" /\ Stage(c)' = "free" /\ At(c)' = At(c)
         \/ Stage(c) = "free" /\ Stage(c)' = "free" /\ At(c)' = At(c) + 1
            /\ At(c) \in DOMAIN Sources(c) /\ FreeInput /\ cur = c
         \/ Stage(c)' # "free" /\ Stage(c) # "free"
  BY <1>1, <1>2, <1>4
  DEF Turn, Rests, Starts, Works, Moves, Iterates, Retires
<1>6. Sources(c)' = Sources(c)
  BY <1>1, <1>5, SameSources
<1>7. InputUses(c, t)' = InputUses(c, t)
  <2>1. CASE Stage(c) = "free" /\ Stage(c)' = "free" /\ At(c)' = At(c) + 1
             /\ At(c) \in DOMAIN Sources(c) /\ FreeInput /\ cur = c
    <3>1. Frees(c) /\ At(c) = cursor
      <4>1. UNCHANGED transportVars
        <5>1. CASE TransportStep
          BY <2>1, <5>1, TransportQuiet DEF FreeInput, Loops
        <5>2. CASE UNCHANGED vars
          BY <5>2 DEF vars
        <5> QED
          BY <5>1, <5>2, OrderlySteps
      <4> QED
        BY <2>1, <4>1 DEF Frees, At, FreeInput, Loops
    <3>2. Sources(c)[At(c)].tid # t
      BY <3>1
    <3>3. \A k \in DOMAIN Sources(c) : Sources(c)[k].tid = t => (k >= At(c) + 1 <=> k >= At(c))
      BY <1>3, <2>1, <3>2
    <3>4. \A k : k \in InputUses(c, t)' <=> k \in InputUses(c, t)
      BY <1>1, <1>6, <2>1, <3>3, InputStage
    <3> QED
      BY <3>4, Zenon
  <2>2. CASE \/ Stage(c) = "free" /\ Stage(c)' = "free" /\ At(c)' = At(c)
             \/ Stage(c)' # "free" /\ Stage(c) # "free"
    <3>1. \A k : k \in InputUses(c, t)' <=> k \in InputUses(c, t)
      BY <1>1, <1>6, <2>2, InputStage
    <3> QED
      BY <3>1, Zenon
  <2>3. CASE Stage(c)' = "free" /\ Stage(c) = "outputs" /\ At(c)' = 1
    <3>1. \A k \in DOMAIN Sources(c) : k >= 1
      BY <1>3
    <3>2. \A k : k \in InputUses(c, t)' <=> k \in InputUses(c, t)
      BY <1>1, <1>6, <2>3, <3>1, InputStage
    <3> QED
      BY <3>2, Zenon
  <2> QED
    BY <1>5, <2>1, <2>2, <2>3
<1>8. state'[c] \in {"LOADING", "COMPUTING"}
  BY <1>1, <1>5, InputStage
<1>9. ASSUME state'[c] = "LOADING"
      PROVE  t \in requested'[c]
  <2>1. Stage(c) = "LOADING" /\ state[c] = "LOADING"
    BY <1>1, <1>5, <1>9, LoadingStage
  <2> QED
    BY <1>2, <2>1, LoadingGoesOn
<1> QED
  BY <1>7, <1>8, <1>9

(* A reference is released with the use it stands for. *)
LEMMA FreedInput ==
    ASSUME AddressInv, Orderly, NEW c \in Core, NEW t, HasData(sram[c], t),
           InputHeld(c, t), Frees(c), Sources(c)[cursor].tid = t,
           HasData(sram'[c], t)
    PROVE  InputHeld(c, t)'
<1>1. TypeInv /\ TypeInv' /\ UNCHANGED <<ir, state, idx, requested>> /\ cursor \in Nat
      /\ SramTypeOK(sram[c])
  BY NextTyped, NextKeepsIr, SramKnown, InTick
  DEF AddressInv, Orderly, Frees, FreeInput, fsmVars, loadVars, CoreTypeOK, TickTypeOK
<1>2. /\ Stage(c) = "free" /\ At(c) = cursor /\ Stage(c)' = "free" /\ At(c)' = cursor + 1
  BY <1>1 DEF Stage, At, Loops, Frees, FreeInput, NextIteration
<1>3. /\ HasWorkload(c) /\ Sources(c) \in Seq(Source) /\ Sources(c)' = Sources(c)
      /\ cursor \in DOMAIN Sources(c)
  <2>1. HasWorkload(c) /\ Sources(c) \in Seq(Source)
    BY <1>1, <1>2, StageOfTick DEF Loops, Frees
  <2>2. cursor \in Nat \ {0}
    BY <1>1, InTick DEF CoreTypeOK, TickTypeOK
  <2> QED
    BY <1>1, <2>1, <2>2, SameSources DEF Frees, FreeInput
<1>4. cursor \in InputUses(c, t)
  BY <1>1, <1>2, <1>3, InputStage
<1>5. InputUses(c, t)' = InputUses(c, t) \ {cursor}
  <2>1. \A k \in DOMAIN Sources(c) : k >= cursor + 1 <=> k >= cursor /\ k # cursor
    BY <1>1, <1>3
  <2>2. \A k : k \in InputUses(c, t)' <=> k \in InputUses(c, t) /\ k # cursor
    BY <1>1, <1>2, <1>3, <2>1, InputStage
  <2> QED
    BY <2>2
<1>6. /\ IsFiniteSet(InputUses(c, t)) /\ Cardinality(InputUses(c, t)) \in Nat
      /\ Cardinality(InputUses(c, t)') = Cardinality(InputUses(c, t)) - 1
  <2>1. IsFiniteSet(InputUses(c, t)) /\ Cardinality(InputUses(c, t)) \in Nat
    BY <1>1, <1>3, InputUsesFinite
  <2>2. Cardinality(InputUses(c, t) \ {cursor}) = Cardinality(InputUses(c, t)) - 1
    BY <1>4, <2>1, FS_RemoveElement
  <2> QED
    BY <1>5, <2>1, <2>2
<1>7. sram'[c] = ReleaseRef(sram[c], t)
  BY <1>1, ReleaseStep DEF Frees, FreeInput
<1>8. sram'[c].entries[t].ref = sram[c].entries[t].ref - 1 /\ sram[c].entries[t].ref >= 2
  BY <1>1, <1>7, ReleaseEntry
<1>9. sram[c].entries[t].ref = Cardinality(InputUses(c, t))
  BY DEF InputHeld
<1>10. Cardinality(InputUses(c, t)') # 0
  BY <1>6, <1>8, <1>9
<1>11. InputUses(c, t)' # {}
  BY <1>10, FS_EmptySet
<1> QED
  BY <1>1, <1>6, <1>8, <1>9, <1>11 DEF InputHeld

LEMMA KeepsInputs ==
    ASSUME KeepInv, ReadsGoToProducers, InputsOfWorkload, Orderly
    PROVE  InputsOfWorkload'
<1>1. TypeInv /\ TypeInv' /\ UNCHANGED ir /\ AddressInv
  BY NextTyped, NextKeepsIr DEF KeepInv, LoadInv, AddressInv, Orderly
<1> SUFFICES ASSUME NEW c \in Core, NEW t, HasData(sram'[c], t), ~OutputOf(c, t)
             PROVE  InputHeld(c, t)'
  BY <1>1, SameProducers DEF InputsOfWorkload, HasData
<1>2. MemoryStep(c)
  BY MemorySteps DEF KeepInv
<1>3. CASE ~HasData(sram[c], t)
  <2>1. ~(Publishes(c) /\ Outputs(c)[cursor].tid = t)
    <3> SUFFICES ASSUME Publishes(c), Outputs(c)[cursor].tid = t PROVE FALSE
      OBVIOUS
    <3>1. /\ Stage(c) = "outputs" /\ cursor \in Nat \ {0} /\ cursor <= Len(Outputs(c))
      BY <1>1, InTick
      DEF Publishes, PublishOutput, Stage, Loops, CoreTypeOK, TickTypeOK
    <3>2. HasWorkload(c) /\ Outputs(c) \in Seq(Output)
      BY <1>1, <3>1, StageOfTick DEF Loops, Publishes
    <3>3. Outputs(c)[cursor] \in ToSet(Outputs(c))
      BY <3>1, <3>2, InToSet
    <3>4. idx[c] \in DOMAIN ir[c]
      BY <1>1, <3>2 DEF HasWorkload, TypeInv, TypeOK, CoreTypeOK, FsmTypeOK
    <3> QED
      BY <3>3, <3>4 DEF OutputOf, Outputs, Current
  <2>2. /\ t \in Awaited(c) /\ sram'[c].entries[t].ref = InputRefs(c, t)
        /\ cur = c /\ pc \in {"incoming", "retry"} /\ pc' = pc /\ cur' = cur
        /\ UNCHANGED <<state, idx, requested>>
    BY <1>1, <1>2, <1>3, <2>1, NewEntry
  <2>3. state[c] = "LOADING" /\ t \in pendingLoads[c] /\ t \in requested[c]
    BY <2>2 DEF Awaited
  <2>4. t \in SourceTids(c) /\ HasWorkload(c)
    BY <1>1, <2>3 DEF KeepInv, LoadsOfWorkload, TypeInv, Control, WorkingHasWorkload
  <2>5. /\ InputUses(c, t)' = {k \in DOMAIN Sources(c) : Sources(c)[k].tid = t}
        /\ InputUses(c, t) = {k \in DOMAIN Sources(c) : Sources(c)[k].tid = t}
    BY <1>1, <2>2, SameSources DEF InputUses
  <2>6. InputUses(c, t) # {}
    <3>1. PICK s \in ToSet(Sources(c)) : s.tid = t
      BY <2>4 DEF SourceTids
    <3> QED
      BY <2>5, <3>1 DEF ToSet
  <2>7. Cardinality(InputUses(c, t)) > 0
    <3>1. IsFiniteSet(InputUses(c, t)) /\ Cardinality(InputUses(c, t)) \in Nat
      BY <1>1, <2>4, InputUsesFinite
    <3> QED
      BY <2>6, <3>1, FS_EmptySet
  <2>8. InputRefs(c, t) = Cardinality(InputUses(c, t))
    BY <2>4, <2>5, <2>7 DEF InputRefs
  <2> QED
    BY <2>2, <2>3, <2>5, <2>6, <2>8 DEF InputHeld
<1>4. CASE HasData(sram[c], t)
  <2>1. InputHeld(c, t)
    BY <1>4 DEF InputsOfWorkload, HasData
  <2>2. CASE Frees(c) /\ Sources(c)[cursor].tid = t
    BY <1>1, <1>4, <2>1, <2>2, FreedInput
  <2>3. CASE ~(Frees(c) /\ Sources(c)[cursor].tid = t)
    <3>1. ~ClaimTaken(c, t)
      <4>1. ASSUME cur = c, NEW req, NEW d \in Core, Answered(req, d), req.tid = t
            PROVE  FALSE
        BY <4>1 DEF Answered, ReadsGoToProducers, AtProducer
      <4>2. ~(Acknowledged(c) /\ Arriving.tid = t)
        <5> SUFFICES ASSUME Acknowledged(c) PROVE FALSE
          OBVIOUS
        <5>1. pendingWb[c] # {}
          BY DEF Acknowledged
        <5>2. state[c] # "WRITEBACK"
          BY <2>1 DEF InputHeld
        <5> QED
          BY <5>1, <5>2 DEF KeepInv, WritebackInv, WritesUnderWay
      <4> QED
        BY <2>3, <4>1, <4>2 DEF ClaimTaken
    <3>2. Alike(sram[c], sram'[c], t)
      BY <1>1, <1>2, <1>4, <3>1, MemoryOfOutput
    <3>3. sram'[c].entries[t].ref = sram[c].entries[t].ref
      BY <1>4, <3>2 DEF Alike
    <3>4. /\ InputUses(c, t)' = InputUses(c, t)
          /\ state'[c] \in {"LOADING", "COMPUTING"}
          /\ state'[c] = "LOADING" => t \in requested'[c]
      BY <1>1, <2>1, <2>3, UsesStay
    <3> QED
      BY <2>1, <3>3, <3>4 DEF InputHeld
  <2> QED
    BY <2>2, <2>3
<1> QED
  BY <1>3, <1>4

-----------------------------------------------------------------------------
(* The collection of the write-backs.                                      *)

CalmStep ==
    /\ UNCHANGED <<ir, wbIssued, wbQueue>> /\ pc' # "queue"
    /\ \A c \in Core : state'[c] = "WRITEBACK" => state[c] = "WRITEBACK"

LEMMA CalmKeeps ==
    ASSUME WritesCollected, CalmStep
    PROVE  WritesCollected'
  BY DEF WritesCollected, CalmStep

LEMMA CalmTicks ==
    ASSUME TypeInv, CoreTick, ~EnterWriteback, ~QueueWriteback, ~WritebackCycle
    PROVE  CalmStep
<1>1. cur \in Core /\ state \in [Core -> CoreState]
  BY InTick DEF CoreTypeOK, FsmTypeOK, TickTypeOK
<1>2. CASE ReceiveReadResponse \/ ReceiveReadRequest \/ ReceiveWriteResponse \/ EndIncoming
  BY <1>2 DEF ReceiveReadResponse, ReceiveReadRequest, ReceiveWriteResponse, EndIncoming,
              Incoming, SameIteration, Goto, wbVars, fsmVars, CalmStep
<1>3. CASE RetryAllocation \/ EndRetry
  BY <1>3 DEF RetryAllocation, EndRetry, SameIteration, NextIteration, Goto, wbVars,
              fsmVars, CalmStep
<1>4. CASE DrainUnlimited \/ DrainLimited \/ EndDrain
  BY <1>4 DEF DrainUnlimited, DrainLimited, EndDrain, SameIteration, wbVars, fsmVars,
              CalmStep
<1>5. CASE ServeRemoteRequest \/ EndServe
  BY <1>1, <1>5 DEF ServeRemoteRequest, EndServe, SameIteration, NextIteration, Goto,
                    CoreState, wbVars, fsmVars, CalmStep
<1>6. CASE RetireCore \/ StartWorkload \/ FetchSource \/ EndFetch
  BY <1>1, <1>6 DEF RetireCore, StartWorkload, FetchSource, EndFetch, BeginCompute, EndTick,
                    NextIteration, wbVars, fsmVars, CalmStep
<1>7. CASE ComputeCycle \/ PublishOutput \/ EndOutputs \/ FreeInput \/ FinishWorkload
  BY <1>1, <1>7 DEF ComputeCycle, PublishOutput, EndOutputs, FreeInput, FinishWorkload,
                    NextWorkload, EndTick, Goto, NextIteration, wbVars, fsmVars, CalmStep
<1>8. CASE EndQueue \/ IdleTick
  BY <1>8 DEF EndQueue, IdleTick, EndTick, wbVars, fsmVars, CalmStep
<1> QED
  BY <1>2, <1>3, <1>4, <1>5, <1>6, <1>7, <1>8 DEF CoreTick

LEMMA KeepsCollected ==
    ASSUME TypeInv, WritesCollected, Orderly
    PROVE  WritesCollected'
<1>1. TypeInv' /\ UNCHANGED ir
  BY NextTyped, NextKeepsIr DEF Orderly
<1>2. CASE UNCHANGED vars
  BY <1>2 DEF vars, coreVars, fsmVars, wbVars, WritesCollected, Outputs, Current
<1>3. CASE TransportStep
  <2>1. CalmStep
    BY <1>3, TransportQuiet DEF QuietCores, fsmVars, wbVars, CalmStep, Loops
  <2> QED
    BY <2>1, CalmKeeps
<1>4. ASSUME CoreTick
      PROVE  WritesCollected'
  <2>1. PICK c \in Core : c = cur
    BY <1>4, InTick DEF CoreTypeOK, TickTypeOK
  <2>2. /\ state \in [Core -> CoreState] /\ wbIssued \in [Core -> BOOLEAN]
        /\ wbQueue \in [Core -> Seq(Chunk)] /\ cursor \in Nat \ {0}
    BY <1>4, InTick DEF CoreTypeOK, FsmTypeOK, WbTypeOK, TickTypeOK, ChunkSeqs
  <2>3. CASE EnterWriteback
    <3>1. /\ wbIssued'[c] = FALSE /\ pc' = "queue" /\ cursor' = 1 /\ cur' = c
          /\ \A d \in Core : d # c => /\ state'[d] = state[d] /\ wbIssued'[d] = wbIssued[d]
                                      /\ wbQueue'[d] = wbQueue[d]
      BY <2>1, <2>2, <2>3 DEF EnterWriteback, Goto
    <3>2. Outputs(c)' \in Seq(Output)
      <4>1. idx' = idx
        BY <2>3 DEF EnterWriteback
      <4>2. HasWorkload(c)
        BY <2>1, <2>3, StageOfTick DEF EnterWriteback, Stage, Loops
      <4>3. Outputs(c) \in Seq(Output)
        BY <4>2, CurrentTyped DEF TypeInv, TypeOK
      <4> QED
        BY <1>1, <4>1, <4>3 DEF Outputs, Current
    <3>3. \A k \in DOMAIN Outputs(c)' : ~(k < 1)
      BY <3>2
    <3>4. \A d \in Core : state'[d] = "WRITEBACK" /\ wbIssued'[d] => wbQueue'[d] = <<>>
      BY <3>1 DEF WritesCollected
    <3> QED
      BY <3>1, <3>3, <3>4 DEF WritesCollected
  <2>4. CASE QueueWriteback
    <3>1. /\ ~wbIssued[c] /\ wbIssued' = wbIssued /\ state' = state /\ idx' = idx
          /\ pc = "queue" /\ pc' = "queue" /\ cur' = c /\ cursor' = cursor + 1
          /\ \A d \in Core : d # c => wbQueue'[d] = wbQueue[d]
      BY <2>1, <2>2, <2>4
      DEF QueueWriteback, NextIteration, fsmVars, WritesCollected
    <3>2. HasWorkload(c) /\ Outputs(c) \in Seq(Output) /\ Outputs(c)' = Outputs(c)
      <4>1. HasWorkload(c) /\ Outputs(c) \in Seq(Output)
        BY <2>1, <3>1, StageOfTick DEF Stage, Loops
      <4> QED
        BY <1>1, <3>1, <4>1 DEF Outputs, Current
    <3>3. \A k \in DOMAIN Outputs(c) : k < cursor + 1 /\ ToDram(Outputs(c)[k]) =>
             \E chunk \in ToSet(wbQueue'[c]) : chunk.tid = Outputs(c)[k].tid
      <4> DEFINE out == Outputs(c)[cursor]
                 new == [tid |-> out.tid, size |-> out.size]
      <4>1. /\ cursor \in DOMAIN Outputs(c) /\ out \in Output
        BY <2>1, <2>2, <2>4, <3>2 DEF QueueWriteback
      <4>2. /\ ToDram(out) => wbQueue'[c] = Append(wbQueue[c], new)
            /\ ~ToDram(out) => wbQueue'[c] = wbQueue[c]
        BY <2>1, <2>2, <2>4 DEF QueueWriteback
      <4>3. new \in Chunk
        BY <4>1 DEF Chunk, Output
      <4>4. new.tid = out.tid
        OBVIOUS
      <4> HIDE DEF new
      <4>5. ToSet(Append(wbQueue[c], new)) = ToSet(wbQueue[c]) \cup {new}
        BY <2>2, <4>3, AppendQueue
      <4>6. \A k \in DOMAIN Outputs(c) : k < cursor /\ ToDram(Outputs(c)[k]) =>
               \E chunk \in ToSet(wbQueue[c]) : chunk.tid = Outputs(c)[k].tid
        BY <2>1, <3>1 DEF WritesCollected
      <4>7. \A k \in DOMAIN Outputs(c) : k < cursor + 1 => k < cursor \/ k = cursor
        BY <2>2, <3>2
      <4>8. ToSet(wbQueue[c]) \subseteq ToSet(wbQueue'[c])
        BY <4>2, <4>5
      <4>9. ToDram(out) => new \in ToSet(wbQueue'[c])
        BY <4>2, <4>5
      <4> SUFFICES ASSUME NEW k \in DOMAIN Outputs(c), k < cursor + 1, ToDram(Outputs(c)[k])
                   PROVE  \E chunk \in ToSet(wbQueue'[c]) : chunk.tid = Outputs(c)[k].tid
        OBVIOUS
      <4>10. CASE k < cursor
        BY <4>6, <4>8, <4>10
      <4>11. CASE k = cursor
        BY <4>4, <4>9, <4>11
      <4> QED
        BY <4>7, <4>10, <4>11
    <3>4. \A d \in Core : state'[d] = "WRITEBACK" /\ wbIssued'[d] => wbQueue'[d] = <<>>
      BY <3>1 DEF WritesCollected
    <3> QED
      BY <3>1, <3>2, <3>3, <3>4 DEF WritesCollected
  <2>5. CASE WritebackCycle
    <3>1. /\ pc = "WRITEBACK" /\ state[c] = "WRITEBACK" /\ pc' # "queue"
          /\ \A d \in Core : state'[d] = "WRITEBACK" => state[d] = "WRITEBACK"
      <4>1. pc = "WRITEBACK" /\ pc' # "queue"
        BY <2>5 DEF WritebackCycle, EndTick
      <4>2. state[c] = "WRITEBACK"
        BY <2>1, <4>1, StageOfTick DEF CoreState
      <4>3. \A d \in Core : state'[d] = "WRITEBACK" => state[d] = "WRITEBACK"
        BY <2>2, <2>5 DEF WritebackCycle, NextWorkload, fsmVars
      <4> QED
        BY <4>1, <4>2, <4>3
    <3>2. wbIssued[c] => wbQueue[c] = <<>>
      BY <3>1 DEF WritesCollected
    <3>3. CASE NothingToWrite
      <4>1. /\ wbQueue' = wbQueue /\ wbQueue[c] = <<>>
            /\ \A d \in Core : d # c => wbIssued'[d] = wbIssued[d]
        BY <2>1, <2>2, <3>3 DEF NothingToWrite
      <4> QED
        BY <3>1, <4>1 DEF WritesCollected
    <3>4. CASE ReadOut
      BY <3>1, <3>4 DEF ReadOut, WritesCollected
    <3>5. CASE SendWrite
      <4>1. /\ wbQueue[c] # <<>> /\ wbQueue'[c] = Tail(wbQueue[c])
            /\ wbIssued'[c] => wbIssued[c] \/ Tail(wbQueue[c]) = <<>>
            /\ \A d \in Core : d # c => /\ wbIssued'[d] = wbIssued[d]
                                        /\ wbQueue'[d] = wbQueue[d]
        BY <2>1, <2>2, <3>5 DEF SendWrite
      <4> QED
        BY <3>1, <3>2, <4>1 DEF WritesCollected
    <3> QED
      BY <2>5, <3>3, <3>4, <3>5 DEF WritebackCycle
  <2>6. CASE ~EnterWriteback /\ ~QueueWriteback /\ ~WritebackCycle
    <3>1. CalmStep
      BY <1>4, <2>6, CalmTicks
    <3> QED
      BY <3>1, CalmKeeps
  <2> QED
    BY <2>3, <2>4, <2>5, <2>6
<1> QED
  BY <1>2, <1>3, <1>4, OrderlySteps

-----------------------------------------------------------------------------
(* A reader is let go only by the answer of the producer.                  *)

LEMMA OnlyProducer ==
    ASSUME AddressInv, CountedPrograms, NEW p \in Core, NEW q \in Core, NEW t,
           OutputOf(p, t), OutputOf(q, t)
    PROVE  p = q
<1>1. OutputsOnce(ir)
  BY DEF AddressInv, CountedPrograms
<1>2. PICK i \in DOMAIN ir[p] : \E k \in DOMAIN ir[p][i].outputs : ir[p][i].outputs[k].tid = t
  BY DEF OutputOf, ToSet
<1>3. PICK j \in DOMAIN ir[q] : \E l \in DOMAIN ir[q][j].outputs : ir[q][j].outputs[l].tid = t
  BY DEF OutputOf, ToSet
<1> QED
  BY <1>1, <1>2, <1>3 DEF OutputsOnce, Outs

LEMMA MemoryAskedForNone ==
    ASSUME ReadsGoToProducers, NEW t, MemoryAsked(t)
    PROVE  NoOutput(t)
<1>1. ASSUME NEW c \in Core, NEW p \in ToSet(injection[c]), IsRead(p), p.tid = t, p.dst = DRAM
      PROVE  NoOutput(t)
  BY <1>1, CoreConstant DEF ReadsGoToProducers, ToProducer, DRAM
<1>2. ASSUME NEW f \in ToSet(noc), IsRead(f.pkt), f.pkt.tid = t,
             f.pkt.dst \in ToSet(MemoryNodes)
      PROVE  NoOutput(t)
  BY <1>2, NodesApart DEF ReadsGoToProducers, OnItsWay
<1> QED
  BY <1>1, <1>2 DEF MemoryAsked

LEMMA AnswersOwn ==
    ASSUME KeepInv, ReadsGoToProducers, CountedPrograms, NEW p \in Core, NEW t,
           OutputOf(p, t), NEW req, NEW d, Answered(req, d), req.tid = t
    PROVE  cur = p
<1>1. cur \in Core /\ OutputOf(cur, t)
  BY DEF Answered, ReadsGoToProducers, AtProducer
<1> QED
  BY <1>1, OnlyProducer DEF KeepInv, LoadInv

(* While core d loads what p outputs, a request that was there is there. *)
LEMMA LoadingReads ==
    ASSUME KeepInv, ReadsGoToProducers, InputsOfWorkload, CountedPrograms, Orderly,
           NEW p \in Core, NEW t, OutputOf(p, t), NEW d \in Core, d # p,
           Stage(d) = "LOADING", t \notin requested[d] \/ Asked(d, t) > 0
    PROVE  \/ t \notin requested'[d] \/ Asked(d, t)' > 0
           \/ \E req : Answered(req, d) /\ req.tid = t
<1>1. /\ TypeInv /\ TypeInv' /\ AddressInv /\ RequestStep /\ state[d] = "LOADING"
      /\ requested \in [Core -> SUBSET Tid]
  <2>1. TypeInv /\ AddressInv
    BY DEF KeepInv, LoadInv, AddressInv
  <2> QED
    BY <2>1, NextTyped, RequestSteps, LoadingStage
    DEF Orderly, TypeInv, TypeOK, CoreTypeOK, LoadTypeOK
<1>2. ~MemoryAsked(t)
  BY MemoryAskedForNone DEF NoOutput
<1>3. Asked(d, t) \in Nat /\ Asked(d, t)' \in Nat
  BY <1>1, AskedTyped
<1>4. ASSUME AskedKept(d, t) PROVE Asked(d, t)' = Asked(d, t)
  BY <1>2, <1>4 DEF AskedKept
<1>5. CASE AsksNothing
  BY <1>1, <1>4, <1>5 DEF AsksNothing
<1>6. ASSUME NEW e \in Core, NEW s \in Source, Fetches(e, s)
      PROVE  t \notin requested'[d] \/ Asked(d, t)' > 0
  <2>1. requested' = [requested EXCEPT ![e] = @ \cup {s.tid}]
    BY <1>6 DEF Fetches
  <2>2. CASE e # d \/ s.tid # t
    <3>1. t \in requested'[d] => t \in requested[d]
      BY <1>1, <2>1, <2>2
    <3>2. AskedKept(d, t)
      BY <1>6, <2>2 DEF Fetches, AsksFor, AsksNot
    <3> QED
      BY <1>4, <3>1, <3>2
  <2>3. CASE e = d /\ s.tid = t
    <3>1. CASE AsksFor(e, s)
      <4>1. Asked(d, t)' = Asked(d, t) + 1
        BY <2>3, <3>1 DEF AsksFor
      <4> QED
        BY <1>3, <4>1
    <3>2. CASE AsksNot(e, s)
      <4>1. Asked(d, t)' = Asked(d, t)
        BY <1>4, <3>2 DEF AsksNot
      <4>2. CASE IsReady(sram[d], t)
        <5>1. OutputOf(d, t) \/ t \in requested[d]
          BY <1>1, <4>2 DEF InputsOfWorkload, InputHeld, IsReady, HasData
        <5>2. ~OutputOf(d, t)
          BY <1>1, OnlyProducer
        <5> QED
          BY <4>1, <5>1, <5>2
      <4>3. CASE t \in requested[d]
        BY <4>1, <4>3
      <4> QED
        BY <2>3, <3>2, <4>2, <4>3 DEF AsksNot
    <3> QED
      BY <1>6, <3>1, <3>2 DEF Fetches
  <2> QED
    BY <2>2, <2>3
<1>7. ASSUME NEW req, NEW e \in Core, Answered(req, e)
      PROVE  \/ t \notin requested'[d] \/ Asked(d, t)' > 0
             \/ Answered(req, d) /\ req.tid = t
  <2>1. requested' = requested
    BY <1>7 DEF Answered
  <2>2. CASE e = d /\ req.tid = t
    BY <1>7, <2>2
  <2>3. CASE e # d \/ req.tid # t
    <3>1. AskedKept(d, t)
      BY <1>7, <2>3 DEF Answered
    <3> QED
      BY <1>4, <2>1, <3>1
  <2> QED
    BY <2>2, <2>3
<1> QED
  BY <1>1, <1>5, <1>6, <1>7 DEF RequestStep

LEMMA RemoteReadsStay ==
    ASSUME KeepInv, ReadsGoToProducers, InputsOfWorkload, CountedPrograms, Orderly,
           NEW p \in Core, NEW t, OutputOf(p, t), NEW d, NEW j, Waits(d, j, p, t)
    PROVE  \/ Waits(d, j, p, t)'
           \/ j = idx[d] /\ cur = p /\ \E req : Answered(req, d) /\ req.tid = t
<1>1. /\ TypeInv /\ TypeInv' /\ UNCHANGED ir /\ AddressInv
      /\ d \in Core /\ d # p /\ Turn(d)
      /\ idx[d] \in Nat /\ idx'[d] \in {idx[d], idx[d] + 1}
      /\ Len(ir[d]) \in Nat /\ j \in idx[d] .. Len(ir[d])
      /\ Reads(d, j, p, t) /\ ReadOpen(d, j, t)
  <2>1. TypeInv /\ AddressInv /\ d \in Core /\ d # p
    BY DEF KeepInv, LoadInv, AddressInv, Waits
  <2>2. Turn(d) /\ TypeInv' /\ UNCHANGED ir
    BY <2>1, EveryTurn, NextTyped, NextKeepsIr DEF Orderly
  <2>3. ir[d] \in Seq(Workload)
    BY <2>1 DEF TypeInv, TypeOK, CoreTypeOK, FsmTypeOK
  <2> QED
    BY <2>1, <2>2, <2>3, TurnStages DEF Waits
<1>2. j \in Nat
  BY <1>1
<1>3. ASSUME j >= idx'[d], ReadOpen(d, j, t)'
      PROVE  Waits(d, j, p, t)'
  <2>1. Reads(d, j, p, t)'
    BY <1>1 DEF Reads
  <2> QED
    BY <1>1, <1>3, <2>1 DEF Waits
<1>4. CASE j > idx[d]
  <2>1. j >= idx'[d]
    BY <1>1, <1>2, <1>4
  <2>2. j > idx'[d] \/ idx'[d] # idx[d]
    BY <1>4
  <2>3. idx'[d] # idx[d] => Stage(d)' = "IDLE"
    BY <1>1, TurnStages
  <2>4. ReadOpen(d, j, t)'
    BY <1>1, <2>2, <2>3, ReadOpenStage
  <2> QED
    BY <1>3, <2>1, <2>4
<1>5. CASE j = idx[d]
  <2>1. /\ HasWorkload(d) /\ t \in SourceTids(d)
    BY <1>1, <1>5 DEF HasWorkload, SourceTids, Sources, Current, Reads
  <2>2. CASE Stage(d) = "IDLE"
    <3>1. /\ idx'[d] = idx[d]
          /\ Stage(d)' = "IDLE" \/ (Stage(d)' = "LOADING" /\ requested'[d] = {})
      BY <1>1, <2>1, <2>2
      DEF Turn, Rests, Starts, Works, Moves, Iterates, Retires
    <3>2. ReadOpen(d, j, t)'
      BY <1>1, <3>1, ReadOpenStage
    <3> QED
      BY <1>1, <1>2, <1>3, <1>5, <3>1, <3>2
  <2>3. CASE Stage(d) = "LOADING" /\ (t \notin requested[d] \/ Asked(d, t) > 0)
    <3>1. t \in pendingLoads[d]
      <4>1. state[d] = "LOADING"
        BY <1>1, <2>3, LoadingStage
      <4>2. CASE t \notin requested[d]
        BY <1>1, <2>1, <4>1, <4>2 DEF KeepInv, LoadInv, LoadsAhead
      <4>3. CASE Asked(d, t) > 0
        BY <1>1, <4>3, AskedIsAwaited DEF KeepInv, Awaited
      <4> QED
        BY <2>3, <4>2, <4>3
    <3>2. Stage(d)' = "LOADING" /\ idx'[d] = idx[d]
      BY <1>1, <2>3, <3>1
      DEF Turn, Rests, Starts, Works, Moves, Iterates, Retires
    <3>3. \/ t \notin requested'[d] \/ Asked(d, t)' > 0
          \/ \E req : Answered(req, d) /\ req.tid = t
      BY <1>1, <2>3, LoadingReads
    <3>4. CASE t \notin requested'[d] \/ Asked(d, t)' > 0
      <4>1. ReadOpen(d, j, t)'
        BY <1>1, <3>2, <3>4, ReadOpenStage
      <4> QED
        BY <1>1, <1>2, <1>3, <1>5, <3>2, <4>1
    <3>5. CASE \E req : Answered(req, d) /\ req.tid = t
      BY <1>5, <3>5, AnswersOwn
    <3> QED
      BY <3>3, <3>4, <3>5
  <2> QED
    BY <1>1, <1>2, <1>5, <2>2, <2>3, ReadOpenStage
<1> QED
  BY <1>1, <1>2, <1>4, <1>5

(* All readers of what is not there yet wait for it. *)
LEMMA ReadersStillWait ==
    ASSUME KeepInv, ReadsGoToProducers, InputsOfWorkload, ReadersWait, CountedPrograms,
           Orderly, NEW p, NEW i, NEW k, NEW out, IsOutput(p, i, k, out),
           ~Published(p, i, k)
    PROVE  RemoteReads(p, out.tid)' = RemoteReaders(ir, p, out.tid)
<1>1. /\ TypeInv /\ AddressInv
  BY DEF KeepInv, LoadInv, AddressInv
<1>2. p \in Core /\ OutputOf(p, out.tid)
  BY <1>1, OutputFacts
<1>3. ~HasData(sram[p], out.tid) /\ RemoteReaders(ir, p, out.tid) \subseteq RemoteReads(p, out.tid)
  BY DEF IsOutput, KeepInv, NoEntryBefore, ReadersWait
<1>4. ASSUME NEW x, x \in RemoteReads(p, out.tid)
      PROVE  x \in RemoteReads(p, out.tid)'
  <2>1. PICK d, j : x = <<d, j>> /\ Waits(d, j, p, out.tid)
    BY <1>4, InRemoteReads
  <2>2. ASSUME cur = p, NEW req, Answered(req, d), req.tid = out.tid
        PROVE  FALSE
    BY <1>3, <2>2 DEF Answered, Answers, IsReady
  <2>3. Waits(d, j, p, out.tid)'
    BY <1>2, <2>1, <2>2, RemoteReadsStay
  <2> QED
    BY <2>1, <2>3, InRemoteReads
<1>5. /\ RemoteReads(p, out.tid)' \subseteq RemoteReads(p, out.tid)
      /\ RemoteReads(p, out.tid) \subseteq RemoteReaders(ir, p, out.tid)
  BY <1>1, <1>2, RemoteReadsShrink, ReadsAreReaders
<1> QED
  BY <1>3, <1>4, <1>5

LEMMA KeepsReaders ==
    ASSUME KeepInv, ReadsGoToProducers, InputsOfWorkload, ReadersWait, CountedPrograms,
           Orderly
    PROVE  ReadersWait'
<1>1. /\ TypeInv /\ UNCHANGED ir
  BY NextKeepsIr DEF KeepInv, LoadInv, AddressInv, Orderly
<1> SUFFICES ASSUME NEW p \in Core, NEW i \in DOMAIN ir[p], NEW k \in DOMAIN ir[p][i].outputs,
                    ~Published(p, i, k)'
             PROVE  RemoteReaders(ir, p, ir[p][i].outputs[k].tid)
                        \subseteq RemoteReads(p, ir[p][i].outputs[k].tid)'
  BY <1>1 DEF ReadersWait
<1>2. PICK out : out = ir[p][i].outputs[k]
  OBVIOUS
<1>3. IsOutput(p, i, k, out)
  BY <1>2 DEF IsOutput
<1>4. ~Published(p, i, k)
  BY <1>1, <1>3, OutputFacts, PublishedStays
<1>5. RemoteReads(p, out.tid)' = RemoteReaders(ir, p, out.tid)
  BY <1>3, <1>4, ReadersStillWait
<1> QED
  BY <1>1, <1>2, <1>5

-----------------------------------------------------------------------------
(* No claim on an output goes but with a reference to it.                  *)

(* A write-back is claimed until it is acknowledged. *)
LEMMA WritebackStays ==
    ASSUME KeepInv, WritesCollected, Orderly, NEW p, NEW i, NEW k, NEW out,
           IsOutput(p, i, k, out), Published(p, i, k), Writing1(p, i, out)
    PROVE  Writing1(p, i, out)' \/ (Acknowledged(p) /\ Arriving.tid = out.tid)
<1>1. /\ TypeInv /\ TypeInv' /\ p \in Core /\ idx[p] \in Nat /\ Turn(p) /\ UnwrittenStep(p)
      /\ i = idx[p] /\ ToDram(out) /\ HasWorkload(p)
      /\ out \in ToSet(Outputs(p)) /\ k \in DOMAIN Outputs(p) /\ Outputs(p)[k] = out
      /\ k \in Nat /\ k <= Len(Outputs(p)) /\ Outputs(p) \in Seq(Output)
  <2>1. TypeInv /\ p \in Core /\ i = idx[p] /\ ToDram(out)
    BY DEF KeepInv, LoadInv, AddressInv, IsOutput, Writing1
  <2> QED
    BY <2>1, NextTyped, EveryTurn, TurnStages, OutputFacts, UnwrittenSteps DEF Orderly
<1>2. Stage(p) \in {"WRITEBACK", "queue", "free", "outputs"}
  BY <1>1, PublishedStage
<1>3. ASSUME idx'[p] = idx[p],
             Stage(p)' \in {"COMPUTING", "outputs", "free", "queue"}
                \/ out.tid \in Unwritten(p)'
      PROVE  Writing1(p, i, out)'
  BY <1>1, <1>3 DEF Writing1, ToDram
<1>4. CASE Stage(p) = "WRITEBACK"
  <2>1. out.tid \in Unwritten(p) /\ ~(cur = p /\ pc \in Loops)
    BY <1>4 DEF Writing1, Stage, Loops
  <2>2. CASE Rests(p)
    <3>1. idx'[p] = idx[p]
      BY <2>2 DEF Rests
    <3>2. CASE Unwritten(p)' = Unwritten(p)
      BY <1>3, <2>1, <3>1, <3>2
    <3>3. CASE /\ cur = p /\ ReceiveWriteResponse /\ UNCHANGED transportVars
               /\ wbQueue'[p] = wbQueue[p] /\ pendingWb'[p] = pendingWb[p] \ {Arriving.tid}
      <4>1. CASE out.tid \in Unwritten(p)'
        BY <1>3, <3>1, <4>1
      <4>2. CASE out.tid \notin Unwritten(p)'
        <5>1. out.tid \in pendingWb[p] /\ Arriving.tid = out.tid
          BY <2>1, <3>3, <4>2, UnwrittenIs
        <5> QED
          BY <3>3, <5>1 DEF Acknowledged
      <4> QED
        BY <4>1, <4>2
    <3>4. ~(cur = p /\ (EnterWriteback \/ QueueWriteback))
      BY <2>1 DEF EnterWriteback, QueueWriteback, Loops
    <3> QED
      BY <1>1, <3>2, <3>3, <3>4 DEF UnwrittenStep
  <2>3. CASE Retires(p)
    <3>1. /\ WritebackCycle /\ cur = p /\ wbIssued'[p] /\ pendingWb'[p] = {}
          /\ state[p] = "WRITEBACK"
      BY <1>1, <1>4, <2>3, LoadingStage DEF Retires
    <3>2. wbIssued \in [Core -> BOOLEAN] /\ pendingWb \in [Core -> SUBSET Tid]
      BY <1>1 DEF TypeInv, TypeOK, CoreTypeOK, WbTypeOK
    <3>3. wbIssued[p] => wbQueue[p] = <<>>
      BY <1>1, <3>1 DEF WritesCollected
    <3>4. CASE NothingToWrite
      <4>1. wbQueue[p] = <<>> /\ pendingWb[p] = {}
        BY <3>1, <3>4 DEF NothingToWrite
      <4>2. ToSet(<<>>) = {}
        BY DEF ToSet
      <4> QED
        BY <2>1, <4>1, <4>2 DEF Unwritten
    <3>5. CASE ReadOut
      BY <3>1, <3>3, <3>5 DEF ReadOut
    <3>6. CASE SendWrite
      BY <1>1, <3>1, <3>2, <3>6 DEF SendWrite
    <3> QED
      BY <3>1, <3>4, <3>5, <3>6 DEF WritebackCycle
  <2> QED
    BY <1>1, <1>4, <2>2, <2>3 DEF Turn, Starts, Works, Moves
<1>5. CASE Stage(p) \in {"outputs", "free"}
  <2>1. ~(\A o \in ToSet(Outputs(p)) : ~ToDram(o))
    BY <1>1
  <2>2. idx'[p] = idx[p] /\ Stage(p)' \in {"outputs", "free", "queue"}
    BY <1>1, <1>5, <2>1 DEF Turn, Rests, Starts, Works, Moves, Iterates, Retires
  <2> QED
    BY <1>3, <2>2
<1>6. CASE Stage(p) = "queue"
  <2>1. \/ idx'[p] = idx[p] /\ Stage(p)' = "queue"
        \/ idx'[p] = idx[p] /\ Through(p, Outputs(p))
    BY <1>1, <1>6 DEF Turn, Rests, Starts, Works, Moves, Iterates, Retires
  <2>2. ASSUME Through(p, Outputs(p))
        PROVE  out.tid \in Unwritten(p)'
    <3>1. cur = p /\ pc = "queue" /\ At(p) = cursor /\ cursor \in Nat
      BY <1>1, <1>6 DEF Stage, At, Loops, TypeInv, TypeOK, CoreTypeOK, FsmTypeOK,
                        TickTypeOK, CoreState
    <3>2. k < cursor
      BY <1>1, <2>2, <3>1 DEF Through
    <3>3. \E chunk \in ToSet(wbQueue[p]) : chunk.tid = out.tid
      BY <1>1, <3>1, <3>2 DEF WritesCollected
    <3>4. out.tid \in Unwritten(p)
      BY <3>3 DEF Unwritten
    <3>5. ~ReceiveWriteResponse /\ ~EnterWriteback
      BY <3>1 DEF ReceiveWriteResponse, Incoming, EnterWriteback
    <3>6. Unwritten(p) \subseteq Unwritten(p)'
      BY <1>1, <3>5 DEF UnwrittenStep
    <3> QED
      BY <3>4, <3>6
  <2> QED
    BY <1>3, <2>1, <2>2
<1> QED
  BY <1>2, <1>4, <1>5, <1>6

(* A step answers one core. *)
LEMMA OneAnswer ==
    ASSUME AddressInv, ReadsGoToProducers, TypeInv', NEW p \in Core, NEW t, OutputOf(p, t),
           NEW req, NEW d \in Core, Answered(req, d), req.tid = t,
           NEW other, NEW e \in Core, Answered(other, e), other.tid = t
    PROVE  d = e
<1>1. ~MemoryAsked(t)
  BY MemoryAskedForNone DEF NoOutput
<1>2. Asked(e, t) = Asked(e, t)' + 1 /\ Asked(e, t) \in Nat /\ Asked(e, t)' \in Nat
  BY AskedTyped DEF Answered, AddressInv
<1>3. d # e => Asked(e, t)' = Asked(e, t)
  BY <1>1 DEF Answered, AskedKept
<1> QED
  BY <1>2, <1>3

(* And nothing is acknowledged in it. *)
LEMMA AnswerOrAck ==
    ASSUME AddressInv, ReadsGoToProducers, TypeInv', NEW p \in Core, NEW t, OutputOf(p, t),
           NEW req, NEW d \in Core, Answered(req, d), req.tid = t
    PROVE  ~Acknowledged(p)
<1> SUFFICES ASSUME Acknowledged(p) PROVE FALSE
  OBVIOUS
<1>1. ~MemoryAsked(t)
  BY MemoryAskedForNone DEF NoOutput
<1>2. Asked(d, t) = Asked(d, t)' + 1 /\ Asked(d, t) \in Nat /\ Asked(d, t)' \in Nat
  BY AskedTyped DEF Answered, AddressInv
<1>3. AskedKept(d, t)
  BY ResponseAsks DEF Acknowledged
<1> QED
  BY <1>1, <1>2, <1>3 DEF AskedKept

LEMMA AtMostOneLess ==
    ASSUME NEW S, IsFiniteSet(S), NEW T, T \subseteq S, NEW x, S \ {x} \subseteq T
    PROVE  Cardinality(T) \in Nat /\ Cardinality(S) \in Nat
           /\ Cardinality(T) >= Cardinality(S) - 1
<1>1. IsFiniteSet(T) /\ Cardinality(T) \in Nat /\ Cardinality(S) \in Nat
  BY FS_Subset, FS_CardinalityType
<1>2. Cardinality(S \ {x}) = IF x \in S THEN Cardinality(S) - 1 ELSE Cardinality(S)
  BY FS_RemoveElement
<1>3. Cardinality(S \ {x}) <= Cardinality(T)
  BY <1>1, FS_Subset
<1> QED
  BY <1>1, <1>2, <1>3

LEMMA NoLocalReads ==
    ASSUME NEW p \in Core, NEW t, ~LocallyRead(p, t), UNCHANGED ir
    PROVE  /\ TypeInv => LocalReads(p, t) = {} /\ FutureUses(p, t) = {}
           /\ TypeInv' => LocalReads(p, t)' = {}
<1>1. \A j, k : ~LocalUse(p, j, k, t)
  BY DEF LocalUse, LocallyRead, Reads, ToSet
<1>2. \A j, k : ~LocalUse(p, j, k, t)'
  BY <1>1 DEF LocalUse
<1>3. ASSUME TypeInv
      PROVE  LocalReads(p, t) = {} /\ FutureUses(p, t) = {}
  <2>1. \A x : x \notin LocalReads(p, t)
    BY <1>1, <1>3, InLocalReads DEF LocalWaits
  <2>2. \A x : x \notin FutureUses(p, t)
    BY <1>1, <1>3, InFutureUses
  <2> QED
    BY <2>1, <2>2, Zenon
<1>4. ASSUME TypeInv'
      PROVE  LocalReads(p, t)' = {}
  <2>1. \A x : x \notin LocalReads(p, t)'
    BY <1>2, <1>4, InLocalReads DEF LocalWaits
  <2> QED
    BY <2>1, Zenon
<1> QED
  BY <1>3, <1>4

(* Of the claims on an output that is not read at home a step takes one at most,
   and none unless it releases a reference. *)
LEMMA ClaimsStay ==
    ASSUME KeepInv, ReadsGoToProducers, InputsOfWorkload, WritesCollected,
           CountedPrograms, Orderly, NEW p, NEW i, NEW k, NEW out,
           IsOutput(p, i, k, out), Published(p, i, k), ~LocallyRead(p, out.tid)
    PROVE  /\ ReadsLeft(p, i, out) \in Nat /\ ReadsLeft(p, i, out)' \in Nat
           /\ ReadsLeft(p, i, out)' >= ReadsLeft(p, i, out) - 1
           /\ ~ClaimTaken(p, out.tid) => ReadsLeft(p, i, out)' >= ReadsLeft(p, i, out)
<1> DEFINE t == out.tid
<1>1. /\ AddressInv /\ TypeInv /\ TypeInv' /\ p \in Core /\ OutputOf(p, t) /\ UNCHANGED ir
  <2>1. AddressInv /\ TypeInv
    BY DEF KeepInv, LoadInv, AddressInv
  <2> QED
    BY <2>1, OutputFacts, NextTyped, NextKeepsIr DEF Orderly
<1>2. /\ IsFiniteSet(RemoteReads(p, t)) /\ Cardinality(RemoteReads(p, t)) \in Nat
      /\ RemoteReads(p, t)' \subseteq RemoteReads(p, t)
      /\ Cardinality(RemoteReads(p, t)') \in Nat
  <2>1. IsFiniteSet(RemoteReads(p, t)) /\ RemoteReads(p, t)' \subseteq RemoteReads(p, t)
    BY <1>1, ClaimsFinite, RemoteReadsShrink
  <2> QED
    BY <2>1, FS_Subset, FS_CardinalityType
<1>3. LocalReads(p, t) = {} /\ LocalReads(p, t)' = {}
  BY <1>1, NoLocalReads
<1>4. /\ ReadsLeft(p, i, out) \in Nat /\ ReadsLeft(p, i, out)' \in Nat
      /\ ReadsLeft(p, i, out) =
            Cardinality(RemoteReads(p, t)) + (IF Writing1(p, i, out) THEN 1 ELSE 0)
      /\ ReadsLeft(p, i, out)' =
            Cardinality(RemoteReads(p, t)') + (IF Writing1(p, i, out)' THEN 1 ELSE 0)
  <2>1. Cardinality({}) = 0
    BY FS_EmptySet
  <2>2. /\ ReadsLeft(p, i, out) \in Nat /\ ReadsLeft(p, i, out)' \in Nat
        /\ ReadsLeft(p, i, out) =
              Cardinality(RemoteReads(p, t)) + Cardinality(LocalReads(p, t))
              + (IF Writing1(p, i, out) THEN 1 ELSE 0)
        /\ ReadsLeft(p, i, out)' =
              Cardinality(RemoteReads(p, t)') + Cardinality(LocalReads(p, t)')
              + (IF Writing1(p, i, out)' THEN 1 ELSE 0)
    BY <1>1, ReadsLeftTyped
  <2> HIDE DEF t
  <2> QED
    BY <1>2, <1>3, <2>1, <2>2
<1>5. Writing1(p, i, out) => Writing1(p, i, out)' \/ (Acknowledged(p) /\ Arriving.tid = t)
  BY WritebackStays
<1>6. ASSUME NEW x, x \in RemoteReads(p, t), x \notin RemoteReads(p, t)'
      PROVE  \E d \in Core : /\ x = <<d, idx[d]>> /\ cur = p
                             /\ \E req : Answered(req, d) /\ req.tid = t
  <2>1. PICK d, j : x = <<d, j>> /\ Waits(d, j, p, t)
    BY <1>6, InRemoteReads
  <2>2. ~Waits(d, j, p, t)'
    BY <1>6, <2>1, InRemoteReads
  <2>3. d \in Core
    BY <2>1 DEF Waits
  <2> QED
    BY <1>1, <2>1, <2>2, <2>3, RemoteReadsStay
<1>7. CASE \E d \in Core : cur = p /\ \E req : Answered(req, d) /\ req.tid = t
  <2>1. PICK d \in Core : cur = p /\ \E req : Answered(req, d) /\ req.tid = t
    BY <1>7
  <2>2. PICK req : Answered(req, d) /\ req.tid = t
    BY <2>1
  <2>3. RemoteReads(p, t) \ {<<d, idx[d]>>} \subseteq RemoteReads(p, t)'
    BY <1>1, <1>6, <2>2, OneAnswer
  <2>4. Cardinality(RemoteReads(p, t)') >= Cardinality(RemoteReads(p, t)) - 1
    BY <1>2, <2>3, AtMostOneLess
  <2>5. ~Acknowledged(p)
    BY <1>1, <2>2, AnswerOrAck
  <2>6. ClaimTaken(p, out.tid)
    BY <2>1, <2>2 DEF ClaimTaken
  <2>7. Writing1(p, i, out) => Writing1(p, i, out)'
    BY <1>5, <2>5
  <2> HIDE DEF t
  <2> QED
    BY <1>2, <1>4, <2>4, <2>6, <2>7
<1>8. CASE ~\E d \in Core : cur = p /\ \E req : Answered(req, d) /\ req.tid = t
  <2>1. RemoteReads(p, t)' = RemoteReads(p, t)
    BY <1>2, <1>6, <1>8
  <2>2. Acknowledged(p) /\ Arriving.tid = t => ClaimTaken(p, out.tid)
    BY DEF ClaimTaken
  <2> HIDE DEF t
  <2> QED
    BY <1>2, <1>4, <1>5, <2>1, <2>2
<1> QED
  BY <1>7, <1>8

-----------------------------------------------------------------------------
(* What is read elsewhere only has no reference too many.                  *)

(* The condition of one output. *)
Gone(p, i, out) ==
    ~LocallyRead(p, out.tid) /\ HasData(sram[p], out.tid) =>
        ReadsLeft(p, i, out) > 0 /\ sram[p].entries[out.tid].ref <= ReadsLeft(p, i, out)

LEMMA EachLeft ==
    /\ NoReferenceLeft <=>
          \A p, i, k, out : IsOutput(p, i, k, out) /\ Published(p, i, k) => Gone(p, i, out)
    /\ NoReferenceLeft' <=>
          \A p, i, k, out :
             IsOutput(p, i, k, out)' /\ Published(p, i, k)' => Gone(p, i, out)'
<1>1. NoReferenceLeft <=>
        \A p \in Core : \A i \in DOMAIN ir[p] : \A k \in DOMAIN ir[p][i].outputs :
            Published(p, i, k) => Gone(p, i, ir[p][i].outputs[k])
  BY DEF NoReferenceLeft, ForPublished, Gone
<1>2. NoReferenceLeft' <=>
        \A p \in Core : \A i \in DOMAIN ir'[p] : \A k \in DOMAIN ir'[p][i].outputs :
            Published(p, i, k)' => Gone(p, i, ir[p][i].outputs[k])'
  BY DEF NoReferenceLeft, ForPublished, Gone
<1> QED
  BY <1>1, <1>2 DEF IsOutput

(* An output that is published is not stored again. *)
LEMMA NotStoredAgain ==
    ASSUME KeepInv, CountedPrograms, Orderly, NEW p, NEW i, NEW k, NEW out,
           IsOutput(p, i, k, out), Published(p, i, k), HasData(sram'[p], out.tid)
    PROVE  HasData(sram[p], out.tid)
<1> DEFINE t == out.tid
<1>1. /\ AddressInv /\ TypeInv /\ p \in Core /\ OutputOf(p, t) /\ ir \in Programs
      /\ LoadInv /\ WritebackInv /\ i \in DOMAIN ir[p] /\ i \in Nat /\ k \in Nat
      /\ k \in DOMAIN ir[p][i].outputs /\ out = ir[p][i].outputs[k]
  BY OutputFacts DEF KeepInv, LoadInv, AddressInv, IsOutput
<1> SUFFICES ASSUME ~HasData(sram[p], t) PROVE FALSE
  OBVIOUS
<1>2. MemoryStep(p)
  BY <1>1, MemorySteps
<1>3. t \notin Awaited(p)
  BY <1>1 DEF KeepInv, OwnOutputsAtHand
<1>4. Publishes(p) /\ Outputs(p)[cursor].tid = t
  BY <1>1, <1>2, <1>3, NewEntry
<1>5. pc = "outputs" /\ cursor <= Len(Outputs(p)) /\ cur = p
  BY <1>4 DEF Publishes, PublishOutput
<1>6. Stage(p) = "outputs" /\ At(p) = cursor
  BY <1>5 DEF Stage, At, Loops
<1>7. HasWorkload(p) /\ Outputs(p) \in Seq(Output) /\ cursor \in Nat \ {0} /\ idx[p] \in Nat
  BY <1>1, <1>5, <1>6, StageOfTick DEF Loops
<1>8. /\ idx[p] \in DOMAIN ir[p] /\ Outputs(p) = ir[p][idx[p]].outputs
      /\ cursor \in DOMAIN ir[p][idx[p]].outputs
  <2>1. ir[p] \in Seq(Workload) /\ idx[p] \in Nat \ {0}
    BY <1>1, InTick DEF CoreTypeOK, FsmTypeOK
  <2>2. idx[p] \in DOMAIN ir[p] /\ Outputs(p) = ir[p][idx[p]].outputs
    BY <1>7, <2>1 DEF HasWorkload, Outputs, Current
  <2> QED
    BY <1>5, <1>7, <2>2
<1>9. OutputsOnce(ir)
  BY <1>1 DEF CountedPrograms
<1>10. i = idx[p] /\ k = cursor
  BY <1>1, <1>4, <1>8, <1>9 DEF OutputsOnce, Outs
<1>11. i < idx[p] \/ k < At(p)
  BY <1>1, <1>6, PublishedStage
<1> QED
  BY <1>6, <1>7, <1>10, <1>11

LEMMA StaysLeft ==
    ASSUME KeepInv, ReadsGoToProducers, InputsOfWorkload, WritesCollected, NoReferenceLeft,
           CountedPrograms, Orderly, NEW p, NEW i, NEW k, NEW out,
           IsOutput(p, i, k, out), Published(p, i, k), ~LocallyRead(p, out.tid),
           HasData(sram'[p], out.tid)
    PROVE  /\ ReadsLeft(p, i, out)' > 0
           /\ sram'[p].entries[out.tid].ref <= ReadsLeft(p, i, out)'
<1> DEFINE t == out.tid
           left == ReadsLeft(p, i, out)
           after == ReadsLeft(p, i, out)'
<1>1. /\ AddressInv /\ TypeInv /\ p \in Core /\ LoadInv /\ WritebackInv
  BY OutputFacts DEF KeepInv, LoadInv, AddressInv
<1>2. /\ left \in Nat /\ after \in Nat /\ after >= left - 1
      /\ ~ClaimTaken(p, t) => after >= left
  BY ClaimsStay
<1>3. HasData(sram[p], t)
  BY NotStoredAgain
<1>4. left > 0 /\ sram[p].entries[t].ref <= left
  BY <1>3, EachLeft DEF Gone
<1> HIDE DEF after
<1>5. Kept(p, t, left)
  BY <1>4, EachKept DEF KeepInv
<1>6. SramTypeOK(sram[p]) /\ sram[p].entries[t].ref \in Nat
  BY <1>1, <1>3, SramKnown DEF SramTypeOK, HasData, SramEntry
<1>7. sram[p].entries[t].ref = left
  BY <1>2, <1>4, <1>5, <1>6 DEF Kept
<1> HIDE DEF left
<1>8. after > 0 /\ sram'[p].entries[t].ref <= after
  <2>1. CASE ClaimTaken(p, t)
    <3>1. CASE sram'[p] = ReleaseRef(sram[p], t)
      <4>1. /\ sram[p].entries[t].ref >= 2
            /\ sram'[p].entries[t].ref = sram[p].entries[t].ref - 1
        <5>1. HasData(ReleaseRef(sram[p], t), t)
          BY <3>1
        <5> HIDE DEF t
        <5> QED
          BY <1>6, <3>1, <5>1, ReleaseEntry
      <4> QED
        BY <1>2, <1>7, <4>1
    <3>2. \/ sram' = [sram EXCEPT ![p] = ReleaseRef(@, t)]
      BY <2>1 DEF ClaimTaken, Answered, Answers, Acknowledged, ReceiveWriteResponse,
                  Arriving, Frees, FreeInput
    <3> QED
      BY <1>1, <3>1, <3>2, ReleaseStep
  <2>2. CASE ~ClaimTaken(p, t)
    <3>1. Alike(sram[p], sram'[p], t)
      BY <1>1, <1>3, <2>2, MemorySteps, MemoryOfOutput
    <3>2. sram'[p].entries[t].ref = left
      BY <1>3, <1>7, <3>1 DEF Alike
    <3> QED
      BY <1>2, <1>4, <2>2, <3>2
  <2> QED
    BY <2>1, <2>2
<1> QED
  BY <1>8 DEF after

(* With each destination a reader, what is published has a reference for each
   claim and no more. *)
LEMMA NewLeft ==
    ASSUME KeepInv, ReadsGoToProducers, InputsOfWorkload, ReadersWait,
           CountedPrograms, ReadersListed(ir), Orderly, ~OutputLost,
           NEW p, NEW i, NEW k, NEW out, IsOutput(p, i, k, out),
           ~Published(p, i, k), Published(p, i, k)', ~LocallyRead(p, out.tid)
    PROVE  /\ ReadsLeft(p, i, out)' > 0
           /\ sram'[p].entries[out.tid].ref <= ReadsLeft(p, i, out)'
<1> DEFINE t == out.tid
           readers == Cardinality(RemoteReaders(ir, p, t))
           after == ReadsLeft(p, i, out)'
<1>1. /\ TypeInv /\ p \in Core /\ ir \in Programs /\ AddressInv /\ NoEntryBefore
      /\ out \in ToSet(ir[p][i].outputs) /\ i \in DOMAIN ir[p] /\ out \in Output
      /\ UNCHANGED ir /\ TypeInv'
  <2>1. AddressInv /\ TypeInv /\ NoEntryBefore
    BY DEF KeepInv, LoadInv, AddressInv
  <2> QED
    BY <2>1, OutputFacts, NextTyped, NextKeepsIr DEF AddressInv, Orderly
<1>2. Listed(out) = readers /\ out.dests # <<>>
  <2>1. ASSUME NEW j \in DOMAIN ir[p], NEW s \in ToSet(ir[p][j].sources), s.tid = out.tid
        PROVE  FALSE
    <3>1. SourcesFollowOutputs(ir)
      BY <1>1 DEF CountedPrograms
    <3>2. s.from = p
      BY <1>1, <2>1, <3>1 DEF SourcesFollowOutputs
    <3> QED
      BY <2>1, <3>2 DEF LocallyRead, Reads
  <2> QED
    BY <1>1, <2>1 DEF ReadersListed
<1>3. /\ LocalReads(p, t)' = FutureUses(p, t) /\ FutureUses(p, t) = {}
      /\ Writing1(p, i, out)' <=> ToDram(out)
  BY <1>1, PublishedClaims, NoLocalReads
<1>4. RemoteReads(p, t)' = RemoteReaders(ir, p, t)
  BY ReadersStillWait
<1>5. Cardinality(FutureUses(p, t)) = 0 /\ Cardinality(LocalReads(p, t)') = 0
  BY <1>3, FS_EmptySet
<1>6. readers \in Nat
  BY <1>1, ReadersFinite
<1>7. OutputRefs(p, out) = readers + (IF ToDram(out) THEN 1 ELSE 0)
  <2>1. LocalFutureUses(p, t) = 0
    BY <1>1, <1>5, InFutureUses
  <2>2. OutputRefs(p, out) = Listed(out) + LocalFutureUses(p, t)
                               + (IF ToDram(out) THEN 1 ELSE 0)
    BY DEF OutputRefs, Listed
  <2> HIDE DEF readers
  <2> QED
    BY <1>2, <1>6, <2>1, <2>2
<1>8. after = readers + (IF ToDram(out) THEN 1 ELSE 0)
  <2>1. after = Cardinality(RemoteReads(p, t)') + Cardinality(LocalReads(p, t)')
                + (IF Writing1(p, i, out)' THEN 1 ELSE 0)
    BY <1>1, ReadsLeftTyped
  <2>2. Cardinality(RemoteReads(p, t)') = readers
    BY <1>4
  <2> HIDE DEF t, readers, after
  <2> QED
    BY <1>3, <1>5, <1>6, <2>1, <2>2 DEF t
<1>9. readers > 0 \/ ToDram(out)
  <2> SUFFICES ASSUME ~ToDram(out) PROVE readers > 0
    OBVIOUS
  <2>1. out.dests \in Seq(Endpoint) /\ 1 \in DOMAIN out.dests
    <3>1. out.dests \in Seq(Endpoint)
      BY <1>1 DEF Output
    <3> QED
      BY <1>2, <3>1
  <2>2. 1 \in {d \in DOMAIN out.dests : out.dests[d] # DRAM}
    BY <2>1 DEF ToDram, ToSet
  <2>3. /\ IsFiniteSet({d \in DOMAIN out.dests : out.dests[d] # DRAM})
        /\ Listed(out) \in Nat
    <3>1. DOMAIN out.dests = 1 .. Len(out.dests) /\ Len(out.dests) \in Nat
      BY <2>1
    <3>2. IsFiniteSet(1 .. Len(out.dests))
      BY <3>1, FS_Interval
    <3> QED
      BY <3>1, <3>2, FS_Subset, FS_CardinalityType DEF Listed
  <2>4. Listed(out) # 0
    BY <2>2, <2>3, FS_EmptySet DEF Listed
  <2> QED
    BY <1>2, <2>3, <2>4
<1>10. sram'[p].entries[t].ref = OutputRefs(p, out)
  BY <1>1, PublishedEntry
<1> HIDE DEF t, readers, after
<1>11. after > 0 /\ sram'[p].entries[t].ref <= after
  BY <1>6, <1>7, <1>8, <1>9, <1>10
<1> QED
  BY <1>11 DEF t, after

LEMMA KeepsReferences ==
    ASSUME RefInv, CountedPrograms, ReadersListed(ir), Orderly, ~OutputLost
    PROVE  NoReferenceLeft'
<1>1. UNCHANGED ir
  BY NextKeepsIr DEF Orderly
<1> SUFFICES ASSUME NEW p, NEW i, NEW k, NEW out, IsOutput(p, i, k, out), Published(p, i, k)'
             PROVE  Gone(p, i, out)'
  BY <1>1, EachLeft DEF IsOutput
<1>2. LocallyRead(p, out.tid)' <=> LocallyRead(p, out.tid)
  BY <1>1 DEF LocallyRead, Reads
<1>3. ASSUME ~LocallyRead(p, out.tid), HasData(sram'[p], out.tid)
      PROVE  /\ ReadsLeft(p, i, out)' > 0
             /\ sram'[p].entries[out.tid].ref <= ReadsLeft(p, i, out)'
  <2>1. CASE Published(p, i, k)
    BY <1>3, <2>1, StaysLeft DEF RefInv
  <2>2. CASE ~Published(p, i, k)
    BY <1>3, <2>2, NewLeft DEF RefInv
  <2> QED
    BY <2>1, <2>2
<1> QED
  BY <1>2, <1>3 DEF Gone

LEMMA NextRef ==
    ASSUME CountedPrograms, SourcesHaveBytes, CoreIdsAreNodes,
           \A prog \in Programs : ReadersListed(prog),
           RefInv, Orderly, ~OutputLost
    PROVE  RefInv'
<1>1. KeepInv /\ AddressInv /\ TypeInv /\ ir \in Programs
  BY DEF RefInv, KeepInv, LoadInv, AddressInv
<1>2. ReadersListed(ir)
  BY <1>1
<1>3. KeepInv'
  BY <1>1, NextKeep
<1>4. ReadsGoToProducers' /\ InputsOfWorkload'
  BY <1>1, <1>2, KeepsReads, KeepsInputs DEF RefInv
<1>5. WritesCollected' /\ ReadersWait'
  BY <1>1, KeepsCollected, KeepsReaders DEF RefInv
<1>6. NoReferenceLeft'
  BY <1>2, KeepsReferences
<1> QED
  BY <1>3, <1>4, <1>5, <1>6 DEF RefInv

LEMMA InitRef ==
    ASSUME Init
    PROVE  RefInv
<1>1. /\ TypeInv /\ KeepInv
  BY InitTyped, InitKeep
<1>2. ToSet(<<>>) = {}
  BY DEF ToSet
<1>3. ReadsGoToProducers
  BY <1>2 DEF Init, CoreInit, ReadsGoToProducers
<1>4. InputsOfWorkload
  BY DEF Init, CoreInit, EmptySram, InputsOfWorkload
<1>5. WritesCollected
  BY DEF Init, CoreInit, WritesCollected
<1>6. ReadersWait
  <2> SUFFICES ASSUME NEW p \in Core, NEW t, NEW d \in Core \ {p}, NEW j \in DOMAIN ir[d],
                      Reads(d, j, p, t)
               PROVE  Waits(d, j, p, t)
    <3>1. ASSUME NEW p \in Core, NEW t, NEW x \in RemoteReaders(ir, p, t)
          PROVE  x \in RemoteReads(p, t)
      <4>1. PICK d \in Core \ {p} : \E j \in DOMAIN ir[d] : x = <<d, j>>
        BY <3>1 DEF RemoteReaders
      <4>2. PICK j \in DOMAIN ir[d] : x = <<d, j>>
        BY <4>1
      <4>3. Reads(d, j, p, t)
        BY <3>1, <4>2 DEF RemoteReaders, Reads
      <4> QED
        BY <4>2, <4>3, InRemoteReads
    <3> QED
      BY <3>1 DEF ReadersWait
  <2>1. idx[d] = 1 /\ state[d] = "IDLE"
    BY DEF Init, CoreInit
  <2>2. ir[d] \in Seq(Workload)
    BY <1>1, InTick DEF CoreTypeOK, FsmTypeOK
  <2> QED
    BY <2>1, <2>2 DEF Waits, ReadOpen
<1>7. NoReferenceLeft
  BY NothingPublished, EachLeft DEF IsOutput
<1> QED
  BY <1>1, <1>3, <1>4, <1>5, <1>6, <1>7 DEF RefInv

LEMMA OneIsExact ==
    ASSUME RefInv, NEW p, NEW i, NEW k, NEW out, IsOutput(p, i, k, out),
           Published(p, i, k), ~LocallyRead(p, out.tid)
    PROVE  /\ ReadsLeft(p, i, out) = 0 => ~HasData(sram[p], out.tid)
           /\ ReadsLeft(p, i, out) # 0 => /\ Kept(p, out.tid, ReadsLeft(p, i, out))
                                          /\ sram[p].entries[out.tid].ref = ReadsLeft(p, i, out)
<1> DEFINE n == ReadsLeft(p, i, out)
           ref == sram[p].entries[out.tid].ref
<1>1. KeepInv /\ AddressInv /\ TypeInv /\ p \in Core
  BY OutputFacts DEF RefInv, KeepInv, LoadInv, AddressInv
<1>2. n \in Nat
  <2>1. /\ Cardinality(RemoteReads(p, out.tid)) \in Nat
        /\ Cardinality(LocalReads(p, out.tid)) \in Nat
    BY <1>1, ClaimsFinite
  <2>2. WritebackLeft(p, i, out) \in Nat
    BY DEF WritebackLeft
  <2> QED
    BY <2>1, <2>2 DEF ReadsLeft
<1>3. HasData(sram[p], out.tid) => n > 0 /\ ref <= n
  BY EachLeft DEF RefInv, Gone
<1>4. n > 0 => Kept(p, out.tid, n)
  BY <1>1, EachKept DEF KeepInv
<1>5. Kept(p, out.tid, n) => HasData(sram[p], out.tid) /\ ref >= n
  BY DEF Kept, IsReady, HasData
<1>6. HasData(sram[p], out.tid) => ref \in Nat
  BY <1>1, SramKnown DEF SramTypeOK, HasData, SramEntry
<1> HIDE DEF n, ref
<1>7. n = 0 => ~HasData(sram[p], out.tid)
  BY <1>3
<1>8. n # 0 => Kept(p, out.tid, n) /\ ref = n
  BY <1>2, <1>3, <1>4, <1>5, <1>6
<1> QED
  BY <1>7, <1>8 DEF n, ref

LEMMA RefsAreExact ==
    ASSUME RefInv
    PROVE  ExactRemoteRefs
<1> SUFFICES ASSUME NEW p \in Core, NEW i \in DOMAIN ir[p],
                    NEW k \in DOMAIN ir[p][i].outputs, Published(p, i, k),
                    ~LocallyRead(p, ir[p][i].outputs[k].tid)
             PROVE  LET out == ir[p][i].outputs[k]
                        n == ReadsLeft(p, i, out)
                    IN  IF n = 0 THEN ~HasData(sram[p], out.tid)
                        ELSE Kept(p, out.tid, n) /\ sram[p].entries[out.tid].ref = n
  BY DEF ExactRemoteRefs, ForPublished
<1> DEFINE out == ir[p][i].outputs[k]
<1>1. IsOutput(p, i, k, out)
  BY DEF IsOutput
<1>2. /\ ReadsLeft(p, i, out) = 0 => ~HasData(sram[p], out.tid)
      /\ ReadsLeft(p, i, out) # 0 => /\ Kept(p, out.tid, ReadsLeft(p, i, out))
                                     /\ sram[p].entries[out.tid].ref = ReadsLeft(p, i, out)
  BY <1>1, OneIsExact
<1> QED
  BY <1>2, Zenon

(* An output that only other cores and the memory read has exactly as many
   references as there are workloads elsewhere whose request is not answered, and
   one while its write-back is not acknowledged; the last of them frees its entry.
   Here the destinations have to be the readers, and every source be an output of
   the core it names. *)
THEOREM RefsExact ==
    ASSUME CountedPrograms, SourcesHaveBytes, CoreIdsAreNodes,
           \A prog \in Programs : ReadersListed(prog)
    PROVE  Spec /\ [][~ForcedLoad]_vars /\ [][~AbandonWriteback]_vars
                /\ [][~OutputLost]_vars => []ExactRemoteRefs
<1>1. Init => RefInv
  BY InitRef
<1>2. RefInv /\ [Next]_vars /\ [~ForcedLoad]_vars /\ [~AbandonWriteback]_vars
             /\ [~OutputLost]_vars => RefInv'
  <2> SUFFICES ASSUME RefInv, [Next]_vars, [~ForcedLoad]_vars, [~AbandonWriteback]_vars,
                      [~OutputLost]_vars
               PROVE  RefInv'
    OBVIOUS
  <2>1. TypeInv
    BY DEF RefInv, KeepInv, LoadInv, AddressInv
  <2>2. ~ForcedLoad /\ ~AbandonWriteback /\ ~OutputLost
    BY <2>1, ExcludedAreSteps
  <2> QED
    BY <2>2, NextRef DEF Orderly
<1>3. RefInv => ExactRemoteRefs
  BY RefsAreExact
<1> QED
  BY <1>1, <1>2, <1>3, PTL DEF Spec
=============================================================================
