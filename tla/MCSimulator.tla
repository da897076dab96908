----------------------------- MODULE MCSimulator -----------------------------
(***************************************************************************)
(* Small networks for Simulator.  Workload w outputs transfer w; transfers *)
(* from 11 on come from the DRAM.  A relation R holds <<w, p>> when w      *)
(* reads the output of p.  The lists go through the parser's passes, as    *)
(* every IR does.                                                          *)
(***************************************************************************)
EXTENDS SimulatorInvariants, IRPasses

In(t, from, size) == [tid |-> t, size |-> size, from |-> from]
Load(w) == In(10 + w, DRAM, 2)
Out(t, dests, size) == [tid |-> t, size |-> size, dests |-> dests]
W(ins, out, cycles, pe) ==
    [sources |-> ins, outputs |-> <<out>>, cycles |-> cycles, pe |-> pe]

(* As GEMINI writes it, the IR lists the core of every reader as a destination,
   and the DRAM when there is none. *)
Reader(R, On, p) ==
    LET readers == InIdOrder({r[1] : r \in {x \in R : x[2] = p}})
    IN  IF readers = <<>> THEN <<DRAM>>
                          ELSE [i \in DOMAIN readers |-> On[readers[i]]]
Reading(R, On, w) ==
    LET read == InIdOrder({r[2] : r \in {x \in R : x[1] = w}})
    IN  [i \in DOMAIN read |-> In(read[i], On[read[i]], 1)]

(* The network R with workload w on core On[w], reading Own[w] as well. *)
Net(R, On, Own, cycles) ==
    LET Wl(w) == W(Own[w] \o Reading(R, On, w), Out(w, Reader(R, On, w), 1),
                   cycles, w % 2 = 0)
        Placed(c) == InIdOrder({w \in DOMAIN On : On[w] = c})
    IN  [c \in Core |-> Counted(Sorted(
            [i \in DOMAIN Placed(c) |-> Wl(Placed(c)[i])]))]

Earlier(n) == {<<w, p>> \in (1 .. n) \X (1 .. n) : p < w}
Remote(pairs, On) == {r \in pairs : On[r[1]] # On[r[2]]}

-----------------------------------------------------------------------------
(* Two workloads on each of two cores: every set of reads between the cores
   that an order of execution satisfies. *)
Alternating == <<0, 1, 0, 1>>
LoadAlways == [w \in 1 .. 4 |-> <<Load(w)>>]
PairPrograms ==
    {Net(R, Alternating, LoadAlways, 1) :
        R \in SUBSET Remote(Earlier(4), Alternating)}

(* Those in which core 0 reads from core 1. *)
ReadingPrograms ==
    {Net({<<3, 2>>} \cup R, Alternating, LoadAlways, 1) :
        R \in SUBSET Remote(Earlier(4), Alternating)}

(* Every set of reads, inside a core as well; only the first workload of each
   core loads from the DRAM, the second one's transfer in two buffers. *)
LoadFirst == <<<<Load(1)>>, <<Load(2), Load(2)>>, <<>>, <<>>>>
LocalPrograms ==
    {Net(R, Alternating, LoadFirst, 1) : R \in SUBSET Earlier(4)}

(* One workload on each of three cores, any reads between them. *)
Ring == <<0, 1, 2>>
RingPrograms ==
    {Net(R, Ring, <<<<>>, <<>>, <<Load(3)>>>>, 1) :
        R \in SUBSET {<<w, p>> \in (1 .. 3) \X (1 .. 3) : w # p}}

(* Core 0 keeps output 1 for the second workload of core 1, and the transfer
   its own second workload loads does not fit beside it. *)
TightPrograms ==
    LET room == Capacity \div 2
    IN  {[c \in Core |->
           IF c = 0
             THEN <<W(<<In(11, DRAM, first)>>, Out(1, <<1>>, room), 1, FALSE),
                    W(<<In(12, DRAM, room + 1)>>, Out(2, <<DRAM>>, 1), 1, FALSE)>>
             ELSE <<W(<<Load(3)>>, Out(3, <<DRAM>>, 1), slow, FALSE),
                    W(<<In(1, 0, room)>>, Out(4, <<DRAM>>, 1), 1, FALSE)>>] :
        first \in 1 .. 2, slow \in {1, 4, 9}}

FeasiblePrograms == PairPrograms \cup LocalPrograms \cup TightPrograms

(* The first workload of core 0 does not fit; core 1 reads its output. *)
PressurePrograms ==
    {[c \in Core |->
        CASE c = 0 -> <<W(<<In(11, DRAM, first), In(12, DRAM, 2)>>,
                          Out(1, <<1>>, size), 1, FALSE)>>
          [] c = 1 -> <<W(<<Load(3)>>, Out(3, <<DRAM>>, 1), slow, FALSE),
                        W(<<In(1, 0, size)>>, Out(4, <<DRAM>>, 1), 1, FALSE)>>
          [] OTHER -> <<>>] :
     first \in 1 .. 3, size \in {1, 3}, slow \in {1, 15}}

WatchdogPrograms == RingPrograms \cup PressurePrograms

(* As IRs converted from SET-IR do, core 0 lists core 1 once for an output that
   two workloads of core 1 read. *)
SharedPrograms ==
    {[c \in Core |-> Counted(Sorted(
        IF c = 0
          THEN <<W(<<Load(1)>>, Out(1, <<1>>, 1), 1, FALSE)>>
          ELSE <<W(<<In(1, 0, 1)>>, Out(3, <<DRAM>>, 1), 1, FALSE),
                 W(<<In(1, 0, 1)>>, Out(4, <<DRAM>>, 1), 1, FALSE)>>))]}

(* All others are programs the theorems about reference counts are about. *)
ASSUME ReadersAreListed ==
    \/ Programs = SharedPrograms
    \/ CountedPrograms /\ \A prog \in Programs : ReadersListed(prog)

-----------------------------------------------------------------------------
SameNode == [c \in Core |-> c]
ShiftedNode == [c \in Core |-> c + 1]
NoMemoryNode == <<>>
MemoryBehind == <<2, 3>>
MemoryAround == <<0, 3>>

OneByte == [pe |-> 0, vp |-> 0, any |-> 1]
PeLimited == [pe |-> 1, vp |-> 0, any |-> 0]
PeFaster == [pe |-> 2, vp |-> 0, any |-> 1]
=============================================================================
