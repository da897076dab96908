------------------------------- MODULE IRTools -------------------------------
(***************************************************************************)
(* The way of an IR to the simulator: converted from SET-IR or written by  *)
(* GEMINI, sliced when the user wants to, and parsed.                      *)
(***************************************************************************)
EXTENDS SetIR, SliceIR, GeminiParser

CONSTANTS
    SetIRs,     \* the results of SET-IR to start from
    GeminiIRs   \* those of GEMINI itself, which need no conversion

(* What the tools take for granted of the IRs they are given.  A transfer is
   the output of one workload, a source that is a core names the one that
   outputs it, and one from the DRAM is output by none. *)
MakersIn(cores, t) ==
    {p \in Positions(cores) : t \in OutTids(cores[p[1]][p[2]])}

Lists(cores) ==
    /\ DOMAIN cores \subseteq Nat
    /\ IsFiniteSet(DOMAIN cores) /\ Cardinality(DOMAIN cores) <= NumCores
    /\ \A t \in Tid : \A p, q \in MakersIn(cores, t) : p = q

NamesMaker(cores, s) ==
    IF s.from = DRAM THEN MakersIn(cores, s.tid) = {}
                     ELSE \E p \in MakersIn(cores, s.tid) : p[1] = s.from

(* SET-IR: every transfer a workload reads from another is described by one
   of its buffers, destinations and the DDR lists name cores with workloads,
   and transfer 0, which stands for weights nobody describes, is no output. *)
SetOutput == [tid : Tid, dests : Seq(Nat \cup {DRAM})]
SetWorkload ==
    [wid : Nat, layer : Layer, ifmap : Seq(Tid), buffers : Seq(Nat),
     ofmap : Seq(SetOutput)]

Describes(r, w, t) ==
    \E b \in ToSet(w.buffers) \cap DOMAIN r.data :
        \E s \in ToSet(r.data[b].source) : s.tid = t

SetWorkloadAgrees(r, w) ==
    /\ \A t \in ToSet(w.ifmap) : MakersIn(r.cores, t) # {} => Describes(r, w, t)
    /\ \A out \in ToSet(w.ofmap) :
          ToSet(out.dests) \subseteq DOMAIN r.cores \cup {DRAM}

SetIRAgrees(r) ==
    /\ Lists(r.cores) /\ MakersIn(r.cores, 0) = {}
    /\ \A c \in DOMAIN r.cores :
          /\ r.cores[c] \in Seq(SetWorkload)
          /\ \A w \in ToSet(r.cores[c]) : SetWorkloadAgrees(r, w)
    /\ \A d \in DOMAIN r.data :
          /\ r.data[d] \in [weight : BOOLEAN, source : Seq(FileSource)]
          /\ \A s \in ToSet(r.data[d].source) : NamesMaker(r.cores, s)
    /\ r.in \in Seq([tid : Tid, core : Nat])
    /\ \A e \in ToSet(r.in) : MakersIn(r.cores, e.tid) # {}
    /\ r.out \in Seq([tid : Tid, dests : Seq(DOMAIN r.cores)])

(* GEMINI: destinations are cores with workloads, and the entries of the DRAM
   name the workloads. *)
Names(cores, c, wl, t) ==
    \E p \in MakersIn(cores, t) : p[1] = c /\ cores[c][p[2]].wid = wl

GeminiWorkloadAgrees(f, w) ==
    /\ \A s \in ToSet(w.sources) : NamesMaker(f.cores, s)
    /\ \A out \in ToSet(w.ofmap) : \A d \in ToSet(out.dests) :
          d.core \in Endpoint \/ \E p \in Positions(f.cores) : p[1] = d.core

EntriesAgree(f) ==
    /\ \A e \in ToSet(f.in) : Names(f.cores, e.core, e.wl, e.tid)
    /\ \A e \in ToSet(f.out) : \A d \in ToSet(e.dests) :
          LET Reads(p) == /\ p[1] = d.core
                          /\ e.tid \in ToSet(f.cores[p[1]][p[2]].ifmap)
          IN  (\E p \in Positions(f.cores) : Reads(p)) =>
                 \E p \in Positions(f.cores) :
                    Reads(p) /\ f.cores[p[1]][p[2]].wid = d.wl

GeminiIRAgrees(f) ==
    /\ Lists(f.cores) /\ EntriesAgree(f)
    /\ \A c \in DOMAIN f.cores :
          /\ f.cores[c] \in Seq(FileWorkload)
          /\ \A w \in ToSet(f.cores[c]) : GeminiWorkloadAgrees(f, w)

ASSUME IRAssumption ==
    /\ \A r \in SetIRs : SetIRAgrees(r)
    /\ \A f \in GeminiIRs : GeminiIRAgrees(f)

vars == <<setir, file, seed, selected, slices, raw, lists, stage>>

NoResult == [cores |-> <<>>, data |-> <<>>, in |-> <<>>, out |-> <<>>]
NoFile == [cores |-> <<>>, in |-> <<>>, out |-> <<>>]

Init ==
    /\ \/ setir \in SetIRs /\ file = NoFile /\ stage = "setir"
       \/ setir = NoResult /\ file \in GeminiIRs /\ stage = "gemini"
    /\ seed = {} /\ selected = {} /\ slices = 0
    /\ raw = <<>> /\ lists = <<>>

Next ==
    \/ Convert /\ UNCHANGED <<seed, selected, slices, raw, lists>>
    \/ SliceIR /\ UNCHANGED <<setir, raw, lists>>
    \/ Parse /\ UNCHANGED <<setir, file, seed, selected, slices>>

Spec == Init /\ [][Next]_vars

=============================================================================
