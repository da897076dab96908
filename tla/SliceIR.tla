------------------------------- MODULE SliceIR -------------------------------
(***************************************************************************)
(* slice_ir.py: the part of an IR that computes some layers, or the first  *)
(* workloads, with everything these depend on.                             *)
(***************************************************************************)
EXTENDS GeminiIR

CONSTANT MaxSlices  \* bound on how often an IR is sliced

ASSUME MaxSlicesAssumption == MaxSlices \in Nat

VARIABLES
    seed,       \* seed_set: what was asked for
    selected,   \* selected
    slices      \* slices taken so far

WorkloadAt(p) == file.cores[p[1]][p[2]]
All == Positions(file.cores)

(* get_core_ids takes every core list, empty ones included. *)
CoresOf(S) == {p[1] : p \in S}

-----------------------------------------------------------------------------
(* Dependencies                                                            *)

(* collect_consumed_transfers, without those that come from the DRAM. *)
Consumed(p) ==
    {s.tid : s \in {x \in ToSet(WorkloadAt(p).sources) : x.from # DRAM}}

Making(t) == {p \in All : t \in OutTids(WorkloadAt(p))}

(* Faulty: producers on other cores are overlooked. *)
PredecessorsOnCore(p) ==
    {LastOf(Making(t)) : t \in {u \in Consumed(p) : Making(u) # {}}}
        \cap {q \in All : q[1] = p[1]}

Predecessors(p) ==
    {LastOf(Making(t)) : t \in {u \in Consumed(p) : Making(u) # {}}}

-----------------------------------------------------------------------------
(* The seed: all workloads of the wanted layers, or the first n in core
   order, n clamped to the number there are. *)

OfLayers(names) == {p \in All : WorkloadAt(p).layer \in names}
First(n) == {p \in All : Cardinality({q \in All : Before(q, p)}) < n}

StartSlice ==
    /\ stage = "gemini" /\ slices < MaxSlices
    /\ DOMAIN file.cores # {}
    /\ \/ \E names \in (SUBSET Layer) \ {{}} : seed' = OfLayers(names)
       \/ \E n \in 0 .. Cardinality(All) : seed' = First(n)
    /\ selected' = seed'
    /\ slices' = slices + 1
    /\ stage' = "closing"
    /\ UNCHANGED file

(* close_under_predecessors: one pass of the loop, until one adds nothing. *)
Grown == selected \cup UNION {Predecessors(p) : p \in selected}

(* Faulty: the flag is never set. *)
SettledAtOnce == TRUE

Settled == Grown = selected

ClosePass ==
    /\ stage = "closing"
    /\ selected' = Grown
    /\ stage' = IF Settled THEN "rebuild" ELSE "closing"
    /\ UNCHANGED <<file, seed, slices>>

-----------------------------------------------------------------------------
(* The new IR: ids made compact, workloads renumbered.                     *)

NewId(c) == Rank(CoresOf(selected), c)
NewIndex(p) == Cardinality({q \in selected : q[1] = p[1] /\ q[2] < p[2]})

(* remap_core_id_in_wl rewrites ids of cores that have a selected workload. *)
Remapped(id) == IF id \in CoresOf(selected) THEN NewId(id) ELSE id

RemappedSource(s) == [s EXCEPT !.from = Remapped(@)]
RemappedDest(d) == [d EXCEPT !.core = Remapped(@)]
RemappedOutput(out) ==
    [out EXCEPT !.dests = [j \in DOMAIN @ |-> RemappedDest(@[j])]]

RemappedWorkload(p) ==
    [WorkloadAt(p) EXCEPT
       !.wid = NewIndex(p),
       !.sources = [i \in DOMAIN @ |-> RemappedSource(@[i])],
       !.ofmap = [k \in DOMAIN @ |-> RemappedOutput(@[k])]]

(* The DRAM entries name a workload by its id; the position is looked up. *)
Selects(core, wl) == <<core, wl + 1>> \in selected
KeptIn(e) == Selects(e.core, e.wl)
KeptOut(e) == e.dests # <<>> /\ Selects(e.dests[1].core, e.dests[1].wl)

Moved(e) == [e EXCEPT !.core = NewId(@), !.wl = NewIndex(<<e.core, @ + 1>>)]

SlicedCores ==
    LET ids == InIdOrder(CoresOf(selected))
        indices(c) == InIdOrder({p[2] : p \in {q \in selected : q[1] = c}})
        list(c) == [i \in DOMAIN indices(c) |-> RemappedWorkload(<<c, indices(c)[i]>>)]
    IN  [c \in 0 .. Len(ids) - 1 |-> list(ids[c + 1])]

Rebuild ==
    LET in  == SelectSeq(file.in, KeptIn)
        out == SelectSeq(file.out, KeptOut)
    IN  /\ stage = "rebuild"
        /\ file' = [cores |-> SlicedCores,
                    in  |-> [i \in DOMAIN in |-> Moved(in[i])],
                    out |-> [i \in DOMAIN out |->
                        [out[i] EXCEPT !.dests = <<Moved(@[1])>>]]]
        /\ stage' = "gemini"
        /\ UNCHANGED <<seed, selected, slices>>

SliceIR == StartSlice \/ ClosePass \/ Rebuild

=============================================================================
