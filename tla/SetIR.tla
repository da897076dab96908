-------------------------------- MODULE SetIR --------------------------------
(***************************************************************************)
(* setir_to_gemini_ir.py: from the IR of SET-IR to the format the          *)
(* simulator reads.  SET-IR keeps the description of a buffer once, under  *)
(* its data_id, names cores by their id in its mesh, and does not say which *)
(* workload of a core a transfer is for.                                   *)
(***************************************************************************)
EXTENDS GeminiIR

VARIABLE setir      \* cores, buffer_data and the two DDR lists of SET-IR

Cores == DOMAIN setir.cores

(* The new id of a core; ids without a workload list stay as they are, but as
   a source they become core 0. *)
NewCore(id) == IF id \in Cores THEN Rank(Cores, id) ELSE id
ConvertedSource(s) ==
    [s EXCEPT !.from = IF @ = DRAM \/ @ \in Cores THEN NewCore(@) ELSE 0]

(* tid_to_producer, and consumer_map: the last workload that outputs a
   transfer, and the last workload of a core that has it as an input. *)
Wid(p) == setir.cores[p[1]][p[2]].wid

ProducersOf(t) ==
    {p \in Positions(setir.cores) : t \in OutTids(setir.cores[p[1]][p[2]])}
ConsumersAt(t, c) ==
    {p \in Positions(setir.cores) :
        p[1] = c /\ t \in ToSet(setir.cores[p[1]][p[2]].ifmap)}

(* Faulty: the position in the list for the workload's id. *)
ConsumerPosition(t, c) ==
    IF ConsumersAt(t, c) = {} THEN 0 ELSE LastOf(ConsumersAt(t, c))[2] - 1

Consumer(t, c) ==
    IF ConsumersAt(t, c) = {} THEN 0 ELSE Wid(LastOf(ConsumersAt(t, c)))

ConvertedDests(t, dests) ==
    [i \in DOMAIN dests |->
        [core |-> NewCore(dests[i]), wl |-> Consumer(t, dests[i])]]

-----------------------------------------------------------------------------
(* convert_workload: the buffers are replaced by what their data_id stands
   for, unknown ids skipped; the weights are the DRAM sources of the first
   buffer of weights, transfer 0 when it has none. *)
Known(w) == {i \in DOMAIN w.buffers : w.buffers[i] \in DOMAIN setir.data}
Buffer(w, i) == setir.data[w.buffers[i]]

SourcesOf(w) ==
    FlattenSeq([i \in DOMAIN w.buffers |->
                   IF i \in Known(w) THEN Buffer(w, i).source ELSE <<>>])

WeightsOf(w) ==
    LET weights == {i \in Known(w) : Buffer(w, i).weight}
        source == Buffer(w, Min(weights)).source
        loads == InIdOrder({k \in DOMAIN source : source[k].from = DRAM})
    IN  IF weights = {} THEN <<>>
        ELSE IF loads = <<>> THEN <<0>>
        ELSE [n \in DOMAIN loads |-> source[loads[n]].tid]

ConvertedWorkload(w) ==
    [wid |-> w.wid, layer |-> w.layer, ifmap |-> w.ifmap,
     sources |-> [i \in DOMAIN SourcesOf(w) |-> ConvertedSource(SourcesOf(w)[i])],
     weight |-> WeightsOf(w),
     ofmap |-> [k \in DOMAIN w.ofmap |->
         [w.ofmap[k] EXCEPT !.dests = ConvertedDests(w.ofmap[k].tid, @)]]]

(* DDR "in" entries get the workload that writes the transfer, "out" entries
   the one that reads it. *)
ConvertedIn(e) ==
    IF ProducersOf(e.tid) = {}
      THEN [tid |-> e.tid, core |-> NewCore(e.core), wl |-> 0]
      ELSE LET p == LastOf(ProducersOf(e.tid))
           IN  [tid |-> e.tid, core |-> NewCore(p[1]), wl |-> Wid(p)]

Converted ==
    LET ids == InIdOrder(Cores)
        list(id) == setir.cores[id]
    IN  [cores |-> [c \in 0 .. Len(ids) - 1 |->
             [i \in DOMAIN list(ids[c + 1]) |-> ConvertedWorkload(list(ids[c + 1])[i])]],
         in  |-> [i \in DOMAIN setir.in |-> ConvertedIn(setir.in[i])],
         out |-> [i \in DOMAIN setir.out |->
             [setir.out[i] EXCEPT !.dests = ConvertedDests(setir.out[i].tid, @)]]]

Convert ==
    /\ stage = "setir"
    /\ stage' = "gemini"
    /\ file' = Converted
    /\ UNCHANGED setir

=============================================================================
