---------------------------- MODULE GeminiParser ----------------------------
(***************************************************************************)
(* GeminiParser::parse (src/src/gemini_parser.cpp): the workload lists of  *)
(* an IR file are read, core ids are made compact, the workloads of every  *)
(* core are sorted by their dependencies, and destinations are added to    *)
(* outputs with more local readers than listed destinations.  NumCores is  *)
(* the mesh of the file, which has room for all of its lists.              *)
(***************************************************************************)
EXTENDS GeminiIR, IRPasses

VARIABLES
    raw,    \* the lists as read, by core id of the file
    lists   \* core_workloads, after the last pass

-----------------------------------------------------------------------------
(* parse_workload.  The sources are those of the ifmap, each described by the
   first buffer source with that transfer, the DRAM when there is none; then
   the weights.  Sizes do not matter to the passes. *)

(* Faulty: the buffers are not looked at. *)
OriginUnknown(w, t) == DRAM

Origin(w, t) ==
    LET known == {i \in DOMAIN w.sources : w.sources[i].tid = t}
    IN  IF known = {} THEN DRAM ELSE w.sources[Min(known)].from

Parsed(w) ==
    LET source(t) == [tid |-> t, size |-> 1, from |-> Origin(w, t)]
        weight(t) == [tid |-> t, size |-> 1, from |-> DRAM]
    IN  [sources |-> [i \in DOMAIN w.ifmap |-> source(w.ifmap[i])]
                     \o [i \in DOMAIN w.weight |-> weight(w.weight[i])],
         outputs |-> [k \in DOMAIN w.ofmap |->
             [tid |-> w.ofmap[k].tid, size |-> 1,
              dests |-> [j \in DOMAIN w.ofmap[k].dests |-> w.ofmap[k].dests[j].core]]],
         cycles |-> 1, pe |-> FALSE]

RawIds == {c \in DOMAIN file.cores : file.cores[c] # <<>>}

(* Lists go to the place of their compact id; the rest of the mesh is idle. *)
Read ==
    /\ stage = "gemini"
    /\ stage' = "compact"
    /\ raw' = [c \in RawIds |->
                  [i \in DOMAIN file.cores[c] |-> Parsed(file.cores[c][i])]]
    /\ lists' = [c \in Core |->
                    IF c < Cardinality(RawIds) THEN raw'[InIdOrder(RawIds)[c + 1]]
                                               ELSE <<>>]

-----------------------------------------------------------------------------
(* compact_core_ids                                                        *)

(* Faulty: the ids of the file stay. *)
RenamedNot(endpoint) == endpoint

Renamed(endpoint) ==
    IF endpoint \in DOMAIN raw THEN Rank(DOMAIN raw, endpoint) ELSE endpoint

RenamedSource(s) == [s EXCEPT !.from = Renamed(@)]
RenamedOutput(out) ==
    [out EXCEPT !.dests = [j \in DOMAIN @ |-> Renamed(@[j])]]

RenamedWorkload(w) ==
    [w EXCEPT !.sources = [i \in DOMAIN @ |-> RenamedSource(@[i])],
              !.outputs = [k \in DOMAIN @ |-> RenamedOutput(@[k])]]

Pass(from, to) == stage = from /\ stage' = to /\ UNCHANGED raw

CompactCoreIds ==
    /\ Pass("compact", "sort")
    /\ lists' = [c \in Core |->
                    [i \in DOMAIN lists[c] |-> RenamedWorkload(lists[c][i])]]
SortWorkloads ==
    Pass("sort", "count") /\ lists' = [c \in Core |-> Sorted(lists[c])]
FixOutputRefCounts ==
    Pass("count", "done") /\ lists' = [c \in Core |-> Counted(lists[c])]

Parse == Read \/ CompactCoreIds \/ SortWorkloads \/ FixOutputRefCounts

=============================================================================
