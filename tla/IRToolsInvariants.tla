-------------------------- MODULE IRToolsInvariants --------------------------
(***************************************************************************)
(* The inductive invariant behind the theorems about IRTools.              *)
(***************************************************************************)
EXTENDS IRToolsProperties

(* The lists of a file: what is taken for granted of the IRs holds of all the
   tools make of them.  A slice has not all of the producers, so what comes
   from the DRAM is compared with the lists of SET-IR. *)
WorkloadAgrees(set, cores, w) ==
    /\ \A s \in ToSet(w.sources) :
          s.from # DRAM => \E q \in MakersIn(cores, s.tid) : q[1] = s.from
    /\ \A t \in ToSet(w.ifmap) : Origin(w, t) = DRAM => MakersIn(set, t) = {}
    /\ \A t \in ToSet(w.weight) : MakersIn(set, t) = {}

FileAgrees(set, cores) ==
    /\ Lists(cores)
    /\ \A c \in DOMAIN cores :
          /\ cores[c] \in Seq(FileWorkload)
          /\ \A w \in ToSet(cores[c]) : WorkloadAgrees(set, cores, w)

(* Without slicing every destination is an endpoint, now or when the parser
   has compacted the ids. *)
DestsAgree(cores) ==
    \A c \in DOMAIN cores : \A w \in ToSet(cores[c]) :
        \A out \in ToSet(w.ofmap) : \A d \in ToSet(out.dests) :
            d.core \in Endpoint \/ \E p \in Positions(cores) : p[1] = d.core

FileInv ==
    /\ stage = "setir" => SetIRAgrees(setir)
    /\ stage # "setir" => FileAgrees(setir.cores, file.cores)
    /\ stage # "setir" /\ slices = 0 => DestsAgree(file.cores)
    /\ stage = "gemini" /\ slices = 0 => EntriesAgree(file)

(* The selection consists of workloads of the file, and is closed when the
   new file is made of it. *)
SelectionInv ==
    /\ slices \in 0 .. MaxSlices
    /\ stage \in {"closing", "rebuild"} => selected \subseteq All /\ slices > 0
    /\ stage = "rebuild" => Closed(selected)

(* The passes: each list is what the passes so far make of the file. *)
Reading ==
    [c \in RawIds |-> [i \in DOMAIN file.cores[c] |-> Parsed(file.cores[c][i])]]

PassInv ==
    /\ stage \in {"compact", "sort", "count", "done"} => raw = Reading
    /\ stage = "compact" => lists = [c \in Core |-> ReadList(c)]
    /\ stage = "sort" => lists = [c \in Core |-> Original(c)]
    /\ stage = "count" => lists = [c \in Core |-> Sorted(Original(c))]
    /\ stage = "done" => lists = [c \in Core |-> Counted(Sorted(Original(c)))]

Stage == {"setir", "gemini", "closing", "rebuild",
          "compact", "sort", "count", "done"}

ToolInv ==
    stage \in Stage /\ FileInv /\ SelectionInv /\ PassInv

=============================================================================
