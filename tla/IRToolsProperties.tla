-------------------------- MODULE IRToolsProperties --------------------------
(***************************************************************************)
(* What the simulator and its user rely on from the tools and the parser.  *)
(***************************************************************************)
EXTENDS IRTools

(* Every pass of the parser delivers well-formed workloads: endpoints are
   cores of the mesh or the DRAM whatever ids the file had.  A destination
   outside a slice may keep an id of the file (slice_ir.py:199 renames only
   cores with selected workloads). *)
SliceOutput == [tid : Tid, size : Nat, dests : Seq(Endpoint \cup Nat)]
SliceWorkload ==
    [sources : Seq(Source), outputs : Seq(SliceOutput), cycles : Nat, pe : BOOLEAN]

TypeOK ==
    /\ slices \in 0 .. MaxSlices
    /\ stage \in {"setir", "gemini", "closing", "rebuild",
                  "compact", "sort", "count", "done"}
    /\ stage \in {"sort", "count", "done"} =>
         lists \in [Core -> Seq(IF slices = 0 THEN Workload ELSE SliceWorkload)]

-----------------------------------------------------------------------------
(* Conversion                                                              *)

FileWorkloads(c) == IF c \in DOMAIN file.cores THEN ToSet(file.cores[c]) ELSE {}

(* Core and workload id of every DRAM entry of a converted IR name a workload
   that writes the transfer, or, for an input, one that reads it: the two
   entries SET-IR does not have are found again from the rest of the IR. *)
DramEntriesNameWorkloads ==
    stage = "gemini" /\ slices = 0 =>
        /\ \A e \in ToSet(file.in) :
              \E w \in FileWorkloads(e.core) : w.wid = e.wl /\ e.tid \in OutTids(w)
        /\ \A e \in ToSet(file.out) : \A d \in ToSet(e.dests) :
              (\E w \in FileWorkloads(d.core) : e.tid \in ToSet(w.ifmap)) =>
                 \E w \in FileWorkloads(d.core) :
                    w.wid = d.wl /\ e.tid \in ToSet(w.ifmap)

-----------------------------------------------------------------------------
(* Slicing                                                                 *)

Closed(S) == \A p \in S : Predecessors(p) \subseteq S

(* The slice is what was asked for and all it depends on (slice_ir.py:6), and
   nothing else: the least set with the seed that contains the producers of
   all transfers its workloads consume. *)
SliceIsClosure ==
    stage = "rebuild" =>
        /\ seed \subseteq selected
        /\ Closed(selected)
        /\ \A S \in SUBSET All : seed \subseteq S /\ Closed(S) => selected \subseteq S

-----------------------------------------------------------------------------
(* Parsing                                                                 *)

DependsOn(list, i, j) ==
    /\ i # j
    /\ \E s \in ToSet(list[i].sources) : \E out \in ToSet(list[j].outputs) :
        s.from # DRAM /\ s.tid = out.tid

Ordered(list) ==
    \A i, j \in DOMAIN list : DependsOn(list, i, j) => j < i

(* No set of workloads in which each one depends on another of the set. *)
Acyclic(list) ==
    \A S \in (SUBSET DOMAIN list) \ {{}} :
        \E i \in S : \A j \in S : ~DependsOn(list, i, j)

ReadList(c) ==
    IF c < Cardinality(DOMAIN raw) THEN raw[InIdOrder(DOMAIN raw)[c + 1]] ELSE <<>>
Original(c) == [i \in DOMAIN ReadList(c) |-> RenamedWorkload(ReadList(c)[i])]

(* Sorting reorders a list and loses nothing: the workloads of an acyclic list
   all come out, each after those of the same core it reads from, so that a
   core never waits for a workload that is behind in its own queue. *)
SortedByDependencies ==
    stage = "count" =>
        \A c \in Core : Acyclic(Original(c)) =>
            /\ Ordered(lists[c])
            /\ Len(lists[c]) = Len(Original(c))
            /\ ToSet(lists[c]) = ToSet(Original(c))

Outputting(c, t) == \E w \in ToSet(lists[c]) : t \in OutputTids(w)

(* Conversion, slicing and the passes keep the dataflow: what a workload reads
   from a core of SET-IR's mesh it reads in the end from the core whose list
   outputs the transfer.  A source that names another core, or none, would be
   a READ_REQUEST nobody answers.  Lists with a dependency cycle inside a core
   are excepted, since sorting empties their workloads. *)
SourcesNameProducers ==
    stage = "done" /\ (\A c \in Core : Acyclic(Original(c))) =>
        \A c \in Core : \A w \in ToSet(lists[c]) : \A s \in ToSet(w.sources) :
            s.from # DRAM => s.from \in Core /\ Outputting(s.from, s.tid)

(* Nothing a core of the network outputs is loaded from the DRAM instead: the
   parser takes a transfer for a DRAM input when no buffer describes it. *)
DramReadsHaveNoProducer ==
    stage = "done" =>
        \A c \in Core : \A w \in ToSet(lists[c]) : \A s \in ToSet(w.sources) :
            s.from = DRAM => ProducersOf(s.tid) = {}

=============================================================================
