------------------------------ MODULE GeminiIR ------------------------------
(***************************************************************************)
(* The IR file the tools of src/scripts and the parser hand to each other. *)
(* A workload names the transfers it reads (ifmap), where each of them     *)
(* comes from (the sources of its buffers, flattened), its weights, and    *)
(* for each output the cores and workloads it is meant for.  Entry "-1" of *)
(* the file lists the transfers read from (out) and written to (in) the    *)
(* DRAM with the workload concerned.  Sizes, ranges and names are left out. *)
(***************************************************************************)
EXTENDS Task, IdOrder, SequencesExt

CONSTANT Layer      \* layer names

VARIABLES
    file,   \* the IR as it stands in the file
    stage   \* the tool or parser pass to run next

FileSource == [tid : Tid, from : Endpoint \cup Nat]
FileDest   == [core : Endpoint \cup Nat, wl : Nat]
FileOutput == [tid : Tid, dests : Seq(FileDest)]
FileWorkload ==
    [wid : Nat, layer : Layer, ifmap : Seq(Tid), sources : Seq(FileSource),
     weight : Seq(Tid), ofmap : Seq(FileOutput)]

OutTids(w) == {w.ofmap[k].tid : k \in DOMAIN w.ofmap}

(* (core, index) of every workload of the core lists. *)
Positions(cores) == UNION {{c} \X DOMAIN cores[c] : c \in DOMAIN cores}

(* The order in which every loop over the lists visits the workloads. *)
Before(p, q) == p[1] < q[1] \/ (p[1] = q[1] /\ p[2] < q[2])

(* The last of a set of positions: what a dict holds that was assigned in the
   order of the loops. *)
LastOf(S) == CHOOSE p \in S : \A q \in S : q = p \/ Before(q, p)

=============================================================================
