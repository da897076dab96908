-------------------------------- MODULE Task --------------------------------
(***************************************************************************)
(* The task representation (include/npu_sim/task.h) that the parser hands  *)
(* to the simulator: for every core a list of workloads.  The sources of   *)
(* all buffers of a workload are flattened in the order every loop of the  *)
(* code visits them.  An endpoint is a core id or DRAM.  Layer names,      *)
(* tensor ranges and operator types matter only through the number of      *)
(* cycles a workload computes and through whether it is a convolution or   *)
(* fully connected layer (pe).                                             *)
(***************************************************************************)
EXTENDS Integers, Sequences

CONSTANTS
    Tid,        \* transfer ids
    NumCores

Core == 0 .. NumCores - 1
DRAM == -1

ASSUME TaskAssumption ==
    /\ Tid \subseteq Nat /\ 0 \in Tid
    /\ NumCores \in Nat \ {0}

Endpoint == Core \cup {DRAM}
Source   == [tid : Tid, size : Nat, from : Endpoint]
Output   == [tid : Tid, size : Nat, dests : Seq(Endpoint)]
Workload == [sources : Seq(Source), outputs : Seq(Output),
             cycles : Nat, pe : BOOLEAN]

=============================================================================
