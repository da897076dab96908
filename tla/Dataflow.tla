------------------------------ MODULE Dataflow ------------------------------
(***************************************************************************)
(* What the simulator promises about a mapped network, with no cycles, no  *)
(* packets and no memory: every core runs its workloads in list order, and *)
(* a workload starts only after each workload it reads from another core,  *)
(* or from its own, has finished computing.  A workload with an output for *)
(* the DRAM writes it back before the core goes on.                        *)
(***************************************************************************)
EXTENDS Integers, Sequences, SequencesExt

CONSTANTS Core, DRAM, Programs

VARIABLES
    ir,     \* ir[c]: the workloads of core c
    next,   \* next[c]: the workload core c runs or will run
    phase   \* phase[c]: what core c does with it

vars == <<ir, next, phase>>

Phase == {"waiting", "running", "writing", "retired"}

HasNext(c) == next[c] <= Len(ir[c])
Now(c) == ir[c][next[c]]

Finished(p, i) == i < next[p] \/ (i = next[p] /\ phase[p] = "writing")

(* Core p has finished a workload that outputs transfer t. *)
Produced(p, t) ==
    \E i \in DOMAIN ir[p] :
        /\ Finished(p, i)
        /\ \E out \in ToSet(ir[p][i].outputs) : out.tid = t

InputsProduced(c) ==
    \A s \in ToSet(Now(c).sources) : s.from # DRAM => Produced(s.from, s.tid)

WritesBack(c) == \E out \in ToSet(Now(c).outputs) : DRAM \in ToSet(out.dests)

Init ==
    /\ ir \in Programs
    /\ next = [c \in Core |-> 1]
    /\ phase = [c \in Core |-> "waiting"]

Move(c, from, to) ==
    phase[c] = from /\ phase' = [phase EXCEPT ![c] = to] /\ UNCHANGED ir

Start(c) ==
    /\ HasNext(c) /\ InputsProduced(c)
    /\ Move(c, "waiting", "running")
    /\ UNCHANGED next

Finish(c) ==
    /\ phase[c] = "running"
    /\ IF WritesBack(c)
         THEN Move(c, "running", "writing") /\ UNCHANGED next
         ELSE /\ Move(c, "running", "waiting")
              /\ next' = [next EXCEPT ![c] = @ + 1]

EndWriteback(c) ==
    /\ Move(c, "writing", "waiting")
    /\ next' = [next EXCEPT ![c] = @ + 1]

Retire(c) ==
    /\ ~HasNext(c)
    /\ Move(c, "waiting", "retired")
    /\ UNCHANGED next

Next == \E c \in Core : Start(c) \/ Finish(c) \/ EndWriteback(c) \/ Retire(c)

Spec == Init /\ [][Next]_vars

=============================================================================
