------------------------------- MODULE Scripts -------------------------------
(***************************************************************************)
(* Processes that run the scripts of src/scripts.  A process works through *)
(* one job; it may stop at any step, because it is killed, a subprocess    *)
(* fails or a file is not what it should be.  What it leaves behind stays  *)
(* in the file system for the next one.                                    *)
(***************************************************************************)
EXTENDS Integers, FiniteSets

CONSTANTS
    Proc,       \* processes the user may have running at the same time
    MaxStarts   \* bound on the number of jobs started

VARIABLES
    pc,         \* the step of each process, or how its last job ended
    job,        \* its arguments
    run,        \* the number of its job
    started     \* jobs started so far

scriptVars == <<pc, job, run, started>>

Ended == {"ok", "failed"}

Goto(p, to) ==
    pc' = [pc EXCEPT ![p] = to] /\ UNCHANGED <<job, run, started>>

Launch(p, j, first) ==
    /\ pc[p] \in Ended /\ started < MaxStarts
    /\ started' = started + 1
    /\ run' = [run EXCEPT ![p] = started + 1]
    /\ job' = [job EXCEPT ![p] = j]
    /\ pc' = [pc EXCEPT ![p] = first]

Stop(p) == pc[p] \notin Ended /\ Goto(p, "failed")

(* A file: absent, begun by one writer, mixed by several, or whole; what it
   tells is data. *)
Absent == [is |-> "absent"]
Begun == [is |-> "begun"]
Mixed == [is |-> "mixed"]
Whole(data) == [is |-> "whole", data |-> data]

(* Opening a file for writing empties it, but whoever has it open goes on; the
   one that ends may have written over all of the others, or not. *)
AfterOpening(shared) == IF shared THEN Mixed ELSE Begun
AfterClosing(file, own) == IF file = Begun THEN {own} ELSE {own, Mixed, file}

=============================================================================
