----------------------------- MODULE SetIRDriver -----------------------------
(***************************************************************************)
(* run_setir_and_simulate.py: patch and build SET-IR, have it map a model, *)
(* copy and convert the IR, simulate it.  The files are shared by all that *)
(* run in the same working tree; their names hold the model and the mesh,  *)
(* not the batch.                                                          *)
(***************************************************************************)
EXTENDS Scripts

CONSTANTS
    SetIRJob,       \* arguments and configurations the script is run with
    BuiltMesh       \* the mesh SET-IR has hard-coded when it is not patched

VARIABLES
    source,     \* main.cpp of SET-IR: "plain" or "patched"
    binary,     \* what stschedule was built from, or "none"
    results,    \* SET-IR/results/json, by model and mesh
    copied,     \* <model>_<mesh>_setir_ir.json, by output directory
    converted,  \* <model>_<mesh>_gemini_ir.json, by output directory
    held        \* what the process has read or its subprocess is writing

setirVars == <<source, binary, results, copied, converted, held>>

-----------------------------------------------------------------------------
(* get_setir_params_from_config: SET-IR wants at least two rows. *)

AtLeast(low, n) == IF n < low THEN low ELSE n
Mesh(cfg) ==
    LET x == AtLeast(1, cfg[1])
        y == AtLeast(1, cfg[2])
    IN  IF y < 2 /\ x >= 2 THEN <<y, x>> ELSE <<x, AtLeast(2, y)>>

(* Faulty: the name of the result holds the model only. *)
ResultNameOfModel(j) == <<j.model, <<0, 0>>>>

ResultName(j) == <<j.model, Mesh(j.cfg)>>
OutDir(j) == <<j.kind, j.model, Mesh(j.cfg)>>

-----------------------------------------------------------------------------
(* ensure_setir: the mark of the patch in main.cpp means it is not applied
   again; make is called when it was applied now, or nothing is built. *)
NeedsPatch(p) == job[p].patch /\ source = "plain"

EnsureSetIR(p) ==
    /\ pc[p] = "ensure"
    /\ source' = IF NeedsPatch(p) THEN "patched" ELSE source
    /\ Goto(p, IF NeedsPatch(p) \/ binary = "none" THEN "make" ELSE "setir")
    /\ UNCHANGED <<binary, results, copied, converted, held>>

Make(p) ==
    /\ pc[p] = "make"
    /\ binary' = source
    /\ Goto(p, "setir")
    /\ UNCHANGED <<source, results, copied, converted, held>>

-----------------------------------------------------------------------------
(* run_setir: the binary writes a file named by its argument, for the mesh it
   has from its standard input or from its source, or ends without one.  A
   result is taken when a file of that name is there, whoever wrote it; the
   names of the stages of SET-IR's search are not told apart. *)
SetIRStarts(p) ==
    LET j == job[p]
    IN  /\ pc[p] = "setir"
        /\ held' = [held EXCEPT ![p] = Whole(
               [run |-> run[p], model |-> j.model, batch |-> j.batch,
                mesh |-> IF binary = "patched" THEN Mesh(j.cfg) ELSE BuiltMesh])]
        /\ Goto(p, "mapping")
        /\ UNCHANGED <<source, binary, results, copied, converted>>

SetIRWrites(p) ==
    LET name == ResultName(job[p])
        others == {q \in Proc : pc[q] = "writing" /\ ResultName(job[q]) = name}
    IN  /\ pc[p] = "mapping"
        /\ results' = [results EXCEPT ![name] = AfterOpening(others # {})]
        /\ Goto(p, "writing")
        /\ UNCHANGED <<source, binary, copied, converted, held>>

SetIREnds(p) ==
    /\ \/ pc[p] = "mapping" /\ UNCHANGED results
       \/ /\ pc[p] = "writing"
          /\ LET name == ResultName(job[p])
             IN  \E f \in AfterClosing(results[name], held[p]) :
                    results' = [results EXCEPT ![name] = f]
    /\ Goto(p, "copy")
    /\ UNCHANGED <<source, binary, copied, converted, held>>

CopyResult(p) ==
    LET result == results[ResultName(job[p])]
    IN  /\ pc[p] = "copy"
        /\ IF result = Absent
             THEN Goto(p, "failed") /\ UNCHANGED copied
             ELSE /\ copied' = [copied EXCEPT ![OutDir(job[p])] = result]
                  /\ Goto(p, IF job[p].kind = "setir" THEN "convert" ELSE "folder")
        /\ UNCHANGED <<source, binary, results, converted, held>>

-----------------------------------------------------------------------------
(* convert_setir_to_gemini_ir: the converter reads one file, failing when it
   is not whole, and writes the other. *)
ConvertStarts(p) ==
    LET dir == OutDir(job[p])
        others == {q \in Proc : pc[q] = "converting" /\ OutDir(job[q]) = dir}
    IN  /\ pc[p] = "convert"
        /\ IF copied[dir].is = "whole"
             THEN /\ held' = [held EXCEPT ![p] = copied[dir]]
                  /\ converted' = [converted EXCEPT ![dir] = AfterOpening(others # {})]
                  /\ Goto(p, "converting")
             ELSE Goto(p, "failed") /\ UNCHANGED <<held, converted>>
        /\ UNCHANGED <<source, binary, results, copied>>

ConvertEnds(p) ==
    /\ pc[p] = "converting"
    /\ LET dir == OutDir(job[p])
       IN  \E f \in AfterClosing(converted[dir], held[p]) :
              converted' = [converted EXCEPT ![dir] = f]
    /\ Goto(p, IF job[p].sim THEN "simulate" ELSE "ok")
    /\ UNCHANGED <<source, binary, results, copied, held>>

-----------------------------------------------------------------------------
(* run_simulator, and the summary. *)
SimulatorStarts(p) ==
    LET ir == converted[OutDir(job[p])]
    IN  /\ pc[p] = "simulate"
        /\ held' = [held EXCEPT ![p] = ir]
        /\ Goto(p, IF ir.is = "whole" THEN "simulating" ELSE "failed")
        /\ UNCHANGED <<source, binary, results, copied, converted>>

SimulatorEnds(p) ==
    pc[p] = "simulating" /\ Goto(p, "ok") /\ UNCHANGED setirVars

(* The subprocesses wait no longer than their timeouts. *)

(* Faulty: the simulator is waited for without one. *)
HasTimeoutButSimulator(step) == step \in {"mapping", "writing"}

HasTimeout(step) == step \in {"mapping", "writing", "simulating"}

TimesOut(p) ==
    HasTimeout(pc[p]) /\ Goto(p, "failed") /\ UNCHANGED setirVars

SetIRStep(p) ==
    \/ EnsureSetIR(p) \/ Make(p)
    \/ SetIRStarts(p) \/ SetIRWrites(p) \/ SetIREnds(p)
    \/ CopyResult(p) \/ ConvertStarts(p) \/ ConvertEnds(p)
    \/ SimulatorStarts(p) \/ SimulatorEnds(p) \/ TimesOut(p)

=============================================================================
