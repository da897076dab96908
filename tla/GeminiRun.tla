------------------------------ MODULE GeminiRun ------------------------------
(***************************************************************************)
(* gemini_run.py: have GEMINI map a network in a new record folder, and    *)
(* simulate the IR through run.sh, which leaves its trace in the folder.   *)
(* A folder is named after the second it is made in; runs of one second    *)
(* share it.  Everything in it is marked here with the number of the run   *)
(* that wrote it, an IR also with the time.                                *)
(***************************************************************************)
EXTENDS Scripts

CONSTANTS
    GeminiJob,  \* arguments and configurations the script is run with
    MaxClock    \* bound on the seconds

ASSUME ClockAssumption == MaxClock \in Nat

VARIABLES
    clock,      \* the time, in seconds
    folder,     \* the second each process made its folder in
    records,    \* the record folders, by base directory and second
    simulated   \* how the process's simulation ended, or "none"

geminiVars == <<clock, folder, records, simulated>>

Base == {"trace", "gemini_trace"}
BaseOf(j) == IF j.kind = "compare" THEN "gemini_trace" ELSE "trace"

NoRecord == [irs |-> {}, info |-> 0, trace |-> 0, heatmap |-> 0, made |-> FALSE]

RecordOf(p) == records[BaseOf(job[p])][folder[p]]
Put(p, r) ==
    records' = [records EXCEPT ![BaseOf(job[p])][folder[p]] = r]

MakeFolder(p) ==
    /\ pc[p] = "folder"
    /\ folder' = [folder EXCEPT ![p] = clock]
    /\ records' = [records EXCEPT ![BaseOf(job[p])][clock].made = TRUE]
    /\ Goto(p, "gemini")
    /\ UNCHANGED <<clock, simulated>>

-----------------------------------------------------------------------------
(* run_gemini.  GEMINI exits with 0 also when it found no mapping, without an
   IR; one of that name is then looked for in vain. *)
Named(ir, j) == ir.model = j.model /\ ir.mesh = j.cfg

GeminiEnds(p) ==
    LET j == job[p]
        own == [run |-> run[p], model |-> j.model, mesh |-> j.cfg, at |-> clock]
    IN  /\ pc[p] = "gemini"
        /\ \/ Put(p, [RecordOf(p) EXCEPT !.irs = {ir \in @ : ~Named(ir, j)} \cup {own}])
           \/ UNCHANGED records
        /\ Goto(p, "look")
        /\ UNCHANGED <<clock, folder, simulated>>

AfterGemini(j) ==
    IF j.kind = "compare" THEN "pick" ELSE IF j.sim THEN "run_sh" ELSE "ok"

LookForIR(p) ==
    /\ pc[p] = "look"
    /\ IF \E ir \in RecordOf(p).irs : Named(ir, job[p])
         THEN /\ Goto(p, AfterGemini(job[p]))
              /\ IF AfterGemini(job[p]) # "run_sh"
                   THEN Put(p, [RecordOf(p) EXCEPT !.info = run[p]])
                   ELSE UNCHANGED records
         ELSE Goto(p, "failed") /\ UNCHANGED records
    /\ UNCHANGED <<clock, folder, simulated>>

-----------------------------------------------------------------------------
(* run_via_run_sh.  run.sh pipes the simulator into tee, || true, and takes
   PIPESTATUS[0] afterwards, which is then the status of true. *)
SimulationEnds(p) ==
    /\ pc[p] = "run_sh"
    /\ \/ /\ simulated' = [simulated EXCEPT ![p] = "ok"]
          /\ Put(p, [RecordOf(p) EXCEPT !.trace = run[p]])
       \/ /\ simulated' = [simulated EXCEPT ![p] = "failed"]
          /\ UNCHANGED records
    /\ Goto(p, "info")
    /\ UNCHANGED <<clock, folder>>

RunShExit(how) == 0

WriteRunInfo(p) ==
    /\ pc[p] = "info"
    /\ Put(p, [RecordOf(p) EXCEPT !.info = run[p]])
    /\ Goto(p, IF RunShExit(simulated[p]) = 0 THEN "heatmap" ELSE "failed")
    /\ UNCHANGED <<clock, folder, simulated>>

(* plot_phase_heatmap, from whatever workload summary the folder holds. *)
PlotHeatmap(p) ==
    /\ pc[p] = "heatmap"
    /\ Put(p, [RecordOf(p) EXCEPT !.heatmap = RecordOf(p).trace])
    /\ Goto(p, "ok")
    /\ UNCHANGED <<clock, folder, simulated>>

SecondPasses ==
    /\ clock < MaxClock
    /\ clock' = clock + 1
    /\ UNCHANGED <<scriptVars, folder, records, simulated>>

GeminiStep(p) ==
    \/ MakeFolder(p) \/ GeminiEnds(p) \/ LookForIR(p) \/ SimulationEnds(p)
    \/ WriteRunInfo(p) \/ PlotHeatmap(p)

=============================================================================
