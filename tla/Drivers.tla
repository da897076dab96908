------------------------------- MODULE Drivers -------------------------------
(***************************************************************************)
(* The drivers in one working tree: run_setir_and_simulate.py,             *)
(* gemini_run.py, and compare_setir_gemini_resnet50_two_core.py, which has *)
(* SET-IR map a network, runs gemini_run.py for the same one, and compares *)
(* the IR it copied with the one in the newest record folder.              *)
(***************************************************************************)
EXTENDS SetIRDriver, GeminiRun

CONSTANTS
    InitialSource,      \* the state a fresh or a used tree has
    InitialBinary

VARIABLE compared       \* what the last report of each process compared

vars == <<scriptVars, setirVars, geminiVars, compared>>

CompareJob == [kind |-> "compare", model |-> "resnet50", cfg |-> <<2, 2>>,
               batch |-> 1, patch |-> FALSE, sim |-> FALSE]

Job == SetIRJob \cup GeminiJob \cup {CompareJob}
First(j) == IF j.kind = "gemini" THEN "folder" ELSE "ensure"

Init ==
    /\ pc = [p \in Proc |-> "ok"]
    /\ job = [p \in Proc |-> CompareJob]
    /\ run = [p \in Proc |-> 0] /\ started = 0
    /\ source = InitialSource /\ binary = InitialBinary
    /\ results = [n \in {ResultName(j) : j \in Job} |-> Absent]
    /\ copied = [d \in {OutDir(j) : j \in Job} |-> Absent]
    /\ converted = copied
    /\ held = [p \in Proc |-> Absent]
    /\ clock = 0 /\ folder = [p \in Proc |-> 0]
    /\ records = [b \in Base |-> [s \in 0 .. MaxClock |-> NoRecord]]
    /\ simulated = [p \in Proc |-> "none"]
    /\ compared = [p \in Proc |-> <<>>]

-----------------------------------------------------------------------------
(* A new job starts without anything in memory. *)
Start(p) ==
    /\ \E j \in Job : Launch(p, j, First(j))
    /\ held' = [held EXCEPT ![p] = Absent]
    /\ simulated' = [simulated EXCEPT ![p] = "none"]
    /\ folder' = [folder EXCEPT ![p] = 0]
    /\ compared' = [compared EXCEPT ![p] = <<>>]
    /\ UNCHANGED <<source, binary, results, copied, converted, clock, records>>

Fail(p) == Stop(p) /\ UNCHANGED <<setirVars, geminiVars, compared>>

(* run_gemini of the comparison: the trace_ folders sorted by name. *)
Folders(base) == {s \in 0 .. MaxClock : records[base][s].made}

(* Faulty: sorted the other way. *)
OldestFolder(base) == CHOOSE s \in Folders(base) : \A t \in Folders(base) : s <= t

NewestFolder(base) == CHOOSE s \in Folders(base) : \A t \in Folders(base) : s >= t

ComparesIRs(p) ==
    LET base == BaseOf(job[p])
        irs == {ir \in records[base][NewestFolder(base)].irs : Named(ir, job[p])}
        setir == copied[OutDir(job[p])]
    IN  /\ pc[p] = "pick"
        /\ IF irs # {} /\ setir.is = "whole"
             THEN /\ \E ir \in irs : compared' = [compared EXCEPT ![p] = <<setir.data, ir>>]
                  /\ Goto(p, "ok")
             ELSE Goto(p, "failed") /\ UNCHANGED compared
        /\ UNCHANGED <<setirVars, geminiVars>>

(* The steps of a process; for the comparison gemini_run.py is a subprocess
   with a timeout. *)
Step(p) ==
    \/ SetIRStep(p) /\ UNCHANGED <<geminiVars, compared>>
    \/ GeminiStep(p) /\ UNCHANGED <<setirVars, compared>>
    \/ ComparesIRs(p)

Next ==
    \/ \E p \in Proc : Start(p) \/ Step(p) \/ Fail(p)
    \/ SecondPasses /\ UNCHANGED <<setirVars, compared>>

Spec == Init /\ [][Next]_vars

(* The interpreter goes on with what it does itself, and subprocesses with a
   timeout come back; those of SET-IR and of the simulator need not do so on
   their own.  A second passes. *)
OwnStep(p) ==
    \/ /\ EnsureSetIR(p) \/ Make(p) \/ SetIRStarts(p) \/ CopyResult(p)
          \/ ConvertStarts(p) \/ ConvertEnds(p) \/ SimulatorStarts(p) \/ TimesOut(p)
       /\ UNCHANGED <<geminiVars, compared>>
FairSpec == Spec /\ \A p \in Proc : WF_vars(OwnStep(p))

-----------------------------------------------------------------------------
(* What is expected of the drivers                                         *)

(* The simulator is given an IR of the model and the mesh the user asked for,
   whole, whatever else is mapped, copied and converted in the tree at the
   time and whatever was left behind by runs that stopped. *)
SimulatesOwnNetwork ==
    \A p \in Proc : pc[p] = "simulating" =>
        /\ held[p].is = "whole"
        /\ held[p].data.model = job[p].model
        /\ held[p].data.mesh = Mesh(job[p].cfg)

(* The report is about an IR GEMINI made while the comparison ran, at the time
   of its own record folder or later: never one that an earlier comparison,
   finished or not, left in the same directory.  It may be the IR of another
   comparison of the same second, in the folder both share. *)
ComparesNewIR ==
    \A p \in Proc : pc[p] = "ok" /\ compared[p] # <<>> =>
        compared[p][2].at >= folder[p]

(* A run of run_setir_and_simulate.py ends, also when SET-IR or the simulator
   does not. *)
SetIRJobsEnd ==
    \A p \in Proc : (pc[p] \notin Ended /\ job[p].kind = "setir")
                        ~> (pc[p] \in Ended)

-----------------------------------------------------------------------------
(* What the code says and does not do                                      *)

(* run_via_run_sh returns the exit code of the simulation (gemini_run.py:271):
   a run that ends well has simulated. *)
EndsWellIfSimulated ==
    \A p \in Proc : pc[p] = "ok" /\ job[p].kind = "gemini" /\ job[p].sim /\ run[p] > 0
        => simulated[p] = "ok"

(* With --patch-setir SET-IR reads the mesh from its standard input
   (run_setir_and_simulate.py:7): what it maps is for the mesh asked for. *)
PatchedSetIRMapsMesh ==
    \A p \in Proc : pc[p] = "mapping" /\ job[p].patch =>
        held[p].data.mesh = Mesh(job[p].cfg)

=============================================================================
