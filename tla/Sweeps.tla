------------------------------- MODULE Sweeps --------------------------------
(***************************************************************************)
(* The experiments of src/scripts one after the other: the sweep of        *)
(* run_c5_dse.py, the ZeBu study and its comparison.  Each may be stopped  *)
(* at any step, and started again in the same directories.                 *)
(***************************************************************************)
EXTENDS DSE, ZebuStudy

(* Neither script has a lock: they are run one at a time. *)
ASSUME OneAtATime == Proc # {} /\ \A p, q \in Proc : p = q

vars == <<scriptVars, dseVars, studyVars>>

Job == DSEJob \cup StudyJob
ASSUME KnownJobs == \A j \in Job : j.kind \in {"dse", "zebu", "batch"}
First(j) ==
    CASE j.kind = "dse" -> "ir" [] j.kind = "zebu" -> "study" [] j.kind = "batch" -> "batch"

Init ==
    /\ pc = [p \in Proc |-> "ok"]
    /\ job = [p \in Proc |-> CHOOSE j \in DSEJob : TRUE]
    /\ run = [p \in Proc |-> 0] /\ started = 0
    /\ DSEInit /\ StudyInit

Start(p) ==
    /\ \E j \in Job : Launch(p, j, First(j))
    /\ known' = [known EXCEPT ![p] = {}] /\ exp' = [exp EXCEPT ![p] = 1]
    /\ ran' = [ran EXCEPT ![p] = <<>>]
    /\ rows' = [rows EXCEPT ![p] = {}] /\ turn' = [turn EXCEPT ![p] = 1]
    /\ UNCHANGED <<irs, dirs, info, csv, table, breakdown>>

(* experiments/README.md and the header of batch_compare_zebu.py: the cycles
   may be written into the CSV by hand, in either spelling. *)
HandWritten ==
    /\ \A p \in Proc : pc[p] \in Ended
    /\ \E c \in DOMAIN Trace : \E spell \in {c.model, Titled(c.model)} :
           csv' = TableOf({[model |-> spell, batch |-> c.batch, run |-> 0]})
    /\ UNCHANGED <<scriptVars, dseVars, info, table, breakdown, rows, turn>>

Fail(p) == Stop(p) /\ UNCHANGED <<dseVars, studyVars>>

Step(p) ==
    \/ DSEStep(p) /\ UNCHANGED studyVars
    \/ StudyStep(p) /\ UNCHANGED dseVars

Next ==
    \/ \E p \in Proc : Start(p) \/ Step(p) \/ Fail(p)
    \/ HandWritten

Spec == Init /\ [][Next]_vars

(* The interpreter goes on, and every subprocess has a timeout: those of the
   study are part of its steps, those of the sweep a step of their own. *)
OwnStep(p) ==
    \/ (FindIR(p) \/ BeginExperiment(p) \/ SaveOutput(p) \/ DSETimesOut(p))
         /\ UNCHANGED studyVars
    \/ StudyStep(p) /\ UNCHANGED dseVars
FairSpec == Spec /\ \A p \in Proc : WF_vars(OwnStep(p))

-----------------------------------------------------------------------------
(* What is expected of the experiments                                     *)

(* The stdout.txt of an experiment was printed for the config.json beside it,
   also when the script was edited, run with --dry-run or stopped between the
   two files. *)
ResultsMatchConfig ==
    \A n \in Names : dirs[n].stdout.is = "whole" =>
        dirs[n].stdout.data.config = dirs[n].config

(* Experiments with the same key are comparable: whatever sweep ran them, they
   simulated the same IR, mapped once. *)
ResultsOfSameIR ==
    \A i, j \in DOMAIN Experiments :
        LET a == dirs[Experiments[i].name].stdout
            b == dirs[Experiments[j].name].stdout
        IN  KeyOf(Experiments[i]) = KeyOf(Experiments[j])
                /\ a.is = "whole" /\ b.is = "whole" /\ a.data.ok /\ b.data.ok
            => a.data.ir = b.data.ir

(* A study that simulates compares its own results with ZeBu, never rows that
   an earlier one, an interrupted one or a user left in the directory. *)
TableOfOwnRuns ==
    \A p \in Proc : pc[p] \in {"bottleneck", "ok"} /\ run[p] > 0
            /\ job[p].kind = "zebu" /\ ~job[p].skip =>
        \A row \in table.rows : \A r \in row.sims : r.run = run[p]

(* Whatever wrote the CSV and however it spells the models, each network there
   are cycles for is compared with its trace, by either of the two scripts
   that make the table. *)
Covers(result, measured) ==
    \A c \in ZebuTraces : \A r \in measured :
        Lower(r.model) = c.model /\ r.batch = c.batch =>
            \E row \in result :
                /\ row.model = Titled(c.model) /\ row.batch = c.batch
                /\ \E sim \in row.sims : sim.run = r.run
EveryMeasurementCompared ==
    [][\A p \in Proc :
        /\ pc[p] = "batch" /\ pc'[p] = "ok" => Covers(rows'[p], Measured(p))
        /\ pc[p] = "compare" /\ pc'[p] = "bottleneck" /\ csv.is = "table"
                => Covers(table'.rows, csv.rows)]_vars

(* Everything started ends, also when GEMINI or a simulation does not. *)
ExperimentsEnd == \A p \in Proc : (pc[p] \notin Ended) ~> (pc[p] \in Ended)

=============================================================================
