----------------------------- MODULE SweepProofs -----------------------------
(***************************************************************************)
(* For every list of experiments and networks, and however often edited    *)
(* scripts are stopped and started: a result of run_c5_dse.py belongs to   *)
(* the configuration beside it, results of one key are of one IR, and a    *)
(* ZeBu study makes its table from its own simulations.                    *)
(***************************************************************************)
EXTENDS Sweeps, TLAPS

(* The form of what the steps update in place. *)
Shapes ==
    /\ pc = [p \in Proc |-> pc[p]]
    /\ ran = [p \in Proc |-> ran[p]]
    /\ exp \in [Proc -> 1 .. Len(Experiments)]
    /\ dirs = [n \in Names |-> [config |-> dirs[n].config, stdout |-> dirs[n].stdout]]

(* The simulation a sweep waits for runs with the configuration in its
   directory: nobody writes another one before the result is there. *)
RunsWithConfig ==
    \A p \in Proc : pc[p] \in {"running", "saving"} =>
        ran[p].config = dirs[DirOf(p)].config

ConfigInv == Shapes /\ RunsWithConfig /\ ResultsMatchConfig

-----------------------------------------------------------------------------
LEMMA FileKinds ==
    /\ Absent.is = "absent" /\ Begun.is = "begun"
    /\ \A d : Whole(d).is = "whole" /\ Whole(d).data = d
  BY DEF Absent, Begun, Whole

LEMMA DirNamed ==
    ASSUME Shapes, NEW p \in Proc PROVE DirOf(p) \in Names
<1>1. exp[p] \in 1 .. Len(Experiments)  BY DEF Shapes
<1>2. Len(Experiments) \in Nat  BY ExperimentsListed
<1>3. DOMAIN Experiments = 1 .. Len(Experiments)
  BY ExperimentsListed
<1> QED BY <1>1, <1>3 DEF DirOf, Doing, Names

LEMMA ConfigInit == Init => ConfigInv
<1> SUFFICES ASSUME Init PROVE ConfigInv  OBVIOUS
<1>1. Shapes
  BY ExperimentsListed DEF Init, DSEInit, Shapes
<1>2. RunsWithConfig
  BY DEF Init, RunsWithConfig
<1>3. ResultsMatchConfig
  BY FileKinds DEF Init, DSEInit, ResultsMatchConfig
<1> QED BY <1>1, <1>2, <1>3 DEF ConfigInv

(* A step after which the only process waits for no simulation: what remains
   of the invariant is about the directories. *)
LEMMA Idles ==
    ASSUME ConfigInv, NEW p \in Proc, NEW to,
           to \notin {"running", "saving"},
           pc' = [pc EXCEPT ![p] = to],
           exp' \in [Proc -> 1 .. Len(Experiments)],
           ran' = [q \in Proc |-> ran'[q]],
           dirs' = [n \in Names |-> [config |-> dirs'[n].config,
                                     stdout |-> dirs'[n].stdout]],
           ResultsMatchConfig'
    PROVE  ConfigInv'
<1>1. Shapes'
  BY DEF ConfigInv, Shapes
<1>2. \A q \in Proc : q = p  BY OneAtATime
<1>3. pc'[p] = to  BY DEF ConfigInv, Shapes
<1>4. RunsWithConfig'
  BY <1>2, <1>3 DEF RunsWithConfig
<1> QED BY <1>1, <1>4 DEF ConfigInv

LEMMA IdlesInPlace ==
    ASSUME ConfigInv, NEW p \in Proc, NEW to,
           to \notin {"running", "saving"},
           pc' = [pc EXCEPT ![p] = to],
           UNCHANGED <<dirs, ran, exp>>
    PROVE  ConfigInv'
<1>1. ResultsMatchConfig'
  BY DEF ConfigInv, ResultsMatchConfig
<1> QED BY <1>1, Idles DEF ConfigInv, Shapes

LEMMA Stays ==
    ASSUME ConfigInv, UNCHANGED <<pc, exp, ran, dirs>> PROVE ConfigInv'
  BY DEF ConfigInv, Shapes, RunsWithConfig, ResultsMatchConfig, DirOf, Doing

LEMMA Advances ==
    ASSUME Shapes, NEW p \in Proc, NextExperiment(p)
    PROVE  /\ exp' \in [Proc -> 1 .. Len(Experiments)]
           /\ \E to \in {"ir", "ok"} : pc' = [pc EXCEPT ![p] = to]
<1>1. Len(Experiments) \in Nat  BY ExperimentsListed
<1>2. CASE exp[p] < Len(Experiments)
  <2>1. exp[p] + 1 \in 1 .. Len(Experiments)
    BY <1>1, <1>2 DEF Shapes
  <2>2. exp' = [exp EXCEPT ![p] = exp[p] + 1]
    BY <1>2 DEF NextExperiment
  <2>3. pc' = [pc EXCEPT ![p] = "ir"]
    BY <1>2 DEF NextExperiment, Goto
  <2> QED BY <2>1, <2>2, <2>3 DEF Shapes
<1>3. CASE ~(exp[p] < Len(Experiments))
  BY <1>3 DEF NextExperiment, Goto, Shapes
<1> QED BY <1>2, <1>3

-----------------------------------------------------------------------------
(* A configuration is written where no result is, or not at all. *)
LEMMA WritesConfig ==
    ASSUME ConfigInv, NEW p \in Proc, dirs' = WrittenConfig(p)
    PROVE  /\ dirs' = [n \in Names |-> [config |-> dirs'[n].config,
                                        stdout |-> dirs'[n].stdout]]
           /\ ResultsMatchConfig'
<1>0. DirOf(p) \in Names  BY DirNamed DEF ConfigInv
<1>1. CASE dirs[DirOf(p)].stdout.is = "absent"
  <2>1. dirs' = [dirs EXCEPT ![DirOf(p)].config = Whole(Config(p))]
    BY <1>1 DEF WrittenConfig
  <2>2. \A n \in Names : /\ dirs'[n].stdout = dirs[n].stdout
                         /\ n # DirOf(p) => dirs'[n].config = dirs[n].config
    BY <1>0, <2>1 DEF ConfigInv, Shapes
  <2>3. ResultsMatchConfig'
    BY <1>1, <2>2 DEF ConfigInv, ResultsMatchConfig
  <2> QED BY <1>0, <2>1, <2>3 DEF ConfigInv, Shapes
<1>2. CASE dirs[DirOf(p)].stdout.is # "absent"
  BY <1>2 DEF WrittenConfig, ConfigInv, Shapes, ResultsMatchConfig
<1> QED BY <1>1, <1>2

LEMMA BeginExperimentKeeps ==
    ASSUME ConfigInv, NEW p \in Proc, BeginExperiment(p) PROVE ConfigInv'
<1>1. /\ dirs' = [n \in Names |-> [config |-> dirs'[n].config,
                                   stdout |-> dirs'[n].stdout]]
      /\ ResultsMatchConfig'
  BY WritesConfig DEF BeginExperiment
<1>2. /\ ran' = [q \in Proc |-> ran'[q]]
      /\ ran'[p].config = dirs'[DirOf(p)].config
  BY DEF BeginExperiment, ConfigInv, Shapes
<1>3. CASE NextExperiment(p)
  <2>1. PICK to \in {"ir", "ok"} : pc' = [pc EXCEPT ![p] = to]
    BY <1>3, Advances DEF ConfigInv
  <2>2. exp' \in [Proc -> 1 .. Len(Experiments)]
    BY <1>3, Advances DEF ConfigInv
  <2> QED BY <1>1, <1>2, <2>1, <2>2, Idles
<1>4. CASE Goto(p, "running") /\ UNCHANGED exp
  <2>1. Shapes'
    BY <1>1, <1>2, <1>4 DEF Goto, ConfigInv, Shapes
  <2>2. \A q \in Proc : q = p  BY OneAtATime
  <2>3. DirOf(p)' = DirOf(p)
    BY <1>4 DEF DirOf, Doing
  <2>4. RunsWithConfig'
    BY <1>2, <2>2, <2>3 DEF RunsWithConfig
  <2> QED BY <1>1, <2>1, <2>4 DEF ConfigInv
<1> QED BY <1>3, <1>4 DEF BeginExperiment

(* The output is begun where the simulation ran, and saved with what it ran
   with. *)
LEMMA SimulatorExitsKeeps ==
    ASSUME ConfigInv, NEW p \in Proc, SimulatorExits(p) PROVE ConfigInv'
<1>0. DirOf(p) \in Names  BY DirNamed DEF ConfigInv
<1>1. \A n \in Names : /\ dirs'[n].config = dirs[n].config
                       /\ n # DirOf(p) => dirs'[n].stdout = dirs[n].stdout
  BY <1>0 DEF SimulatorExits, ConfigInv, Shapes
<1>2. dirs'[DirOf(p)].stdout = Begun
  BY <1>0 DEF SimulatorExits, ConfigInv, Shapes
<1>3. Shapes'
  <2>1. pc' = [pc EXCEPT ![p] = "saving"] /\ UNCHANGED <<exp, ran>>
    BY DEF SimulatorExits, Goto
  <2>2. pc' = [q \in Proc |-> pc'[q]]
    BY <2>1 DEF ConfigInv, Shapes
  <2>3. dirs' = [n \in Names |-> [config |-> dirs'[n].config,
                                  stdout |-> dirs'[n].stdout]]
    <3>1. dirs' = [dirs EXCEPT ![DirOf(p)].stdout = Begun]
      BY DEF SimulatorExits
    <3> QED BY <1>0, <3>1 DEF ConfigInv, Shapes
  <2> QED BY <2>1, <2>2, <2>3 DEF ConfigInv, Shapes
<1>4. ResultsMatchConfig'
  BY <1>1, <1>2, FileKinds DEF ConfigInv, ResultsMatchConfig
<1>5. \A q \in Proc : q = p  BY OneAtATime
<1>6. DirOf(p)' = DirOf(p) /\ ran' = ran
  BY DEF SimulatorExits, DirOf, Doing
<1>7. ran[p].config = dirs[DirOf(p)].config
  BY DEF SimulatorExits, ConfigInv, RunsWithConfig
<1>8. RunsWithConfig'
  BY <1>0, <1>1, <1>5, <1>6, <1>7 DEF RunsWithConfig
<1> QED BY <1>3, <1>4, <1>8 DEF ConfigInv

LEMMA SaveOutputKeeps ==
    ASSUME ConfigInv, NEW p \in Proc, SaveOutput(p) PROVE ConfigInv'
<1>0. DirOf(p) \in Names  BY DirNamed DEF ConfigInv
<1>1. PICK ok : dirs' = [dirs EXCEPT ![DirOf(p)].stdout =
                  Whole([config |-> ran[p].config, ir |-> ran[p].ir, ok |-> ok])]
  BY DEF SaveOutput
<1>2. \A n \in Names : /\ dirs'[n].config = dirs[n].config
                       /\ n # DirOf(p) => dirs'[n].stdout = dirs[n].stdout
  BY <1>0, <1>1 DEF ConfigInv, Shapes
<1>3. dirs'[DirOf(p)].stdout.data.config = ran[p].config
  <2>1. dirs'[DirOf(p)].stdout
          = Whole([config |-> ran[p].config, ir |-> ran[p].ir, ok |-> ok])
    BY <1>0, <1>1 DEF ConfigInv, Shapes
  <2> QED BY <2>1, FileKinds
<1>4. ran[p].config = dirs[DirOf(p)].config
  BY DEF SaveOutput, ConfigInv, RunsWithConfig
<1>5. ResultsMatchConfig'
  BY <1>0, <1>2, <1>3, <1>4 DEF ConfigInv, ResultsMatchConfig
<1>6. dirs' = [n \in Names |-> [config |-> dirs'[n].config,
                                stdout |-> dirs'[n].stdout]]
  BY <1>0, <1>1 DEF ConfigInv, Shapes
<1>7. PICK to \in {"ir", "ok"} : pc' = [pc EXCEPT ![p] = to]
  BY Advances DEF SaveOutput, ConfigInv
<1>8. exp' \in [Proc -> 1 .. Len(Experiments)]
  BY Advances DEF SaveOutput, ConfigInv
<1>9. ran' = [q \in Proc |-> ran'[q]]
  BY DEF SaveOutput, ConfigInv, Shapes
<1> QED BY <1>5, <1>6, <1>7, <1>8, <1>9, Idles

LEMMA SweepKeeps ==
    ASSUME ConfigInv, NEW p \in Proc, DSEStep(p) PROVE ConfigInv'
<1>1. CASE FindIR(p)
  <2>1. PICK to \in {"experiment", "mapping"} : pc' = [pc EXCEPT ![p] = to]
    BY <1>1 DEF FindIR, Goto
  <2> QED BY <1>1, <2>1, IdlesInPlace DEF FindIR
<1>2. CASE MapNetwork(p)
  <2>1. PICK to \in {"experiment", "failed"} : pc' = [pc EXCEPT ![p] = to]
    BY <1>2 DEF MapNetwork, Goto
  <2> QED BY <1>2, <2>1, IdlesInPlace DEF MapNetwork
<1>3. CASE BeginExperiment(p)  BY <1>3, BeginExperimentKeeps
<1>4. CASE SimulatorExits(p)  BY <1>4, SimulatorExitsKeeps
<1>5. CASE SaveOutput(p)  BY <1>5, SaveOutputKeeps
<1>6. CASE DSETimesOut(p)
  <2>1. pc' = [pc EXCEPT ![p] = "failed"] /\ UNCHANGED <<dirs, ran, exp>>
    BY <1>6 DEF DSETimesOut, Goto, dseVars
  <2> QED BY <2>1, IdlesInPlace
<1> QED BY <1>1, <1>2, <1>3, <1>4, <1>5, <1>6 DEF DSEStep

-----------------------------------------------------------------------------
(* The study moves its own process only. *)
LEMMA StudyKeeps ==
    ASSUME ConfigInv, NEW p \in Proc, StudyStep(p), UNCHANGED dseVars
    PROVE  ConfigInv'
<1>1. UNCHANGED <<dirs, ran, exp>>  BY DEF dseVars
<1>2. \/ UNCHANGED pc
      \/ \E to \in {"compare", "zebu", "rewrite", "failed", "bottleneck", "ok"} :
            pc' = [pc EXCEPT ![p] = to]
  BY DEF StudyStep, BeginStudy, SimulateForZebu, RewriteResults, EndSimulations,
         CompareWithZebu, SimulateForBatch, BatchCompare,
         SimulateForBottleneck, EndBottlenecks, Goto
<1> QED BY <1>1, <1>2, IdlesInPlace, Stays

LEMMA StartKeeps ==
    ASSUME ConfigInv, NEW p \in Proc, Start(p) PROVE ConfigInv'
<1>1. PICK j \in Job : Launch(p, j, First(j))  BY DEF Start
<1>2. pc' = [pc EXCEPT ![p] = First(j)]  BY <1>1 DEF Launch
<1>3. First(j) \notin {"running", "saving"}
  BY KnownJobs DEF First, Job
<1>4. exp' \in [Proc -> 1 .. Len(Experiments)]
  BY ExperimentsListed DEF Start, ConfigInv, Shapes
<1>5. ran' = [q \in Proc |-> ran'[q]]
  BY DEF Start, ConfigInv, Shapes
<1>6. ResultsMatchConfig'
  BY DEF Start, ConfigInv, ResultsMatchConfig
<1>7. dirs' = [n \in Names |-> [config |-> dirs'[n].config,
                                stdout |-> dirs'[n].stdout]]
  BY DEF Start, ConfigInv, Shapes
<1> QED BY <1>2, <1>3, <1>4, <1>5, <1>6, <1>7, Idles

LEMMA ConfigNext == ConfigInv /\ [Next]_vars => ConfigInv'
<1> SUFFICES ASSUME ConfigInv, [Next]_vars PROVE ConfigInv'  OBVIOUS
<1>1. ASSUME NEW p \in Proc, Start(p) PROVE ConfigInv'  BY <1>1, StartKeeps
<1>2. ASSUME NEW p \in Proc, DSEStep(p) PROVE ConfigInv'  BY <1>2, SweepKeeps
<1>3. ASSUME NEW p \in Proc, StudyStep(p), UNCHANGED dseVars PROVE ConfigInv'
  BY <1>3, StudyKeeps
<1>4. ASSUME NEW p \in Proc, Fail(p) PROVE ConfigInv'
  <2>1. pc' = [pc EXCEPT ![p] = "failed"] /\ UNCHANGED <<dirs, ran, exp>>
    BY <1>4 DEF Fail, Stop, Goto, dseVars
  <2> QED BY <2>1, IdlesInPlace
<1>5. CASE HandWritten
  BY <1>5, Stays DEF HandWritten, scriptVars, dseVars
<1>6. CASE UNCHANGED vars
  BY <1>6, Stays DEF vars, scriptVars, dseVars
<1> QED BY <1>1, <1>2, <1>3, <1>4, <1>5, <1>6 DEF Next, Step

(* stdout.txt was printed for the config.json beside it (run_c5_dse.py:192),
   whatever sweeps were stopped, edited or run with --dry-run before. *)
THEOREM ResultsBelongToConfig == Spec => []ResultsMatchConfig
<1>1. ConfigInv => ResultsMatchConfig  BY DEF ConfigInv
<1> QED BY <1>1, ConfigInit, ConfigNext, PTL DEF Spec

-----------------------------------------------------------------------------
(* Results of one key                                                      *)

(* A whole IR stays as it is: GEMINI maps only where there is none, and what a
   stopped run left behind is never mapped again. *)
MapsInPlaceOfNone ==
    \A p \in Proc : pc[p] = "mapping" => irs[KeyOf(Doing(p))] = Begun

RunsWithIR ==
    \A p \in Proc : pc[p] \in {"running", "saving"} /\ ran[p].ir.is = "whole" =>
        ran[p].ir = irs[KeyOf(Doing(p))]

OkResultsOfIR ==
    \A i \in DOMAIN Experiments :
        LET out == dirs[Experiments[i].name].stdout
        IN  out.is = "whole" /\ out.data.ok =>
                /\ out.data.ir.is = "whole"
                /\ out.data.ir = irs[KeyOf(Experiments[i])]

IRInv ==
    /\ irs = [k \in Keys |-> irs[k]]
    /\ MapsInPlaceOfNone /\ RunsWithIR /\ OkResultsOfIR

-----------------------------------------------------------------------------
(* Results of one key: proof                                               *)

LEMMA KeyListed ==
    /\ \A i \in DOMAIN Experiments : KeyOf(Experiments[i]) \in Keys
                                     /\ Experiments[i].name \in Names
    /\ Shapes => \A p \in Proc : /\ exp[p] \in DOMAIN Experiments
                                 /\ KeyOf(Doing(p)) \in Keys
<1>1. \A i \in DOMAIN Experiments : KeyOf(Experiments[i]) \in Keys
                                    /\ Experiments[i].name \in Names
  BY DEF Keys, Names
<1>2. Shapes => \A p \in Proc : exp[p] \in DOMAIN Experiments
  BY ExperimentsListed DEF Shapes
<1> QED BY <1>1, <1>2 DEF Doing

LEMMA IRInit == Init => IRInv
<1> SUFFICES ASSUME Init PROVE IRInv  OBVIOUS
<1>1. irs = [k \in Keys |-> irs[k]]
  BY DEF Init, DSEInit
<1>2. MapsInPlaceOfNone /\ RunsWithIR
  BY DEF Init, MapsInPlaceOfNone, RunsWithIR
<1>3. \A n \in Names : dirs[n].stdout.is = "absent"
  BY FileKinds DEF Init, DSEInit
<1>4. OkResultsOfIR
  BY <1>3, KeyListed DEF OkResultsOfIR
<1> QED BY <1>1, <1>2, <1>4 DEF IRInv

(* A step that leaves the IRs and the results, and after which the only
   process does not map or simulate. *)
LEMMA IdlesWithIRs ==
    ASSUME Shapes, IRInv, NEW p \in Proc, NEW to,
           to \notin {"mapping", "running", "saving"},
           pc' = [pc EXCEPT ![p] = to],
           irs' = irs, \A n \in Names : dirs'[n].stdout = dirs[n].stdout
    PROVE  IRInv'
<1>1. \A q \in Proc : q = p  BY OneAtATime
<1>2. pc'[p] = to  BY DEF Shapes
<1>3. MapsInPlaceOfNone' /\ RunsWithIR'
  BY <1>1, <1>2 DEF MapsInPlaceOfNone, RunsWithIR
<1>4. OkResultsOfIR'
  BY KeyListed DEF IRInv, OkResultsOfIR
<1> QED BY <1>3, <1>4 DEF IRInv

LEMMA StaysWithIRs ==
    ASSUME Shapes, IRInv, UNCHANGED <<pc, exp, ran, dirs, irs>> PROVE IRInv'
  BY DEF IRInv, MapsInPlaceOfNone, RunsWithIR, OkResultsOfIR, Doing

(* Nothing that is whole is replaced. *)
LEMMA WholeStays ==
    ASSUME Shapes, IRInv, NEW p \in Proc, NEW f,
           irs[KeyOf(Doing(p))].is # "whole",
           irs' = [irs EXCEPT ![KeyOf(Doing(p))] = f], dirs' = dirs
    PROVE  /\ irs' = [k \in Keys |-> irs'[k]] /\ OkResultsOfIR'
           /\ irs'[KeyOf(Doing(p))] = f
<1>1. KeyOf(Doing(p)) \in Keys  BY KeyListed
<1>2. \A k \in Keys : irs[k].is = "whole" => irs'[k] = irs[k]
  BY DEF IRInv
<1>3. OkResultsOfIR'
  <2> SUFFICES ASSUME NEW i \in DOMAIN Experiments,
                      dirs[Experiments[i].name].stdout.is = "whole",
                      dirs[Experiments[i].name].stdout.data.ok
               PROVE  LET out == dirs[Experiments[i].name].stdout
                      IN  /\ out.data.ir.is = "whole"
                          /\ out.data.ir = irs'[KeyOf(Experiments[i])]
    BY DEF OkResultsOfIR
  <2> DEFINE out == dirs[Experiments[i].name].stdout
  <2>1. out.data.ir.is = "whole" /\ out.data.ir = irs[KeyOf(Experiments[i])]
    BY DEF IRInv, OkResultsOfIR
  <2>2. KeyOf(Experiments[i]) \in Keys  BY KeyListed
  <2> QED BY <1>2, <2>1, <2>2
<1> QED BY <1>1, <1>3 DEF IRInv

LEMMA FindIRKeepsIRs ==
    ASSUME Shapes, IRInv, NEW p \in Proc, FindIR(p) PROVE IRInv'
<1> DEFINE k == KeyOf(Doing(p))
<1>1. CASE HasIR(p, k) \/ job[p].dry
  <2>1. pc' = [pc EXCEPT ![p] = "experiment"] /\ UNCHANGED <<irs, dirs>>
    BY <1>1 DEF FindIR, Goto
  <2> QED BY <2>1, IdlesWithIRs
<1>2. CASE ~(HasIR(p, k) \/ job[p].dry)
  <2>1. /\ irs' = [irs EXCEPT ![k] = Begun] /\ pc' = [pc EXCEPT ![p] = "mapping"]
        /\ UNCHANGED <<dirs, exp, ran>>
    BY <1>2 DEF FindIR, Goto
  <2>2. irs[k].is = "absent"
    BY <1>2 DEF HasIR
  <2>3. /\ irs' = [j \in Keys |-> irs'[j]] /\ OkResultsOfIR'
        /\ irs'[k] = Begun
    BY <2>1, <2>2, WholeStays
  <2>4. \A q \in Proc : q = p  BY OneAtATime
  <2>5. pc'[p] = "mapping" /\ KeyOf(Doing(p))' = k
    BY <2>1 DEF Shapes, Doing
  <2>6. MapsInPlaceOfNone' /\ RunsWithIR'
    BY <2>3, <2>4, <2>5 DEF MapsInPlaceOfNone, RunsWithIR
  <2> QED BY <2>3, <2>6 DEF IRInv
<1> QED BY <1>1, <1>2

LEMMA MapNetworkKeepsIRs ==
    ASSUME Shapes, IRInv, NEW p \in Proc, MapNetwork(p) PROVE IRInv'
<1>1. PICK f : irs' = [irs EXCEPT ![KeyOf(Doing(p))] = f]
  BY DEF MapNetwork
<1>2. irs[KeyOf(Doing(p))].is # "whole"
  BY FileKinds DEF MapNetwork, IRInv, MapsInPlaceOfNone
<1>3. dirs' = dirs
  BY DEF MapNetwork
<1>4. irs' = [k \in Keys |-> irs'[k]] /\ OkResultsOfIR'
  BY <1>1, <1>2, <1>3, WholeStays
<1>5. \A q \in Proc : q = p  BY OneAtATime
<1>6. pc'[p] \in {"experiment", "failed"}
  BY DEF MapNetwork, Goto, Shapes
<1>7. MapsInPlaceOfNone' /\ RunsWithIR'
  BY <1>5, <1>6 DEF MapsInPlaceOfNone, RunsWithIR
<1> QED BY <1>4, <1>7 DEF IRInv

LEMMA BeginExperimentKeepsIRs ==
    ASSUME Shapes, IRInv, NEW p \in Proc, BeginExperiment(p) PROVE IRInv'
<1>1. \A n \in Names : dirs'[n].stdout = dirs[n].stdout
  <2>1. DirOf(p) \in Names  BY DirNamed
  <2>2. CASE dirs' = dirs
    BY <2>2
  <2>3. CASE dirs' = [dirs EXCEPT ![DirOf(p)].config = Whole(Config(p))]
    BY <2>1, <2>3 DEF Shapes
  <2> QED BY <2>2, <2>3 DEF BeginExperiment, WrittenConfig
<1>2. irs' = irs
  BY DEF BeginExperiment
<1>3. CASE NextExperiment(p)
  <2>1. PICK to \in {"ir", "ok"} : pc' = [pc EXCEPT ![p] = to]
    BY <1>3, Advances
  <2> QED BY <1>1, <1>2, <2>1, IdlesWithIRs
<1>4. CASE Goto(p, "running") /\ UNCHANGED exp
  <2>1. \A q \in Proc : q = p  BY OneAtATime
  <2>2. pc'[p] = "running"
    BY <1>4 DEF Goto, Shapes
  <2>3. ran'[p].ir = irs[KeyOf(Doing(p))] /\ KeyOf(Doing(p))' = KeyOf(Doing(p))
    BY <1>4 DEF BeginExperiment, Shapes, Doing
  <2>4. MapsInPlaceOfNone' /\ RunsWithIR'
    BY <1>2, <2>1, <2>2, <2>3 DEF MapsInPlaceOfNone, RunsWithIR
  <2>5. OkResultsOfIR'
    BY <1>1, <1>2, KeyListed DEF IRInv, OkResultsOfIR
  <2> QED BY <1>2, <2>4, <2>5 DEF IRInv
<1> QED BY <1>3, <1>4 DEF BeginExperiment

LEMMA SimulatorExitsKeepsIRs ==
    ASSUME Shapes, IRInv, NEW p \in Proc, SimulatorExits(p) PROVE IRInv'
<1>1. DirOf(p) \in Names  BY DirNamed
<1>2. \A n \in Names : dirs'[n].stdout = dirs[n].stdout \/ dirs'[n].stdout.is = "begun"
  <2>1. \A n \in Names : dirs'[n].stdout = IF n = DirOf(p) THEN Begun ELSE dirs[n].stdout
    BY <1>1 DEF SimulatorExits, Shapes
  <2> QED BY <2>1, FileKinds
<1>3. OkResultsOfIR'
  BY <1>2, KeyListed DEF SimulatorExits, IRInv, OkResultsOfIR
<1>4. \A q \in Proc : q = p  BY OneAtATime
<1>5. pc[p] = "running" /\ pc'[p] = "saving" /\ UNCHANGED <<irs, exp, ran>>
  BY DEF SimulatorExits, Goto, Shapes
<1>6. MapsInPlaceOfNone' /\ RunsWithIR'
  BY <1>4, <1>5 DEF IRInv, MapsInPlaceOfNone, RunsWithIR, Doing
<1> QED BY <1>3, <1>5, <1>6 DEF IRInv

(* What is saved as simulated without a failure was simulated of a whole IR;
   no other experiment has this one's directory. *)
LEMMA SaveOutputKeepsIRs ==
    ASSUME Shapes, IRInv, NEW p \in Proc, SaveOutput(p) PROVE IRInv'
<1>1. DirOf(p) \in Names  BY DirNamed
<1>2. PICK ok \in {ran[p].ir.is = "whole", FALSE} :
          dirs' = [dirs EXCEPT ![DirOf(p)].stdout =
                      Whole([config |-> ran[p].config, ir |-> ran[p].ir, ok |-> ok])]
  BY DEF SaveOutput
<1>3. /\ dirs'[DirOf(p)].stdout
             = Whole([config |-> ran[p].config, ir |-> ran[p].ir, ok |-> ok])
      /\ \A n \in Names : n # DirOf(p) => dirs'[n].stdout = dirs[n].stdout
  BY <1>1, <1>2 DEF Shapes
<1>4. dirs'[DirOf(p)].stdout.data.ok =>
          /\ dirs'[DirOf(p)].stdout.data.ir.is = "whole"
          /\ dirs'[DirOf(p)].stdout.data.ir = irs[KeyOf(Doing(p))]
  <2>1. /\ dirs'[DirOf(p)].stdout.data.ok = ok
        /\ dirs'[DirOf(p)].stdout.data.ir = ran[p].ir
    BY <1>3, FileKinds
  <2>2. ok => ran[p].ir.is = "whole"
    BY <1>2, Zenon
  <2>3. ran[p].ir.is = "whole" => ran[p].ir = irs[KeyOf(Doing(p))]
    BY DEF SaveOutput, IRInv, RunsWithIR
  <2> QED BY <2>1, <2>2, <2>3, Zenon
<1>5. irs' = irs
  BY DEF SaveOutput
<1>6. OkResultsOfIR'
  <2> SUFFICES ASSUME NEW i \in DOMAIN Experiments
               PROVE  LET out == dirs'[Experiments[i].name].stdout
                      IN  out.is = "whole" /\ out.data.ok =>
                              /\ out.data.ir.is = "whole"
                              /\ out.data.ir = irs[KeyOf(Experiments[i])]
    BY <1>5 DEF OkResultsOfIR
  <2>1. CASE Experiments[i].name = DirOf(p)
    <3>1. i = exp[p]
      BY <2>1, KeyListed, ExperimentsListed DEF DirOf, Doing
    <3> QED BY <1>4, <2>1, <3>1 DEF Doing
  <2>2. CASE Experiments[i].name # DirOf(p)
    BY <1>3, <2>2, KeyListed DEF IRInv, OkResultsOfIR
  <2> QED BY <2>1, <2>2
<1>7. \A q \in Proc : q = p  BY OneAtATime
<1>8. pc'[p] \in {"ir", "ok"}
  BY Advances DEF SaveOutput, Shapes
<1>9. MapsInPlaceOfNone' /\ RunsWithIR'
  BY <1>7, <1>8 DEF MapsInPlaceOfNone, RunsWithIR
<1> QED BY <1>5, <1>6, <1>9 DEF IRInv

LEMMA IRNext ==
    ASSUME Shapes, IRInv, [Next]_vars PROVE IRInv'
<1>1. ASSUME NEW p \in Proc, Start(p) PROVE IRInv'
  <2>1. PICK j \in Job : pc' = [pc EXCEPT ![p] = First(j)]
    BY <1>1 DEF Start, Launch
  <2>2. First(j) \notin {"mapping", "running", "saving"}
    BY KnownJobs DEF First, Job
  <2>3. UNCHANGED <<irs, dirs>>
    BY <1>1 DEF Start
  <2> QED BY <2>1, <2>2, <2>3, IdlesWithIRs
<1>2. ASSUME NEW p \in Proc, DSEStep(p) PROVE IRInv'
  <2>1. CASE DSETimesOut(p)
    <3>1. pc' = [pc EXCEPT ![p] = "failed"] /\ UNCHANGED <<irs, dirs>>
      BY <2>1 DEF DSETimesOut, Goto, dseVars
    <3> QED BY <3>1, IdlesWithIRs
  <2> QED BY <1>2, <2>1, FindIRKeepsIRs, MapNetworkKeepsIRs, BeginExperimentKeepsIRs,
             SimulatorExitsKeepsIRs, SaveOutputKeepsIRs DEF DSEStep
<1>3. ASSUME NEW p \in Proc, StudyStep(p), UNCHANGED dseVars PROVE IRInv'
  <2>1. UNCHANGED <<irs, dirs, ran, exp>>  BY <1>3 DEF dseVars
  <2>2. \/ UNCHANGED pc
        \/ \E to \in {"compare", "zebu", "rewrite", "failed", "bottleneck", "ok"} :
              pc' = [pc EXCEPT ![p] = to]
    BY <1>3 DEF StudyStep, BeginStudy, SimulateForZebu, RewriteResults, EndSimulations,
           CompareWithZebu, SimulateForBatch, BatchCompare,
           SimulateForBottleneck, EndBottlenecks, Goto
  <2> QED BY <2>1, <2>2, IdlesWithIRs, StaysWithIRs
<1>4. ASSUME NEW p \in Proc, Fail(p) PROVE IRInv'
  <2>1. pc' = [pc EXCEPT ![p] = "failed"] /\ UNCHANGED <<irs, dirs>>
    BY <1>4 DEF Fail, Stop, Goto, dseVars
  <2> QED BY <2>1, IdlesWithIRs
<1>5. CASE HandWritten
  BY <1>5, StaysWithIRs DEF HandWritten, scriptVars, dseVars
<1>6. CASE UNCHANGED vars
  BY <1>6, StaysWithIRs DEF vars, scriptVars, dseVars
<1> QED BY <1>1, <1>2, <1>3, <1>4, <1>5, <1>6 DEF Next, Step

(* Results with one key that ended well are of one and the same IR, whatever
   sweeps mapped, stopped and skipped (run_c5_dse.py: ir_key, generate_ir). *)
THEOREM ResultsOfKeySameIR == Spec => []ResultsOfSameIR
<1>1. ConfigInv /\ IRInv => ResultsOfSameIR
  BY DEF IRInv, OkResultsOfIR, ResultsOfSameIR
<1>2. ConfigInv /\ IRInv /\ [Next]_vars => IRInv'
  BY IRNext DEF ConfigInv
<1> QED BY <1>1, <1>2, ConfigInit, IRInit, ConfigNext, PTL DEF Spec

-----------------------------------------------------------------------------
(* The tables of the study                                                 *)

(* The rows in memory are of the run that goes on; so is the file, from its
   first simulation to the comparison, and then the table. *)
Own(rs, n) == \A r \in rs : r = [model |-> r.model, batch |-> r.batch, run |-> n]
OwnTable(t, n) == t.is = "table" /\ Own(t.rows, n)

SimulatedOne(p) == \E i \in DOMAIN ZebuConfigs : i < turn[p] /\ ZebuConfigs[i] \in Scheduled

OwnSteps(p) ==
    /\ pc[p] \in {"ir", "mapping", "experiment", "running", "saving", "batch"} =>
           job[p].kind # "zebu"
    /\ pc[p] \in {"zebu", "rewrite"} => Own(rows[p], run[p]) /\ ~job[p].skip
    /\ pc[p] = "rewrite" \/ (pc[p] = "zebu" /\ SimulatedOne(p)) => OwnTable(csv, run[p])
    /\ pc[p] = "compare" /\ ~job[p].skip => OwnTable(csv, run[p])
    /\ pc[p] \in {"bottleneck", "ok"} /\ run[p] > 0
            /\ job[p].kind = "zebu" /\ ~job[p].skip =>
           \A row \in table.rows : \A r \in row.sims : r.run = run[p]

StudyShapes ==
    /\ pc = [p \in Proc |-> pc[p]]
    /\ rows = [p \in Proc |-> rows[p]]
    /\ turn \in [Proc -> Nat]
    /\ job = [p \in Proc |-> job[p]] /\ run = [p \in Proc |-> run[p]]

StudyInv == StudyShapes /\ \A p \in Proc : OwnSteps(p)

LEMMA StudyInvInit == Init => StudyInv
  BY DEF Init, StudyInit, StudyInv, StudyShapes, OwnSteps

(* Only one process runs. *)
LEMMA Moves ==
    ASSUME NEW p \in Proc, StudyShapes', OwnSteps(p)' PROVE StudyInv'
<1>1. \A q \in Proc : q = p  BY OneAtATime
<1> QED BY <1>1 DEF StudyInv

(* The sweep leaves the study's files. *)
LEMMA SweepKeepsStudy ==
    ASSUME StudyInv, NEW p \in Proc, DSEStep(p), UNCHANGED studyVars
    PROVE  StudyInv'
<1>1. PICK to \in {"ir", "mapping", "experiment", "running", "saving", "ok", "failed"} :
          Goto(p, to)
  BY DEF DSEStep, FindIR, MapNetwork, BeginExperiment, SimulatorExits, SaveOutput,
         DSETimesOut, NextExperiment
<1>2. StudyShapes' /\ pc'[p] = to
  BY <1>1 DEF Goto, StudyInv, StudyShapes, studyVars
<1>3. pc[p] \in {"ir", "mapping", "experiment", "running", "saving"} \/ job[p].kind = "dse"
  BY DEF DSEStep, FindIR, MapNetwork, BeginExperiment, SimulatorExits, SaveOutput,
         DSETimesOut
<1>4. job[p].kind # "zebu" /\ job' = job
  BY <1>1, <1>3 DEF StudyInv, OwnSteps, Goto
<1>5. OwnSteps(p)'
  BY <1>1, <1>2, <1>4 DEF OwnSteps
<1> QED BY <1>2, <1>5, Moves

LEMMA BeginStudyKeeps ==
    ASSUME StudyInv, NEW p \in Proc, BeginStudy(p) PROVE StudyInv'
<1>1. PICK to \in {"compare", "zebu"} :
          /\ Goto(p, to)
          /\ to = "compare" => job[p].skip
          /\ to = "zebu" => ~job[p].skip
  BY DEF BeginStudy
<1>2. /\ StudyShapes' /\ pc'[p] = to /\ rows'[p] = {} /\ turn'[p] = 1
      /\ job' = job /\ run' = run
  BY <1>1 DEF BeginStudy, FirstRows, Goto, StudyInv, StudyShapes
<1>3. ~SimulatedOne(p)'
  BY <1>2, ConfigsListed DEF SimulatedOne
<1>4. OwnSteps(p)'
  BY <1>1, <1>2, <1>3 DEF OwnSteps, Own
<1> QED BY <1>2, <1>4, Moves

(* A simulation adds a row of this run; a network without an IR is passed. *)
LEMMA SimulateForZebuKeeps ==
    ASSUME StudyInv, NEW p \in Proc, SimulateForZebu(p) PROVE StudyInv'
<1> DEFINE c == ZebuConfigs[turn[p]]
<1>1. pc[p] = "zebu" /\ Own(rows[p], run[p]) /\ ~job[p].skip
  BY DEF SimulateForZebu, StudyInv, OwnSteps
<1>2. CASE c \in Scheduled
  <2>1. Goto(p, "rewrite") /\ csv' = TableOf({}) /\ UNCHANGED <<turn, table>>
    BY <1>2 DEF SimulateForZebu
  <2>2. \/ rows' = rows
        \/ rows' = [rows EXCEPT ![p] = rows[p] \cup
                       {[model |-> c.model, batch |-> c.batch, run |-> run[p]]}]
    BY <1>2 DEF SimulateForZebu
  <2>3. /\ StudyShapes' /\ pc'[p] = "rewrite" /\ job' = job /\ run' = run
    BY <2>1, <2>2 DEF Goto, StudyInv, StudyShapes
  <2>4. Own(rows'[p], run[p])
    <3> DEFINE r == [model |-> c.model, batch |-> c.batch, run |-> run[p]]
    <3>1. rows'[p] \subseteq rows[p] \cup {r}
      BY <2>2 DEF StudyInv, StudyShapes
    <3>2. r = [model |-> r.model, batch |-> r.batch, run |-> run[p]]
      OBVIOUS
    <3> QED BY <1>1, <3>1, <3>2 DEF Own
  <2>5. OwnTable(csv', run[p])
    BY <2>1 DEF OwnTable, Own, TableOf
  <2>6. OwnSteps(p)'
    BY <1>1, <2>3, <2>4, <2>5 DEF OwnSteps
  <2> QED BY <2>3, <2>6, Moves
<1>3. CASE c \notin Scheduled
  <2>1. /\ turn' = [turn EXCEPT ![p] = turn[p] + 1]
        /\ UNCHANGED <<pc, job, run, rows, csv, table>>
    BY <1>3 DEF SimulateForZebu
  <2>2. StudyShapes' /\ turn'[p] = turn[p] + 1 /\ turn[p] \in Nat
    BY <2>1 DEF StudyInv, StudyShapes
  <2>3. SimulatedOne(p)' => SimulatedOne(p)
    BY <1>3, <2>2, ConfigsListed DEF SimulatedOne
  <2>4. OwnSteps(p)'
    BY <1>1, <2>1, <2>3 DEF StudyInv, OwnSteps
  <2> QED BY <2>2, <2>4, Moves
<1> QED BY <1>2, <1>3

LEMMA RewriteResultsKeeps ==
    ASSUME StudyInv, NEW p \in Proc, RewriteResults(p) PROVE StudyInv'
<1>1. /\ pc[p] = "rewrite" /\ Own(rows[p], run[p]) /\ ~job[p].skip
      /\ Goto(p, "zebu") /\ csv' = TableOf(rows[p]) /\ UNCHANGED <<rows, table>>
      /\ turn' = [turn EXCEPT ![p] = turn[p] + 1]
  BY DEF RewriteResults, StudyInv, OwnSteps
<1>2. StudyShapes' /\ pc'[p] = "zebu" /\ job' = job /\ run' = run
  BY <1>1 DEF Goto, StudyInv, StudyShapes
<1>3. OwnTable(csv', run[p])
  BY <1>1 DEF OwnTable, TableOf
<1>4. OwnSteps(p)'
  BY <1>1, <1>2, <1>3 DEF OwnSteps
<1> QED BY <1>2, <1>4, Moves

(* With an IR among those to simulate the file has been rewritten. *)
LEMMA EndSimulationsKeeps ==
    ASSUME StudyInv, NEW p \in Proc, EndSimulations(p),
           \E i \in DOMAIN ZebuConfigs : ZebuConfigs[i] \in Scheduled
    PROVE  StudyInv'
<1>1. pc[p] = "zebu" /\ Goto(p, "compare") /\ UNCHANGED studyVars
  BY DEF EndSimulations
<1>2. StudyShapes' /\ pc'[p] = "compare" /\ job' = job /\ run' = run
  BY <1>1 DEF Goto, StudyInv, StudyShapes, studyVars
<1>3. SimulatedOne(p)
  BY ConfigsListed DEF EndSimulations, SimulatedOne, StudyInv, StudyShapes
<1>4. OwnTable(csv, run[p])
  BY <1>1, <1>3 DEF StudyInv, OwnSteps
<1>5. OwnSteps(p)'
  BY <1>1, <1>2, <1>4 DEF OwnSteps, studyVars
<1> QED BY <1>2, <1>5, Moves

(* Spelling a model another way leaves a row its run. *)
LEMMA CompareWithZebuKeeps ==
    ASSUME StudyInv, NEW p \in Proc, CompareWithZebu(p) PROVE StudyInv'
<1> DEFINE lower == {[r EXCEPT !.model = Lower(r.model)] : r \in csv.rows}
           result == {TableRow(lower, c) : c \in ZebuTraces}
<1>1. PICK to \in {"bottleneck", "failed"} : Goto(p, to)
  BY DEF CompareWithZebu
<1>2. StudyShapes' /\ pc'[p] = to /\ job' = job /\ run' = run
  <2>1. rows' = [rows EXCEPT ![p] = {}] /\ turn' = [turn EXCEPT ![p] = 1]
    BY DEF CompareWithZebu
  <2> QED BY <1>1, <2>1 DEF Goto, StudyInv, StudyShapes
<1>3. CASE to = "failed" \/ job[p].skip
  BY <1>1, <1>2, <1>3, Moves DEF OwnSteps
<1>4. CASE to = "bottleneck" /\ ~job[p].skip
  <2>1. OwnTable(csv, run[p])
    BY <1>4 DEF CompareWithZebu, StudyInv, OwnSteps
  <2>2. csv.is # "absent"
    BY <2>1 DEF OwnTable
  <2>3. table' = TableOf(result)
    <3>1. Goto(p, "failed") => FALSE
      BY <1>2, <1>4 DEF Goto, StudyInv, StudyShapes
    <3> QED BY <2>2, <3>1 DEF CompareWithZebu
  <2>4. \A r \in lower : r.run = run[p]
    BY <2>1 DEF OwnTable, Own
  <2> HIDE DEF lower
  <2>5. \A row \in result : \A r \in row.sims : r.run = run[p]
    BY <2>4 DEF TableRow, MeasuredAs
  <2> HIDE DEF result
  <2>6. table'.rows = result
    BY <2>3 DEF TableOf
  <2>7. OwnSteps(p)'
    BY <1>2, <1>4, <2>5, <2>6 DEF OwnSteps
  <2> QED BY <1>2, <2>7, Moves
<1> QED BY <1>3, <1>4

LEMMA OtherStepsKeep ==
    ASSUME StudyInv, NEW p \in Proc,
           \/ SimulateForBatch(p) \/ BatchCompare(p)
           \/ SimulateForBottleneck(p) \/ EndBottlenecks(p)
    PROVE  StudyInv'
<1>1. CASE SimulateForBatch(p) \/ SimulateForBottleneck(p)
  <2>1. /\ UNCHANGED <<pc, job, run, csv, table>>
        /\ pc[p] \in {"batch", "bottleneck"}
        /\ rows' = [q \in Proc |-> rows'[q]]
        /\ turn' = [turn EXCEPT ![p] = turn[p] + 1]
    BY <1>1 DEF SimulateForBatch, SimulateForBottleneck, StudyInv, StudyShapes
  <2>2. StudyShapes'
    BY <2>1 DEF StudyInv, StudyShapes
  <2>3. OwnSteps(p)'
    BY <2>1 DEF StudyInv, OwnSteps
  <2> QED BY <2>2, <2>3, Moves
<1>2. CASE BatchCompare(p)
  <2>1. /\ \E to \in {"ok", "failed"} : Goto(p, to)
        /\ pc[p] = "batch" /\ rows' = [q \in Proc |-> rows'[q]] /\ UNCHANGED turn
    BY <1>2 DEF BatchCompare, StudyInv, StudyShapes
  <2>2. StudyShapes' /\ pc'[p] \in {"ok", "failed"} /\ job' = job
    BY <2>1 DEF Goto, StudyInv, StudyShapes
  <2>3. job[p].kind # "zebu"
    BY <2>1 DEF StudyInv, OwnSteps
  <2>4. OwnSteps(p)'
    BY <2>2, <2>3 DEF OwnSteps
  <2> QED BY <2>2, <2>4, Moves
<1>3. CASE EndBottlenecks(p)
  <2>1. Goto(p, "ok") /\ pc[p] = "bottleneck" /\ UNCHANGED <<csv, table, rows, turn>>
    BY <1>3 DEF EndBottlenecks
  <2>2. StudyShapes' /\ pc'[p] = "ok" /\ job' = job /\ run' = run
    BY <2>1 DEF Goto, StudyInv, StudyShapes
  <2>3. OwnSteps(p)'
    BY <2>1, <2>2 DEF StudyInv, OwnSteps
  <2> QED BY <2>2, <2>3, Moves
<1> QED BY <1>1, <1>2, <1>3

LEMMA StudyNext ==
    ASSUME \E i \in DOMAIN ZebuConfigs : ZebuConfigs[i] \in Scheduled
    PROVE  StudyInv /\ [Next]_vars => StudyInv'
<1> SUFFICES ASSUME StudyInv, [Next]_vars PROVE StudyInv'  OBVIOUS
<1>1. ASSUME NEW p \in Proc, Start(p) PROVE StudyInv'
  <2>1. PICK j \in Job : Launch(p, j, First(j))
    BY <1>1 DEF Start
  <2>2. StudyShapes' /\ pc'[p] = First(j) /\ job'[p] = j
    <3>1. rows' = [rows EXCEPT ![p] = {}] /\ turn' = [turn EXCEPT ![p] = 1]
      BY <1>1 DEF Start
    <3> QED BY <2>1, <3>1 DEF Launch, StudyInv, StudyShapes
  <2>3. /\ First(j) \in {"ir", "study", "batch"}
        /\ First(j) # "study" => j.kind # "zebu"
    BY KnownJobs DEF First, Job
  <2>4. OwnSteps(p)'
    BY <2>2, <2>3 DEF OwnSteps
  <2> QED BY <2>2, <2>4, Moves
<1>2. ASSUME NEW p \in Proc, DSEStep(p), UNCHANGED studyVars PROVE StudyInv'
  BY <1>2, SweepKeepsStudy
<1>3. ASSUME NEW p \in Proc, StudyStep(p) PROVE StudyInv'
  BY <1>3, BeginStudyKeeps, SimulateForZebuKeeps, RewriteResultsKeeps,
     EndSimulationsKeeps, CompareWithZebuKeeps, OtherStepsKeep DEF StudyStep
<1>4. ASSUME NEW p \in Proc, Fail(p) PROVE StudyInv'
  <2>1. Goto(p, "failed") /\ UNCHANGED studyVars
    BY <1>4 DEF Fail, Stop
  <2>2. StudyShapes' /\ pc'[p] = "failed"
    BY <2>1 DEF Goto, StudyInv, StudyShapes, studyVars
  <2> QED BY <2>2, Moves DEF OwnSteps
<1>5. CASE HandWritten
  <2>1. /\ UNCHANGED <<pc, job, run, table, rows, turn>>
        /\ \A p \in Proc : pc[p] \in Ended
    BY <1>5 DEF HandWritten, scriptVars
  <2>2. \A p \in Proc : OwnSteps(p)'
    BY <2>1 DEF StudyInv, OwnSteps, Ended
  <2> QED BY <2>1, <2>2 DEF StudyInv, StudyShapes
<1>6. CASE UNCHANGED vars
  BY <1>6 DEF vars, scriptVars, studyVars, StudyInv, StudyShapes, OwnSteps, SimulatedOne
<1> QED BY <1>1, <1>2, <1>3, <1>4, <1>5, <1>6 DEF Next, Step

(* A study that has anything to simulate makes its table from what it
   simulated itself, not from a CSV that was there before
   (run_zebu_and_bottleneck_experiments.py rewrites the file from the rows of
   the run); with nothing to simulate it reads the CSV that it finds. *)
THEOREM StudyTablesOwnRuns ==
    ASSUME \E i \in DOMAIN ZebuConfigs : ZebuConfigs[i] \in Scheduled
    PROVE  Spec => []TableOfOwnRuns
<1>1. StudyInv => TableOfOwnRuns
  BY DEF StudyInv, OwnSteps, TableOfOwnRuns
<1> QED BY <1>1, StudyInvInit, StudyNext, PTL DEF Spec

=============================================================================
