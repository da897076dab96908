--------------------------------- MODULE DSE ---------------------------------
(***************************************************************************)
(* run_c5_dse.py: a sweep over experiments.  GEMINI maps the network once  *)
(* for each key, the simulator runs once for each experiment, and what a   *)
(* stopped sweep left behind is taken as done by the next one, which may   *)
(* be of an edited script.                                                 *)
(***************************************************************************)
EXTENDS Scripts, Sequences

CONSTANTS
    Experiments,    \* the sequence of build_experiments
    DSEJob          \* runs of the script: its edition, and whether --dry-run

VARIABLES
    irs,        \* the IR of each key
    dirs,       \* config.json and stdout.txt of each experiment
    known,      \* ir_cache: the keys a sweep has an IR path for
    exp,        \* the experiment a sweep is at
    ran         \* the configuration and the IR its simulation was started with

dseVars == <<irs, dirs, known, exp, ran>>

(* build_experiments keeps the first of those with one name. *)
ASSUME ExperimentsListed ==
    /\ DOMAIN Experiments = 1 .. Len(Experiments)
    /\ Len(Experiments) \in Nat \ {0}
    /\ \A i, j \in DOMAIN Experiments :
          Experiments[i].name = Experiments[j].name => i = j

Names == {Experiments[i].name : i \in DOMAIN Experiments}
(* ir_key: the mesh, the batch and the cuts, not the MAC units. *)
KeyOf(e) == [mesh |-> e.mesh, batch |-> e.batch, cuts |-> e.cuts]
Keys == {KeyOf(Experiments[i]) : i \in DOMAIN Experiments}

MacDims == {512, 1024, 2048, 4096, 8192}
Distance(a, b) == IF a < b THEN b - a ELSE a - b
(* snap_mac: the nearest of the MAC arrays GEMINI knows, the smaller of two. *)
SnapMac(v) ==
    CHOOSE d \in MacDims : \A o \in MacDims :
        Distance(d, v) < Distance(o, v) \/ (Distance(d, v) = Distance(o, v) /\ d <= o)

Doing(p) == Experiments[exp[p]]
DirOf(p) == Doing(p).name
Config(p) == [edition |-> job[p].edition, name |-> DirOf(p)]

DSEInit ==
    /\ irs = [k \in Keys |-> Absent]
    /\ dirs = [n \in Names |-> [config |-> Absent, stdout |-> Absent]]
    /\ known = [p \in Proc |-> {}]
    /\ exp = [p \in Proc |-> 1]
    /\ ran = [p \in Proc |-> <<>>]

-----------------------------------------------------------------------------
(* generate_ir.  A file of the name is an IR, whoever wrote how much of it. *)

(* Faulty: the files of earlier sweeps are not looked at. *)
HasIROfThisSweep(p, k) == k \in known[p]

HasIR(p, k) == k \in known[p] \/ irs[k].is # "absent"

FindIR(p) ==
    LET k == KeyOf(Doing(p))
    IN  /\ pc[p] = "ir"
        /\ IF HasIR(p, k) \/ job[p].dry
             THEN /\ known' = [known EXCEPT ![p] = @ \cup {k}]
                  /\ Goto(p, "experiment") /\ UNCHANGED irs
             ELSE /\ irs' = [irs EXCEPT ![k] = Begun]
                  /\ Goto(p, "mapping") /\ UNCHANGED known
        /\ UNCHANGED <<dirs, exp, ran>>

MapNetwork(p) ==
    LET k == KeyOf(Doing(p))
    IN  /\ pc[p] = "mapping"
        /\ \/ /\ irs' = [irs EXCEPT ![k] = Whole(
                     [edition |-> job[p].edition, mac |-> SnapMac(Doing(p).mac)])]
              /\ known' = [known EXCEPT ![p] = @ \cup {k}]
              /\ Goto(p, "experiment")
           \/ /\ irs' = [irs EXCEPT ![k] = Absent]
              /\ Goto(p, "failed") /\ UNCHANGED known
        /\ UNCHANGED <<dirs, exp, ran>>

-----------------------------------------------------------------------------
(* run_simulation, and on to the next experiment. *)
NextExperiment(p) ==
    IF exp[p] < Len(Experiments)
      THEN exp' = [exp EXCEPT ![p] = @ + 1] /\ Goto(p, "ir")
      ELSE Goto(p, "ok") /\ UNCHANGED exp

(* Faulty: the configuration is written before the cached result is found. *)
WrittenConfigFirst(p) ==
    [dirs EXCEPT ![DirOf(p)].config = Whole(Config(p))]

WrittenConfig(p) ==
    IF dirs[DirOf(p)].stdout.is = "absent"
      THEN [dirs EXCEPT ![DirOf(p)].config = Whole(Config(p))]
      ELSE dirs

BeginExperiment(p) ==
    /\ pc[p] = "experiment"
    /\ dirs' = WrittenConfig(p)
    /\ IF dirs[DirOf(p)].stdout.is # "absent" \/ job[p].dry
         THEN NextExperiment(p)
         ELSE Goto(p, "running") /\ UNCHANGED exp
    /\ ran' = [ran EXCEPT ![p] = [config |-> dirs'[DirOf(p)].config,
                                  ir |-> irs[KeyOf(Doing(p))]]]
    /\ UNCHANGED <<irs, known>>

(* The simulator exits; with what status is not asked. *)
SimulatorExits(p) ==
    /\ pc[p] = "running"
    /\ dirs' = [dirs EXCEPT ![DirOf(p)].stdout = Begun]
    /\ Goto(p, "saving")
    /\ UNCHANGED <<irs, known, exp, ran>>

SaveOutput(p) ==
    /\ pc[p] = "saving"
    /\ \E ok \in {ran[p].ir.is = "whole", FALSE} :
           dirs' = [dirs EXCEPT ![DirOf(p)].stdout =
               Whole([config |-> ran[p].config, ir |-> ran[p].ir, ok |-> ok])]
    /\ NextExperiment(p)
    /\ UNCHANGED <<irs, known, ran>>

(* The timeouts of GEMINI and of the simulator end the sweep. *)

(* Faulty: GEMINI is waited for without one. *)
DSETimeoutButGemini(step) == step = "running"

DSETimeout(step) == step \in {"mapping", "running"}

DSETimesOut(p) ==
    /\ job[p].kind = "dse" /\ DSETimeout(pc[p])
    /\ Goto(p, "failed") /\ UNCHANGED dseVars

DSEStep(p) ==
    \/ FindIR(p) \/ MapNetwork(p) \/ BeginExperiment(p)
    \/ SimulatorExits(p) \/ SaveOutput(p) \/ DSETimesOut(p)

=============================================================================
