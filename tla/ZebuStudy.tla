------------------------------ MODULE ZebuStudy ------------------------------
(***************************************************************************)
(* run_zebu_and_bottleneck_experiments.py, and batch_compare_zebu.py: the  *)
(* cycles of the simulator for a list of networks, in a CSV of the run's   *)
(* directory, beside those of the ZeBu traces.                             *)
(***************************************************************************)
EXTENDS Scripts, Sequences, FiniteSetsExt

CONSTANTS
    ZebuConfigs,    \* the sequence of networks to run: [model, batch]
    Bottlenecks,    \* the one of those run again for the bottlenecks
    Scheduled,      \* the networks whose IR is there
    Trace,          \* the lines of each ZeBu trace that is there
    StudyJob        \* runs of the two scripts

ASSUME ConfigsListed ==
    /\ Len(ZebuConfigs) \in Nat
    /\ DOMAIN ZebuConfigs = 1 .. Len(ZebuConfigs)

VARIABLES
    info,       \* the configuration run_info.txt of the directory names
    csv,        \* sim_results_zebu.csv
    table,      \* zebu_validation_table.csv
    breakdown,  \* bottleneck_breakdown.csv
    rows,       \* what a script holds in memory
    turn        \* the network it is at

studyVars == <<info, csv, table, breakdown, rows, turn>>

NoTable == [is |-> "absent"]
TableOf(rs) == [is |-> "table", rows |-> rs]

StudyInit ==
    /\ info = 0 /\ csv = NoTable /\ table = NoTable /\ breakdown = NoTable
    /\ rows = [p \in Proc |-> {}] /\ turn = [p \in Proc |-> 1]

-----------------------------------------------------------------------------
(* The simulations for ZeBu.  The file is rewritten after each with the rows
   of this run; a simulation that fails or times out gives none.  The cycles
   of a row are known by the run that measured them. *)

(* Faulty: the rows of the file are kept. *)
RowsOfFile(p) == IF csv.is = "table" THEN csv.rows ELSE {}

FirstRows(p) == {}

BeginStudy(p) ==
    /\ pc[p] = "study"
    /\ info' = job[p].config
    /\ rows' = [rows EXCEPT ![p] = FirstRows(p)]
    /\ turn' = [turn EXCEPT ![p] = 1]
    /\ Goto(p, IF job[p].skip THEN "compare" ELSE "zebu")
    /\ UNCHANGED <<csv, table, breakdown>>

SimulateForZebu(p) ==
    LET c == ZebuConfigs[turn[p]]
    IN  /\ pc[p] = "zebu" /\ turn[p] <= Len(ZebuConfigs)
        /\ IF c \in Scheduled
             THEN /\ \/ rows' = [rows EXCEPT ![p] = @ \cup
                            {[model |-> c.model, batch |-> c.batch, run |-> run[p]]}]
                     \/ UNCHANGED rows
                  /\ csv' = TableOf({})
                  /\ Goto(p, "rewrite") /\ UNCHANGED turn
             ELSE /\ turn' = [turn EXCEPT ![p] = @ + 1]
                  /\ UNCHANGED <<pc, job, run, started, rows, csv>>
        /\ UNCHANGED <<info, table, breakdown>>

RewriteResults(p) ==
    /\ pc[p] = "rewrite"
    /\ csv' = TableOf(rows[p])
    /\ turn' = [turn EXCEPT ![p] = @ + 1]
    /\ Goto(p, "zebu")
    /\ UNCHANGED <<info, table, breakdown, rows>>

EndSimulations(p) ==
    /\ pc[p] = "zebu" /\ turn[p] > Len(ZebuConfigs)
    /\ Goto(p, "compare") /\ UNCHANGED studyVars

-----------------------------------------------------------------------------
(* parse_zebu_trace.py: a line without a time ends at 0; an empty trace has
   no cycles to tell. *)
EndOf(line) == IF line.timed THEN line.end ELSE 0
TotalCycles(lines) == Max({EndOf(l) : l \in lines} \cup {0})
ZebuTraces == {c \in DOMAIN Trace : Trace[c] # {}}

(* The trace's name gives the model with capitals, the CSV's without. *)
Lower(model) ==
    CASE model = "ResNet34" -> "resnet34" [] model = "ResNet50" -> "resnet50"
      [] OTHER -> model
Titled(model) ==
    CASE model = "resnet34" -> "ResNet34" [] model = "resnet50" -> "ResNet50"

(* Faulty: the models are compared as they are written. *)
SpellingsAsWritten(model) == {model}

SpellingsOf(model) == {model, Lower(model)}

(* A row of the CSV for the trace, under the first spelling that has one. *)
MeasuredAs(rs, c) ==
    {r \in rs : r.model \in SpellingsOf(Titled(c.model)) /\ r.batch = c.batch}

TableRow(rs, c) ==
    [model |-> Titled(c.model), batch |-> c.batch, zebu |-> TotalCycles(Trace[c]),
     sims |-> MeasuredAs(rs, c)]

(* The relative error is a division by the cycles of the trace.
   batch_compare_zebu.py has a guard for 0, the study stops. *)
Divides(row) == row.sims # {} /\ row.zebu = 0

CompareWithZebu(p) ==
    LET lower == {[r EXCEPT !.model = Lower(@)] : r \in csv.rows}
        result == {TableRow(lower, c) : c \in ZebuTraces}
    IN  /\ pc[p] = "compare"
        /\ IF csv.is = "absent"
             THEN Goto(p, "bottleneck") /\ UNCHANGED table
             ELSE IF \E row \in result : Divides(row)
             THEN Goto(p, "failed") /\ UNCHANGED table
             ELSE Goto(p, "bottleneck") /\ table' = TableOf(result)
        /\ rows' = [rows EXCEPT ![p] = {}] /\ turn' = [turn EXCEPT ![p] = 1]
        /\ UNCHANGED <<info, csv, breakdown>>

(* batch_compare_zebu.py takes the CSV as it is, or with --run-sim simulates
   by itself, where whatever goes wrong gives no cycles. *)
SimulateForBatch(p) ==
    LET c == ZebuConfigs[turn[p]]
    IN  /\ pc[p] = "batch" /\ job[p].sim /\ turn[p] <= Len(ZebuConfigs)
        /\ \/ /\ c \in Scheduled
              /\ rows' = [rows EXCEPT ![p] = @ \cup
                    {[model |-> Titled(c.model), batch |-> c.batch, run |-> run[p]]}]
           \/ UNCHANGED rows
        /\ turn' = [turn EXCEPT ![p] = @ + 1]
        /\ UNCHANGED <<pc, job, run, started, info, csv, table, breakdown>>

Measured(p) == IF job[p].sim THEN rows[p] ELSE csv.rows

BatchCompare(p) ==
    /\ pc[p] = "batch"
    /\ job[p].sim => turn[p] > Len(ZebuConfigs)
    /\ IF ~job[p].sim /\ csv.is = "absent"
         THEN Goto(p, "failed") /\ UNCHANGED rows
         ELSE /\ rows' = [rows EXCEPT ![p] = {TableRow(Measured(p), c) : c \in ZebuTraces}]
              /\ Goto(p, "ok")
    /\ UNCHANGED <<info, csv, table, breakdown, turn>>

-----------------------------------------------------------------------------
(* The bottlenecks: the shares of computing, memory and NoC of the runs that
   end; the two CSVs are written at the end. *)
SimulateForBottleneck(p) ==
    LET c == Bottlenecks[turn[p]]
    IN  /\ pc[p] = "bottleneck" /\ ~job[p].skip /\ turn[p] <= Len(Bottlenecks)
        /\ \/ c \in Scheduled /\ rows' = [rows EXCEPT ![p] = @ \cup {c}]
           \/ UNCHANGED rows
        /\ turn' = [turn EXCEPT ![p] = @ + 1]
        /\ UNCHANGED <<pc, job, run, started, info, csv, table, breakdown>>

EndBottlenecks(p) ==
    /\ pc[p] = "bottleneck"
    /\ job[p].skip \/ turn[p] > Len(Bottlenecks)
    /\ breakdown' = IF job[p].skip THEN breakdown ELSE TableOf(rows[p])
    /\ Goto(p, "ok")
    /\ UNCHANGED <<info, csv, table, rows, turn>>

StudyStep(p) ==
    \/ BeginStudy(p) \/ SimulateForZebu(p) \/ RewriteResults(p)
    \/ EndSimulations(p) \/ CompareWithZebu(p)
    \/ SimulateForBatch(p) \/ BatchCompare(p)
    \/ SimulateForBottleneck(p) \/ EndBottlenecks(p)

=============================================================================
