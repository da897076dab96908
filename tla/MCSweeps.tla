------------------------------ MODULE MCSweeps -------------------------------
(***************************************************************************)
(* Three experiments, two with one key; two editions of the sweep, one     *)
(* also run dry; a network with an IR and a trace, and one without an IR,  *)
(* whose trace has no time in it.                                          *)
(***************************************************************************)
EXTENDS Sweeps

Experiment(name, mesh, cuts, mac) ==
    [name |-> name, mesh |-> mesh, cuts |-> cuts, mac |-> mac, batch |-> 1]
MCExperiments ==
    <<Experiment("mac256_2x2_b1", <<2, 2>>, <<1, 1>>, 256),
      Experiment("cores2x2_b1", <<2, 2>>, <<1, 1>>, 1024),
      Experiment("cores4x4chip_b1", <<4, 4>>, <<2, 2>>, 512)>>
MCDSEJobs ==
    [kind : {"dse"}, edition : 1 .. 2, dry : {FALSE}]
    \cup [kind : {"dse"}, edition : {2}, dry : {TRUE}]

Net(model, batch) == [model |-> model, batch |-> batch]
MCZebuConfigs == <<Net("resnet34", 1), Net("resnet50", 1)>>
MCBottlenecks == <<Net("resnet50", 1)>>
MCScheduled == {Net("resnet50", 1)}
MCTrace ==
    [c \in {Net("resnet34", 1), Net("resnet50", 1)} |->
        IF c.model = "resnet34" THEN {[timed |-> FALSE]}
        ELSE {[timed |-> TRUE, end |-> 3], [timed |-> FALSE]}]
MCStudyJobs ==
    [kind : {"zebu"}, config : {1}, skip : BOOLEAN]
    \cup [kind : {"batch"}, sim : BOOLEAN]
=============================================================================
