------------------------------ MODULE MCDrivers ------------------------------
(***************************************************************************)
(* Two processes with jobs that share files in every way they can: the same *)
(* model and mesh in different batches, meshes that become the same, and   *)
(* the same network for the comparison.                                    *)
(***************************************************************************)
EXTENDS Drivers

SetIR(cfg, batch, sim) ==
    [kind |-> "setir", model |-> "resnet50", cfg |-> cfg, batch |-> batch,
     patch |-> TRUE, sim |-> sim]
MCSetIRJobs == {SetIR(<<2, 2>>, 1, TRUE), SetIR(<<2, 1>>, 1, TRUE), SetIR(<<0, 1>>, 2, TRUE)}

Gemini(model, sim) ==
    [kind |-> "gemini", model |-> model, cfg |-> <<2, 2>>, batch |-> 1,
     patch |-> FALSE, sim |-> sim]
MCGeminiJobs == {Gemini("resnet50", TRUE), Gemini("vgg", FALSE)}

NoJobs == {}
DefaultMesh == <<4, 4>>
=============================================================================
