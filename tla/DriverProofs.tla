----------------------------- MODULE DriverProofs -----------------------------
(***************************************************************************)
(* The files of the driver scripts, for any number of processes, jobs and  *)
(* seconds: what is simulated is what was asked for, and a comparison is   *)
(* about a new IR.                                                         *)
(***************************************************************************)
EXTENDS Drivers, QueueProofs

-----------------------------------------------------------------------------
(* The form of what the steps update in place.                             *)

ProcessShapes ==
    /\ pc = [p \in Proc |-> pc[p]]
    /\ job \in [Proc -> Job]
    /\ run = [p \in Proc |-> run[p]]
    /\ held = [p \in Proc |-> held[p]]
    /\ compared = [p \in Proc |-> compared[p]]
    /\ folder \in [Proc -> 0 .. MaxClock]
    /\ clock \in 0 .. MaxClock

FileShapes ==
    /\ results = [n \in {ResultName(j) : j \in Job} |-> results[n]]
    /\ copied = [d \in {OutDir(j) : j \in Job} |-> copied[d]]
    /\ converted = [d \in {OutDir(j) : j \in Job} |-> converted[d]]

Second == 0 .. MaxClock
RecordShapes ==
    /\ records = [b \in Base |-> [s \in Second |-> records[b][s]]]
    /\ \A b \in Base : \A s \in Second :
          records[b][s] = [irs |-> records[b][s].irs, info |-> records[b][s].info,
                           trace |-> records[b][s].trace,
                           heatmap |-> records[b][s].heatmap,
                           made |-> records[b][s].made]

-----------------------------------------------------------------------------
(* What a file tells is for the model and the mesh in its name, as long as
   the binary was built from a patched source. *)
IsFor(f, model, mesh) ==
    f.is = "whole" => f.data.model = model /\ f.data.mesh = mesh

FilesAsNamed ==
    /\ \A j \in Job : IsFor(results[ResultName(j)], j.model, Mesh(j.cfg))
    /\ \A j \in Job : IsFor(copied[OutDir(j)], j.model, Mesh(j.cfg))
    /\ \A j \in Job : IsFor(converted[OutDir(j)], j.model, Mesh(j.cfg))

HeldForJob ==
    \A p \in Proc :
        pc[p] \in {"mapping", "writing", "converting", "simulating"} =>
            IsFor(held[p], job[p].model, Mesh(job[p].cfg))

PatchedBinary ==
    /\ source = "patched" /\ binary \in {"none", "patched"}
    /\ \A p \in Proc : pc[p] = "setir" => binary = "patched"

NetworkInv ==
    /\ ProcessShapes /\ FileShapes
    /\ FilesAsNamed /\ HeldForJob /\ PatchedBinary
    /\ \A p \in Proc : pc[p] = "simulating" => held[p].is = "whole"

(* A tree in which SET-IR is patched and, if built at all, built since. *)
PatchedTree == InitialSource = "patched" /\ InitialBinary \in {"none", "patched"}

-----------------------------------------------------------------------------
(* A process that records has made its folder, and an IR is not older than the
   folder it is in.  Only a comparison that has ended well has compared. *)
Recording == {"gemini", "look", "run_sh", "info", "heatmap", "pick"}

FoldersMade ==
    \A p \in Proc : /\ folder[p] <= clock
                    /\ pc[p] \in Recording => RecordOf(p).made

IRsNotOlder ==
    \A b \in Base : \A s \in Second : \A ir \in records[b][s].irs :
        ir.at \in Second /\ ir.at >= s

ComparedAtEnd == \A p \in Proc : pc[p] # "ok" => compared[p] = <<>>

RecordInv ==
    /\ ProcessShapes /\ RecordShapes
    /\ FoldersMade /\ IRsNotOlder /\ ComparedAtEnd /\ ComparesNewIR

-----------------------------------------------------------------------------
(* Names                                                                   *)

LEMMA FileKinds ==
    /\ Absent.is = "absent" /\ Begun.is = "begun" /\ Mixed.is = "mixed"
    /\ \A d : Whole(d).is = "whole" /\ Whole(d).data = d
  BY DEF Absent, Begun, Mixed, Whole

(* Nothing can be read out of a file until one of its writers has closed it. *)
LEMMA FilesOpenAndClose ==
    /\ \A m, n : IsFor(Mixed, m, n)
    /\ \A shared \in BOOLEAN : \A m, n : IsFor(AfterOpening(shared), m, n)
    /\ \A file, own, m, n : \A f \in AfterClosing(file, own) :
          IsFor(file, m, n) /\ IsFor(own, m, n) => IsFor(f, m, n)
<1>1. \A m, n : IsFor(Mixed, m, n) /\ IsFor(Begun, m, n)
  BY FileKinds DEF IsFor
<1> QED BY <1>1 DEF AfterOpening, AfterClosing

LEMMA NamesTell ==
    /\ \A i, j : ResultName(i) = ResultName(j)
                    => i.model = j.model /\ Mesh(i.cfg) = Mesh(j.cfg)
    /\ \A i, j : OutDir(i) = OutDir(j)
                    => i.model = j.model /\ Mesh(i.cfg) = Mesh(j.cfg)
  BY DEF ResultName, OutDir

(* One of the files with a name is replaced. *)
LEMMA ResultReplaced ==
    ASSUME FileShapes, FilesAsNamed, NEW i \in Job, NEW f,
           IsFor(f, i.model, Mesh(i.cfg)),
           results' = [results EXCEPT ![ResultName(i)] = f]
    PROVE  /\ results' = [n \in {ResultName(j) : j \in Job} |-> results'[n]]
           /\ \A j \in Job : IsFor(results'[ResultName(j)], j.model, Mesh(j.cfg))
<1>1. ASSUME NEW j \in Job PROVE IsFor(results'[ResultName(j)], j.model, Mesh(j.cfg))
  <2>1. CASE ResultName(j) = ResultName(i)
    <3>1. results'[ResultName(j)] = f  BY <2>1 DEF FileShapes
    <3>2. j.model = i.model /\ Mesh(j.cfg) = Mesh(i.cfg)  BY <2>1, NamesTell
    <3> QED BY <3>1, <3>2
  <2>2. CASE ResultName(j) # ResultName(i)
    <3>1. results'[ResultName(j)] = results[ResultName(j)]  BY <2>2 DEF FileShapes
    <3> QED BY <3>1 DEF FilesAsNamed
  <2> QED BY <2>1, <2>2
<1> QED BY <1>1 DEF FileShapes

LEMMA CopyReplaced ==
    ASSUME FileShapes, FilesAsNamed, NEW i \in Job, NEW f,
           IsFor(f, i.model, Mesh(i.cfg)),
           copied' = [copied EXCEPT ![OutDir(i)] = f]
    PROVE  /\ copied' = [d \in {OutDir(j) : j \in Job} |-> copied'[d]]
           /\ \A j \in Job : IsFor(copied'[OutDir(j)], j.model, Mesh(j.cfg))
<1>1. ASSUME NEW j \in Job PROVE IsFor(copied'[OutDir(j)], j.model, Mesh(j.cfg))
  <2>1. CASE OutDir(j) = OutDir(i)
    <3>1. copied'[OutDir(j)] = f  BY <2>1 DEF FileShapes
    <3>2. j.model = i.model /\ Mesh(j.cfg) = Mesh(i.cfg)  BY <2>1, NamesTell
    <3> QED BY <3>1, <3>2
  <2>2. CASE OutDir(j) # OutDir(i)
    <3>1. copied'[OutDir(j)] = copied[OutDir(j)]  BY <2>2 DEF FileShapes
    <3> QED BY <3>1 DEF FilesAsNamed
  <2> QED BY <2>1, <2>2
<1> QED BY <1>1 DEF FileShapes

LEMMA ConvertedReplaced ==
    ASSUME FileShapes, FilesAsNamed, NEW i \in Job, NEW f,
           IsFor(f, i.model, Mesh(i.cfg)),
           converted' = [converted EXCEPT ![OutDir(i)] = f]
    PROVE  /\ converted' = [d \in {OutDir(j) : j \in Job} |-> converted'[d]]
           /\ \A j \in Job : IsFor(converted'[OutDir(j)], j.model, Mesh(j.cfg))
<1>1. ASSUME NEW j \in Job PROVE IsFor(converted'[OutDir(j)], j.model, Mesh(j.cfg))
  <2>1. CASE OutDir(j) = OutDir(i)
    <3>1. converted'[OutDir(j)] = f  BY <2>1 DEF FileShapes
    <3>2. j.model = i.model /\ Mesh(j.cfg) = Mesh(i.cfg)  BY <2>1, NamesTell
    <3> QED BY <3>1, <3>2
  <2>2. CASE OutDir(j) # OutDir(i)
    <3>1. converted'[OutDir(j)] = converted[OutDir(j)]  BY <2>2 DEF FileShapes
    <3> QED BY <3>1 DEF FilesAsNamed
  <2> QED BY <2>1, <2>2
<1> QED BY <1>1 DEF FileShapes

-----------------------------------------------------------------------------
(* The network that is simulated                                           *)

(* A process goes on to another step; what it holds agrees with the step. *)
LEMMA ProcessGoesOn ==
    ASSUME NetworkInv, NEW p \in Proc, NEW to, NEW f,
           Goto(p, to), held' = [held EXCEPT ![p] = f],
           to \in {"mapping", "writing", "converting", "simulating"}
               => IsFor(f, job[p].model, Mesh(job[p].cfg)),
           to = "simulating" => f.is = "whole",
           UNCHANGED <<compared, folder, clock>>
    PROVE  /\ ProcessShapes' /\ HeldForJob'
           /\ \A q \in Proc : pc'[q] = "simulating" => held'[q].is = "whole"
           /\ \A q \in Proc : pc'[q] = IF q = p THEN to ELSE pc[q]
<1>1. \A q \in Proc : /\ pc'[q] = IF q = p THEN to ELSE pc[q]
                      /\ held'[q] = IF q = p THEN f ELSE held[q]
  BY DEF NetworkInv, ProcessShapes, Goto
<1>2. ProcessShapes'
  BY DEF NetworkInv, ProcessShapes, Goto
<1>3. job' = job
  BY DEF Goto
<1>4. HeldForJob'
  BY <1>1, <1>3 DEF NetworkInv, HeldForJob
<1> QED BY <1>1, <1>2, <1>4 DEF NetworkInv

LEMMA FilesStay ==
    ASSUME FileShapes, FilesAsNamed
    PROVE  /\ UNCHANGED results =>
                /\ results' = [n \in {ResultName(j) : j \in Job} |-> results'[n]]
                /\ \A j \in Job : IsFor(results'[ResultName(j)], j.model, Mesh(j.cfg))
           /\ UNCHANGED copied =>
                /\ copied' = [d \in {OutDir(j) : j \in Job} |-> copied'[d]]
                /\ \A j \in Job : IsFor(copied'[OutDir(j)], j.model, Mesh(j.cfg))
           /\ UNCHANGED converted =>
                /\ converted' = [d \in {OutDir(j) : j \in Job} |-> converted'[d]]
                /\ \A j \in Job : IsFor(converted'[OutDir(j)], j.model, Mesh(j.cfg))
  BY DEF FileShapes, FilesAsNamed

(* A process goes on and the files of SET-IR stay. *)
LEMMA FilesUntouched ==
    ASSUME NetworkInv, NEW p \in Proc, NEW to, Goto(p, to),
           to \notin {"mapping", "writing", "converting", "simulating"},
           to = "setir" => binary = "patched",
           UNCHANGED setirVars,
           compared' = [q \in Proc |-> compared'[q]],
           folder' \in [Proc -> 0 .. MaxClock], clock' \in 0 .. MaxClock
    PROVE  NetworkInv'
<1>1. \A q \in Proc : pc'[q] = IF q = p THEN to ELSE pc[q]
  BY DEF NetworkInv, ProcessShapes, Goto
<1>2. ProcessShapes'
  BY DEF NetworkInv, ProcessShapes, Goto, setirVars
<1>3. FileShapes' /\ FilesAsNamed'
  BY DEF NetworkInv, FileShapes, FilesAsNamed, setirVars
<1>4. HeldForJob' /\ \A q \in Proc : pc'[q] = "simulating" => held'[q].is = "whole"
  BY <1>1 DEF NetworkInv, HeldForJob, setirVars, Goto
<1>5. PatchedBinary'
  BY <1>1 DEF NetworkInv, PatchedBinary, setirVars
<1> QED BY <1>2, <1>3, <1>4, <1>5 DEF NetworkInv

(* The patch is there already; the first make builds the patched source. *)
LEMMA BuildKeepsNetwork ==
    ASSUME NetworkInv, NEW p \in Proc, EnsureSetIR(p) \/ Make(p),
           UNCHANGED <<geminiVars, compared>>
    PROVE  NetworkInv'
<1>1. UNCHANGED <<results, copied, converted, held, compared, folder, clock>>
  BY DEF EnsureSetIR, Make, geminiVars
<1>2. source' = "patched" /\ binary' \in {"none", "patched"}
  BY DEF EnsureSetIR, Make, NetworkInv, PatchedBinary
<1>3. \E to \in {"make", "setir"} :
          Goto(p, to) /\ (to = "setir" => binary' = "patched")
  BY DEF EnsureSetIR, Make, NeedsPatch, NetworkInv, PatchedBinary
<1>4. PICK to \in {"make", "setir"} :
          Goto(p, to) /\ (to = "setir" => binary' = "patched")
  BY <1>3
<1>5. \A q \in Proc : pc'[q] = IF q = p THEN to ELSE pc[q]
  BY <1>4 DEF NetworkInv, ProcessShapes, Goto
<1>6. ProcessShapes'
  BY <1>1, <1>4 DEF NetworkInv, ProcessShapes, Goto
<1>7. FileShapes' /\ FilesAsNamed'
  BY <1>1 DEF NetworkInv, FileShapes, FilesAsNamed
<1>8. HeldForJob' /\ \A q \in Proc : pc'[q] = "simulating" => held'[q].is = "whole"
  BY <1>1, <1>4, <1>5 DEF NetworkInv, HeldForJob, Goto
<1>9. binary = "patched" => binary' = "patched"
  BY DEF EnsureSetIR, Make, NetworkInv, PatchedBinary
<1>10. PatchedBinary'
  BY <1>2, <1>4, <1>5, <1>9 DEF NetworkInv, PatchedBinary
<1> QED BY <1>6, <1>7, <1>8, <1>10 DEF NetworkInv

(* SET-IR maps for the mesh it reads, and the result has the name it is for. *)
LEMMA MappingKeepsNetwork ==
    ASSUME NetworkInv, NEW p \in Proc, UNCHANGED <<geminiVars, compared>>,
           SetIRStarts(p) \/ SetIRWrites(p) \/ SetIREnds(p)
    PROVE  NetworkInv'
<1>1. UNCHANGED <<compared, folder, clock, source, binary, copied, converted>>
  BY DEF SetIRStarts, SetIRWrites, SetIREnds, geminiVars
<1>2. job[p] \in Job /\ held = [q \in Proc |-> held[q]]
  BY DEF NetworkInv, ProcessShapes
<1>3. CASE SetIRStarts(p)
  <2> DEFINE f == Whole([run |-> run[p], model |-> job[p].model,
                         batch |-> job[p].batch, mesh |-> Mesh(job[p].cfg)])
  <2>1. held' = [held EXCEPT ![p] = f] /\ Goto(p, "mapping") /\ UNCHANGED results
    BY <1>3 DEF SetIRStarts, NetworkInv, PatchedBinary
  <2>2. IsFor(f, job[p].model, Mesh(job[p].cfg))
    BY FileKinds DEF IsFor
  <2> HIDE DEF f
  <2>3. /\ ProcessShapes' /\ HeldForJob'
        /\ \A q \in Proc : pc'[q] = "simulating" => held'[q].is = "whole"
        /\ \A q \in Proc : pc'[q] = IF q = p THEN "mapping" ELSE pc[q]
    BY <1>1, <2>1, <2>2, ProcessGoesOn
  <2>4. FileShapes' /\ FilesAsNamed'
    BY <1>1, <2>1 DEF NetworkInv, FileShapes, FilesAsNamed
  <2>5. PatchedBinary'
    BY <1>1, <2>3 DEF NetworkInv, PatchedBinary
  <2> QED BY <2>3, <2>4, <2>5 DEF NetworkInv
<1>4. CASE SetIRWrites(p)
  <2> DEFINE others == {q \in Proc : /\ pc[q] = "writing"
                                    /\ ResultName(job[q]) = ResultName(job[p])}
             f == AfterOpening(others # {})
  <2>1. /\ held' = [held EXCEPT ![p] = held[p]] /\ Goto(p, "writing")
        /\ results' = [results EXCEPT ![ResultName(job[p])] = f]
        /\ IsFor(held[p], job[p].model, Mesh(job[p].cfg))
    BY <1>2, <1>4 DEF SetIRWrites, NetworkInv, HeldForJob
  <2>2. /\ ProcessShapes' /\ HeldForJob'
        /\ \A q \in Proc : pc'[q] = "simulating" => held'[q].is = "whole"
        /\ \A q \in Proc : pc'[q] = IF q = p THEN "writing" ELSE pc[q]
    BY <1>1, <2>1, ProcessGoesOn
  <2>3. IsFor(f, job[p].model, Mesh(job[p].cfg))
    BY FilesOpenAndClose
  <2> HIDE DEF f
  <2>4. FileShapes' /\ FilesAsNamed'
    BY <1>1, <1>2, <2>1, <2>3, ResultReplaced, FilesStay
       DEF NetworkInv, FileShapes, FilesAsNamed
  <2>5. PatchedBinary'
    BY <1>1, <2>2 DEF NetworkInv, PatchedBinary
  <2> QED BY <2>2, <2>4, <2>5 DEF NetworkInv
<1>5. CASE SetIREnds(p)
  <2>1. /\ held' = [held EXCEPT ![p] = held[p]] /\ Goto(p, "copy")
        /\ IsFor(held[p], job[p].model, Mesh(job[p].cfg))
    BY <1>2, <1>5 DEF SetIREnds, NetworkInv, HeldForJob
  <2>2. /\ ProcessShapes' /\ HeldForJob'
        /\ \A q \in Proc : pc'[q] = "simulating" => held'[q].is = "whole"
        /\ \A q \in Proc : pc'[q] = IF q = p THEN "copy" ELSE pc[q]
    BY <1>1, <2>1, ProcessGoesOn
  <2>3. \/ UNCHANGED results
        \/ \E f : /\ results' = [results EXCEPT ![ResultName(job[p])] = f]
                  /\ IsFor(f, job[p].model, Mesh(job[p].cfg))
    <3>1. CASE UNCHANGED results
      BY <3>1
    <3>2. CASE ~UNCHANGED results
      <4>1. PICK f \in AfterClosing(results[ResultName(job[p])], held[p]) :
                results' = [results EXCEPT ![ResultName(job[p])] = f]
        BY <1>5, <3>2 DEF SetIREnds
      <4>2. IsFor(results[ResultName(job[p])], job[p].model, Mesh(job[p].cfg))
        BY <1>2 DEF NetworkInv, FilesAsNamed
      <4> QED BY <2>1, <4>1, <4>2, FilesOpenAndClose
    <3> QED BY <3>1, <3>2
  <2>4. FileShapes' /\ FilesAsNamed'
    BY <1>1, <1>2, <2>1, <2>3, ResultReplaced, FilesStay
       DEF NetworkInv, FileShapes, FilesAsNamed
  <2>5. PatchedBinary'
    BY <1>1, <2>2 DEF NetworkInv, PatchedBinary
  <2> QED BY <2>2, <2>4, <2>5 DEF NetworkInv
<1> QED BY <1>3, <1>4, <1>5

(* The copy and the converted IR keep the name of the result. *)
LEMMA CopyKeepsNetwork ==
    ASSUME NetworkInv, NEW p \in Proc, UNCHANGED <<geminiVars, compared>>,
           CopyResult(p)
    PROVE  NetworkInv'
<1>1. UNCHANGED <<compared, folder, clock, source, binary, results, converted, held>>
  BY DEF CopyResult, geminiVars
<1>2. job[p] \in Job /\ held = [q \in Proc |-> held[q]]
  BY DEF NetworkInv, ProcessShapes
<1>3. PICK to \in {"failed", "convert", "folder"} :
          /\ Goto(p, to)
          /\ UNCHANGED copied \/ copied' = [copied EXCEPT ![OutDir(job[p])]
                                               = results[ResultName(job[p])]]
  BY DEF CopyResult
<1>4. IsFor(results[ResultName(job[p])], job[p].model, Mesh(job[p].cfg))
  BY <1>2 DEF NetworkInv, FilesAsNamed
<1>5. held' = [held EXCEPT ![p] = held[p]]
  BY <1>1, <1>2
<1>6. /\ ProcessShapes' /\ HeldForJob'
      /\ \A q \in Proc : pc'[q] = "simulating" => held'[q].is = "whole"
      /\ \A q \in Proc : pc'[q] = IF q = p THEN to ELSE pc[q]
  BY <1>1, <1>3, <1>5, ProcessGoesOn
<1>7. FileShapes' /\ FilesAsNamed'
  BY <1>1, <1>2, <1>3, <1>4, CopyReplaced, FilesStay
     DEF NetworkInv, FileShapes, FilesAsNamed
<1>8. PatchedBinary'
  BY <1>1, <1>6 DEF NetworkInv, PatchedBinary
<1> QED BY <1>6, <1>7, <1>8 DEF NetworkInv

LEMMA ConversionKeepsNetwork ==
    ASSUME NetworkInv, NEW p \in Proc, UNCHANGED <<geminiVars, compared>>,
           ConvertStarts(p) \/ ConvertEnds(p)
    PROVE  NetworkInv'
<1> DEFINE dir == OutDir(job[p])
<1>1. UNCHANGED <<compared, folder, clock, source, binary, results, copied>>
  BY DEF ConvertStarts, ConvertEnds, geminiVars
<1>2. job[p] \in Job /\ held = [q \in Proc |-> held[q]]
  BY DEF NetworkInv, ProcessShapes
<1>3. /\ IsFor(copied[dir], job[p].model, Mesh(job[p].cfg))
      /\ IsFor(converted[dir], job[p].model, Mesh(job[p].cfg))
  BY <1>2 DEF NetworkInv, FilesAsNamed
<1>4. \E to \in {"converting", "failed", "simulate", "ok"} : \E f :
        /\ Goto(p, to) /\ held' = [held EXCEPT ![p] = f]
        /\ to = "converting" => IsFor(f, job[p].model, Mesh(job[p].cfg))
        /\ \/ UNCHANGED converted
           \/ \E g : /\ converted' = [converted EXCEPT ![dir] = g]
                     /\ IsFor(g, job[p].model, Mesh(job[p].cfg))
  <2>1. CASE ConvertStarts(p) /\ copied[dir].is = "whole"
    <3> DEFINE others == {q \in Proc : pc[q] = "converting" /\ OutDir(job[q]) = dir}
               g == AfterOpening(others # {})
    <3>1. /\ held' = [held EXCEPT ![p] = copied[dir]] /\ Goto(p, "converting")
          /\ converted' = [converted EXCEPT ![dir] = g]
      BY <2>1 DEF ConvertStarts
    <3>2. IsFor(g, job[p].model, Mesh(job[p].cfg))
      BY FilesOpenAndClose
    <3> HIDE DEF g
    <3> QED BY <1>3, <3>1, <3>2
  <2>2. CASE ConvertStarts(p) /\ copied[dir].is # "whole"
    <3>1. Goto(p, "failed") /\ UNCHANGED converted /\ held' = [held EXCEPT ![p] = held[p]]
      BY <1>2, <2>2 DEF ConvertStarts
    <3> QED BY <3>1
  <2>3. CASE ConvertEnds(p)
    <3>1. PICK g \in AfterClosing(converted[dir], held[p]) :
              converted' = [converted EXCEPT ![dir] = g]
      BY <2>3 DEF ConvertEnds
    <3>2. /\ IsFor(held[p], job[p].model, Mesh(job[p].cfg))
          /\ held' = [held EXCEPT ![p] = held[p]]
      BY <1>2, <2>3 DEF ConvertEnds, NetworkInv, HeldForJob
    <3>3. IsFor(g, job[p].model, Mesh(job[p].cfg))
      BY <1>3, <3>2, FilesOpenAndClose
    <3>4. Goto(p, "simulate") \/ Goto(p, "ok")
      BY <2>3 DEF ConvertEnds
    <3> QED BY <3>1, <3>2, <3>3, <3>4
  <2> QED BY <2>1, <2>2, <2>3
<1>5. PICK to \in {"converting", "failed", "simulate", "ok"} : \E f :
        /\ Goto(p, to) /\ held' = [held EXCEPT ![p] = f]
        /\ to = "converting" => IsFor(f, job[p].model, Mesh(job[p].cfg))
        /\ \/ UNCHANGED converted
           \/ \E g : /\ converted' = [converted EXCEPT ![dir] = g]
                     /\ IsFor(g, job[p].model, Mesh(job[p].cfg))
  BY <1>4
<1>6. PICK f :
        /\ Goto(p, to) /\ held' = [held EXCEPT ![p] = f]
        /\ to = "converting" => IsFor(f, job[p].model, Mesh(job[p].cfg))
        /\ \/ UNCHANGED converted
           \/ \E g : /\ converted' = [converted EXCEPT ![dir] = g]
                     /\ IsFor(g, job[p].model, Mesh(job[p].cfg))
  BY <1>5
<1>7. /\ ProcessShapes' /\ HeldForJob'
      /\ \A q \in Proc : pc'[q] = "simulating" => held'[q].is = "whole"
      /\ \A q \in Proc : pc'[q] = IF q = p THEN to ELSE pc[q]
  BY <1>1, <1>6, ProcessGoesOn
<1>8. FileShapes' /\ FilesAsNamed'
  BY <1>1, <1>2, <1>6, ConvertedReplaced, FilesStay
     DEF NetworkInv, FileShapes, FilesAsNamed
<1>9. PatchedBinary'
  BY <1>1, <1>7 DEF NetworkInv, PatchedBinary
<1> QED BY <1>7, <1>8, <1>9 DEF NetworkInv

LEMMA SimulationKeepsNetwork ==
    ASSUME NetworkInv, NEW p \in Proc, UNCHANGED <<geminiVars, compared>>,
           SimulatorStarts(p)
    PROVE  NetworkInv'
<1> DEFINE f == converted[OutDir(job[p])]
           to == IF f.is = "whole" THEN "simulating" ELSE "failed"
<1>1. UNCHANGED <<compared, folder, clock, source, binary, results, copied, converted>>
  BY DEF SimulatorStarts, geminiVars
<1>2. IsFor(f, job[p].model, Mesh(job[p].cfg))
  BY DEF NetworkInv, ProcessShapes, FilesAsNamed
<1>3. Goto(p, to) /\ held' = [held EXCEPT ![p] = f]
  BY DEF SimulatorStarts
<1>4. to \in {"simulating", "failed"} /\ (to = "simulating" => f.is = "whole")
  OBVIOUS
<1> HIDE DEF f, to
<1>5. /\ ProcessShapes' /\ HeldForJob'
      /\ \A q \in Proc : pc'[q] = "simulating" => held'[q].is = "whole"
      /\ \A q \in Proc : pc'[q] = IF q = p THEN to ELSE pc[q]
  BY <1>4, <1>1, <1>2, <1>3, ProcessGoesOn
<1>6. FileShapes' /\ FilesAsNamed'
  BY <1>1 DEF NetworkInv, FileShapes, FilesAsNamed
<1>7. PatchedBinary'
  BY <1>4, <1>1, <1>5 DEF NetworkInv, PatchedBinary
<1> QED BY <1>5, <1>6, <1>7 DEF NetworkInv

(* The GEMINI side does not touch these files. *)
LEMMA GeminiKeepsNetwork ==
    ASSUME NetworkInv, NEW p \in Proc, GeminiStep(p), UNCHANGED <<setirVars, compared>>
    PROVE  NetworkInv'
<1>1. PICK to \in {"gemini", "look", "pick", "run_sh", "ok", "failed", "info", "heatmap"} :
          Goto(p, to)
  BY DEF GeminiStep, MakeFolder, GeminiEnds, LookForIR, SimulationEnds,
         WriteRunInfo, PlotHeatmap, AfterGemini
<1>2. folder' \in [Proc -> 0 .. MaxClock] /\ clock' \in 0 .. MaxClock
  BY DEF GeminiStep, MakeFolder, GeminiEnds, LookForIR, SimulationEnds,
         WriteRunInfo, PlotHeatmap, NetworkInv, ProcessShapes
<1>3. compared' = [q \in Proc |-> compared'[q]]
  BY DEF NetworkInv, ProcessShapes
<1> QED BY <1>1, <1>2, <1>3, FilesUntouched

LEMMA NetworkInit == Init /\ PatchedTree => NetworkInv
<1> SUFFICES ASSUME Init, PatchedTree PROVE NetworkInv  OBVIOUS
<1>1. ProcessShapes
  BY ClockAssumption DEF Init, ProcessShapes, Job
<1>2. FileShapes /\ FilesAsNamed
  BY FileKinds DEF Init, FileShapes, FilesAsNamed, IsFor
<1>3. HeldForJob /\ PatchedBinary
  BY DEF Init, HeldForJob, PatchedBinary, PatchedTree
<1>4. \A p \in Proc : pc[p] # "simulating"
  BY DEF Init
<1> QED BY <1>1, <1>2, <1>3, <1>4 DEF NetworkInv

LEMMA StartKeepsNetwork ==
    ASSUME NetworkInv, NEW p \in Proc, Start(p) PROVE NetworkInv'
<1>1. PICK j \in Job : Launch(p, j, First(j))
  BY DEF Start
<1>2. \A q \in Proc : /\ pc'[q] = IF q = p THEN First(j) ELSE pc[q]
                      /\ job'[q] = IF q = p THEN j ELSE job[q]
                      /\ q # p => held'[q] = held[q]
  BY <1>1 DEF Start, Launch, NetworkInv, ProcessShapes
<1>3. First(j) \in {"folder", "ensure"}
  BY DEF First
<1>4. ProcessShapes'
  <2>1. /\ pc' = [q \in Proc |-> pc'[q]]
        /\ held' = [q \in Proc |-> held'[q]]
        /\ compared' = [q \in Proc |-> compared'[q]]
        /\ run' = [q \in Proc |-> run'[q]]
    BY <1>1 DEF Start, Launch, NetworkInv, ProcessShapes
  <2>2. j \in Job /\ 0 \in 0 .. MaxClock
    BY ClockAssumption
  <2>3. job' \in [Proc -> Job]
    BY <1>1, <2>2 DEF Launch, NetworkInv, ProcessShapes
  <2>4. folder' \in [Proc -> 0 .. MaxClock] /\ clock' \in 0 .. MaxClock
    BY <2>2 DEF Start, NetworkInv, ProcessShapes
  <2> QED BY <2>1, <2>3, <2>4 DEF ProcessShapes
<1>5. FileShapes' /\ FilesAsNamed'
  BY DEF Start, NetworkInv, FileShapes, FilesAsNamed
<1>6. HeldForJob' /\ \A q \in Proc : pc'[q] = "simulating" => held'[q].is = "whole"
  BY <1>2, <1>3 DEF NetworkInv, HeldForJob
<1>7. PatchedBinary'
  BY <1>2, <1>3 DEF Start, NetworkInv, PatchedBinary
<1> QED BY <1>4, <1>5, <1>6, <1>7 DEF NetworkInv

LEMMA NetworkNext == NetworkInv /\ [Next]_vars => NetworkInv'
<1> SUFFICES ASSUME NetworkInv, [Next]_vars PROVE NetworkInv'  OBVIOUS
<1> USE DEF NetworkInv
<1>1. ASSUME NEW p \in Proc, Start(p) PROVE NetworkInv'
  BY <1>1, StartKeepsNetwork
<1>2. ASSUME NEW p \in Proc, SetIRStep(p), UNCHANGED <<geminiVars, compared>>
      PROVE  NetworkInv'
  <2>1. CASE SimulatorEnds(p) \/ TimesOut(p)
    <3>1. \E to \in {"ok", "failed"} : Goto(p, to)
      BY <2>1 DEF SimulatorEnds, TimesOut
    <3>2. UNCHANGED setirVars
      BY <2>1 DEF SimulatorEnds, TimesOut
    <3>3. /\ folder' \in [Proc -> 0 .. MaxClock] /\ clock' \in 0 .. MaxClock
          /\ compared' = [q \in Proc |-> compared'[q]]
      BY <1>2 DEF geminiVars, ProcessShapes
    <3> QED BY <3>1, <3>2, <3>3, FilesUntouched
  <2>2. CASE ~(SimulatorEnds(p) \/ TimesOut(p))
    BY <1>2, <2>2, BuildKeepsNetwork, MappingKeepsNetwork, CopyKeepsNetwork,
       ConversionKeepsNetwork, SimulationKeepsNetwork DEF SetIRStep
  <2> QED BY <2>1, <2>2
<1>3. ASSUME NEW p \in Proc, GeminiStep(p), UNCHANGED <<setirVars, compared>>
      PROVE  NetworkInv'
  BY <1>3, GeminiKeepsNetwork
<1>4. ASSUME NEW p \in Proc, ComparesIRs(p) PROVE NetworkInv'
  <2>1. \E to \in {"ok", "failed"} : Goto(p, to)
    BY <1>4 DEF ComparesIRs
  <2>2. UNCHANGED setirVars /\ folder' \in [Proc -> 0 .. MaxClock] /\ clock' \in 0 .. MaxClock
    BY <1>4 DEF ComparesIRs, geminiVars, ProcessShapes
  <2>3. compared' = [q \in Proc |-> compared'[q]]
    BY <1>4 DEF ComparesIRs, ProcessShapes
  <2> QED BY <2>1, <2>2, <2>3, FilesUntouched
<1>5. ASSUME NEW p \in Proc, Fail(p) PROVE NetworkInv'
  <2>1. Goto(p, "failed") /\ UNCHANGED setirVars
    BY <1>5 DEF Fail, Stop
  <2>2. /\ folder' \in [Proc -> 0 .. MaxClock] /\ clock' \in 0 .. MaxClock
        /\ compared' = [q \in Proc |-> compared'[q]]
    BY <1>5 DEF Fail, geminiVars, ProcessShapes
  <2> QED BY <2>1, <2>2, FilesUntouched
<1>6. CASE UNCHANGED <<pc, job, run, setirVars, folder, compared>> /\ clock' \in 0 .. MaxClock
  BY <1>6 DEF ProcessShapes, FileShapes, FilesAsNamed, HeldForJob, PatchedBinary, setirVars
<1>7. CASE SecondPasses /\ UNCHANGED <<setirVars, compared>>
  <2>1. clock' \in 0 .. MaxClock
    BY <1>7, ClockAssumption DEF SecondPasses, ProcessShapes
  <2> QED BY <1>6, <1>7, <2>1 DEF SecondPasses, scriptVars
<1>8. CASE UNCHANGED vars
  BY <1>6, <1>8 DEF vars, scriptVars, geminiVars, ProcessShapes
<1> QED BY <1>1, <1>2, <1>3, <1>4, <1>5, <1>7, <1>8 DEF Next, Step

(* What the simulator is given is for the model and the mesh that were asked
   for, with any number of processes that map, copy and convert at the same
   time, stop, and are started again (run_setir_and_simulate.py). *)
THEOREM OwnNetworkSimulated ==
    ASSUME PatchedTree
    PROVE  Spec => []SimulatesOwnNetwork
<1>1. Init => NetworkInv
  BY NetworkInit
<1>2. NetworkInv => SimulatesOwnNetwork
  BY DEF NetworkInv, HeldForJob, IsFor, SimulatesOwnNetwork
<1> QED BY <1>1, <1>2, NetworkNext, PTL DEF Spec

-----------------------------------------------------------------------------
(* Record folders, and what is compared                                    *)

(* What a step does to the record folders. *)

LeavesRecords(p) ==
    /\ pc[p] \notin Ended
    /\ \E to : Goto(p, to) /\ to \notin Recording
    /\ held' = [q \in Proc |-> held'[q]]
    /\ UNCHANGED <<clock, folder, records, compared>>

Writes(p) ==
    /\ pc[p] \in Recording
    /\ \E to : Goto(p, to)
    /\ \E r : /\ Put(p, r)
              /\ r = [irs |-> r.irs, info |-> r.info, trace |-> r.trace,
                      heatmap |-> r.heatmap, made |-> r.made]
              /\ r.made = RecordOf(p).made
              /\ \A ir \in r.irs : ir \in RecordOf(p).irs \/ ir.at = clock
    /\ UNCHANGED <<held, clock, folder, compared>>

TimePasses ==
    /\ clock' \in Second /\ clock' >= clock
    /\ UNCHANGED <<scriptVars, held, folder, records, compared>>

LEMMA BaseOfJob == \A j : BaseOf(j) \in Base
  BY DEF BaseOf, Base

(* Writing a record replaces one of them. *)
LEMMA PutInFolder ==
    ASSUME ProcessShapes, RecordShapes, NEW p \in Proc, NEW r, Put(p, r)
    PROVE  /\ records' = [b \in Base |-> [s \in Second |-> records'[b][s]]]
           /\ \A b \in Base : \A s \in Second :
                 records'[b][s] = IF b = BaseOf(job[p]) /\ s = folder[p]
                                    THEN r ELSE records[b][s]
           /\ folder[p] \in Second
<1>1. BaseOf(job[p]) \in Base /\ folder[p] \in Second
  BY BaseOfJob DEF ProcessShapes, Second
<1>2. \A b \in Base : records[b] = [s \in Second |-> records[b][s]]
  BY DEF RecordShapes
<1>3. /\ records' = [b \in Base |-> records'[b]]
      /\ \A b \in Base : records'[b] =
            IF b = BaseOf(job[p]) THEN [records[b] EXCEPT ![folder[p]] = r]
                                  ELSE records[b]
  BY DEF Put, RecordShapes
<1>4. \A b \in Base : records'[b] = [s \in Second |-> records'[b][s]]
  BY <1>2, <1>3
<1>5. \A b \in Base : \A s \in Second :
          records'[b][s] = IF b = BaseOf(job[p]) /\ s = folder[p]
                             THEN r ELSE records[b][s]
  BY <1>1, <1>2, <1>3
<1> QED BY <1>1, <1>3, <1>4, <1>5

LEMMA RecordOfProcess ==
    ASSUME ProcessShapes, RecordShapes, NEW p \in Proc
    PROVE  RecordOf(p) = [irs |-> RecordOf(p).irs, info |-> RecordOf(p).info,
                          trace |-> RecordOf(p).trace,
                          heatmap |-> RecordOf(p).heatmap,
                          made |-> RecordOf(p).made]
  BY BaseOfJob DEF RecordOf, ProcessShapes, RecordShapes, Second

LEMMA PutBack ==
    ASSUME ProcessShapes, RecordShapes, NEW p \in Proc, UNCHANGED records
    PROVE  Put(p, RecordOf(p))
<1>1. BaseOf(job[p]) \in Base /\ folder[p] \in Second
  BY BaseOfJob DEF ProcessShapes, Second
<1>2. records[BaseOf(job[p])] =
          [records[BaseOf(job[p])] EXCEPT ![folder[p]] = RecordOf(p)]
  BY <1>1 DEF RecordShapes, RecordOf
<1> QED BY <1>1, <1>2 DEF RecordShapes, Put, RecordOf

LEMMA GeminiWrites ==
    ASSUME ProcessShapes, RecordShapes, NEW p \in Proc, GeminiStep(p),
           UNCHANGED <<setirVars, compared>>
    PROVE  Writes(p) \/ MakeFolder(p)
<1> DEFINE old == RecordOf(p)
           Kept(r) == /\ r = [irs |-> r.irs, info |-> r.info, trace |-> r.trace,
                              heatmap |-> r.heatmap, made |-> r.made]
                      /\ r.made = old.made
                      /\ \A ir \in r.irs : ir \in old.irs \/ ir.at = clock
<1>1. /\ old = [irs |-> old.irs, info |-> old.info, trace |-> old.trace,
                heatmap |-> old.heatmap, made |-> old.made]
      /\ UNCHANGED records => Put(p, old)
      /\ UNCHANGED held
  BY RecordOfProcess, PutBack DEF setirVars
<1> HIDE DEF old
<1>2. Kept(old)
  BY <1>1
<1>3. ASSUME NEW n
      PROVE  /\ Kept([old EXCEPT !.info = n])
             /\ Kept([old EXCEPT !.trace = n])
             /\ Kept([old EXCEPT !.heatmap = n])
  BY <1>1
<1>4. CASE GeminiEnds(p)
  <2> DEFINE own == [run |-> run[p], model |-> job[p].model, mesh |-> job[p].cfg,
                     at |-> clock]
             new == [old EXCEPT !.irs = {ir \in @ : ~Named(ir, job[p])} \cup {own}]
  <2>1. Put(p, new) \/ Put(p, old)
    BY <1>1, <1>4 DEF GeminiEnds, old
  <2>2. own.at = clock
    OBVIOUS
  <2> HIDE DEF own
  <2>3. Kept(new)
    BY <1>1, <2>2
  <2>4. pc[p] = "gemini" /\ Goto(p, "look") /\ UNCHANGED <<clock, folder>>
    BY <1>4 DEF GeminiEnds
  <2> HIDE DEF new
  <2> QED BY <1>1, <1>2, <2>1, <2>3, <2>4 DEF Writes, Recording, old
<1>5. CASE LookForIR(p)
  <2> DEFINE new == [old EXCEPT !.info = run[p]]
  <2>1. Put(p, new) \/ Put(p, old)
    BY <1>1, <1>5 DEF LookForIR, old
  <2>2. /\ pc[p] = "look" /\ UNCHANGED <<clock, folder>>
        /\ Goto(p, AfterGemini(job[p])) \/ Goto(p, "failed")
    BY <1>5 DEF LookForIR
  <2>3. Kept(new)
    BY <1>3
  <2> HIDE DEF new
  <2> QED BY <1>1, <1>2, <2>1, <2>2, <2>3 DEF Writes, Recording, old
<1>6. CASE SimulationEnds(p)
  <2> DEFINE new == [old EXCEPT !.trace = run[p]]
  <2>1. Put(p, new) \/ Put(p, old)
    BY <1>1, <1>6 DEF SimulationEnds, old
  <2>2. pc[p] = "run_sh" /\ UNCHANGED <<clock, folder>> /\ Goto(p, "info")
    BY <1>6 DEF SimulationEnds
  <2>3. Kept(new)
    BY <1>3
  <2> HIDE DEF new
  <2> QED BY <1>1, <1>2, <2>1, <2>2, <2>3 DEF Writes, Recording, old
<1>7. CASE WriteRunInfo(p)
  <2> DEFINE new == [old EXCEPT !.info = run[p]]
  <2>1. Put(p, new)
    BY <1>7 DEF WriteRunInfo, old
  <2>2. /\ pc[p] = "info" /\ UNCHANGED <<clock, folder>>
        /\ Goto(p, "heatmap") \/ Goto(p, "failed")
    BY <1>7 DEF WriteRunInfo
  <2>3. Kept(new)
    BY <1>3
  <2> HIDE DEF new
  <2> QED BY <1>1, <2>1, <2>2, <2>3 DEF Writes, Recording, old
<1>8. CASE PlotHeatmap(p)
  <2> DEFINE new == [old EXCEPT !.heatmap = old.trace]
  <2>1. Put(p, new)
    BY <1>8 DEF PlotHeatmap, old
  <2>2. pc[p] = "heatmap" /\ UNCHANGED <<clock, folder>> /\ Goto(p, "ok")
    BY <1>8 DEF PlotHeatmap
  <2>3. Kept(new)
    BY <1>3
  <2> HIDE DEF new
  <2> QED BY <1>1, <2>1, <2>2, <2>3 DEF Writes, Recording, old
<1> QED BY <1>4, <1>5, <1>6, <1>7, <1>8 DEF GeminiStep

LEMMA RecordSteps ==
    ASSUME ProcessShapes, RecordShapes, Next
    PROVE  \/ \E p \in Proc : \/ Start(p) \/ ComparesIRs(p)
                              \/ LeavesRecords(p) \/ Writes(p)
                              \/ MakeFolder(p) /\ UNCHANGED <<setirVars, compared>>
           \/ TimePasses
<1>1. ASSUME NEW p \in Proc, SetIRStep(p), UNCHANGED <<geminiVars, compared>>
      PROVE  LeavesRecords(p)
  <2>1. \E to \in {"make", "setir", "mapping", "writing", "copy", "folder", "failed",
                   "convert", "converting", "simulate", "simulating", "ok"} : Goto(p, to)
    <3>1. CASE EnsureSetIR(p) \/ Make(p)
      BY <3>1 DEF EnsureSetIR, Make
    <3>2. CASE SetIRStarts(p) \/ SetIRWrites(p) \/ SetIREnds(p)
      BY <3>2 DEF SetIRStarts, SetIRWrites, SetIREnds
    <3>3. CASE CopyResult(p) \/ ConvertStarts(p) \/ ConvertEnds(p)
      BY <3>3 DEF CopyResult, ConvertStarts, ConvertEnds
    <3>4. CASE SimulatorStarts(p) \/ SimulatorEnds(p) \/ TimesOut(p)
      BY <3>4 DEF SimulatorStarts, SimulatorEnds, TimesOut
    <3> QED BY <1>1, <3>1, <3>2, <3>3, <3>4 DEF SetIRStep
  <2>2. held' = [q \in Proc |-> held'[q]]
    BY <1>1 DEF SetIRStep, EnsureSetIR, Make, SetIRStarts, SetIRWrites, SetIREnds,
        CopyResult, ConvertStarts, ConvertEnds, SimulatorStarts, SimulatorEnds,
        TimesOut, setirVars, ProcessShapes
  <2>3. pc[p] \notin Ended
    BY <1>1 DEF SetIRStep, EnsureSetIR, Make, SetIRStarts, SetIRWrites, SetIREnds,
        CopyResult, ConvertStarts, ConvertEnds, SimulatorStarts, SimulatorEnds,
        TimesOut, HasTimeout, Ended
  <2> QED BY <1>1, <2>1, <2>2, <2>3 DEF LeavesRecords, Recording, geminiVars
<1>2. ASSUME NEW p \in Proc, Fail(p) PROVE LeavesRecords(p)
  BY <1>2 DEF Fail, Stop, LeavesRecords, Recording, setirVars, geminiVars, ProcessShapes
<1>3. CASE SecondPasses /\ UNCHANGED <<setirVars, compared>>
  <2>1. clock' \in Second /\ clock' >= clock
    BY <1>3, ClockAssumption DEF SecondPasses, ProcessShapes, Second
  <2> QED BY <1>3, <2>1 DEF SecondPasses, TimePasses, setirVars
<1> QED BY <1>1, <1>2, <1>3, GeminiWrites DEF Next, Step

-----------------------------------------------------------------------------
(* Each kind of step keeps the invariant.                                  *)

LEMMA LeavingKeepsRecords ==
    ASSUME RecordInv, NEW p \in Proc, LeavesRecords(p)
    PROVE  RecordInv'
<1>1. PICK to : Goto(p, to) /\ to \notin Recording
  BY DEF LeavesRecords
<1>2. ProcessShapes'
  BY <1>1 DEF LeavesRecords, RecordInv, ProcessShapes, Goto
<1>3. UNCHANGED <<job, clock, folder, records, compared>>
  BY <1>1 DEF LeavesRecords, Goto
<1>4. RecordShapes' /\ IRsNotOlder'
  BY <1>3 DEF RecordInv, RecordShapes, IRsNotOlder
<1>5. \A q \in Proc : pc'[q] = IF q = p THEN to ELSE pc[q]
  BY <1>1 DEF RecordInv, ProcessShapes, Goto
<1>6. FoldersMade'
  BY <1>1, <1>3, <1>5 DEF RecordInv, FoldersMade, RecordOf
<1>7. compared[p] = <<>>
  BY DEF LeavesRecords, Ended, RecordInv, ComparedAtEnd
<1>8. ComparedAtEnd' /\ ComparesNewIR'
  BY <1>3, <1>5, <1>7 DEF RecordInv, ComparedAtEnd, ComparesNewIR
<1> QED BY <1>2, <1>4, <1>6, <1>8 DEF RecordInv

LEMMA WritingKeepsRecords ==
    ASSUME RecordInv, NEW p \in Proc, Writes(p)
    PROVE  RecordInv'
<1>1. PICK to : Goto(p, to)
  BY DEF Writes
<1>2. PICK r : /\ Put(p, r)
               /\ r = [irs |-> r.irs, info |-> r.info, trace |-> r.trace,
                       heatmap |-> r.heatmap, made |-> r.made]
               /\ r.made = RecordOf(p).made
               /\ \A ir \in r.irs : ir \in RecordOf(p).irs \/ ir.at = clock
  BY DEF Writes
<1>3. /\ pc[p] \in Recording /\ pc[p] \notin Ended
      /\ UNCHANGED <<held, job, clock, folder, compared>>
  BY <1>1 DEF Writes, Recording, Ended, Goto
<1>4. ProcessShapes'
  BY <1>1 DEF Writes, RecordInv, ProcessShapes, Goto
<1>5. /\ records' = [b \in Base |-> [s \in Second |-> records'[b][s]]]
      /\ \A b \in Base : \A s \in Second :
            records'[b][s] = IF b = BaseOf(job[p]) /\ s = folder[p]
                               THEN r ELSE records[b][s]
      /\ \A q \in Proc : folder[q] \in Second /\ BaseOf(job[q]) \in Base
  BY <1>2, PutInFolder, BaseOfJob DEF RecordInv, ProcessShapes, Second
<1>6. RecordShapes'
  BY <1>2, <1>5 DEF RecordInv, RecordShapes
<1>7. IRsNotOlder'
  <2> SUFFICES ASSUME NEW b \in Base, NEW s \in Second, NEW ir \in records'[b][s].irs
               PROVE  ir.at \in Second /\ ir.at >= s
    BY DEF IRsNotOlder
  <2>1. CASE ir \in records[b][s].irs
    BY <2>1 DEF RecordInv, IRsNotOlder
  <2>2. CASE ir \notin records[b][s].irs
    <3>1. b = BaseOf(job[p]) /\ s = folder[p] /\ ir \in r.irs
      BY <1>5, <2>2
    <3>2. ir.at = clock
      BY <1>2, <2>2, <3>1 DEF RecordOf
    <3> QED BY <3>1, <3>2 DEF RecordInv, FoldersMade, ProcessShapes, Second
  <2> QED BY <2>1, <2>2
<1>8. \A q \in Proc : pc'[q] = IF q = p THEN to ELSE pc[q]
  BY <1>1 DEF RecordInv, ProcessShapes, Goto
<1>9. FoldersMade'
  <2>1. \A q \in Proc : RecordOf(q)'.made = RecordOf(q).made
    BY <1>2, <1>3, <1>5 DEF RecordOf
  <2> QED BY <1>3, <1>8, <2>1 DEF RecordInv, FoldersMade
<1>10. compared[p] = <<>>
  BY <1>3 DEF Ended, RecordInv, ComparedAtEnd
<1>11. ComparedAtEnd' /\ ComparesNewIR'
  BY <1>3, <1>8, <1>10 DEF RecordInv, ComparedAtEnd, ComparesNewIR
<1> QED BY <1>4, <1>6, <1>7, <1>9, <1>11 DEF RecordInv

(* A folder that is there already, made in the same second, keeps what it has. *)
LEMMA MakingKeepsRecords ==
    ASSUME RecordInv, NEW p \in Proc, MakeFolder(p), UNCHANGED <<setirVars, compared>>
    PROVE  RecordInv'
<1> DEFINE base == BaseOf(job[p])
           old == records[base][clock]
<1>1. base \in Base /\ clock \in Second
  BY BaseOfJob DEF RecordInv, ProcessShapes, Second
<1>2. /\ records' = [b \in Base |-> [s \in Second |-> records'[b][s]]]
      /\ \A b \in Base : \A s \in Second :
            records'[b][s] = IF b = base /\ s = clock
                               THEN [old EXCEPT !.made = TRUE] ELSE records[b][s]
  <2>1. records' = [records EXCEPT ![base][clock].made = TRUE]
    BY DEF MakeFolder
  <2>2. \A b \in Base : records[b] = [s \in Second |-> records[b][s]]
    BY DEF RecordInv, RecordShapes
  <2>3. /\ records' = [b \in Base |-> records'[b]]
        /\ \A b \in Base : records'[b] =
              IF b = base THEN [records[b] EXCEPT ![clock].made = TRUE] ELSE records[b]
    BY <2>1 DEF RecordInv, RecordShapes
  <2>4. \A b \in Base : records'[b] = [s \in Second |-> records'[b][s]]
    BY <2>2, <2>3
  <2>5. records'[base] = [records[base] EXCEPT ![clock] = [old EXCEPT !.made = TRUE]]
    BY <1>1, <2>3
  <2>6. \A s \in Second : records'[base][s] =
            IF s = clock THEN [old EXCEPT !.made = TRUE] ELSE records[base][s]
    BY <1>1, <2>2, <2>5
  <2>7. \A b \in Base : b # base => records'[b] = records[b]
    BY <2>3
  <2> HIDE DEF base, old
  <2> QED BY <2>3, <2>4, <2>6, <2>7
<1>3. old = [irs |-> old.irs, info |-> old.info, trace |-> old.trace,
             heatmap |-> old.heatmap, made |-> old.made]
  BY <1>1 DEF RecordInv, RecordShapes
<1> HIDE DEF old, base
<1>4. RecordShapes'
  BY <1>2, <1>3 DEF RecordInv, RecordShapes
<1>5. ProcessShapes'
  <2>1. folder' \in [Proc -> 0 .. MaxClock]
    BY DEF MakeFolder, RecordInv, ProcessShapes
  <2> QED BY <2>1 DEF MakeFolder, Goto, setirVars, RecordInv, ProcessShapes
<1>6. \A b \in Base : \A s \in Second :
          /\ records'[b][s].irs = records[b][s].irs
          /\ records[b][s].made => records'[b][s].made
  BY <1>2, <1>3 DEF old
<1>7. IRsNotOlder'
  BY <1>6 DEF RecordInv, IRsNotOlder
<1>8. \A q \in Proc : /\ pc'[q] = IF q = p THEN "gemini" ELSE pc[q]
                      /\ folder'[q] = IF q = p THEN clock ELSE folder[q]
  BY DEF MakeFolder, Goto, RecordInv, ProcessShapes
<1>9. UNCHANGED <<job, clock, compared>> /\ pc[p] \notin Ended
  BY DEF MakeFolder, Goto, Ended
<1>10. FoldersMade'
  <2> SUFFICES ASSUME NEW q \in Proc
               PROVE  /\ folder'[q] <= clock'
                      /\ pc'[q] \in Recording => RecordOf(q)'.made
    BY DEF FoldersMade
  <2>1. RecordOf(q)' = records'[BaseOf(job[q])][folder'[q]]
    BY <1>9 DEF RecordOf
  <2>2. CASE q = p
    <3>1. records'[base][clock].made
      BY <1>1, <1>2, <1>3
    <3>2. clock <= clock
      BY <1>1 DEF Second
    <3> QED BY <1>8, <1>9, <2>1, <2>2, <3>1, <3>2 DEF base
  <2>3. CASE q # p
    <3>1. BaseOf(job[q]) \in Base /\ folder[q] \in Second
      BY BaseOfJob DEF RecordInv, ProcessShapes, Second
    <3>2. RecordOf(q).made => RecordOf(q)'.made
      BY <1>6, <1>8, <2>1, <2>3, <3>1 DEF RecordOf
    <3> QED BY <1>8, <1>9, <2>3, <3>2 DEF RecordInv, FoldersMade
  <2> QED BY <2>2, <2>3
<1>11. compared[p] = <<>>
  BY <1>9 DEF Ended, RecordInv, ComparedAtEnd
<1>12. ComparedAtEnd' /\ ComparesNewIR'
  BY <1>8, <1>9, <1>11 DEF RecordInv, ComparedAtEnd, ComparesNewIR
<1> QED BY <1>4, <1>5, <1>7, <1>10, <1>12 DEF RecordInv

LEMMA StartKeepsRecords ==
    ASSUME RecordInv, NEW p \in Proc, Start(p)
    PROVE  RecordInv'
<1>1. PICK j \in Job : Launch(p, j, First(j))
  BY DEF Start
<1>2. /\ \A q \in Proc : q # p =>
            /\ pc'[q] = pc[q] /\ job'[q] = job[q]
            /\ folder'[q] = folder[q] /\ compared'[q] = compared[q]
      /\ pc'[p] = First(j) /\ folder'[p] = 0 /\ compared'[p] = <<>>
  BY <1>1 DEF Start, Launch, RecordInv, ProcessShapes
<1>3. First(j) \in {"folder", "ensure"}
  BY DEF First
<1>4. ProcessShapes'
  <2>1. /\ pc' = [q \in Proc |-> pc'[q]]
        /\ held' = [q \in Proc |-> held'[q]]
        /\ compared' = [q \in Proc |-> compared'[q]]
        /\ run' = [q \in Proc |-> run'[q]]
    BY <1>1 DEF Start, Launch, RecordInv, ProcessShapes
  <2>2. j \in Job /\ 0 \in 0 .. MaxClock
    BY ClockAssumption
  <2>3. job' \in [Proc -> Job]
    BY <1>1, <2>2 DEF Launch, RecordInv, ProcessShapes
  <2>4. folder' \in [Proc -> 0 .. MaxClock] /\ clock' \in 0 .. MaxClock
    BY <2>2 DEF Start, RecordInv, ProcessShapes
  <2> QED BY <2>1, <2>3, <2>4 DEF ProcessShapes
<1>5. UNCHANGED <<records, clock>>
  BY DEF Start
<1>6. RecordShapes' /\ IRsNotOlder'
  BY <1>5 DEF RecordInv, RecordShapes, IRsNotOlder
<1>7. FoldersMade'
  <2>1. 0 <= clock
    BY DEF RecordInv, ProcessShapes
  <2>2. ASSUME NEW q \in Proc, q # p PROVE RecordOf(q)' = RecordOf(q)
    BY <1>2, <1>5, <2>2 DEF RecordOf
  <2> QED BY <1>2, <1>3, <1>5, <2>1, <2>2 DEF RecordInv, FoldersMade, Recording
<1>8. ComparedAtEnd' /\ ComparesNewIR'
  BY <1>2 DEF RecordInv, ComparedAtEnd, ComparesNewIR
<1> QED BY <1>4, <1>6, <1>7, <1>8 DEF RecordInv

(* The newest folder is not older than the one of the comparison itself. *)
LEMMA NewestNotOlder ==
    ASSUME ProcessShapes, NEW b, NEW s \in Folders(b)
    PROVE  NewestFolder(b) \in s .. MaxClock
<1>1. Folders(b) \in SUBSET (0 .. MaxClock) /\ Folders(b) # {}
  BY DEF Folders
<1>2. \E n \in Folders(b) : \A t \in Folders(b) : n >= t
  BY <1>1, ClockAssumption, LargestOfBounded
<1>3. NewestFolder(b) \in Folders(b) /\ NewestFolder(b) >= s
  BY <1>2 DEF NewestFolder
<1> QED BY <1>1, <1>3, ClockAssumption

LEMMA ComparingKeepsRecords ==
    ASSUME RecordInv, NEW p \in Proc, ComparesIRs(p)
    PROVE  RecordInv'
<1> DEFINE base == BaseOf(job[p])
           newest == NewestFolder(base)
<1>1. PICK to \in {"ok", "failed"} : Goto(p, to)
  BY DEF ComparesIRs
<1>2. pc[p] = "pick" /\ UNCHANGED <<job, clock, folder, records>>
  BY <1>1 DEF ComparesIRs, geminiVars, Goto
<1>3. ProcessShapes'
  BY <1>1 DEF ComparesIRs, setirVars, geminiVars, RecordInv, ProcessShapes, Goto
<1>4. RecordShapes' /\ IRsNotOlder'
  BY <1>2 DEF RecordInv, RecordShapes, IRsNotOlder
<1>5. \A q \in Proc : /\ pc'[q] = IF q = p THEN to ELSE pc[q]
                      /\ q # p => compared'[q] = compared[q]
  BY <1>1 DEF ComparesIRs, RecordInv, ProcessShapes, Goto
<1>6. FoldersMade'
  BY <1>1, <1>2, <1>5 DEF RecordInv, FoldersMade, RecordOf, Recording
<1>7. base \in Base /\ newest \in Second /\ newest >= folder[p]
  <2>1. folder[p] \in Folders(base)
    BY <1>2 DEF Folders, RecordInv, FoldersMade, Recording, RecordOf, ProcessShapes
  <2>2. newest \in folder[p] .. MaxClock
    BY <2>1, NewestNotOlder DEF RecordInv
  <2> QED BY <2>2, BaseOfJob DEF RecordInv, ProcessShapes, Second
<1>8. compared[p] = <<>>
  BY <1>2 DEF RecordInv, ComparedAtEnd
<1> HIDE DEF newest
<1>9. \/ Goto(p, "failed") /\ compared'[p] = <<>>
      \/ /\ Goto(p, "ok")
         /\ \E d : \E ir \in records[base][newest].irs : compared'[p] = <<d, ir>>
  <2>1. CASE Goto(p, "failed") /\ UNCHANGED compared
    BY <1>8, <2>1
  <2>2. CASE ~(Goto(p, "failed") /\ UNCHANGED compared)
    <3>1. PICK ir \in records[base][newest].irs :
              compared' = [compared EXCEPT ![p] = <<copied[OutDir(job[p])].data, ir>>]
      BY <2>2 DEF ComparesIRs, newest
    <3>2. Goto(p, "ok")
      BY <2>2 DEF ComparesIRs
    <3> QED BY <3>1, <3>2 DEF RecordInv, ProcessShapes
  <2> QED BY <2>1, <2>2
<1>10. Goto(p, "ok") => pc'[p] = "ok"
  BY DEF Goto, RecordInv, ProcessShapes
<1>11. ComparedAtEnd'
  BY <1>5, <1>9, <1>10 DEF RecordInv, ComparedAtEnd
<1>12. ComparesNewIR'
  <2> SUFFICES ASSUME NEW q \in Proc, pc'[q] = "ok", compared'[q] # <<>>
               PROVE  compared'[q][2].at >= folder'[q]
    BY DEF ComparesNewIR
  <2>1. CASE q = p
    <3>1. PICK ir \in records[base][newest].irs : \E d : compared'[p] = <<d, ir>>
      BY <1>9, <2>1
    <3>2. compared'[p][2] = ir
      BY <3>1
    <3>3. ir.at \in Second /\ ir.at >= newest
      BY <1>7, <3>1 DEF RecordInv, IRsNotOlder
    <3> QED BY <1>2, <1>7, <2>1, <3>2, <3>3 DEF Second, RecordInv, ProcessShapes
  <2>2. CASE q # p
    BY <1>2, <1>5, <2>2 DEF RecordInv, ComparesNewIR
  <2> QED BY <2>1, <2>2
<1> QED BY <1>3, <1>4, <1>6, <1>11, <1>12 DEF RecordInv

LEMMA QuietKeepsRecords ==
    ASSUME RecordInv, TimePasses \/ UNCHANGED vars
    PROVE  RecordInv'
<1>1. /\ UNCHANGED <<pc, job, run, held, folder, records, compared>>
      /\ clock' \in Second /\ clock' >= clock
  BY DEF TimePasses, vars, scriptVars, setirVars, geminiVars, RecordInv, ProcessShapes, Second
<1>2. ProcessShapes' /\ RecordShapes' /\ IRsNotOlder'
  BY <1>1 DEF RecordInv, ProcessShapes, RecordShapes, IRsNotOlder, Second
<1>3. \A q \in Proc : folder[q] <= clock'
  BY <1>1 DEF RecordInv, FoldersMade, ProcessShapes, Second
<1>4. FoldersMade'
  BY <1>1, <1>3 DEF RecordInv, FoldersMade, RecordOf
<1>5. ComparedAtEnd' /\ ComparesNewIR'
  BY <1>1 DEF RecordInv, ComparedAtEnd, ComparesNewIR
<1> QED BY <1>2, <1>4, <1>5 DEF RecordInv

LEMMA RecordInit == Init => RecordInv
<1> SUFFICES ASSUME Init PROVE RecordInv  OBVIOUS
<1>1. ProcessShapes
  BY ClockAssumption DEF Init, ProcessShapes, Job
<1>2. RecordShapes
  BY DEF Init, RecordShapes, NoRecord, Second
<1>3. IRsNotOlder
  BY DEF Init, IRsNotOlder, NoRecord, Second
<1>4. FoldersMade /\ ComparedAtEnd /\ ComparesNewIR
  BY DEF Init, FoldersMade, Recording, ComparedAtEnd, ComparesNewIR
<1> QED BY <1>1, <1>2, <1>3, <1>4 DEF RecordInv

LEMMA RecordNext == RecordInv /\ [Next]_vars => RecordInv'
  BY RecordSteps, StartKeepsRecords, ComparingKeepsRecords, LeavingKeepsRecords,
     WritingKeepsRecords, MakingKeepsRecords, QuietKeepsRecords DEF RecordInv

(* The GEMINI side of a comparison was made no earlier than the record folder
   the comparison made, also when others map, compare and stop in the same
   directory, or in the same folder, meanwhile (run_gemini of
   compare_setir_gemini_resnet50_two_core.py takes the newest). *)
THEOREM NewIRCompared == Spec => []ComparesNewIR
<1>1. RecordInv => ComparesNewIR
  BY DEF RecordInv
<1> QED BY <1>1, RecordInit, RecordNext, PTL DEF Spec

=============================================================================
