# npu-simulator: a TLA+ model of the task-level NPU simulator and its tools

The repository simulates a deep-learning accelerator at the level of tasks. A
mapped network (the *IR*, one list of workloads per core) is produced by SET-IR or
GEMINI, converted or cut by Python tools, read by a parser, and a cycle loop runs the
cores, a network on chip and a DRAM until every core has executed its list. Driver
scripts chain these steps and collect the results in files. This directory holds
TLA+ modules for the parts of this that make decisions - the cores, their
scratchpads, the transport of packets, the progress watchdog, the parser, the IR
tools, and the drivers with the files they share - together with the TLC
configurations that check them and the proofs TLAPS accepts.

## 1. Inventory

| component | state it keeps | operations | talks to |
|---|---|---|---|
| SRAM (`sram.cpp`) | `entries_` (size, ready, ref_count), `used_bytes_` | allocate, mark_ready, release_ref, has_data, is_ready | its core |
| NPU core (`core.cpp`) | state machine, workload index, pending loads, requested transfers, retry queue, SRAM write in progress and its queue, pending remote requests, injection and ejection queues, write-back list | `tick()`: packets, retries, SRAM writes, remote requests, then the switch on the state; `force_advance_loading`, `force_complete_writeback` | other cores and the DRAM by packets, the simulator by calls |
| Simulator (`simulator.cpp`) | cycle counter, `pending_dram_responses_`, watchdog counters | `run`, `tick`, collect/deliver packets, inject DRAM responses, `detect_and_resolve_deadlock` | all of the others |
| SimpleNoC, SimpleDRAM (`simulator.cpp`) | packets in flight with a delivery cycle | inject/send_request, tick, receive/get_responses | simulator |
| Task representation (`task.h`, `packet.h`, `types.h`) | workloads, sources, outputs | none | parser, cores |
| Gemini parser (`gemini_parser.cpp`) | workload lists | read JSON, then compact core ids, sort, fix reference counts | simulator's `load_ir` |
| Topology (`topology.h`) | node of every core, memory nodes | core_to_noc, select_dram_controller | simulator |
| DRAM address allocator (`address_allocator.cpp`) | address of every transfer | collect, allocate, get_address | Ramulator2 wrapper |
| Ramulator2 wrapper (`ramulator2_dram.cpp`) | bursts, cache lines sent and completed, responses | send_request, tick, get_responses | simulator, external DRAM model |
| BookSim2 wrapper (`booksim2_noc.cpp`) | packets inside the external network | inject, tick, receive | simulator, external NoC model |
| Configuration, command line, CSV export | none that survives a call | parsing, formatting | user |
| IR conversion (`setir_to_gemini_ir.py`) | one IR in, one out | new core ids, producers and consumers found again, buffers expanded | SET-IR's files, parser |
| IR slicing (`slice_ir.py`) | seed and selection of workloads | seed by layer or number, closure under producers, renumbering | IR files |
| SET-IR driver (`run_setir_and_simulate.py`) | SET-IR's source, binary and results; IR files per model and mesh | patch, make, map, copy, convert, simulate, time out | SET-IR, converter, simulator |
| GEMINI driver (`gemini_run.py`, `run.sh`) | record folders named after the second | map, look for the IR, simulate, write `run_info.md`, heatmap | GEMINI, `run.sh` |
| IR comparison (`compare_setir_gemini_resnet50_two_core.py`) | report | has both mappers run, picks the newest record folder | both drivers' files |
| Design-space sweep (`run_c5_dse.py`) | IR cache by key, a directory per experiment | map once per key, simulate once per experiment, skip what is there | GEMINI, simulator |
| ZeBu study (`run_zebu_and_bottleneck_experiments.py`, `batch_compare_zebu.py`, `parse_zebu_trace.py`) | CSV of cycles, validation table, breakdown | simulate, rewrite the CSV, compare with traces | simulator, traces, user |
| Plots, spreadsheets, one-pass reports (`scripts/`) | none | read, draw or print | user |

**How they interact.** One thread executes everything. `Simulator::run()` calls
`tick()` until all cores are `DONE`; a tick calls `NPUCore::tick()` on every core
in the order of the ids, empties the injection queues into the NoC or DRAM, moves
both by one cycle, and puts what has arrived into the ejection queues. There are
no callbacks and no shared data between cores: a core that needs the output of
another sends `READ_REQUEST`, the producer answers `READ_RESPONSE` when the entry
is ready and releases one reference; an output for the DRAM goes as
`WRITE_REQUEST` and is kept until `WRITE_RESPONSE`.

**What is hard.** Not threads, but the product of 2 to 64 state machines with
latencies the NoC and DRAM decide:

* a request meets its data not yet computed, being published, ready, or gone;
* an answer does not fit, or meets a write in progress;
* the injection queue fills in the middle of a workload's requests;
* the number of references must equal the number of readers still to come, local
  and remote, and one more for a write-back;
* the watchdog moves a core on while its packets are still under way;
* node ids and core ids are both `int`, translated on some paths and not on others;
* every pass between the mapper and the cores renames cores, and a name that is left
  behind still looks like a core;
* the scripts take a file's existence for the success of whoever wrote it, share
  names across processes, and are stopped and started again in the same directories;
* subprocesses need not end by themselves.

`PROJECT.json` lists these under *hazards*, each with its line and the properties
aimed at it.

**What makes each part correct.** SRAM: the byte count is the sum of the entries
and stays within the capacity. Core: a workload starts when, and only when, its
inputs have been produced; nothing is requested twice or lost; data stays until
its last reader has it. Transport: every packet arrives once, where it should.
Simulator: everything completes, or the watchdog ends the run. Tools and parser: what a
workload reads it reads, in the end, from a core that outputs it, and no core's list
waits for something behind in itself. Drivers: what is simulated is of the
network asked for, what is compared of the comparison's own time. Sweeps: a result
belongs to the configuration and the IR beside it.

## 2. Modules

| module | models | remarks |
|---|---|---|
| `Task` | `task.h`, the part of an IR that matters | sizes, cycles and ids are numbers; buffers are flattened into one list of sources |
| `Sram` | `sram.cpp` | operators on a record; each mutator returns the new record |
| `NPUCore` | `core.cpp` | variables indexed by core; one action per phase or loop iteration |
| `Simulator` | `simulator.cpp` with SimpleNoC, SimpleDRAM, the use it makes of `topology.h` | composes the cores with transport and watchdog; `Spec`, `FairSpec` |
| `Dataflow` | nothing in particular: the abstract specification | no cycles, packets or memory: workloads run in list order after their producers |
| `SimulatorProperties` | | what is checked, and the refinement mapping to `Dataflow` |
| `SimulatorInvariants` | | the inductive invariants of the proofs |
| `GeminiIR` | the IR file format between the tools | what a workload names: transfers, sources, destinations, ids |
| `SetIR` | `setir_to_gemini_ir.py` | one action, pure operators for its dictionaries |
| `SliceIR` | `slice_ir.py` | seed, one action per closure pass, rebuild |
| `IRPasses`, `GeminiParser` | `gemini_parser.cpp` | reading of workload lists, then one action per pass |
| `IdOrder` | | ids in their order, for the tools' renumberings and the cores' tick |
| `IRTools`, `IRToolsProperties` | | composes conversion, slicing and parsing; what is assumed of the IRs; properties |
| `IRToolsInvariants` | | the inductive invariant of the tools |
| `Scripts` | a script process and a file | start, stop, step; a file is absent, begun, mixed or whole |
| `SetIRDriver`, `GeminiRun` | the two driver scripts | one action per subprocess call, file written, decision |
| `Drivers` | the comparison script, and the composition | several processes in one working tree |
| `DSE`, `ZebuStudy`, `Sweeps` | the sweep, the ZeBu study with its comparison, their composition | restarts in the same directories |
| `MCSimulator`, `MCIRTools`, `MCDrivers`, `MCSweeps` | | the instances |
| `QueueProofs` | | facts about data that the proofs share |
| `TypeProofs`, `OrderProofs`, `TokenProofs`, `RefProofs` | | the proofs of the simulator; order and tokens are each on top of the types, references on top of the tokens |
| `ToolProofs` | | the proofs of the tools: their algorithms on data, then their steps |
| `DriverProofs`, `SweepProofs` | | the proofs of the drivers and of the sweep with the study |

**Variables and code.** A variable has the name of the member it models where
that is readable (`pendingLoads` is `pending_loads_`, `remote` is
`pending_remote_requests_`, `writeId`/`writeRem`/`writeQueue` are
`sram_write_current_id_`, `sram_write_bytes_remaining_`, `sram_write_queue_`, and
so on; each declaration says which). A member of a core is a function from core
to value.

**Steps.** `NPUCore::tick()` is a sequence of loops. The model executes one
iteration per step under a program counter `pc`, the core being ticked `cur` and
the loop's iterator `cursor`. This is not a finer interleaving - at every state at
most one core can step, and the next phase is determined - but it lets every loop
be an action with the loop's condition as guard, with no recursion, so that the
module can be proved about. The phases in order: `incoming`, `retry`, `drain`,
`serve`, then the core's state, with `outputs`, `free`, `queue` at the end of a
computation; then for the simulator `collect`, `reply`, `advance`, `deliver`,
`forward`, `respond`, `check`, `resolve`.

**The tools.** The four IR modules share `file` and `stage`: conversion, any number of
slicings up to `MaxSlices`, then the parser, each replacing `file` or `lists` in one
step per pass of the code. A dictionary that is filled in a loop and keeps its last
entry is `LastOf` the positions with that key.

**The scripts.** A process has a step `pc`, its arguments `job` and the number of its
run. Where the code reads a file, calls a subprocess or writes a file there is a step
of its own, and between any two steps the process may be stopped (`Fail`) or, in
`Drivers`, another one may go on. A file somebody is writing is `Begun`, or `Mixed`
when several are: opening a file empties it, and whoever closes a mixed one may have
written over what the others wrote, or not. Nobody can parse a file that is not whole.
What a whole file says is kept as data with the run, mesh, time, configuration or IR it
came from, so that the properties can ask whose it is. SET-IR, GEMINI and the simulator are
subprocesses that write or fail to write their file, end, or go on for ever.

**Nondeterminism.** Only where the code leaves a decision outside of what is
modelled: the latency of a packet (distance, clock ratio, contention), the memory
controller of a request (placement policy, address hash), which cycle the
watchdog's depth-first search finds, what a subprocess does, and when a user starts
or stops a script.

**Abstractions.** Layer names, tensor ranges and statistics are left out, sizes as well
in the tools. The computing time of a workload is part of the IR instead of the result of
`compute_cycles()`. The four cycle-like counters of the watchdog are one counter of
check periods, since `last_progress_cycle_` is assigned at checks only. The default
branch of `process_incoming_packets` (a `WRITE_REQUEST` at a core) is not there:
nothing sends one to a core. NoC and DRAM are the simple built-in ones; the
configurable external ones are represented by their latencies. SET-IR's fallback names
for a result (`_LP-SA`, `_LS-opt-SA`) are one name. Measured cycles are represented by
the run that measured them.

Operators whose comment starts with *Faulty* stand directly before an operator
they differ from by one plausible mistake. They document what each property is
sensitive to: `PROJECT.json` (*mutants*) pairs every checked property with one,
and the property is violated when it is used instead.

## 3. Properties

*Safety* (`SimulatorProperties`, `SimulatorInvariants`)

* `TypeOK` - types of all variables.
* `SramAccounting`, `SramWithinCapacity` - `used_bytes_` is the number of bytes that
  belong to an entry and at most the capacity, also when late answers meet a core the
  watchdog moved on.
* `OneTokenPerLoad` - count the requests, answers and writes for a transfer of a core in
  all queues of the chip: there is one while the core, loading, has asked for it and
  waits for it, and none otherwise. Lost and duplicated transfers both violate it, as
  does an overwritten write.
* `OneTokenPerWriteback` - the same for write-backs until their acknowledgement.
* `ConsumersKeepData` - a published output stays in its producer's SRAM with at
  least as many references as readers and write-backs are left.
* `ExactRemoteRefs` - exactly as many, and the last one frees it, for outputs the own
  core does not read (for those it does, see `local_refs` in section 5).
* `NoOutputLost` - no output is dropped for want of room where the workloads leave
  room for their outputs (where they do not, see `lost_output`).
* `DataComesFromProducers` - data of a core is in a packet, in a write or ready in
  another memory only once a workload that outputs it has finished, and no read of
  it is under way to the memory.
* `NeverForced` - the watchdog stays silent.

*Refinement.* `ImplementsDataflow`: a run of the simulator is, under
`next <- idx` and the mapping of core states to phases (`PhaseOf`), a run of
`Dataflow`. `OwnStepsInDataflowOrder`: where the watchdog may intervene, every step
but its own is still a step of `Dataflow` - only the watchdog ever starts a
workload before its inputs exist.

*Liveness* under `WF_vars(Next)`: `Completes` (all workloads are executed) and `Ends`
(the run completes or gives up). The program is a single thread that never waits, so
the only assumption is that it keeps running: one weak fairness condition on the
whole next-state relation, none on a packet or a core. Packets arrive because their
time to live is decremented on every cycle.

*Tools and parser* (`IRToolsProperties`)

* `TypeOK` - the parser delivers cores of the mesh, whatever ids the file has.
* `DramEntriesNameWorkloads` - workloads found again for the DRAM entries of a
  converted IR are those that write or read the transfer.
* `SliceIsClosure` - a slice is the least set with what was asked for and all
  producers of what it consumes.
* `SortedByDependencies` - every list comes out complete and in dependency order.
* `SourcesNameProducers` - through conversion, slicing and all passes a source names a
  core that outputs the transfer.
* `DramReadsHaveNoProducer` - what a core outputs is never loaded from memory instead.

*Drivers* (`Drivers`)

* `SimulatesOwnNetwork` - the simulator gets a whole IR of the model and mesh asked for,
  whoever else works in the tree.
* `ComparesNewIR` - a comparison is about an IR GEMINI made in the second of the
  comparison's own record folder or later.
* `SetIRJobsEnd` - a SET-IR run ends whatever its subprocesses do.

*Sweeps* (`Sweeps`)

* `ResultsMatchConfig` - a saved output was printed for the configuration beside it.
* `ResultsOfSameIR` - experiments of one key were simulated on one IR.
* `TableOfOwnRuns` - the table of a simulating study has only its own results.
* `EveryMeasurementCompared` - every network with a trace and cycles gets into the table,
  however the model is spelled.
* `ExperimentsEnd` - every sweep and study ends.

*Fairness of the scripts.* `Drivers!FairSpec` has weak fairness on what the interpreter
does itself in a SET-IR run and on `TimesOut`, which stands for the `timeout=` of the
two long subprocess calls; make and the converter, which have no timeout, are taken to
end, SET-IR and the simulator are not. Nothing is assumed of a process running
`gemini_run.py`, which waits for `run.sh` without a timeout, so that no liveness is
claimed of it. `Sweeps!FairSpec` has it on the
interpreter's steps and the sweep's timeouts; in the study a simulation that ends and
one that times out are outcomes of one step, which is therefore fair. GEMINI and
the simulator of the sweep need not end.

## 4. Runs

| run | instance | shows |
|---|---|---|
| `dataflow` | 2 cores x 2 workloads: all 16 sets of reads between cores with loads everywhere, all 64 with reads inside a core and a transfer in two buffers, and loads that fit only after another core has read; injection queue of 1, bandwidth by operator class | tokens, references, data kept, no output lost, refinement, completion, silent watchdog |
| `noc_dram` | the 8 of the first of these in which core 0 reads from core 1, memory traffic over the NoC, two controllers | tokens, origin of data, completion |
| `watchdog` | 3 cores: all 64 relations between them, cycles included; inputs that never fit, lost outputs, acknowledgements slower than the watchdog | accounting, capacity, order, the run ends |
| `ir_tools` | all 4096 relations of 4 workloads on 2 cores and all 1024 acyclic ones of 5 on 3 from SET-IR, all 64 acyclic ones from GEMINI; any layers, any number of workloads | conversion, slicing, parsing |
| `drivers` | 2 processes, 2 runs: SET-IR jobs whose meshes become the same and whose batches differ, GEMINI jobs, the comparison; record folders of one second and of different ones | shared files, the IR that is compared, jobs that end |
| `sweeps` | 1 process, 3 runs of the sweep (two editions, a dry run), the study (with and without simulating) and the batch comparison (both ways); 3 experiments, 2 of one key; 2 networks | restarts, caches, tables |
| `lost_output`, `answers_on_columns`, `local_refs`, `shared_reader`, `masked_exit`, `unbuilt_patch` | see section 5 | violations |

**Bounds, and why they are enough.** Two cores with two workloads have every
situation the protocol distinguishes: a reader before, during and after the
computation of its producer, a request served immediately and one that waits, an
output with a remote and a local reader, a core that is done while another still
reads from it. Three cores are needed only for cycles that are longer than a
mutual wait. Latency sets of two values already reorder answers of
different origin; the sizes 1 and 2 with a bandwidth of 1 make a write take longer
than a cycle so that the next answer meets it. `Capacity` is 8 or 16 where everything must fit or fit in the end, and 4 where it must
not. `CheckPeriod` is 1 (2 in `watchdog`) instead of 100000
and the thresholds are chosen against the longest stall of the
instance: 40 is above it in the runs that claim the watchdog stays silent, 12
below it in `watchdog`, where it must act. `MaxResolutions` is 3 there so that the
refusal to resolve once more is reached.

Four workloads on two cores have chains, diamonds, cross reads and local ones, in
any order of the lists; the five on three cores add a core that a slice can drop from
the middle. Ids are not compact (2 and 5; 2 and 8 in GEMINI's own files) so that every
renaming has something to rename. `MaxSlices` is 1: a second slicing starts from a
file of the same form. Two runs of the drivers are the least that can meet, in
parallel or one after the other; with seconds from 0 to 2 they make their record folders
in the same second, and share one, or in different ones. One of the SET-IR jobs has a
configuration with no columns, which is clamped. Three
sweeps allow one that fills a cache, one that is stopped and one that finds both. `Proc` has one process in `sweeps`, which is the assumption
`OneAtATime`: neither script has a lock.

No state constraint is used; all counters are bounded by the programs, except
`stalled`, which the abort threshold bounds, and the numbers of slices, starts and
seconds, which have bounds of their own. Deadlock is checked in all simulator
runs (the end of a run is the stuttering action `Halted`); the tools stop after the
last pass and the users after the last start.

## 5. Disagreements between code and text

Each is a run in which TLC finds the quoted statement violated.

1. `lost_output` - `mark_outputs_available` ignores that `allocate()` failed; the
   output is lost and its readers wait for ever (`core.cpp:377`, `c4.tex:25`).
2. `answers_on_columns` - with the DRAM on the NoC and cores away from node 0, the
   destination of an answer between cores is translated to a node twice
   (`simulator.cpp:541`, `README.md:101`).
3. `local_refs` - local readers are counted as destinations and again as future
   uses: the entry is never freed (`core.cpp:374`, `sram.h:14`).
4. `masked_exit` - under `pipefail`, `|| true` replaces the status that
   `PIPESTATUS[0]` reads in the next line of `run.sh`: a failed simulation with a trace
   counts as a good one (`run.sh:93`, `gemini_run.py:271`).
5. `unbuilt_patch` - a patch whose make was interrupted is taken as built by every later
   run (`run_setir_and_simulate.py:136`, `:7`).
6. `shared_reader` - an output has a reference for each destination the IR lists, but
   every workload that reads it asks for it again. `fix_output_ref_counts` adds what is
   missing for workloads of the producer's own core only (`gemini_parser.cpp:448`,
   `sram.h:14`). An IR converted from SET-IR lists a core once for all its
   workloads: 148 of the 364 outputs in `resnet50_2x2_gemini_ir_slice.json` have more
   readers than references, transfer 63 twelve and one. The first answer frees the
   entry and the others are never given.

Seen while modelling and without a run of their own: the injection queue may grow
past its depth, since `process_incoming_packets` pushes without looking
(`core.cpp:219`, `README.md:371`); the sort does not use the index as tie-breaker when
a workload becomes ready late (`gemini_parser.cpp:409`); the watchdog completes a
write-back that was never sent (`simulator.cpp:415`); a sweep caches the output of a
failed simulation (`run_c5_dse.py:217`); `max_outstanding_reqs` (`README.md:370`) is read
and never enforced; the victim of a cycle is not the core with the fewest
remaining workloads, as the comment at `simulator.cpp:441` says, but the lowest id,
because every candidate counts one; the core relieved of memory pressure need not
wait for DRAM data only (`simulator.cpp:399`); a destination outside a slice keeps its
core id, which is the compact id of another core inside it, although the docstring at
`slice_ir.py:188` says that core ids are rewritten (`slice_ir.py:199`).

And of the scripts, where no property asks for the opposite: runs of `gemini_run.py`
that start in the same second share a record folder, which is made with `exist_ok`
(`gemini_run.py:205`, `:470`), and overwrite each other's files, although line 5 of the file says
that each run creates one; the names of SET-IR's results and of the IRs made of them
leave out the batch, so that a run may simulate the IR of another batch
(`run_setir_and_simulate.py:168`); when SET-IR ends well without a result, that of an
earlier run is simulated in its place (`:188`), although line 4 speaks of the IR SET-IR
has generated; a trace of zero cycles ends the whole study with a division by zero
(`run_zebu_and_bottleneck_experiments.py:197`). All four happen in the model.

## 6. Proofs

Everything is proved for all values of the constants: any transfers, cores, capacity,
bandwidths, latencies, thresholds and programs, any number of processes and
experiments. The assumptions are named. Those of the modules (`TaskAssumption`,
`CapacityAssumption`, `CoreAssumption`, `SimulatorAssumption`,
`MaxSlicesAssumption`, `IRAssumption`, `ClockAssumption`, `ExperimentsListed`,
`ConfigsListed`, `KnownJobs`, `OneAtATime`) say that the constants
are numbers, sets and lists of the right kind, that an IR is a list of workloads for
every core, that a core's node is not a memory node (`Topology::validate`), that the IRs the
tools are given are consistent (`IRAssumption`, below), and that
sweeps and studies do not run twice at once in one directory, which nothing locks.
TLC evaluates them in every run. A property that needs more has it as a hypothesis of
its theorem.

`QueueProofs` has the facts about data that all the others use: pushing, popping and
erasing; the least element of a set of numbers; counting the positions of a list;
ids in their order, where `Rank` and `InIdOrder` are inverse to each other; the
elements of a flattened list of lists.

**The simulator.**

* `TypeProofs`: `Spec => []TypeInv` and `Spec => []TypeOK`. The types alone are not
  inductive: `ComputeCycle` reads the head of a workload list, and `EndQueue` calls
  `front()` on the list of outputs to write. `Control` adds what makes that legal:
  the phase agrees with the state of the core being ticked (`PcMatchesState`), a core
  that loads, computes or writes has a workload (`WorkingHasWorkload`), and while the
  write-back list is built it is not empty or an output for the DRAM is still ahead
  (`WritebackAhead`). One lemma per action; `UnchangedTyped` and
  `ControlOutsideFsm` cover what an action leaves alone. It begins with the
  operations of the SRAM: every one keeps an entry table well typed, only `allocate()`
  takes bytes and never beyond the capacity, only `mark_ready()` makes data ready.
  It ends with the capacity: `Spec => []SramWithinCapacity`, and `Spec => []SramAccounting` from
  `AccountingInv`. A sum over a table would need induction over its entries. The byte
  count is stated instead as the cardinality of the set of bytes, numbered within their
  entries, and every operation of the SRAM adds or removes those of one entry, whose
  number is known. `SramSteps` says which operations a step may apply, so that
  no action has to be looked at twice.
* `OrderProofs`: `Spec => []DataComesFromProducers`. The invariant is `OrderInv`:
  wherever data of a core can be - a packet in any queue, on the NoC, in the DRAM's
  lists, a write waiting or in progress, a ready entry, or the fact that a loading
  core no longer waits for it - the data is `Available`, that is, a workload that
  outputs it has been computed. It needs every place at once, because data moves
  from one to the other. Two places are exceptions: between
  `mark_outputs_available` and the end of the workload an output is ready before
  the workload counts as finished (`Publishing`), and the memory answers any read
  with data, so no read of a core's transfer may be on its way there (`MemoryRead`;
  this is where node ids and core ids must not be confused). What is available
  stays so (`NextMonotone`): cores only go forward. The lemmas `...Kept` say what
  has to be shown of a step, one lemma per action shows it, the watchdog's
  included: it drops data and lets cores go on, and makes none. On top of it
  `Spec => OwnStepsInDataflowOrder`, and
  `Spec /\ [](pc # "resolve") => ImplementsDataflow`: the refinement of `Dataflow`
  for every constant as long as the watchdog is not called. `LoadedMeansProduced` of
  `OrderInv` gives the guard of `D!Start`; loading is a stutter of `Dataflow`.
  This module uses `ProgramAssumption`: a transfer is read either from cores or from
  the DRAM, and a core that outputs it is the one its readers name. The code trusts the
  IR in this; the sample IRs of the repository (`tests/test_ir.json`,
  `resnet50_2x2_gemini_ir_slice.json`, `experiments/`) are like that.
* `TokenProofs`, in three steps.
  `Spec => []AddressInv`: every packet is of a kind its queue is for. In injection queues
  requests carry the id of their core, elsewhere its node; a core is given requests, and
  answers to its own node; on the network no answer is addressed to the memory. This
  needs no hypothesis, and the others are built on it: without it a packet could leave
  one count and enter none. It does not say that an answer on the network is on its way
  to the core that asked.
  `WritebacksAreSingle`: `OneTokenPerWriteback` from `WritebackInv`, which adds that the
  writes a core has collected and not sent are different ones and none of them is under
  way (`WritesDiffer`), that while the list is built it holds outputs before the cursor
  (`CollectedSoFar`), and that only a core in `WRITEBACK` waits for acknowledgements.
  `LoadsAreSingle`: `OneTokenPerLoad` from `LoadInv`, which adds that what a loading core
  has not asked for yet it still waits for (`LoadsAhead`): a transfer that two sources
  name is asked for once and answered once.
  `AnswersArrive`: `AnswersReachConsumer` from the same invariant. An answer a core has been
  given counts as a token, so this core has asked for the transfer and waits for it. It is
  the property that `answers_on_columns` refutes for cores that are not the nodes of their ids.
  The counts are cardinalities of the positions in a queue that hold a given kind of
  packet. The lemmas say what a push, a pop, an erasure and a whole sweep over a queue do
  to such a count, and a step of the transport then takes a token from one count
  and adds it to another, so that the sum stays.

The hypotheses of `WritebacksAreSingle`, `LoadsAreSingle` and `AnswersArrive` are what the code
depends on and does not check.
`WritesEachOnce`: no workload writes a transfer to the memory twice; the core keeps its
outstanding writes in a set of ids, so two would wait for one acknowledgement.
`SourcesHaveBytes`: `core.cpp:203` drops an answer of no bytes. `CoreIdsAreNodes`: with the
memory on the network a core's id is its node; `answers_on_columns` shows what happens
otherwise. `[][~AbandonWriteback]_vars` and `[][~ForcedLoad]_vars`: the watchdog does not end
a write-back or a load by force, which leaves the packets of what it abandoned in the
queues; the run `watchdog` has such states, and `dataflow` and `noc_dram` satisfy all five
hypotheses.

* `RefProofs`: what the reference count of an output is worth.
  `ConsumersKept`: `ConsumersKeepData`, and `RefsExact`: `ExactRemoteRefs`. A *claim*
  on an output is a workload of another core whose request is not answered, a source of
  a later workload of the same core that is not freed, or its write-back. Claims are
  sets, so that their number is a cardinality, and no sum over the
  workloads of all cores is needed.
  The module first tells where every core stands: `Stage` and `At` are the state of a
  core with the loops at the end of a computation told apart, `Turn` the ways it can
  move, and `EveryTurn` shows that any step moves every core so or not at all. In
  these terms claims only shrink (`RemoteReadsShrink`, `LocalReadsShrink`,
  `WritebackShrinks`). `MemorySteps` says what a step can do to a scratchpad: where a
  reference is released, `TakenIsLess` finds the claim that goes with it, so an entry
  is not freed before its claims are gone. That needs `KeepInv`: a request that is
  answered comes from a core that waits for it (`LoadInv`), an acknowledgement is of a
  write of the current workload (`OwnWrites`), a core never asks for its own output
  (`OwnOutputsAtHand`), and no entry is there before its output (`NoEntryBefore`), which
  `allocate()` would take for the output and keep its count.
  That none is left over is the other direction, `RefInv`: a claim goes only with a
  reference. A read request must not be answered by anybody but the producer
  (`ReadsGoToProducers`); a reader must not find the data in its own memory instead
  (`InputsOfWorkload`: an input is there for one workload, with a reference for each
  use); a write must be collected before the core can leave (`WritesCollected`); and
  nobody may be past its read before the output is published (`ReadersWait`).
  `ClaimsStay` is the sum of it: a step takes one claim of an output at most, and none
  without releasing a reference.

Its hypotheses, beside those above, are `[][~OutputLost]_vars`, as an output that does not fit
leaves claims and no entry (`lost_output`), and two of the IR. `CountedPrograms`: no
transfer is output twice, what is output is read from its core and there by later
workloads, and an output lists a destination for every workload of another core that reads
it (`DestsCoverReaders`). For exactness also `ReadersListed`: the destinations of an
output that is not read at home are exactly its readers, and it has one. All IRs of GEMINI
in the repository (`out/c5_*`, `experiments/`) are like that, as are all programs of the runs
but `shared_reader` (`ReadersAreListed` in `MCSimulator`); `tests/test_ir.json` has an output
with one destination more than readers, whose entry stays; the two
slices of converted IRs are not covered, which is the subject of `shared_reader`.

**The tools.** `IRAssumption` says what the tools rely on in the IRs that SET-IR and
GEMINI hand over, and none of them checks: there are at most as many lists as
cores, a transfer is the output of one workload, a source that is a core names
the one that outputs it, one that is the DRAM is output by none, and destinations are
cores with workloads. Of SET-IR also that a transfer a workload reads from another is
described by one of its buffers, that its DDR lists name transfers and cores
that are there, and that transfer 0, which the converter uses for weights nobody
describes, is no output; of GEMINI that its DRAM entries name the
workloads. The IR files of the repository (`out/`, `experiments/`, `tests/`,
`*_slice.json`) are like that, and all the files of the instance.

* `ToolProofs` begins with what the algorithms of the tools return, for data of any size.
  *Sorting.* `KahnInv` holds of the queue however many workloads are taken from it: every
  workload is in it at most once, it has exactly those whose dependencies are all taken,
  and the dependencies of each are before it. If workloads were left over when the queue
  is exhausted, each would depend on another one of them; `Acyclic` excludes that
  (`KahnTakesAll`). The queue is a recursive function, and that a function with
  these values exists is proved first (`QueuesExist`); both proofs look at the
  first number for which the claim would fail.
  *Slicing.* `SliceAgrees`: the file made of a closed selection is consistent when
  the old one was. The heart is that the new places of the selected workloads are a
  renumbering (`SlicedPlaces`), so that the outputs of a transfer move with it and
  there is still one (`MakersMoved`); since the selection is closed, the
  producer of a core source is in it and the new id names the producer's new place.
  *Conversion.* `ConversionAgrees`: likewise, with the sources collected from
  buffers. `ConvertedEntriesAgree`: the two DRAM entries the converter makes up.
* It goes on with the steps. `Spec => []SliceIsClosure`: while the passes go on
  the selection contains the seed and lies inside every closed set that does
  (`ClosureInv`); a pass that adds nothing has reached a closed set.
  Then `ToolInv`, with which the five other invariants of `ir_tools` are proved
  (`ListsWellFormed`, `EntriesNameWorkloads`, `SortingCorrect`, `SourcesCorrect`,
  `DramReadsCorrect`). `FileInv`: the file is consistent between any two tools.
  A source that is a core names the core whose list outputs the transfer, and a
  transfer is the output of one workload. What comes from the DRAM has to be compared with
  the lists of SET-IR, since in a slice a transfer without producer may have
  lost it; that is why the slice must be closed. `SelectionInv`: the selection is part of the
  file, and closed when the new file is made. `PassInv`: between the passes of the
  parser each list is a function of the file, the passes so far
  applied to what was read; so the parser's properties are lemmas
  about operators (`OriginalFacts`, `SortedKeeps`, `CountedKeeps`).
  A destination outside the slice is excepted from the types, as the code leaves its id
  alone (`slice_ir.py:199`).

**The scripts.**

* `DriverProofs`: `SimulatesOwnNetwork` from `NetworkInv`, if the tree starts patched and,
  if it is built, built since (`PatchedTree`; `unbuilt_patch` shows the other case). Files
  say what their names say (`FilesAsNamed`), and what a process holds is for its job
  (`HeldForJob`), because the names separate models and meshes (`NamesTell`) and another
  process only writes under the names of its own job; two that write one file at the
  same time do not matter, because what is mixed is not read (`FilesOpenAndClose`).
  `ComparesNewIR` from `RecordInv`: a process that records has made its folder, no later
  than now (`FoldersMade`), and no IR is older than the folder it is in (`IRsNotOlder`).
  The newest folder is as new as the comparison's own or newer, and so is every IR in it,
  however many processes write there.
* `SweepProofs`: `ResultsMatchConfig`, for any list of experiments, editions,
  studies in between and interruptions: the simulation a sweep waits for was
  started with the configuration in its directory (`RunsWithConfig`).
  `ResultsOfSameIR` from `IRInv`: GEMINI maps only in place of no IR
  (`MapsInPlaceOfNone`), so that a whole IR never changes, and a good result is of the
  one in the cache. `TableOfOwnRuns` from `StudyInv`, which has one line for every step of
  the study; it needs that something is scheduled to be simulated, since
  a study with nothing to do reads the CSV it finds.

Only model-checked:

* `NeverForced`, `NoOutputLost` and `EveryMeasurementCompared`: about thresholds, sizes
  and names of an instance.
* Liveness, and `ENABLED`, which are out of the prover's reach.

## 7. Not modelled, and the road map

* Configuration, command line, statistics, trace and CSV export, plots, spreadsheets,
  the text of the IR comparison, the sweep's printed summary, the ZeBu configuration
  guesses and the DRAM report: each is one pass from finished data to a text or a
  picture, and no other part decides anything by it.
* The translation of a configuration into GEMINI's parameters (`build_gemini_params`)
  and the shares of the bottleneck study: arithmetic on numbers nothing here has.
* `AddressAllocator`: addresses matter to Ramulator2 only.
* `Ramulator2DRAM` and `BookSim2NoC`: optional back ends around programs that are
  submodules and not in the tree. What a refusal or an order of cache lines can be is
  theirs; the cores see latencies, which the simulator's model chooses freely.
* `Topology`: the layout arithmetic; what the simulator needs of it is the parameter
  `NodeOf` with `SimulatorAssumption`.

Next, in this order: the Ramulator2 wrapper with an abstract memory (one response per
request, after the last line of a read); ranges of the address allocator; a run with
transfers of zero bytes; what the references of an entry are when the watchdog does
intervene, where an abandoned load may still be answered and takes a reference with it.
