# Verification of the hardware-prefetch tuner

The repository tunes the hardware prefetchers of an x86 CPU at run time. It has two programs:

* **User space (`src/main.c`).** One pinned worker thread runs per enabled core (`thread_start`). Each tick the worker sleeps, then samples its core's PMU counters and arrives at a barrier (`syncflag`). The first thread (the *master*, `tnum == 0`) waits for every arrival and calls `calculate_settings()`. That call runs the basic or the MAB tuner, and the tuner writes new MSR images and sets `hwpf_msr_dirty`. The master then releases the barrier with `syncflag = 0`. Only the first core of each 4-core module waits for the release (`CORE_IN_MODULE == 0`, the *module lead*). A lead whose flag is dirty writes the module-shared prefetch MSR. SIGINT frees the MAB buffers and exits at once. Startup code (`main`) parses the options, the weights and the DDR bandwidth target, then creates the threads.
* **Kernel module (`src/kernelmod/kernel_dpf.c`).** A proc file accepts binary requests (init, core range, weights, tuning on/off, PMU read, MSR read/write) under `dpf_mutex`. It answers through a response buffer that `proc_read` returns without taking the mutex. An hrtimer samples every enabled core and runs the tuner in the middle of that loop.

The tuners (`basicalg.c`, `mab.c`) and the register and I/O libraries (msr, pmu, ddr, rdt, sysdetect, log) are not under `src/`. The models use only their contract: a decision produces new images and marks dirty the leads whose image changed.

## Inventory of the parts

| Part | State | Operations | Hard behaviour | Module |
|---|---|---|---|---|
| Control loop and barrier (main.c 99-217, 58-97) | per thread: position in the loop, tick, `hwpf_msr_value`, `hwpf_msr_dirty`; global: `syncflag`, `mstate.arm`; per module: the MSR | start write, sample, arrive, master decide, master release, lead wait, apply, SIGINT | N threads interleaving on a counter with a plain reset; cores that do not wait; a shared MSR per module | `ControlLoop`, `ModuleTuning` (what it promises), `ControlLoopProofs` |
| DDR self-test barrier (main.c 119-144) | `ddrbwflag`, `ddr_bw_target` | arrive, reset target, release | a thread starting late skips the block; one counter serves two barriers | `DdrBwTest`, `DdrBwTestProofs` |
| Startup (main.c 263-306, 309-483) | options, weights, core range, target, `core_priority` | option loop, E-core detection, parse_weights, DDR target, DDR init, thread creation | off-by-one on the range, truncation of -1, an uninitialised string | `Config`, `ConfigProofs` |
| Proc-file protocol (kernel_dpf.c 56-415) | `proc_buffer`, `proc_buffer_size`, `dpf_mutex`, the heap blocks | write (length check, lock, free, fetch, handle, publish, unlock), read (check, copy) | a read without the mutex racing the free; a failed request drops the response; leaks on error paths | `ProcFile` (buffer lifecycle), `ProcFileProofs`, `KernelMonitor` (the handlers' effects on corestate and the timer) |
| Kernel monitor (kernel_dpf.c 418-498, with handlers 85-323) | timer state, `keep_running`, `core_disabled`, `pf_msr`, dirty flags, per-core PMU results, the module MSRs | callback walk, rearm, core_range, tuning on/off, pmu_read, msr_read, module init/exit | the decision runs in the middle of the per-core sampling; handlers race the lock-free callback | `KernelMonitor` |

## ControlLoop: how the model corresponds to the code

* **Threads.** `Threads == 0..N-1` is `tnum`. `Master == 0` is `core_first`. `Leads` are the threads with `CoreInModule(t) = 0`, and `Module(t)` indexes the module-shared MSR `msr`. `pc[t]` is the thread's place in `thread_start`: `init` before line 149, `sleep` at the `usleep`, `arrive` between the sample and the `atomic_fetch_add`, `wait` in the spin loops, `release` between `calculate_settings` and `syncflag = 0`, `apply` at line 200, `exit` after SIGINT.
* **Data.** `desired[t]` is `tstate->hwpf_msr_value`, `dirty[t]` is `hwpf_msr_dirty`, and `arm` is `mstate.arm`. MSR images are model values. `round` counts the decisions made, and `tick[t]` counts the samples thread t has taken.
* **Actions.** There is one action per step of the loop, each with the code's guard:
  * `Start` is the startup write at line 149.
  * `Sample` covers lines 155-180.
  * `Arrive` is the fetch_add, after which a lead waits and a non-lead goes back to sleep.
  * `MasterDecide` covers lines 185-189 with `Decision`, the tuner contract.
  * `MasterRelease` is line 192.
  * `LeadWait` covers lines 193-198.
  * `Apply` covers lines 200-210.
  * `SigInt` is the handler.
* **Tuner.** `tunealg` is the global set once by `--alg` (line 386): it is chosen in `Init` and never changes, so one run covers the basic tuner and MAB.
* **Timing.** `usleep(1000*...)` separates the ticks. The constant `Drift` says how far a thread may run ahead: it may sample tick k+1 only when every thread has completed tick k-Drift. Only module leads wait for the release (lines 193-198); non-leads go straight back to `usleep` and nothing in `main.c` stops them from lapping the barrier. `Drift = 0` is the design's timing (the sleep outlasts the barrier), which the code does **not** ensure. `Drift = MaxTick` puts no bound on drift at all, which is the timing the code really allows.

### ModuleTuning: what the control loop promises

`ModuleTuning` states the loop per module, with threads, ticks and the barrier abstracted away. It follows spec.md's "Data flow per tick" and invariants 2 and 5. Its state is `round`, one decision `target[m]` per module, the module MSRs `msr`, the set `pending` of modules whose MSR may not yet hold their decision, and `running`. It has three actions:

* `Decide` runs only when no module is pending. It picks new images and makes pending exactly the modules whose image changed.
* `Program(m)` writes module m's current decision into its MSR. It may leave m pending, because more than one core may still have to write it.
* `Stop` ends everything.

ControlLoop implements it under this mapping, defined at the end of `ControlLoop.tla`:

* A module's decision is its lead's target image: `TunedTarget[m] = Target(LeadOf(m))`, where `LeadOf(m) = 4m` is the core with `CORE_IN_MODULE == 0`.
* A module is pending while its lead has `hwpf_msr_dirty` set, or while one of its cores has not done its start write at line 149 (`PendingModules`).
* `running` is "not exited".

Each code step maps as follows:

* A start write maps to `Program`.
* An apply maps to `Program`, or to a stutter when the lead is clean.
* `calculate_settings` maps to `Decide`.
* SIGINT maps to `Stop`.
* Every other step is a stutter.

The property `ImplementsModuleTuning == Tuning!Spec` is checked by both control runs and proved by `RefinementHolds`.

## ProcFile: how the model corresponds to the code

* **Heap.** The kernel heap is a finite set of `Blocks`, each `unalloc`, `live` or `freed`. Freed blocks are never handed out again, so a use after free stays visible. kmalloc never returns a block in use; write k (its id, `wid`) gets block `MsgBlock` = 2k for msg_data and `RespBlock` = 2k+1 for its handler's response, and ids are never reused.
* **Buffers.** `procBuf` and `procSize` are `proc_buffer` and `proc_buffer_size`. Block 1 is the `PROC_BUFFER_SIZE` block of `dpf_module_init`. A response is identified by the number of the write that produced it (`bresp`), and its length is one of `RespSize[type]`.
* **Writers.** Each writer walks `dpf_proc_write`:
  * `WriteBegin` is the length check at line 351.
  * `Lock` is line 354.
  * `FreeResponse` is line 357 and `ClearResponse` is lines 358-359. These are two steps because a reader can run between them.
  * `Fetch` covers lines 362-377, including both faults and the failed kmalloc.
  * `Handle` is the dispatch and the handlers: a failure, or a fresh response stored in `proc_buffer`.
  * `SetSize` is the handler's separate store of the size.
  * `Unlock` covers lines 406-409.
* **Readers.** Each reader walks `proc_read` without the lock: `ReadCheck` is line 329, `ReadCopy` is the loads for `copy_to_user`, and `ReadDone` is the return. The loads race with the writer, so the copy may reuse the checked values or reload either one. The model allows every outcome of that data race.
* **Ghost variables.** `last` (the write that last held the mutex, and its result) and `lastOk` exist only for the properties.

## DdrBwTest: how the model corresponds to the code

* **Threads.** `Threads == 0..N-1` are the `ACTIVE_THREADS` workers. `Master == 0` is `core_first`. `pc[t]` is the thread's place in lines 119-144: `check` before the test of `ddr_bw_target`, `init` in core_first's init, `arrive` before line 126, `spin1` at line 128, `measure` at line 132, `depart` at line 134, `spin2` at line 136, `final` in core_first's check, and `loop` or `exit` after the block.
* **Data.** `target` is `ddr_bw_target`, which starts at `DDR_BW_AUTOTEST` after `--ddrbw-test`. `flag` is `ddrbwflag`. A measurement is one of the small set `Meas`, which includes 0 so that the zero check at line 141 can fire. `meas[t]` is a ghost that records what thread t added.
* **Actions.** Each action is one line or one block of the code:
  * `Check` is line 119.
  * `MasterInit` covers lines 120-124, including the `exit(-1)` of a failed init.
  * `Arrive`, `Pass1`, `Measure`, `Depart` and `Pass2` are lines 126, 128, 132, 134 and 136.
  * `MasterFinal` covers lines 138-143.

  Both fetch_adds are atomic steps. The spins are guards.
* **Timing.** Two constants say what the code leaves to timing:
  * `LateStart` lets a thread test the target only after core_first's reset, because the threads are created one by one in `main`.
  * `FastMeasure` lets a measurement end, and its thread leave, before every other thread has seen `ddrbwflag` reach `ACTIVE_THREADS`.

  `main` creates the threads one by one while core_first already runs, and nothing bounds a measurement, so the code allows both: the runs set both TRUE. With both FALSE the model has the timing the self-test was written for.
* **Modules.** `TargetIsSum` is stated in `MCDdrBwTest`, because `SumFunction` (module Functions) reaches a recursive fold. This keeps `DdrBwTest` usable by `DdrBwTestProofs`.

## KernelMonitor: how the model corresponds to the code

* **CPUs.** `Cpus == 0..NCpu-1` are the online CPUs. `Leads` are the cores with `CORE_IN_MODULE == 0`, and `hw[Module(c)]` is the prefetch MSR that the cores of a module share.
* **Corestate.** `disabled[c]` is `core_disabled`. For a lead, `cache[c]` is `pf_msr` (`Unloaded` is the never-loaded value 0) and `dirty[c]` is `is_msr_dirty`. Each core's `pmu_result` is abstracted to three things:
  * who made the last `pmu_update` (`last`);
  * whether the result spans a whole timer period (`full`);
  * the callback that produced it (`stamp`, which is 0 after a handler's update).
* **Timer.** `timer` is the hrtimer: `off`, `queued` or `running`. `cursor` is the callback's `core_id`. `ticks` counts the callbacks and is bounded by `MaxTicks`. `keepRunning` is `keep_running`.
* **Callback.** The callback has three actions:
  * `Fire` is the test of `keep_running` at line 422.
  * `Visit` is one iteration of the `for_each_online_cpu` loop (lines 430-450): `pmu_update`, the tuner at `FIRST_CORE` (the contract `Tuned`/`TunedDirty`), and `msr_update` of a dirty lead.
  * `Rearm` covers lines 452-453.

  The callback takes no lock, so every handler step can fall between two visits.
* **Handlers.** `dpf_mutex` serialises the handlers, so a single process (`hpc`) stands for all of them:
  * `CoreRange` and `RangeStep` are handle_core_range's loop, one core per step.
  * `TuningOn` is msr_load on the enabled leads, `keep_running = true` and `hrtimer_start`.
  * `TuningOff` is `keep_running = false`. `Cancel` is `hrtimer_cancel`, which returns only when no callback is running.
  * `PmuRead` and `MsrRead` are the corestate effects of handle_pmu_read and handle_msr_read on a valid, enabled core.
  * `Unload` and `Cancel` make up `dpf_module_exit`.

  Their response buffers are ProcFile's business.
* **Ghost.** `visited` is the set of enabled leads the current callback has visited.

## Config: how the model corresponds to the code

* **Phases.** `phase` is where `main` is: `opts` in the getopt loop, then `detect` (lines 416-430), `weights` (434-440), `parse` (inside parse_weights), `ddr` (445-454), `init` (458-475), `create` (479-483), `started`, or `exit` for any return or exit.
* **Arguments.** Each option argument is what the C conversion makes of it, not its text. A `--core` argument is a record of the number before the dash and, if there is one, the number after it. A `--weight` argument is its sequence of comma-separated tokens, each an integer or `Bad` (a token strtol does not consume to the end). The `--ddrbw-auto` factor is an exact fraction `<<num, den>>`. Float rounding is not modelled, but the float-to-int conversion is: `Trunc` truncates toward zero, as C does.
* **Actions.** There is one action per option branch (`OptCore`, `OptAuto`, `OptTarget`, `OptWeight`, `OptOther`, `OptStop`) and one for getopt's end (`EndOpts`), each bounded by `MaxOpts`. `Detect`, `Weights`, `Ddr`, `DdrInit` and `Create` are the steps after the loop. parse_weights is `ParseToken`, one token of the strtok loop, and `Pad`, one iteration of the padding loop, so the break at `ACTIVE_THREADS` and the padding count are visible.
* **Memory.** `prio` is `core_priority`, with `MAX_THREADS` entries. `Store(i, v)` writes an entry, or sets `overrun` when the index is past the array. `weightStr` is the stack array `weight_string`. Without `--weight` it is never written, so `Init` takes it from `Garbage`, the contents the stack may hold. `weightOpt` is a ghost that holds the last `--weight` argument.
* **Constants.** `MAX_THREADS`, `MIN_PRIORITY`, `MAX_PRIORITY` and `DEFAULT_PRIORITY` are in `common.h`, outside `src/`, so they are constants. What `get_efficient_core_ids` and `dmi_get_bandwidth` return are the sets `ECores` and `DmiBw`.

## Runs

| Run | cfg | What it shows |
|---|---|---|
| `control_loop` | `MCControlLoop.cfg` | N = 5 (two modules, one with a single core), two MSR images, 3 ticks, either tuner, Drift = 0 (the design timing). It checks `TypeOK`, `LeadAppliesOwnTick`, `ModuleProgrammed`, `TickCompletes` and `ImplementsModuleTuning`, the refinement of ModuleTuning (5406 states). These hold only under the design timing; see `control_free_cores`. |
| `control_free_cores` | `MCControlLoopFree.cfg` | A **violation** of `DecisionSeesAllSamples` with Drift = MaxTick = 3, the timing main.c allows. Non-lead core 1 arrives three times, so `syncflag` reaches 5 and the master runs calculate_settings while cores 3 and 4 have not even started. The same timing also breaks `LeadAppliesOwnTick`, `ModuleProgrammed` and `ImplementsModuleTuning`: core 3's late start write overwrites module 0's tuned MSR. |
| `proc_file` | `MCProcFile.cfg` | Two writers, one reader, three writes (324581 states). `MutexInv`: a writer is between mutex_lock and mutex_unlock exactly when it owns `dpf_mutex`, on every error path. `ResponseOfLastWrite`: whenever the mutex is free, proc_buffer is the last locked write's full response, or NULL if that write failed. `NoLeak`: every other block has been freed. |
| `proc_failed_request` | `MCProcFileFailed.cfg` | A **violation** of `LastSuccessKept` (spec: the file yields the last successful response). A failed second write leaves proc_buffer NULL. |
| `proc_read_race` | `MCProcFileRace.cfg` | A **violation** of `ReaderSafe`. The reader checks against size 0 after the handler has published the pointer, then copies the full size into a 1-byte buffer. If instead the compiler reuses the checked values, the reader copies a response freed at line 357. |
| `ddrbw_test` | `MCDdrBwTest.cfg` | N = 3, measurements {0, 3}, the timing the code allows (`LateStart`, `FastMeasure`). `FlagCounts`: until exit(-1), `ddrbwflag` equals the number of threads between lines 126 and 134. `TargetIsSum`: when core_first checks the result, every thread has measured and `ddr_bw_target` is the sum of all the measurements (353 states). |
| `ddrbw_hang` | `MCDdrBwTestHang.cfg` | A **violation** of `TestCompletes` (every thread leaves the block or the process exits), under the same timing. Thread 2 tests the target after core_first's reset and goes straight to the loop; `ddrbwflag` stops at 2 and the others spin at line 128 forever. A fast thread's decrement at line 134 hides ACTIVE_THREADS in the same way. |
| `config_weights` | `MCConfig.cfg` | MAX_THREADS = 3, priorities 0..99 with default 50, two options per command line, weight lists that are short, exact, long, out of range and non-numeric. `TypeOK`: core_priority only holds in-range priorities. `WeightsAsSpecified`: when the threads start after `--weight`, each active core has the spec's priority for the last list (1017 states). |
| `config_core_range` | `MCConfigRange.cfg` | A **violation** of `ThreadsInBounds`. `--core 0-3` passes the check `core_last - core_first > MAX_THREADS` with 4 cores for 3 slots, and `--core 2-1` passes with no core at all. |
| `config_ddr_target` | `MCConfigTarget.cfg` | A **violation** of `TargetPositive`. dmi_get_bandwidth's -1 times 0.7 truncates to 0, so the check for -1 never fires, and `--ddrbw-set 0` is accepted. |
| `kernel_monitor` | `MCKernelMonitor.cfg` | Five CPUs (lead 0 with cores 1-3, lead 4 alone), FIRST_CORE = 0, two images, two callbacks, core ranges {0-4, 0-3}, pmu_read on (4.4 million states). `StopIsFinal`: once tuning off or module exit has returned, no callback is queued or running. `ModulesProgrammed`: between callbacks, every lead the last callback visited with a loaded `pf_msr` is clean and its module MSR holds that image. |
| `kernel_decision_order` | `MCKernelMonitorOrder.cfg` | A **violation** of `DecisionSeesTickSamples` (spec: a tick samples every enabled core, then decides). The tuner runs at core 0 while core 1's `pmu_result` is still from the previous callback. |

**Counterexamples kept out of the runs.**

* **Config without `--weight`** violates `DefaultWeights`. The uninitialised `weight_string` holds `<<99>>`, and core 0 starts with priority 99 instead of 50. The definition stays in `Config`.
* **KernelMonitor with range 0-0 and pmu_read on** violates `DecisionSeesTickSamples` even though the walk order plays no part. A pmu_read request during the period leaves the callback's delta covering only the rest of the period.
* **ControlLoop with `Drift = 1`** still satisfies `ImplementsModuleTuning` (both tuners, 68225 states) but violates `DecisionSeesAllSamples`: non-lead core 1 arrives for ticks 1 and 2 before lead 4 has sampled.

**Bounds.** N = 5 is the smallest count that has a master, non-lead cores and a second module. Three ticks let a core run ahead across two releases. For ProcFile, two writers and three writes are enough for one write to fail between two that succeed and for a reader to overlap every writer step. The core_weight response has two lengths, so a torn size is visible. The invariants were also checked at N = 1, 4 and 8 with two ticks.

For DdrBwTest, three threads give a master and two others, so that one can be late while another is waiting. The measurement 0 lets the zero check fire, and 3 makes sums of one and of two measurements differ.

For KernelMonitor:

* Five CPUs are the fewest with two modules, non-lead cores, and cores after FIRST_CORE in both modules.
* The range 0-3 disables lead 4 and enables it again later, also in the middle of a walk.
* Two callbacks let a handler act between, and during, consecutive ticks.
* The same run checks the inductive invariants `MonitorInv` and `VisitInv` before they were proved.

For Config, MAX_THREADS = 3 makes a range one longer than the array reachable (0-3), and also a reversed one. The weight lists cover every branch of parse_weights: fewer tokens than cores (padding), as many, more (the break), a value out of range, and a non-number. Two options per command line let `--weight` or `--core` be given together with another option, or twice.

**Deadlock.** Deadlock is not checked (`CHECK_DEADLOCK FALSE`). After SIGINT's `exit(1)` and after the last tick the process really stops. A hang of a live thread is what `TickCompletes` catches. In DdrBwTest the block really ends, in the control loop or in `exit(-1)`. Config's startup ends in `started` or `exit`. In KernelMonitor, after module exit nothing runs, and after the last bounded callback only the handler may act.

**Fairness.** Weak fairness on every thread action. Each worker is a pthread pinned to its own core (`pthread_setaffinity_np`), so a thread whose step is enabled runs. Spinning threads do not block one another. DdrBwTest's threads are the same pinned workers, with the same fairness. KernelMonitor's model assumes weak fairness for the timer and its callback (an armed hrtimer fires, and the callback runs to the end on its CPU), and for a handler in the middle of its work (the core_range loop, and `hrtimer_cancel` once no callback runs). It assumes none for new requests, which user space may never make.

## Proofs (TLAPS)

`ControlLoopProofs` proves the following theorems for every N, every set of images and every bound:

* `TypeCorrect`: `Spec => []TypeOK`.
* `ModuleProgrammedHolds` and `LeadAppliesOwnTickHolds`: under `Drift = 0`, `Spec => []ModuleProgrammed` and `Spec => []LeadAppliesOwnTick`.

The hypothesis `Drift = 0` is the design timing, which main.c does not ensure (`control_free_cores`), so these theorems say what the barrier achieves when the sleep outlasts it, not what the program guarantees. Both follow from the lemma `BarrierCorrect`, `Spec => []BarrierInv` under `Drift = 0`. `BarrierInv` is the inductive strengthening. Either every thread has exited, or the following all hold:

* Each thread is at the current round or one ahead, in a position that fits its role (`InPhase`).
* The master is ahead exactly when it is arriving or waiting (`MasterAhead`).
* `syncflag` equals the number of threads that have arrived for the next round (`SyncCounts`), and it is N while the master releases (`SyncFull`).
* No thread is ahead while another thread of the current round is still active (`RoundsOrdered`).
* Leads are programmed or dirty, and clean when settled (`Programmed`, `NoPending`).
* Non-leads keep their initial image (`NonLeadsFixed`).

`RefinementHolds`: under `Drift = 0`, `Spec => ImplementsModuleTuning`. It is proved step by step, with one lemma per action (`RefStart`, `RefApply`, `RefDecide`, `RefSigInt`, `RefExited`) combined in `RefStep`, plus `RefInit`. The lemmas use `TypeOK` and `BarrierInv`, not the mapping alone:

* `Decide` needs no module pending. `BarrierInv` gives this when the master decides: every thread has arrived, so none is at its start write, and `NoPending` makes every lead clean.
* `Program` needs the written image to be the module's current decision. A lead applies its own `hwpf_msr_value`, which is `Target` of itself.
* A start write happens only while the module is pending, because the writing core is still at `init`.

TLC also finds `ImplementsModuleTuning` holding with Drift = 1 (68225 states), but not with unbounded drift: then the master decides before every core has made its start write, and a late start write overwrites a tuned module MSR.

The counting step uses the cardinality facts of `FiniteSetTheorems`: the arrived set grows by one element per arrival, and it is all of `Threads` once its cardinality reaches N. The invariant needs `Drift = 0`. With Drift = 1 a thread two rounds apart breaks `SyncCounts`, which is the Drift = 1 counterexample described under Runs; with unbounded drift `syncflag` can exceed N.

`KernelMonitorProofs` proves the following for every number of CPUs, every FIRST_CORE, every set of images and ranges and every bound:

* `MonitorCorrect`: `Spec => []MonitorInv`.
* `TypeCorrect`: `Spec => []TypeOK`, a corollary of `MonitorCorrect` (whose invariant contains TypeOK).
* `StopIsFinalHolds`: `Spec => []StopIsFinal`.
* With the hypothesis `FirstCore = 0`:
  * `VisitCorrect`: `Spec => [](MonitorInv /\ VisitInv)`.
  * `ModulesProgrammedHolds`: `Spec => []ModulesProgrammed`.

`MonitorInv` is the inductive invariant. It has these conjuncts:

* The types.
* `keep_running` equals "the last tuning request was on".
* With tuning off and no `hrtimer_cancel` pending, the timer is off. This is what makes StopIsFinal inductive: a core_range loop in progress must keep the timer off too.
* The cache, dirty flags and MSRs agree (`Synced`): only a loaded `pf_msr` is dirty, and a clean loaded one equals its module's MSR.

Each action keeps the agreement:

* The tuner dirties exactly the images it changes (`TunedSynced`).
* A write touches only its own module's MSR (`LeadModule`: two leads never share a module, from `c % 4 = 0`).
* `msr_load` reads the MSR itself.

`VisitInv` adds two facts: the visited leads are all below the callback's cursor, and they are clean. With FIRST_CORE = 0 the tuner runs when nothing has been visited yet, so each lead's `msr_update` at its visit applies that tick's decision. For a FIRST_CORE after a lead, the property is false, and the theorem says so by its hypothesis.

`ConfigProofs` proves the following for every MAX_THREADS, every priority bound and every set of option arguments:

* `TypeCorrect`: `Spec => []TypeOK`, so core_priority only holds priorities in MIN_PRIORITY..MAX_PRIORITY.
* `WeightsCorrect`: `Spec => []WeightsAsSpecified`.

The inductive invariant `IInv` says four things:

* `weight_string` still holds the last `--weight` argument.
* The range ends are integers.
* While parse_weights runs, the entries below `core_count` are the spec's priorities (`AsSpecifiedBelow(count)`).
* After it returns, the entries below `ACTIVE_THREADS` are the spec's priorities.

A token in range is stored at `core_count`, which is below the number of tokens, so it is the spec's priority of that core. A padded entry is at or past the end of the list, where the spec gives DEFAULT_PRIORITY. The padding loop ends only once `core_count` reaches `ACTIVE_THREADS`. This is why the loop invariant is stated on `count` and turns into the final one when the loop ends. The proof covers only the entries inside the array. Writes past it are ThreadsInBounds' violation.

`ProcFileProofs` proves the following for every set of writers and readers, every set of response sizes and every bound on the writes:

* `TypeCorrect`: `Spec => []TypeOK`.
* `MutexCorrect`: `Spec => []MutexInv`.
* `ResponseCorrect`: `Spec => []ResponseOfLastWrite`.
* `NoLeakHolds`: `Spec => []NoLeak`.

All four follow from `IInvHolds: Spec => []IInv`. `ResponseOfLastWrite` alone is not inductive: it says nothing while a write holds the mutex, so a step that releases it could find anything. `IInv` adds what the owner's progress through `dpf_proc_write` guarantees:

* `MutexInv`: a writer is between lines 356 and 409 exactly when it owns `dpf_mutex`.
* `IdsInv`: the writes in progress have distinct ids among those begun.
* `FreshInv`: the blocks of every id not yet begun, and of every write that has not reached its kmalloc, are unallocated. So a kmalloc never touches a live block.
* `MsgInv`: a set `msg_data` is the writer's own block and is live.
* `HeapInv`: a live block is `proc_buffer` or the owner's `msg_data`; a NULL `proc_buffer` has size 0.
* `StageInv`: what `proc_buffer` is at each stage. It is set at `free`, freed at `clear`, NULL at `fetch` and `handle`, and the writer's live response at `size` and `unlock` on success, with the right size at `unlock`.

The proof has one lemma per action (`WriteBeginIInv` ... `UnlockIInv`, `ReaderIInv`), with one step per part of `IInv`. The argument that carries `Unlock` is this: the `kfree(msg_data)` at line 406 frees `MsgBlock`, an even block, while `proc_buffer` is `RespBlock`, an odd one. So the published response stays live. The readers change no writer state, so the race that `proc_read_race` finds is not visible to these invariants: it is about what the reader copies, not about what the writer leaves behind. The invariant `IInv` was checked by TLC on the `proc_file` instance before it was proved.

`DdrBwTestProofs` proves the following for every N, every set of measurements and both values of `LateStart` and `FastMeasure`:

* `TypeCorrect`: `Spec => []TypeOK`, so `ddrbwflag` stays in 0..ACTIVE_THREADS.
* `FlagCountsHolds`: `Spec => []FlagCounts`.

Both follow from `IInvHolds: Spec => []IInv`, where `IInv == TypeOK /\ FlagCounts`. The bound on `ddrbwflag` is not inductive alone: an increment keeps it at most N only because `ddrbwflag` counts distinct threads. `FlagCounts` is inductive given the types, with one case per kind of step:

* An increment adds the arriving thread to `InBarrier` (`FS_AddElement`). A subset of `Threads` has at most N members.
* A decrement removes the leaving thread (`FS_RemoveElement`).
* Every other step moves a thread within, or outside, the span (`MoveIInv`).
* `exit(-1)` ends every thread, which is the second disjunct.

The timing constants enter only the guards, so the proof holds for all four timing cases. TLC checked `FlagCounts` on all four before the proof.

**TLC only.** `TickCompletes` is a liveness property under fairness, checked by TLC under the design timing only; `TestCompletes` is liveness too, and is violated under the code's timing. `TargetIsSum` says the target is the sum of the measurements. A sum over the threads is a fold, and what a fold computes after one entry changes needs induction over data, which is out of the provers' reach. It stays TLC-checked. The violations (`DecisionSeesAllSamples`, `TestCompletes`, `DecisionSeesTickSamples`, the Config runs, `LastSuccessKept`, `ReaderSafe`) are TLC counterexamples.

## Not modelled, and why

* **The tuner algorithms, the MSR and PMU drivers, and logging.** They are not in `src/`.
* **`print_usage` and `time_ms`.** They are output and clock reads.
* **The kernel primitives.** `msr_load`, `msr_update`, `is_msr_dirty`, `pmu_update`, `configure_pmu`, `kernel_basicalg`, `CORE_IN_MODULE` and `FIRST_CORE` are in `kernel_primitive.h`, which is not in `src/`. KernelMonitor uses their contract. It abstracts PMU programming (configure_pmu) away, and it models the tuner only with FIRST_CORE = 0.
* **Data no property reads.** The weights of handle_core_weight and the target of handle_ddrbw_set are not modelled. In Config, the values of `--intervall`, `--alg`, `--aggr` and `--log` are not modelled, and neither is the RDT/PMU choice inside the DDR init (it may only fail or succeed).
* **Config's string handling.** The strncpy into `weight_string` (MAX_WEIGHT_STR_LEN) and the strtok tokenising are abstracted to the token sequence. A failing `pthread_create` is not modelled.
