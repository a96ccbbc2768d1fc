# TLA+ models and proofs of AEGIS

AEGIS watches a distributed training job, classifies each fault by blast radius
(B0 link … B4 rack) and recovers it at the lowest tier that can: NIC migration,
neighbour absorption, checkpoint restore.  These modules model the code under
`src/aegis/` that decides and keeps state, the harness under `src/chaos_inject/`
and `src/realbench/` that kills real ranks to measure it, and the simulator under
`src/bench/` that compares it with other systems.
TLC checks every module on small instances; TLAPS proves every safety property of
the runs, and three of the five liveness properties, for every value of the constants.

## 1. Inventory

### Components, state, operations

| Component (source) | State | Operations | Module |
|---|---|---|---|
| Unified telemetry plane (`aegis/telemetry/bus.py`, guards of `aegis/runtime.py`) | bounded queue, `_running`, `_dispatch_task`, two counters, `_started` | `publish`, `start`, `stop` (drain for 2 s, cancel, join), `_dispatch_loop` | `TelemetryBus`, `EventDelivery`; with the engine, `AegisRuntime` |
| Escalation policy engine (`aegis/policy/engine.py`) | audit log, B1 correlation window, shadow flag, policy | `_on_event`, `_apply_correlation_window`, `_route`, `_urc_gate`; `aegis.policy.set` | `EscalationEngine` |
| Failure classifier, event schema (`aegis/classifier`, `aegis/telemetry/events.py`) | none | signal to tier | `Classifier` |
| Fault epochs (`aegis/epoch/service.py`) | one locked counter | `next_epoch`, `current` | in `EscalationEngine`, `StorageLayer`, `CheckpointApi` |
| Recovery consensus, URC (`aegis/consensus/urc.py`) | last epoch reported by each rank | `report_epoch`, `agree` | in `EscalationEngine` |
| KPI meter (`aegis/kpi.py`) | list of recoveries | `record` | in `EscalationEngine` (what is counted, not its price) |
| Tiered storage (`aegis/layers/storage.py`) | three histories, write counters, base indexes, files | `write_tier1/2/3`, `recover`, `_select`, `_reconstruct` | `StorageLayer`, `CheckpointStore` |
| Checkpoint API (`aegis/checkpoint.py`) | none of its own | `save`, `restore` | `CheckpointApi` |
| Transport layer (`aegis/layers/transport.py`) | NICs of each node: state, active, failed | `can_handle`, `recover`, `register_node_nics` | `TransportLayer` |
| Compute layer (`aegis/layers/compute.py`) | topology, consecutive fallbacks | `can_handle`, `recover`, `exit_fallback` | `ComputeLayer` |
| Library lifecycle (`aegis/__init__.py`, `_state.py`, `hooks.py`) | module globals, a loop thread | `init`, `disable`, `status` … | `AegisLifecycle` |
| Ranks, heartbeat sensor, injector, launcher (`realbench/training`, `realbench/sensors`, `chaos_inject/real_injector.py`, `report_phase1.py`) | processes; heartbeat, pid, step-log and chaos-log files | step loop, `_poll_loop`, `run`, `run_condition` | `TrainingRun` |
| Launchers (`run_phase0.py`, `report_phase1.py`), preflight of a rank, GPU sampler (`collector/gpu_sampler.py`) | process groups, GPUs, stop files, step logs | `_run_and_reap`, `run_condition`, `_terminate_all`, `_preflight_gpu_check`, `run` | `Supervision` |
| Log alignment (`collector/align.py`) | none: three logs in, rows out | `align_fault_events`, `compute_recovery_gap` | `Alignment` |
| Benchmark simulator (`bench/sim`, `bench/systems`, `bench/metrics`, `bench/traces`, `bench/workloads`, `bench/runner`) | outcomes of each system | `run_benchmark`, `handle_fault`, `compute_savings_vs_baseline` | `BenchSim` |
| Chaos harness, synthetic sensors (`chaos_inject/harness.py`, `telemetry/sensors.py`) | none that decides | `inject`, `emit` | `AegisRuntime.Inject` |
| Config, transport shim, dashboard, CLI, reports, CI scripts | settings, text, statistics | | not modelled, see section 7 |

### How they interact

Sensors call `publish()`; the bus's dispatch task calls the engine's `_on_event`
for each event, in order, and awaits it.  The engine asks the layers, lowest tier
first, `can_handle` and then `recover`, which may suspend.  A storage recovery is
given the least epoch the surviving ranks have reported (the URC gate).  A
success is reported to the URC, priced by the KPI meter and written to the audit
log.  All of this runs on one asyncio loop in a background thread; the training
threads write checkpoints (`StorageLayer.write_tier*`, `checkpoint.save`) and
call `init`/`disable` beside it, with no lock but the one in the epoch counter.
In the real-cluster harness every rank is a process with its own runtime; ranks,
injector and launcher share files and pids only, and successive launches share the
GPUs of the node.  `align_fault_events` reads what they leave.  The simulator asks
a fresh AEGIS runtime about each fault of a trace and adds up cost tables.

### What is hard here, and what correctness means

* **Two consumers of one queue.**  `stop()` drains in its own task beside the
  dispatch task and then cancels that task in the middle of a handler; stops may
  overlap and wake up one by one, with a start between.  *No event may be lost
  silently or dispatched twice, the counters must agree, a stop must end, and no
  dispatch task is left behind but in that one case.*
* **Overlapping recoveries.**  During a drain two calls of `_on_event` run at
  once; each suspends in `recover()`, may fail, raise or be cancelled.  *Faults
  only climb; every epoch is accounted for; KPI log, URC and audit log agree; a
  gate read before the await is not stale after it.*
* **A sliding window pruned from its head**, with a strict comparison.  *It must
  decide as the whole stream would.*
* **Unlocked lists between two threads** in storage, restarts over old files,
  damaged bases.  *What a reader can see must read back; a gate must hold.*
* **Three tiers saved one after another**, each save interruptible.  *A restore
  never rolls the caller back, nor raises while something is stored.*
* **5 s timeouts** in `init()`/`disable()` whose coroutine may still complete.
  *No loop is orphaned, the module state is whole, the kill switch returns.*
* **SIGKILL at any moment** of a job whose survivors hang in a collective, with a
  heartbeat timeout racing the collective's and zombies that look alive.
  *Nobody trains on without a peer; deaths are seen; every injected fault is
  recorded; the condition ends; no step but those in flight is logged after a kill, and
  the rows made of the logs hide no halt.*
* **Launchers that die or raise with children alive**, ranks that outlive SIGTERM,
  orphaned samplers, directories used twice.  *No two launches train on one GPU; a
  launch leaves nothing it has not killed; a sampler is not stopped while its condition is
  watched, and ends.*
* **A race inside a measurement**: the simulator waits 0.15 s for an answer.
  *Repeats agree, and the comparison claimed holds where no answer was late.*

`PROJECT.json` lists the hazards one by one with the line where each bites and the
properties that cover it.

## 2. Modules

Naming: a module keeps the names of the code (`_dispatch_one` is split into `Take`
and `NextSubscriber`, `_route` is `Route`).  A step is what one task does between
two suspension points (`await`s that really suspend), or what one thread does
between two accesses to shared state that another thread could interleave with.
A variable marked *history* guards no step.  Definitions whose name starts with
another definition's and whose comment begins "Mutant:" are broken variants kept
to show that a property notices them; no specification uses them.

* **`TelemetryBus`**: consumers are the dispatch tasks and each task in `stop()`.
  `Publish` = `Accept`/`Drop`; a consumer takes an event, awaits the subscribers
  in turn, returns.  `DrainTimeout` is the 2 s `wait_for`, `Cancel` the
  cancellation of the dispatch task.  `task` is `_dispatch_task` and `awaits` what each
  `stop()` waits for, which need not be the same: `Join` is the wake-up of one `stop()`
  and the end of `AegisRuntime.stop`, and a `Start` may come between two of them.  It then
  creates a dispatch task which the next `Join` lets go of while it runs, so `Loops` is
  a set; `late` remembers the tasks created so.
  It refines **`EventDelivery`** (per event: refused, or accepted, handed on at
  most once and oldest first, finished or abandoned) under the mapping of `fate`.
* **`Classifier`**: tiers and the signal table, shared by the engine and the simulator.
* **`EscalationEngine`**: one handler is one call of `_on_event`.  Since nothing
  can happen between two tiers unless a `recover()` suspends, `Route` chooses at
  once where the climb stops: in the `recover()` of a suspending layer (`Hold`),
  in success, in a raise (`Abandon`), or at the end (`Exhaust`).  The layers are
  what the contract of `layers/base.py` allows, so the results hold whatever the
  layers do; `Suspending` and `Raising` say which do so.  `SetPolicy` changes the
  window or the threshold at any moment.
* **`AegisRuntime`**: `TelemetryBus` and `EscalationEngine` instantiated over shared
  variables, the bus's consumers being the engine's handlers.  Each action is a bus
  step conjoined with what the engine does in it (`LoopTake` and `Receive`,
  `DrainTimeout` and `Cancel`), or either alone while the asyncio loop is free: a
  handler that is not suspended keeps the loop.  Which calls overlap is thereby the
  bus's doing and not assumed.
* **`StorageLayer`**: a writer thread (`BeginWrite`, `StoreFile`, `AppendEntry`,
  `WriteRaises`) beside a reader (`Restore*`, `ReadIndex`, outcome), two kinds of
  shard (node histories with differential writes, the remote one without), file
  damage, and a restart that forgets the metadata and keeps the files.  Payloads
  are numbers; a diff remembers what it was made against, and applied to anything
  else yields `Corrupt`.  It refines **`CheckpointStore`**, a log per shard.
* **`CheckpointApi`**: `save` is one write per tier, and may raise between two;
  `restore` looks at Tier-3, 2, 1 in turn.
* **`TransportLayer`**, **`ComputeLayer`**: `recover` as two halves around the one
  suspension, in `migrate()` and `absorb()`.  `ComputeLayer` covers any backend of
  the interface; the default one never suspends, which the model includes.
* **`AegisLifecycle`**: each assignment to `_state` is a step, threads are
  concurrent, each loop is its own process, both 5 s waits may time out at any
  time, and a late coroutine may still run.
* **`TrainingRun`**: ranks (`Enter`, `Finish`, `Halt`, `Exit`), the sensor in each
  (`Poll`), the injector (`Observe`, `Fire`, `EndPass`), the launcher
  (`WaitReturns`, `Deadline`, `Close`) and `Tick`, one sensor poll interval.
  `Settled` says that what needs no waiting takes less than a tick; computing up
  to a collective may take any number of them.
* **`Alignment`** extends `TrainingRun`: `Record` keeps, for each chaos record, how
  much of the step log and of the halt records precedes it (what a wall clock
  decides), and `Row` is the row `align_fault_events` makes of it.
* **`Supervision`**: one record per launch (phase 0 sub-run or phase 1 condition), the
  ranks of each from `boot` through the preflight and the rendezvous to `training` or
  `stuck` in a driver call, the sampler beside them, which may be told to stop
  (`SamplerExits`) or die of an error it does not catch (`SamplerCrashes`), and what may
  befall the launcher: an exception before or inside the `try`, SIGKILL, another run on
  the same `--out`.
  torchrun's agent and the driver are external.  It sees a launch from outside where
  `TrainingRun` sees one from inside.
* **`BenchSim`**: every short trace through the six systems of `run_st3._systems`.  Time
  is in thirtieths of a second, in which every step time and cost is an integer, so
  the comparison is exact.  AEGIS answers in time (`HandleAegis`) or not
  (`HandleAegisLate`).
* **`MCEscalationEngine`**, **`MCAegisRuntime`**, **`MCTrainingRun`**, **`MCBenchSim`**: the
  faults, traces and workloads of the runs.
* **`TelemetryBusProofs`**, **`EscalationEngineProofs`**, **`AegisRuntimeProofs`**,
  **`StorageLayerProofs`**, **`TrainingRunProofs`** (with `Alignment`),
  **`SupervisionProofs`**: theorems about the module each is named after.
  **`RecoveryProofs`** is about the two layers that recover in place (`TransportLayer`,
  `ComputeLayer`) and what the benchmark says of recovery (`BenchSim`), **`LibraryProofs`**
  about what the library's caller calls (`AegisLifecycle`, `CheckpointApi`).  They extend
  these modules side by side, which is why `ComputeLayer`, `CheckpointApi` and `BenchSim`
  name their own `ComputeSpec`, `ApiSpec` and `BenchSpec`.  See section 5.

## 3. Runs

`CHECK_DEADLOCK FALSE` is set where the system may really stop (all calls made,
the condition over); the bus run checks for deadlock.

| Run | Question | Bounds and why they are enough |
|---|---|---|
| `bus` | is an event ever lost, doubled, reordered; does a stop return; is the plane an `EventDelivery`; which dispatch tasks are left behind | 3 events, queue of 2 (it fills), 2 subscribers (an event in the middle of its dispatch), 2 stoppers (overlap, restart under a stop and between the wake-ups of two), 2 dispatch tasks at once (one left behind and its successor); 581 k states |
| `engine` | what overlapping, suspending, failing, raising and cancelled recoveries do to audit, KPI and gate; does the pruned window decide as the whole stream | 2 handlers, 3 faults of 4 kinds and 2 ranks; B0 and B1 suspend, storage raises; shadow mode on and off; 2 instants and windows of 0 and 1 (an entry younger, exactly as old as, and older than the window), changed in flight, threshold 2; 2.4 M states |
| `runtime` | does the audit log answer exactly the events accepted; order of epochs across drains and restarts; does an event settle | 3 events through a queue of 2, one task that stops and restarts, a layer that suspends and raises: an event in each hand and one queued; 282 k states |
| `storage` | does what is visible read back; gate; refinement | 3 writes with `base_interval` 2 (base, diff, base), 2 epoch moves, 1 damaged file, 1 restart; 197 k states |
| `api` | can a restore go back or miss | 3 saves in 2 threads, 2 epoch moves: two saves disagree about the tiers while a third runs; 525 k states |
| `nic` | can the last NIC be lost; whom does the node use | 3 NICs, 2 overlapping recoveries, 4 calls, 1 re-registration: recoveries exhaust the NICs; 415 k states |
| `compute` | is the fallback bound ever passed silently | bound 2, 5 calls, 2 handlers, 2 nodes: the bound is passed, with exits in between; 37 k states |
| `lifecycle` | orphaned loops, torn state, a kill switch that hangs | 2 threads, 2 `init()`s: the second races every step of the first and of `disable()`; 25 k states |
| `training` | lock step, detection, accounting, aligned rows, termination | 3 ranks, 3 steps, 5 traces (one kill; a skipped B0 and a kill; rank 0 and another, and one twice; a refused class; a step never reached); heartbeat timeout 1 tick, collective timeout 3, drain 2; 1.0 M states |
| `supervision` | who is left running, who shares a GPU, what becomes of the sampler | 2 ranks, 3 launches (what one leaves, the next finds, and one more), 1 launcher that dies or raises, 1 stuck rank at a time, a sampler that may crash at any moment, a directory used again; 807 k states |
| `bench` | does AEGIS recover where the trace says; does any system beat it | traces of up to 3 faults (three B1s are what the window needs), one of each tier, at a step that is a checkpoint of every workload and on both sides of the step from which a restart on W1 costs more than Tier-3; 692 k states |
| `engine_raise` | a statement of a test that the code does not satisfy (section 6) | the smallest instance that shows it |

What the passing runs show, property by property, is in the comment above each
property; `PROJECT.json` gives for each a mutant of the code that breaks it.

Some properties hold only within a stated scope, which is part of what they say:
`NoOrphanLoop` and `AllOrNothing` speak of calls made one at a time with `init()`
only while not initialised; `SerialActiveHealthy` of recoveries of a node that do
not overlap; `NeverRollsBack` and `DurableIsEnough` of calls that do not overlap;
`AuditInOrder` of runs in which no drain takes an event while a handler is suspended;
`OneLaunchPerGpu` excepts a rank that held no GPU yet when it lost its launcher;
`SamplerCovers` a directory used before and a sampler that dies of an error of its own;
`LoopsOwned` a task that a `start()` created while a `stop()` was still to wake up;
`CompositionWins` a late answer, and a rack
fault so soon after a checkpoint that restarting costs less than Tier-3.  The last is
real: the claim of `test_bt2_composition_claim.py` does not hold there.  Outside its
scope the code does lose each of these properties (section 6).

`DeathSeen` rests on `HeartbeatTimeout + 1 < CollectiveTimeout` (5 s and 1 s
against 30 s in the code), an assumption of the module, and on faults due after step 0
(`suggest_target_step` returns at least 1), which the traces of the run satisfy and
the theorem has as its hypothesis.

## 4. Fairness

* `TelemetryBus`: the event loop schedules every task that can run, and the 2 s
  timeout fires.  Handlers need not return: `StopReturns` does without.
* `AegisRuntime`: the same, and a suspended `recover()` returns: the backends sleep
  2 ms or wait for an `ip link` subprocess, and wait for nothing in the model.  Nothing
  makes a publisher publish or anyone stop.
* `AegisLifecycle`: a thread in a call goes on (both waits have a timeout) and a
  loop told to stop does.  Nothing makes a loop run `start()` or `stop()`.
* `TrainingRun`: processes are scheduled and time passes.  Nothing makes the
  launcher's deadline pass, but once it has, `wait(timeout=0)` returns at once.
* `Supervision`: a launcher goes on (each of its waits has a timeout) and the sampler
  polls once a second.  Nothing makes a rank end, or a stuck one come back.
* `EscalationEngine`, `StorageLayer`, `CheckpointApi`, `TransportLayer`, `ComputeLayer`,
  `BenchSim`: safety only.

## 5. Proofs

The theorems hold for every value of the constants that satisfies the module's
`ASSUME`, which only types them (and, in `TrainingRun`, orders the timeouts; in `BenchSim`,
names the workloads and says how the traces are labelled).

* **Bus.**  `BusInv` is inductive.  Conservation alone is not: that a cancelled
  dispatch task leaves no event behind needs hands to match program counters
  (`HandsMatchPc`), and that there is a task to cancel and one to wait for needs
  `StartedHasTask` and `JoinedHasEnded`.  From it follow `StopDrains` and
  `DeliveryImplemented`: initial states and steps map to those of `EventDelivery`.
  `LoopsOwned` needs in addition that a `stop()` which is to wake up waits for the task the
  runtime owns, or the one it owns is `late` (`JoiningKnows`): the wake-up then lets go of
  a task that has ended or of a late one.  With one task that stops no task is ever late,
  and a stopped runtime is quiet (`SoloStopQuiet`); with two it need not be (section 6).
  `CountersMatch` (the two counters) and `OrderedWhileRunning` (publish order between
  stops while no task is left behind) are proved too and need no run.
* **`stop()`, `disable()` and samplers end.**  `StopsReturn`, `DisablesReturn` and
  `SamplersEnd` prove liveness from `FairSpec`, each along the stages of one task: the
  invariant says which stages there are, every step of any task leaves it at its stage or
  takes it to a later one (`StopStage`, `DisableStays`, `SamplerLeads`), its own turn takes
  it to a later one (`TurnMoves`, `DisableMoves`, `SamplerTurns`), and weak fairness of
  that turn does the rest.  A sampler has two such turns, its launcher's and, once that
  was killed, its own; that it runs at no other stage is an invariant (`SamplerPlace`).
  The prover takes ENABLED as an unknown predicate, so that a turn is possible at each of
  those stages is the one hypothesis: `StopNotBlocked`, `DisableNotBlocked`,
  `SamplerNotBlocked`.  Each is a state predicate that says nothing else.  They hold of
  every reachable state: added to the `INVARIANTS` of `MCBus.cfg`, `MCLife.cfg` and
  `MCSupervision.cfg` TLC finds no violation of them in the instances of the runs.
* **Engine.**  `EngineInv` adds to `EpochsAccounted` and `EscalationSound` that a
  handler waits only where a layer suspends (`HeldSuspends`).  `ClimbsOnly` follows.
  `GateStaysFresh` has one hypothesis, `Suspending \subseteq {B0, B1}`: in the code
  the storage layer's `recover` has no suspension point, so its gate cannot age.
  The theorem says exactly that this is what the gate's freshness rests on.
* **Training run.**  `TrainInv` is inductive as it stands: `LockStep` follows, when
  a rank leaves a collective, from all ranks having entered it and `OneStepOpen`;
  that no rank is running when the launcher closes follows from `NoneLeftBehind`.
* **A death is seen.**  `DeathIsSeen` has one hypothesis, `KillsComeLater`.  The invariant
  (`WaitsAreSeen`) says that the heartbeat of a rank which has not done a step is as old
  as the wait of any rank for it (`AgesWithWait`); that holds because a rank which can
  leave its collective does so before time passes, when nobody has yet waited a step
  ahead of it (`NoWaitForFinisher`), and touches its heartbeat then.  One tick later every
  sensor has polled (`SeenByPoll`).  That a killed peer has a heartbeat at all is
  `KilledStarted`: a fault due at step 1 fires once rank 0 has done two, and by then every
  rank that is not killed has entered the second (`EnteredByAll`).
* **Alignment and the end of a condition** (in `TrainingRunProofs`).
  `TraceAccounted` needs three things: chaos log and pending trace together are always
  the trace (`Accounted`), all ranks are reaped by the time an in-time launcher drains
  (`ReapedInTurn`), and so the injector ends within two ticks and is never terminated
  (`EndsInTime`).  `ResumeIsInFlight` needs that the step log never passes the last
  collective a killed target had entered (`LogBounded`); `HaltTold` that a process
  which exited had finished or halted (`ExitsSayWhy`).
* **The engine's two logs.**  `KpiMatchesAudit` is inductive once nothing is in flight in
  shadow mode (`ShadowIdle`): a success is counted in the step that audits it.
  `BurstEscalates` is about all arrivals, of which the deque keeps the end; the invariant
  (`BurstInv`) says that it is a suffix (`RecentIsSuffix`), that times rise, and that what
  was dropped had left the window of an arrival since, hence of every later one, as long
  as no policy change makes the window longer: the property allows for that.
* **The runtime.**  `AegisRuntimeProofs` instantiates the proofs of bus and engine with
  the runtime's constants: `RuntimeAssumption` implies both modules' assumptions, each
  action is a step of each part or leaves it alone, and so both inductive invariants
  hold of the composition without being proved again.  What is added (`Glue`) says
  whose is what: a suspended call is that of the event its task holds (`HandsNamed`), an
  audit entry that of some event (`AuditNamed`), an ended event is in the audit log or
  lost (`WhereTo`), and until two calls overlap the one in hand has the newest epoch
  (`Newest`).  So the runtime implements both modules (`RuntimeIsBus`, `RuntimeIsEngine`),
  with callers and events that are the bus's and no longer any, and all that is proved of
  either holds of it (`RuntimeKeepsPromises`, `RuntimeGateFresh`).  What a call may do to audit log, `lost` and `rankEpochs` is stated once,
  at the end of `EscalationEngineProofs` (`CallStep`), and used for each step of it.
* **Storage.**  `StorageInd` follows a write through its steps: counters count entries
  (`Counted`), `base_index` is the newest full entry (`LastBase`), file names end with the
  place of their entry (`Numbered`), epochs and payloads rise (`Ordered`), and undamaged
  files are as written, those about to be named by an entry included (`EntriesStored`,
  `WriteStored`).  `VisibleReadsBack` is then a consequence, not an induction of its own;
  so is `GateRespected`, from the restore's choice staying in range (`ReaderInRange`) while
  the log grows.  `StoreImplemented` maps each step to one of `CheckpointStore` or a stutter.
* **Transport.**  A NIC is always left because each `recover` fails one and is let in with
  two healthy.  `SerialActiveHealthy` alone is not inductive: it needs that recoveries
  which do not overlap are one at a time on an entry (`OneAtATime`) and are moving to the
  first healthy NIC (`TargetIsFirst`).
* **Compute.**  `WarnsInTime` says nothing of windows under way, so it is not inductive: until
  a node is warned about, its completed windows and those under way whose count is below
  the bound are together fewer than the bound (`NodeInv` in `ComputeInd`).  Of two
  absorptions of a node no two took the same count, so the one that reaches the bound is
  not among those and warns when it completes.
* **Checkpoint API.**  A restore tries the tiers in turn, and calls that do not overlap see
  the logs as they were: the tiers already tried held nothing older than what the tier in
  hand would return (`Past`), what was seen when the call began is still there
  (`StillSeen`), and without a race no save is half way (`Alone`).  `NeverRollsBack` is an
  action property of that invariant.
* **Simulator.**  An outcome is one its system may give for the fault at its place
  (`Scores`), whatever came before.  That AEGIS gives the tier of the trace rests on a
  runtime which has seen one fault never reaching the threshold (`OneFaultNoBurst`), and on
  the traces being labelled as the classifier classifies (`BenchAssumption`).
  `NoneIsFaster` is `CompositionWins` fault by fault: no system has a lower price for a
  tier (`Prices`), and but for `CheapRestart` none of AEGIS's is above that of a restart.
  `NoneWins` is `CompositionWins` itself.  A sum over a trace of any length is an induction,
  which is made of the least number principle: a set of numbers that holds 0 and the
  successor of each of its members has no least number outside it (`LeastNumber`,
  `InductiveSet`).  It gives first that the running total exists (`TotalExists`), then that
  of two sums the one with no greater term is not greater (`TermByTerm`).
* **Lifecycle.**  The invariant says what `_state` names at each step of each call
  (`Stage`), and that an `init()` under way owns a loop of its own (`Owned`).  The stages
  are claimed only of calls in order (`OneByOne`), as the properties are.
* **Supervision.**  A launcher killed before a rank held its GPU is why `OneLaunchPerGpu`
  needs more than itself: the ranks of a returned launch are dead or condemned
  (`ReturnedIsDead`), those of a killed one hold a GPU or are orphans (`KilledIsOrphan`),
  one that raised early never trains (`RaisedIsShort`), and past the preflight of a GPU
  no earlier rank is on it but an orphan (`PastPreflight`).

Only model-checked: `EventSettles` and `RunEnds`, and the three ENABLED predicates above.
An event settles after as many turns as there are events before it in the queue, and a
run ends after as many as its steps and timeouts allow.  That is an induction over a
number with a temporal formula for its hypothesis: no set of numbers has such a formula
for its definition, as `InductiveSet` would need, and the library's induction theorem
takes an operator, which the provers cannot instantiate.

## 6. Where code and documents disagree

Shown by a run:

1. `engine_raise`: a layer that raises leaves no audit record and ends the climb
   (`engine.py:227`), although "every injected fault must produce exactly one audit
   record" (`test_it6_escalation_invariant.py:108`).

Met while modelling, and not given a run:

* Two B1 events of one node, or two nodes in no rack, make a rack-level B4
  (`engine.py:190`), although the threshold is of "correlated node failures in a rack"
  (`dsl.py:43`).  The heartbeat sensor publishes without a rack, and survivors blocked
  in a hung collective report each other.
* `restore()` prefers an old Tier-3 to a newer Tier-1 (`checkpoint.py:107`), although it
  promises "the most recent valid checkpoint" (`:78`).
* Recovering one fault twice fails two NICs when the signal names none
  (`transport.py:259`); `layers/base.py:98` asks for idempotence.  *At most one
  NIC is failed per fault without a nic_id.*
* Two overlapping recoveries of a node may leave a failed NIC active: the later
  `migrate()` to return wins (`transport.py:290`).  *`SerialActiveHealthy` without
  `raced`.*
* The fallback counter is raised before the absorption and stays when it fails, so the
  warning may come earlier than "after this many back-to-back fallback windows"
  (`compute.py:49`).  *`n \in warned => windows[n] >= MaxFallbacks`.*
* Of the policy, `max_consecutive_fallbacks`, `economics_policy` and `tier_budget_secs` are
  never read (the bound is the constant of `compute.py:51`); `allow_b0_fast_path` is only
  logged (`engine.py:117`), although `transport.set_fast_path(False)` is to make "all B0
  faults wait for the EPE"; `KPIMeter` copies `gpu_hr_cost` when it is built, so
  `aegis.policy.set` never reaches it.  `type(existing)(value)` makes the string "false"
  true (`policy/__init__.py:50`).
* A second `init()` leaks the first runtime's loop (`__init__.py:134`), and `disable()`
  in two threads at once may raise, since the second reads `None` where it has just
  checked (`__init__.py:252`, `259`); tests call it twice in one thread only
  (`test_it7_transparency_contract.py:118`).
* Two `stop()` calls that wait for one dispatch task wake up one by one, each setting
  `_dispatch_task` to `None` and `_started` to false (`bus.py:104`, `runtime.py:97`).  If the
  caller of the first goes on to `start()`, the second lets go of the new task: a runtime
  that says it is stopped dispatches on, "so pytest-asyncio doesn't report pending tasks"
  (`bus.py:88-89`) does not hold, and the next `start()` gives the queue a second dispatch
  task, which loses publish order with no `stop()` under way.  *`~started => \A l \in Loops :
  ~Alive(l)`, and `OrderedWhileRunning` without its second condition.*  With one task that
  stops it does not come about (`SoloStopQuiet`).
* `stop()`, documented as graceful (`bus.py:86`), may cancel the handler in hand; and a
  `start()` while another `stop()` drains gives that one the new task to cancel.
* A `stop()` that drains beside a suspended handler lets recoveries finish out of epoch
  order: the audit log is then not increasing, against
  `test_it6_escalation_invariant.py:127`, and `report_epoch` overwrites without comparing
  (`urc.py:61`), so a rank's "latest epoch" (`:51`) goes back.  *`AuditInOrder` without
  `overlapped`.*
* `restore(epoch=...)` never looks at its argument, neither "that specific epoch" nor the
  "full-fidelity" of "latest_valid" (`checkpoint.py:82-83`), and `save(state)` never at
  its state (`checkpoint.py:41`).
* Entry and index are two reads in `_select`, so an ungated restore may name another
  epoch in its message than the payload's (`storage.py:254`, `302`).
* Within one epoch a gated restore takes the first write, not the last: `max` keeps the
  first of equals (`storage.py:258`, against "the latest entry" of the docstring).
* The injector fires at the first poll that sees a step at or past the trace's, which
  may be a later step than "the same trace-defined step" (`real_injector.py:19-21`).
  `os.kill` succeeds on a zombie, so `fault_fired` may be true of a rank that had exited
  (`:162`).  `_rank_liveness` looks at the pid files there are, not at "every rank's"
  (`:96`).  A fault whose step was logged between the read and the liveness check is
  recorded as "halted before trace step" (`:238`).
* The report takes the first detection record for the detection of the kill
  (`report_phase1.py:329`); it may name a live rank blocked in the same collective.  A
  rank killed before its first heartbeat is never reported, although "death is always
  detected by a survivor" (`rank_heartbeat.py:16`).
* A kill is followed by one or two more steps in the step log, those already in flight, so
  a job that halts gets a recovery gap (`align.py:149`), although "a real B1 fault today
  produces a `training_halt` record, not a resumed step-log" (`align.py:23`) and callers
  "must not fabricate a number" (`:26`).  `ResumeIsInFlight` is what does hold.
* "Every exit path from `run_condition` therefore funnels through" `_terminate_all`
  (`report_phase1.py:136`), but `launch_rank_processes` is called before the `try` (`:167`),
  and a killed launcher reaches no `finally`.
* The step log is opened in append mode, so a directory used twice mixes two runs, and the
  startup wait is over at once; its old stop file ends the new sampler at its first poll.
* The sampler stops by a file "so a longer-than-expected run is never cut off
  mid-collection" (`gpu_sampler.py:21-22`) and keeps polling "rather than crashing the collector
  out from under the run" (`:132-133`).  It catches three exception types (`:130`): a field that
  is no number or a line of another length (`:61-65`, `ValueError`), or a
  log it cannot append to, ends it, and `run_condition` never looks.  *`SamplerCovers`
  without `crashed`.*
* Every run of `run_phase0.py` is in the index with whether it ended well (`ok`), which
  `report_phase0.py` never reads.
* FT-BURST is made to exercise the correlation window (`mixed.py:87`), which never fires: the
  adapter builds a runtime per fault.  "Correlated B4" of `per_tier.py:128` is two direct B4s.
  The ratios in the comment of FT-PRODUCTION are not those of its weights.
* "Vanilla always more expensive" (`test_bt2_composition_claim.py:7`) is false of a B4 just
  after a checkpoint.  `runner/run.py:31` calls repeats of AEGIS deterministic; the 0.15 s
  wait is not.

## 7. Not modelled

* **In modelled components**: `subscribe`/`unsubscribe` after `start()` (no caller);
  asyncio's own wake-up order, of which the model allows more: the `stop()`s that wait for a
  task wake up in any order and with any steps between, where asyncio wakes them first come
  first served, and one whose task had already ended goes on without a suspension; the
  Python 3.11 `wait_for` that can swallow a
  cancellation at its timeout; `clear_rank` and the bench adapter's
  `report_epoch(rank, 0)`; the tensor arithmetic of absorption and the bandwidth shares
  of migration; policy and hook validation in `init()`.
* **`AegisRuntime`**: one task stops the runtime (`TelemetryBus` has two), the clock stands
  still and the policy is constant: the window is the engine run's question.  A `recover()`
  that suspends several times is one that suspends longer.
* **`TrainingRun`** starts where the step log exists.  A collective with a missing
  peer hangs for its timeout, as the code's own comment says (`w1_llama7b.py:369`).
  Heartbeat and step log are written in one step with the end of the collective.
  Pids are not reused.  Only the condition with the sensors on is modelled.
* **`Alignment`**: the GPU log, the idle GPUs and the hours counted from it.
* **`Supervision`**: the phase 0 gate and the run index decide nothing about processes and are
  left out, as are pid reuse and ranks that leave the process group of torchrun's
  command.  The preflight's memory threshold is "a model is on the GPU".
* **`BenchSim`**: the random draws of the traces (any trace of the pool is replayed), the
  other workload fields, and dollars, which are times multiplied by constants.
* **Configuration, transport shim**: parsing, and a flag that is only logged.
* **Dashboard, CLI, reports, CI scripts**: formatting, statistics and I/O.

## 8. Plan

Done, in this order: bus and its abstraction; engine; layers (storage with its
abstraction, API, transport, compute); lifecycle; training run; proofs of bus, engine
and training run; the runtime composed of bus and engine, and policy changes in flight;
alignment and its proofs; supervision; the simulator; proofs of the engine's two logs,
storage, transport, lifecycle, supervision, and of the runtime from those of its parts;
proofs of the compute layer, the checkpoint API, the simulator and `DeathSeen`; the sums of
`CompositionWins`, the liveness of `stop()`, `disable()` and the samplers, and the
refinement of bus and engine by the runtime.

Next:

1. `EventSettles` and `RunEnds`, with a prover that has ENABLED and induction over a
   temporal hypothesis.
2. The URC with ranks seeded at 0, as the bench adapter does, should the tier it reports
   ever depend on the gate.

To run: `tlc -config MCBus.cfg TelemetryBus` (the module of each run is in
`PROJECT.json`), and `tlapm TelemetryBusProofs.tla`.
