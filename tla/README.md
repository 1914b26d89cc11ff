# A TLA+ verification of BadBatch

BadBatch is a Rust implementation of the LMAX Disruptor: producers claim
sequence numbers, write the slots of a ring in place and publish them; consumer
threads follow the published sequences and, through gating sequences, hold the
producers back from slots that are still in use. The project models the
concurrent code of `src/src/disruptor/` and the benchmark programs of
`src/src/bin/`, checks them with TLC on small instances and, but for the elegant
consumer and the benchmarks, proves their safety with TLAPS. Paths below are
relative to `src/src/disruptor/` unless they begin with `bin/`.

## 1. The system's parts

| part | source | module |
|---|---|---|
| ring buffer | `ring_buffer.rs` | `Pipeline`, `WorkPool`, `StandaloneRing` (`ring`, `slot_index`) |
| sequences | `sequence.rs` | single loads, stores and CAS of all modules |
| single-producer sequencer | `sequencer.rs` 483-1085 | `SinglePipeline` |
| multi-producer sequencer | `sequencer.rs` 1108-1715 | `MultiPipeline` |
| barrier, polling strategies | `sequence_barrier.rs`, `wait_strategy.rs`, `simple_wait_strategy.rs` | `BarrierWait`; as one poll in `Pipeline`, with `ResolvePublished` in `MultiPipeline` |
| blocking strategy | `wait_strategy.rs` 173-209, 234-413 | `BlockingWait` |
| consumer loops | `consumer_engine.rs` | `Pipeline` (sequential), `WorkPool` (worker pool) |
| producers | `producer.rs` | `SinglePipeline`, `MultiPipeline` |
| Builder core, threads, handle | `builder/{core,consumer,handle}.rs` | `Pipeline`, `BuilderAssembly` |
| fluent builder | `builder/{fluent,entry}.rs` | `BuilderAssembly` |
| failure records | `failure.rs` | `Pipeline`, `StandaloneRing` (`first_failure`) |
| classic DSL, life cycle | `disruptor.rs`, `event_processor.rs` | `DslLifecycle` |
| classic DSL, publishing | `disruptor.rs` 90-250, 520-619 | `DslPublish` |
| a processor driven by hand | `event_processor.rs` | `ProcessorProbe` |
| event poller | `event_poller.rs` | `EventPoller` |
| elegant consumer, its thread | `elegant_consumer.rs`, `thread_management.rs` | `ElegantConsumer` |
| benchmarks | `bin/*.rs` | `BenchRing` with `H2hRust`, `UnicastBreakdown`, `PipelineBreakdown`, `BaselineMetrics`, `TailLatency`; composed in `Benchmarks` |
| traits, factories, adapters, logging | the rest | not modelled |

A producer interacts with the sequencer (claim, publish, flags), consumers with
the barrier (wait) and the sequencer (poison), and the owner of the handle or of
the `Disruptor` with all of them (close, drain, stop, join, ungate).

## 2. The modules

### Pipelines

`Pipeline` is the part both producer modes share. The place of every thread is
a variable (`pc`, `core`), and an action is one access to shared state or one
call of user code. A stage waits for the stage before it (`Dependents`), and
only the last stage gates the producers (`Terminal`). User callbacks succeed,
return an error or panic; a failing thread first records the failure, then
poisons. The owner stops the pipeline by `BeginShutdown` (close, drain, stop),
`BeginHalt` or `IntoProducer`; dropping the handle is a shutdown with a
deadline.

`SinglePipeline` adds the producer that holds the unique claim capability: flag
checks, the cached gating minimum, the slow path that republishes the cursor and
reads the gating sequences one at a time, slot-by-slot writes, publication,
classification of a refused try call, and the guard against a panicking update.

`MultiPipeline` adds any number of producers, the CAS claim with its shared
cached minimum, and publication through availability flags. `Bitmap` chooses
between one flag per slot and words of parity bits flipped by XOR (`Word` stands
for the 64 bits of the code). The consumer's barrier walks the flags one at a
time (`ResolvePublished`).

`WorkPool` is a stage whose workers claim single events through a shared work
cursor, ahead of publication.

`EventLog` is the abstract specification: a bounded log that every consumer
handles in order, once, stage after stage. Both pipelines implement it.

### Waiting

`BlockingWait` is a chain of consumers under `BlockingWaitStrategy`. It separates
what the pipeline modules take as one poll: the look at the cursor without the
mutex, the looks at cursor and alert under it, the park, and on the other side
the store and the signal. `timed` tells the Builder's waits, in rounds of a
millisecond, from the DSL's, which have no deadline. Locking, notifying and
unlocking in `signal_all_when_blocking` are one step, because nothing else
happens under the lock. An event may be published at any time, and a stop is a
halt or `into_producer`; claims and drains are in the other modules.

`BarrierWait` is the barrier of one consumer over each of the strategies that
poll. `wait_for`, `wait_for_with_timeout` and `wait_for_with_shutdown` make their
checks before and after the strategy's loop; a strategy is the order in which its
loops check sequence, alert, flag and clock, one check per step. A custom
strategy has only the trait's default methods, which wait in timed rounds.

### The classic DSL

`DslLifecycle` is `start`, `shutdown`, `halt` and restart against
`BatchEventProcessor::run`, for processors added by `handle_events_with` and
`then` (`Built`). A publish is one step there, because the claim is the subject
of other modules and `start`, `shutdown` and `halt` take `&mut self`. A callback
may fail, and so may the spawn of a thread (`disruptor.rs:353-367`): its `expect`
unwinds `start()` past the threads that already run. They stay, and a `halt()` or
`shutdown()` answers `Ok` at once because nothing counts as started
(`StoppedThreadsAreJoined` says that this is the only way to leave one behind).
One bound goes with it: a Disruptor in which an unwound `start()` left threads is
not started again, since a second thread of a processor would only find it
running already.

`DslPublish` is `publish_event` and `try_publish_event` by threads that share
Disruptors, with translators that publish again: the per-Disruptor claim lock,
the per-thread flag that refuses a nested call, and a panic that poisons every
call it unwinds through. The processors commit, or fail and poison.

`ProcessorProbe` is one processor whose `run()`, `try_run_once()` and `halt()`
are called by different threads at once. They meet at `running`, at the barrier's
alert and at the handler's mutex. A handler that panics is caught and poisons the
pipeline, except in the `on_batch_start` of a probe, which runs outside the
`catch_unwind` (`event_processor.rs:416`): that panic reaches the caller, who
still gives back mutex and flag, and nothing is recorded (`BatchStartUnwinds`).

### Parts around a ring of their own

`StandaloneRing` is a ring with one producer, whose gate and write are one step;
`EventPoller` and `ElegantConsumer` extend it. A polled batch lives until it is
dropped, committed or acknowledged, and commits what was taken. The elegant
consumer reads no cursor: it hands out the first `buffer_size` sequences and then
idles, which the code itself calls a simple check "for now"; the model says the
same.

`BuilderAssembly` is the sequence of builder calls in every type state, then
`build`, which starts the consumers one by one while the first threads already
run and may fail to pin themselves: on a core the machine does not have, or
because the system refuses. A spawn may fail too; the panic then drops
the consumers started so far, which waits for their threads (`DropStarted`). No
doc promises that this ends, and no property says so.

### Benchmarks

`BenchRing` is what the programs under `bin/` have in common: a main thread that
parses a command line, runs a plan of rounds and exits with a code; and for each
round a ring, seen from outside as `EventLog` describes it, with its producers,
its chain of stages and the counters that the last stage writes and main polls.
Every access to such a counter is a step of its own. Each program has a module
with its options, phases, handlers, expected checksums, validation and summary;
`Benchmarks` chooses one program and one command line and states the properties.

A definition whose comment reads "Mutant of X" is X with a plausible bug. No
specification uses it; it shows that a property can fail.

### Abstractions

- A slot holds the sequence it was last written for; payloads are left out,
  except in the benchmarks, whose checksums are sums of the events' values.
- Steps are sequentially consistent. The code orders its publications with
  Acquire and Release but reads `closed` and `poisoned` with weaker orderings on
  the claim path; effects of such reordering are outside the models.
- Sequences are unbounded integers: 2^63 events are not reached. The 64-bit
  accumulators of the benchmarks wrap at `Modulus`.
- A batch closure that returns has written all slots of its iterator. The code
  does not enforce this; a closure may leave old contents in a slot.
- Yielding, spinning and sleeping between two polls are scheduling.
- In `WorkPool` the gating minimum is read in one step.
- `ProcessorProbe` has one prober in its run: a second one meets the first at
  the same flag and mutex.
- The clocks of the benchmarks are choices: a round's rate is any of `Speeds`, a
  sample's latency any of `Latencies`, and whether a load kept its rate, or an
  injected pause showed in the percentiles, is open. Means, deviations and the
  differences between phases are left out. In `BaselineMetrics` a worker pool is
  one stage.

## 3. The runs

Bounds are `Size` (slots), `MaxBatch`, `MaxSequence` and its like (the last
sequence claimed), `MaxStarts` and `MaxDepth`.

| run | instance | shows |
|---|---|---|
| `single_safety` | mutable stage, two fan-out consumers; Size 2, batches to 2, sequences to 2 | slot exclusion between producer, stages and handlers; explained failures; complete drains; refinement of `EventLog` |
| `single_live` | chain of two mutable stages; Size 1, sequences to 2 | claims are decided, events handled, stops end |
| `multi_safety` | a blocking and a try producer, a read-only consumer; bitmap, Size 2, Word 2, batches to 2, sequences to 2 | the same safety under CAS races; parity bits over a wrap; partially visible batches; refusals |
| `multi_live` | two blocking producers, one flag per slot, Size 1, sequences to 1 | stops end with claims outstanding; refinement of `EventLog` |
| `dsl` | chain of two, two starts, failing callbacks and spawns | threads, windows and backlog over a restart; until the second start, calls return |
| `workers` | a chain of two parked consumers with two events; two workers, Size 2, sequences to 2 | no lost wakeup, halts end; exclusive work claims, a sound minimum that catches up |
| `standalone` | poller and processor on Size 2, sequences to 2; two threads and two Disruptors with nesting 2; every strategy and wait; up to three consumers in the builder | see below |
| `bench` | each program on the command lines of `MCBench` | valid rounds are complete, statistics are true, every run ends |
| `dsl_hang`, `dsl_twice`, `multi_ownership`, `bench_race` | | the findings of section 6 |

`workers` and `standalone` check parts that do not interact, side by side: the
variable `subject` chooses the part, and the others keep their initial state.
What `standalone` shows, part by part:

- poller: the events of a live batch stay in their slots (`BatchIsHeld`), and
  whatever mixture of partial reads, drops and acknowledgements came before, a
  committed event was taken once (`CommittedIsTakenOnce`);
- processor: run, probes and halts handle each event once (`HandledOnce`)
  although `halt()` frees the flag their exclusion begins with, because the
  handler's mutex backs it up; a halted loop ends (`HaltEndsLoop`);
- publishing: a thread that holds a claim lock waits for none
  (`LockHoldersDoNotWait`), so translators cannot deadlock across Disruptors;
- barrier: answers are true (`AnswersAreTrue`) and waits end (`WaitsReturn`),
  for each wait and strategy;
- builder: the wiring is what was declared (`BuiltAsDeclared`);
- elegant consumer: shutdown and drop end it (`ElegantStops`).

In `bench`, `RoundsAreExact` says that a round called valid had all its events
handled, and that rounds of `h2h_rust` and `unicast_breakdown` are valid under
every interleaving; `StatisticsAreTrue` compares medians, extremes and
percentiles with their definitions; `TailOutcomeIsComplete` is about samples,
retention window and injected pause of `h2h_tail_latency`; `BenchmarksEnd` covers
refused batches, time-outs and failing pins.

**Why the bounds are enough to be interesting.** `MaxSequence >= Size` in every
pipeline, pool and poller, so the ring wraps and the producer meets a full ring
with a stale cached minimum. In `multi_safety` the third sequence reuses the
first one's parity bit with its other value, and a batch of two crosses the end
of the ring. The DSL runs hold one backlog of two events, enough for the two
processors to differ. In `workers` a second event comes while the first one's
wakeup is under way, and the second consumer meets both waits. Two Disruptors
and two threads are the least that can wait in a circle. The command lines of
`bench` reach every scenario, mode, layout, handler, refusal and exit code.
Fan-out consumers are symmetric in `single_safety`; runs with liveness
properties use no symmetry. Deadlock is not checked, since a stopped pipeline has
nothing left to do; the liveness properties cover hangs.

**Fairness** is weak fairness of each thread inside a call, a stop or its loop:
these are OS threads running code without locks held across steps, and callbacks
are taken to return. Nobody is obliged to publish or to stop, and a deadline is
not obliged to pass in the DSL. In `BarrierWait` the clock runs on (`Elapse`).
`BlockingWait` adds strong fairness where a thread asks for the mutex, which
parking_lot hands over to a thread that waits long, and for the deadline of a
timed wait that keeps spinning. In the benchmarks the main thread, every stage
and every producer are scheduled.

## 4. What is proved

Every theorem holds for all values of the constants that satisfy the assumptions
named in the models (`SizeAssumption`, `StageAssumption`, `MultiAssumption`,
`PoolAssumption`, `DslAssumption` and their like): rings have a slot, bounds are
natural numbers, `None` and `Nobody` are nothing else, a chain begins with
`handle_events_with`. They restrict no instance that the code can run. The
bounds on sequences, starts and nesting are constants of the models too, so the
theorems hold however large they are.

Hardly a property is inductive as it stands. Each model ends with the invariant
that makes it so (the one of `BlockingWait` is in `WorkerProofs`); the proofs show that `Init` establishes it, that every action keeps
it, one lemma or step per action, and that it implies the properties. TLC has
found each of these invariants true on the instances of section 3.

| module | about | theorems |
|---|---|---|
| `PipelineProofs` | ring arithmetic, the consumers of both pipelines | lemmas only |
| `SinglePipelineProofs` | `SinglePipeline` | `TypeCorrect`, `Invariance`, `HandlersAreSafe`, `ClaimsAreExclusive`, `StagesAreDisjoint`, `CursorIsHonest`, `PipelineIsALog`, `PoisonIsExplained`, `RefusalsAreTerminal`, `DrainsAreComplete` |
| `MultiPipelineTypes`, `MultiPipelineSteps` | `MultiPipeline`: flags and laps, types, what each step keeps | lemmas only |
| `MultiPipelineProofs` | `MultiPipeline` | `Invariance`, `HandlersAreSafe`, `ClaimsAreExclusive`, `FlagsAreTrue`, `RefusalsAreTerminal`, `DrainsAreComplete`, `PipelineIsALog` |
| `WorkerProofs` | `BlockingWait`, `WorkPool` | `WakeupsAreNotLost`, `PoolInvariance`, `WorkersOwnTheirEvents`, `AdvertisementsAreHonest`, `PoolDrainsAreComplete` |
| `DslProofs` | `DslPublish`, `DslLifecycle`, `BuilderAssembly` | `PublishInvariance`, `HoldersNeverWait`, `DslInvariance`, `StopsJoinEveryThread`, `ShutdownsAreComplete`, `ChainsHoldDistinctSlots`, `BuilderInvariance`, `BuildsAsDeclared` |
| `StandaloneProofs` | `EventPoller`, `ProcessorProbe`, `BarrierWait` | `PollerInvariance`, `BatchesAreHeld`, `NothingIsTakenTwice`, `ProbeInvariance`, `EventsAreHandledOnce`, `BarrierInvariance`, `WaitsAnswerTruly` |

### The single producer

`IInv` of `SinglePipeline` adds what the first properties rely on. `ConsumerInv`:
a consumer has been told of no event that the cursor and all earlier stages have
not passed, also halfway through reading its dependencies. `GatingInv`: the
gating set is the last stage until every thread has exited. `ClaimInv`: the
cached minimum and the running minimum of a scan, however stale, are lower
bounds of the gating sequences, and claims stay within `Size` of the cached one.
`CursorInv`: a claim is unpublished only while being written or on a poisoned
pipeline, which is why republishing `next_value` on the slow path is harmless.
`RingInv`: the last lap of the ring holds what was published. The arithmetic is
one lemma: two sequences in one slot are a lap apart.

The terminal flags need three small invariants of their own. `FailureInv`: every
thread about to raise the poison flag has recorded a failure. `CallInv`: a call
that began under a terminal flag is at a place from which it can only be refused.
`DrainInv`: once closed, the producer holds no claim, so the drain's snapshot
stays the cursor; with `IInv`, which orders the stages, the last stage's progress
covers all of them.

### Many producers

What is published need not be a prefix here, so `IInv` of `MultiPipeline` speaks
of sets. `CursorInv`: the claims that the compare-and-set hands out are disjoint
from one another and from what is published, and all are below the cursor.
`GateInv`: the shared cached minimum, each producer's scan and the bound it takes
to its compare-and-set are lower bounds of every gating sequence, in whatever
order they were stored. That is enough although the cached minimum can move
backwards: a bound that was once true of a sequence that only grows stays true.
`RingInv` and `FlagInv` follow the slots of the last lap: a slot holds its
sequence once that is written, and its flag is the one of its own lap once the
sequence is published and of the lap before until then. The latter covers both
encodings and is what makes a scan of the flags stop at the first gap
(`ConsumerInv`). All of it holds while the consumers gate; after `into_producer`
claims may overlap (finding 3), and `ClaimsAreExclusive` says no more.

Types are part of the induction in this model, since the end of a scan is a
sequence only because the scan began at one. The log that `PipelineIsALog` maps
to is the longest published prefix.

### Waiting and workers

`WakeInv`: parked consumers alone are not enough for an induction, since one
could park on an old look. The invariant follows a consumer from each look on and
adds that the mutex is held from there to the park, so that a signal, which needs
the mutex, finds nobody in between.

`PoolInv`: below the work cursor every event is handled, or is owed by a worker
that holds it or left its loop without it, and that advertises less. The minimum
of the advertised sequences therefore covers handled events only, although a
worker may advertise past events that others hold.

`BarrierInv`: up to the last check of a wait an alert that was up still is, since
nobody clears it under a wait, and past that check none was up; what a strategy
found was available when it looked.

### The DSL, the builder and the standalone parts

`PublishInv`: a thread holds at most one claim lock, for one call of its stack
and with its flag up, and every call below the top is inside its translator. A
thread that waits for a lock therefore has its flag down and holds none.

`DslInv`: how far each processor has got compared with the ones it waits for,
directly or through others, that a shutdown has closed the Disruptor before it
read its target, and that an answer Ok came from processors that had all reached
it. Its `SpawnedInv` follows the threads through `start()`: the processors before
the one it is at have theirs, and no others. `ChainsHoldDistinctSlots` is about chains built with `then` (`IsChain`);
without that it is false (finding 2).

`BuilderInv`: the stages declared so far are numbered without gaps, each with a
consumer; a core that was asked for waits for the next consumer only; and while
`build` starts the consumers in the order of their registration, the sequences of
a stage are complete before the first consumer of the next one takes them, since
stage numbers never fall along that order. `BuildsAsDeclared` reads the wiring off
the state in which all are started.

`PollerInv`: the slots above the poller's sequence hold their events, and a batch
begins right above that sequence. `ProbeInv`: only the caller that holds the
handler's mutex knows where the processor stands. The flag `running` does not
occur in it: exclusion does not depend on the flag, which `halt()` may free at
any time.

**Only model-checked.** Liveness, which is out of the prover's reach
(`ClaimsAreDecided`, `PublishedIsHandled`, `StopsTerminate`, `FirstCallsReturn`,
`PublishedIsConsumed`, `StopsEnd`, `BacklogIsCompleted`, `ElegantStops`,
`HaltEndsLoop`, `WaitsReturn`, `BenchmarksEnd`). And the benchmarks:
`RoundsAreExact` is about sums over all events of a round and `StatisticsAreTrue`
about sorted samples, both of which need induction over data, and
`TailOutcomeIsComplete` counts the samples that a fold over the command line and
the load levels has planned. `RoundsAreExact` leaves out rounds so long that
`2n(n-1)` reaches `Modulus`, where the expected checksum of `unicast_breakdown`
wraps before it is halved.
`TerminalIsNotTransient` of the single producer is proved only; `multi_safety`
checks its namesake in `MultiPipeline`.

## 5. Not modelled

- Traits, factories, adapters, exception-handler objects and logging have no
  state of their own; what they return is a choice of the calling action.
- The claim lock inside the checked single-producer sequencer, which refuses a
  second caller: the Builder's producer holds the unique capability and the DSL
  its own lock, so neither meets it.
- The blocking strategy's own alert flag, which only tests set.
- Gating sequences added after the first publish: neither the Builder, the DSL
  nor the poller's constructor does so.
- Of the benchmarks: report rendering, git provenance, sample files, clocks and
  derived statistics such as means and deviations.
- Weak memory: see the abstractions.

## 6. Disagreements between code and comments

1. **`dsl_hang`** A second `start()` returns before the handlers' `on_start`:
   `startup_complete` still holds from the first run when `start()` polls it
   (`disruptor.rs:369`; reset at `event_processor.rs:329`). A halt right after it
   may precede the thread's CAS on `running`: that of a `halt()` or `shutdown()`,
   or, as in TLC's trace, that of the second `start()` itself, which finds the
   pipeline poisoned (`disruptor.rs:379`). The CAS and `clear_alert` undo it, and
   the join never ends (`event_processor.rs:321-332`). Until the second start every call returns
   (`FirstCallsReturn`).
2. **`dsl_twice`** Calling `handle_events_with` twice builds two mutable
   processors that both gate on the cursor and hold one slot at once, against the
   SAFETY comment at `disruptor.rs:299-302`. In a chain built with `then` the
   windows are disjoint (`WindowsAreExclusive` in `dsl`).
3. **`multi_ownership`** After `into_producer` no sequence gates the producers,
   and two of them can own one slot (`builder/core.rs:117`, `producer.rs:608`).
4. **`bench_race`** The last stage of `pipeline_breakdown` adds to the count
   before the checksum (`bin/pipeline_breakdown.rs:472-475`), and main reads the
   checksum when the count is complete (830-832), before the shutdown: a correct
   round can be reported as invalid.

Smaller ones without a run of their own: `start()` is documented to return an
error "if starting fails" (`disruptor.rs:336`) but panics when a thread cannot be
spawned (367); a claim past its closed check still
moves the cursor after `close()` (`sequencer.rs:1489,1523`), against
`builder/core.rs:137`, and the drain reaches the target it read, not the final
cursor (`DrainReachesItsTarget`); `pin_at_core` is documented as best-effort
(`builder/fluent.rs:137`) but a failing pin poisons the pipeline
(`builder/consumer.rs:145`); in `h2h_tail_latency` an injected pause together with
an explicit rate always ends in an error (`bin/h2h_tail_latency.rs:1630`), and
pauses are matched by position with the load levels that remain (2231).
