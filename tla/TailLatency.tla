---------------------------- MODULE TailLatency ----------------------------
(***************************************************************************)
(* src/bin/h2h_tail_latency.rs: latency percentiles under open-loop load.  *)
(* Main measures the maximum rate unless it is told one, runs every load   *)
(* level on a ring of its own and judges what the handler collected.       *)
(*                                                                         *)
(* Clocks are abstracted: the latency of a sample is any of Latencies, and *)
(* whether a run kept its rate, and whether an injected pause showed in    *)
(* the percentiles as it should, is chosen.                                *)
(***************************************************************************)
EXTENDS BenchRing

CONSTANTS
    Latencies,   \* bound: the latency_ns of a sample
    Rates        \* bound: the maximum rate that a calibration may measure

VARIABLE handler \* the LatencyHandler with its workload, and the loads measured so far

tailVars == <<benchVars, handler>>

FreshHandler(window, loads) ==
    [samples |-> <<>>, retention |-> [i \in 1 .. window |-> Unset], next |-> 1,
     allocations |-> 0, deallocations |-> 0, injected |-> FALSE, observation |-> Unset,
     loads |-> loads]

TailInit == handler = FreshHandler(0, <<>>)

-----------------------------------------------------------------------------
(* The command line.                                                       *)

parse_cpu_list(list)         == IsInjective(list)
parse_duration_us_list(list) == list # <<>> /\ \A i \in DOMAIN list : list[i] # 0

Options ==
    [handler_mode |-> {"allocation-free", "allocating"}, retention_window |-> Nat,
     wait |-> {"busy-spin", "yielding"}, pad |-> {"none", "128"}, buffer |-> Nat,
     events |-> Nat, warmup |-> Nat, rate |-> Nat, load_levels |-> Seq(Nat),
     calibration_events |-> Nat, calibration_duration |-> Nat, calibrate_only |-> {TRUE},
     max_rate |-> Nat, own_max |-> Nat, cpus |-> {l \in Seq(Nat) : parse_cpu_list(l)},
     output |-> {"file"}, samples_output |-> {"file"},
     inject_sleeps |-> {l \in Seq(Nat) : parse_duration_us_list(l)},
     inject_at_measured_pct |-> Nat, quick |-> {TRUE}]

ParseOptions ==
    ParseLoop(Options,
        [handler_mode |-> "allocation-free", retention_window |-> Unset, wait |-> "busy-spin",
         pad |-> "none", buffer |-> Default.buffer, events |-> Default.events,
         warmup |-> Default.warmup, rate |-> Unset, load_levels |-> Default.load_levels,
         calibration_events |-> Default.calibration_events, calibration_duration |-> 1,
         calibrate_only |-> FALSE, max_rate |-> Unset, own_max |-> Unset, cpus |-> <<>>,
         output |-> Unset, samples_output |-> Unset, inject_sleeps |-> <<>>,
         inject_at_measured_pct |-> 25, quick |-> FALSE])

\* --quick caps even what was given.
Resolved(c) ==
    IF ~c.quick THEN c
    ELSE [c EXCEPT !.events = Lesser(@, Default.quick), !.warmup = Lesser(@, Default.quick_warmup),
                   !.calibration_events = Lesser(@, Default.quick_calibration)]

\* Mutant of measured_window_covers_retention: any window will do.
measured_window_any(recorded_samples, window) == TRUE

measured_window_covers_retention(recorded_samples, window) == recorded_samples >= window

ValidWorkload(c) ==
    IF c.handler_mode = "allocation-free" THEN c.retention_window = Unset
    ELSE /\ c.retention_window \notin {Unset, 0}
         /\ ~c.calibrate_only =>
                measured_window_covers_retention(c.events - c.warmup, c.retention_window)

Positive(rate) == rate # 0

\* parse_args, after the loop.
Accepted(c) ==
    /\ c.events # 0 /\ c.buffer \in PowersOfTwo
    /\ ~c.calibrate_only => /\ c.warmup < c.events
                            /\ c.events - c.warmup >= Default.min_samples
    /\ c.calibration_duration # 0 /\ c.calibration_events # 0
    /\ c.inject_at_measured_pct \in 1 .. 99
    /\ Positive(c.rate) /\ Positive(c.max_rate) /\ Positive(c.own_max)
    /\ \A i \in DOMAIN c.load_levels : c.load_levels[i] \in 1 .. 100
    /\ c.cpus # <<>> => Len(c.cpus) >= 2
    /\ ValidWorkload(c)
    /\ ~c.calibrate_only /\ c.rate = Unset => c.load_levels # <<>>
    /\ ~c.calibrate_only => c.samples_output # Unset
    /\ c.calibrate_only => /\ <<c.rate, c.max_rate, c.own_max>> = <<Unset, Unset, Unset>>
                           /\ c.inject_sleeps = <<>> /\ c.samples_output = Unset
    /\ c.inject_sleeps # <<>> =>
           Len(c.inject_sleeps) = IF c.rate # Unset THEN 1 ELSE Len(c.load_levels)

Window(c) == IF c.retention_window = Unset THEN 0 ELSE c.retention_window

calibration_warmup_events(c) == IF c.warmup > Window(c) THEN c.warmup ELSE Window(c)

Round(c, phase, warmup, total) ==
    [phase |-> phase, warm |-> FALSE, warmup |-> warmup, total |-> total, size |-> c.buffer,
     threads |-> 1, chunk |-> 1, stages |-> 1]

\* CalibrationHandler gets a round of its own.
Calibration(c) ==
    Round(c, "calibration", calibration_warmup_events(c),
          calibration_warmup_events(c) + c.calibration_events)

CommonMax(c) == IF c.max_rate # Unset THEN c.max_rate ELSE c.rate

Begin ==
    LET parsed   == ParseOptions
        resolved == Resolved(parsed.cfg)
        accepted == parsed.status = "ok" /\ Accepted(resolved)
    IN /\ \/ PrintHelp(parsed)
          \/ Refuse(parsed, accepted, 2)
          \/ \E provenance_valid \in BOOLEAN :
                IF CommonMax(resolved) = Unset
                THEN Accept(parsed, accepted,
                            resolved @@ [provenance_valid |-> provenance_valid,
                                         common_max |-> Unset],
                            <<Calibration(resolved)>>, "round")
                ELSE Accept(parsed, accepted,
                            resolved @@ [provenance_valid |-> provenance_valid,
                                         common_max |-> CommonMax(resolved)],
                            <<>>, "targets")
       /\ UNCHANGED handler

-----------------------------------------------------------------------------
(* The handlers.                                                           *)

Pinned      == cfg.cpus # <<>>
Calibrating == R.phase = "calibration"

\* AllocatingWorkload::apply: the new payload takes the oldest one's place, and
\* both the allocation and the release count while tracking is on.
apply(h, sequence, track) ==
    IF h.retention = <<>> THEN h
    ELSE [h EXCEPT !.retention[h.next] = sequence,
                   !.next = (h.next % Len(h.retention)) + 1,
                   !.allocations = IF track THEN @ + 1 ELSE @,
                   !.deallocations = IF track /\ h.retention[h.next] # Unset THEN @ + 1 ELSE @]

\* CalibrationHandler tells main its progress at the end of a batch.
CalibrationHandler(k) ==
    LET sequence == stage[k].next
    IN /\ Handled(k, ring[Slot(k)], local,
                  IF EndOfBatch(k) THEN <<<<"processed", sequence + 1>>>> ELSE <<>>)
       /\ handler' = apply(handler, sequence, sequence >= R.warmup)

inject_sequence == R.warmup + ((R.total - R.warmup) * cfg.inject_at_measured_pct) \div 100

\* The pause is taken once, at its sequence, if one is configured.
take_injection(h, sequence) ==
    IF R.inject # Unset /\ ~h.injected /\ sequence = inject_sequence
    THEN [h EXCEPT !.injected = TRUE, !.observation = sequence] ELSE h

\* LatencyHandler::on_event: pause, work, take the sample, and at the final
\* sequence tell main.
LatencyHandler(k) ==
    LET sequence == stage[k].next
        worked   == apply(take_injection(handler, sequence), sequence, sequence >= R.warmup)
    IN /\ Handled(k, ring[Slot(k)], local,
                  IF sequence = R.total - 1 THEN <<<<"processed", sequence + 1>>>> ELSE <<>>)
       /\ \/ sequence < R.warmup /\ handler' = worked
          \/ /\ sequence >= R.warmup
             /\ \E latency \in Latencies :
                  handler' = [worked EXCEPT !.samples =
                                 Append(@, [sequence |-> sequence, latency |-> latency])]

ConsumerStep(k) ==
    \/ (OnStart(k, Pinned) \/ TakeBatch(k) \/ Commit(k)) /\ UNCHANGED handler
    \/ Handling(k) /\ IF Calibrating THEN CalibrationHandler(k) ELSE LatencyHandler(k)

-----------------------------------------------------------------------------
(* A round, of calibration or of load.                                     *)

Build ==
    BuildRound("ready") /\ handler' = FreshHandler(Window(cfg), handler.loads)

wait_count(place, counter, target, then) ==
    /\ main = place
    /\ IF counter >= target THEN MainGoes(then) ELSE MainGoes("failing")

AwaitReady == wait_count("ready", ready, 1, "affinity") /\ UNCHANGED handler

\* The consumer's flag is looked at, then main pins itself and looks again.
pin_current_thread ==
    /\ main = "affinity"
    /\ IF affinity_failed THEN MainGoes("failing")
       ELSE \/ StartProducers(IF Calibrating THEN "warm" ELSE "anchor")
            \/ /\ Pinned /\ affinity_failed' = TRUE /\ main' = "failing"
               /\ UNCHANGED <<mainVars, roundVars>>
    /\ UNCHANGED handler

\* The wall clock may be unusable; the error drops the handle.
ClockAnchor ==
    main = "anchor" /\ (MainGoes("publish") \/ MainGoes("dropping")) /\ UNCHANGED handler

populate == [e \in Events, v \in Values |-> Event(v)]

\* run_load_with_workload publishes every event at its time.
PublishScheduled ==
    /\ main = "publish"
    /\ PublishChunk(1, populate) \/ (AllPublished /\ MainGoes("wait"))
    /\ UNCHANGED handler

AwaitProcessed == wait_count("wait", processed, R.total, "shutdown") /\ UNCHANGED handler

\* calibrate_max_rate_with_workload: publish the warm-up and wait for it, then
\* publish until the events or the time are used up, and wait for what was sent.
CalibrationWarmup ==
    /\ \/ main = "warm" /\ producer[1].next < R.warmup /\ PublishChunk(1, populate)
       \/ main = "warm" /\ producer[1].next = R.warmup /\ MainGoes("warmed")
       \/ wait_count("warmed", processed, R.warmup, "measure")
    /\ UNCHANGED handler

Calibrate ==
    /\ \/ main = "measure" /\ PublishChunk(1, populate)
       \/ main = "measure" /\ MainGoes("sent")
       \/ wait_count("sent", processed, producer[1].next, "calibrated")
    /\ UNCHANGED handler

Failed(places, stopped) ==
    /\ main \in places /\ stopped /\ Exit(1)
    /\ UNCHANGED <<cfg, plan, records, summary, roundVars, affinity_failed, handler>>

\* A wait that timed out, or a thread that was not pinned: shut down, then leave.
FailAfterShutdown == Failed({"failing"}, Drained)

DropHandle ==
    Failed({"dropping"}, report = <<>> /\ \A k \in DOMAIN stage : stage[k].at = "wait")

\* The calibration has shut down: its rate, or an error when no time has passed.
EndCalibration ==
    /\ main = "calibrated" /\ Drained
    /\ \/ \E rate \in Rates :
            /\ cfg' = [cfg EXCEPT !.common_max = rate] /\ plan' = <<>>
            /\ main' = IF cfg.calibrate_only THEN "write" ELSE "targets"
            /\ UNCHANGED code
       \/ Exit(1) /\ UNCHANGED <<cfg, plan>>
    /\ RoundOver
    /\ UNCHANGED <<records, summary, affinity_failed, handler>>

-----------------------------------------------------------------------------
(* The loads and their verdicts.                                           *)

Rounded(max, pct) == (2 * max * pct + 100) \div 200

\* A level that rounds to no events per second is left out, and the pauses are
\* dealt out by position in what is left.
Targets ==
    LET levels  == [i \in DOMAIN cfg.load_levels |->
                       [pct |-> cfg.load_levels[i],
                        rate |-> Rounded(cfg.common_max, cfg.load_levels[i])]]
        targets == IF cfg.rate # Unset THEN <<[pct |-> 0, rate |-> cfg.rate]>>
                   ELSE SelectSeq(levels, LAMBDA t : t.rate > 0)
    IN [i \in DOMAIN targets |->
           Round(cfg, "load", cfg.warmup, cfg.events) @@
           [pct |-> targets[i].pct, rate |-> targets[i].rate,
            inject |-> IF i \in DOMAIN cfg.inject_sleeps THEN cfg.inject_sleeps[i] ELSE Unset]]

PlanLoads ==
    /\ main = "targets"
    /\ IF Targets = <<>> THEN Exit(2) /\ UNCHANGED plan
       ELSE plan' = Targets /\ main' = "round" /\ UNCHANGED code
    /\ UNCHANGED <<cfg, records, summary, roundVars, affinity_failed, handler>>

\* Mutant of percentile_basis_points: the rank is rounded down.
percentile_floor(sorted, basis_points) ==
    LET rank == (Len(sorted) * basis_points) \div 10000
    IN IF sorted = <<>> THEN 0 ELSE sorted[IF rank = 0 THEN 1 ELSE rank]

percentile_basis_points(sorted, basis_points) ==
    LET rank == (Len(sorted) * basis_points + 9999) \div 10000
    IN IF sorted = <<>> THEN 0 ELSE sorted[Lesser(rank, Len(sorted))]

compute_stats(samples) ==
    LET sorted == Sorted([i \in DOMAIN samples |-> samples[i].latency])
    IN [p |-> [bp \in {5000, 9900, 9990, 9999} |-> percentile_basis_points(sorted, bp)],
        max |-> IF sorted = <<>> THEN 0 ELSE sorted[Len(sorted)],
        min |-> IF sorted = <<>> THEN 0 ELSE sorted[1]]

Retained(h) == Cardinality({i \in DOMAIN h.retention : h.retention[i] # Unset})

workload_valid ==
    IF cfg.handler_mode = "allocation-free"
    THEN handler.allocations = 0 /\ handler.deallocations = 0 /\ Retained(handler) = 0
    ELSE /\ handler.allocations = R.total - R.warmup
         /\ handler.deallocations = R.total - calibration_warmup_events(cfg)
         /\ Retained(handler) = cfg.retention_window

\* validate_injected_pause refuses a pause the clock has not seen pass, and a
\* load at the common maximum, in which the backlog of a pause would never drain.
PauseRefused(zero) ==
    R.inject # Unset /\ (handler.observation = Unset \/ zero \/ R.rate >= cfg.common_max)

\* The end of run_load_with_workload, after the shutdown.
Judge ==
    /\ main = "shutdown" /\ Drained
    /\ \/ /\ Len(handler.samples) # R.total - R.warmup \/ (\E zero \in BOOLEAN : PauseRefused(zero))
          /\ Exit(1)
          /\ UNCHANGED <<cfg, plan, records, summary, roundVars, affinity_failed, handler>>
       \/ /\ Len(handler.samples) = R.total - R.warmup /\ ~PauseRefused(FALSE)
          /\ handler' = [handler EXCEPT !.loads =
                 Append(@, [samples |-> handler.samples, stats |-> compute_stats(handler.samples),
                            workload_valid |-> workload_valid, inject |-> R.inject,
                            observation |-> handler.observation])]
          /\ \E rate_valid \in BOOLEAN, pause_valid \in (IF R.inject = Unset THEN {TRUE} ELSE BOOLEAN) :
                PushRecord(rate_valid /\ workload_valid /\ pause_valid /\ cfg.provenance_valid, 0)

AllRun == main = "round" /\ Len(records) = Len(plan) /\ plan # <<>>

\* The samples and the result are written; a calibration writes only the latter.
Write ==
    /\ AllRun \/ main = "write"
    /\ \/ (cfg.output # Unset \/ ~cfg.calibrate_only) /\ Exit(1)
       \/ Exit(IF cfg.provenance_valid /\ AllValid(records) THEN 0 ELSE 3)
    /\ UNCHANGED <<cfg, plan, records, summary, roundVars, affinity_failed, handler>>

MainStep ==
    \/ Begin \/ Build \/ AwaitReady \/ pin_current_thread \/ ClockAnchor
    \/ PublishScheduled \/ AwaitProcessed \/ CalibrationWarmup \/ Calibrate
    \/ FailAfterShutdown \/ DropHandle \/ EndCalibration \/ PlanLoads \/ Judge \/ Write
=============================================================================
