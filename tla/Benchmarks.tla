----------------------------- MODULE Benchmarks -----------------------------
(***************************************************************************)
(* The benchmark programs under src/bin together: one process runs one of  *)
(* them on one command line.                                               *)
(***************************************************************************)
EXTENDS TailLatency

H == INSTANCE H2hRust
U == INSTANCE UnicastBreakdown
P == INSTANCE PipelineBreakdown
B == INSTANCE BaselineMetrics

Programs == {"h2h_rust", "unicast_breakdown", "pipeline_breakdown", "baseline_metrics",
             "h2h_tail_latency"}

BenchmarksInit == program \in Programs /\ BenchInit /\ TailInit

MainThread ==
    /\ \/ program = "h2h_rust"           /\ H!MainStep /\ UNCHANGED handler
       \/ program = "unicast_breakdown"  /\ U!MainStep /\ UNCHANGED handler
       \/ program = "pipeline_breakdown" /\ P!MainStep /\ UNCHANGED handler
       \/ program = "baseline_metrics"   /\ B!MainStep /\ UNCHANGED handler
       \/ program = "h2h_tail_latency"   /\ MainStep
    /\ UNCHANGED <<program, line>>

ConsumerThread(k) ==
    /\ k \in DOMAIN stage /\ main # "exit"
    /\ \/ program = "h2h_rust"           /\ H!ConsumerStep(k) /\ UNCHANGED handler
       \/ program = "unicast_breakdown"  /\ U!ConsumerStep(k) /\ UNCHANGED handler
       \/ program = "pipeline_breakdown" /\ P!ConsumerStep(k) /\ UNCHANGED handler
       \/ program = "baseline_metrics"   /\ B!ConsumerStep(k) /\ UNCHANGED handler
       \/ program = "h2h_tail_latency"   /\ ConsumerStep(k)
       \/ k = R.stages                   /\ Report /\ UNCHANGED handler
    /\ UNCHANGED <<program, line>>

ProducerThread(p) ==
    /\ p \in DOMAIN producer /\ main # "exit"
    /\ \/ program = "h2h_rust"         /\ H!ProducerStep(p)
       \/ program = "baseline_metrics" /\ B!Publish(p)
    /\ UNCHANGED <<program, line, handler>>

BenchmarksNext ==
    \/ MainThread
    \/ \E k \in DOMAIN stage : ConsumerThread(k)
    \/ \E p \in DOMAIN producer : ProducerThread(p)

\* The operating system schedules every thread.  At most three stages and four producers.
BenchmarksSpec ==
    /\ BenchmarksInit /\ [][BenchmarksNext]_tailVars
    /\ WF_tailVars(MainThread)
    /\ \A k \in 1 .. 3 : WF_tailVars(ConsumerThread(k))
    /\ \A p \in 1 .. 4 : WF_tailVars(ProducerThread(p))

-----------------------------------------------------------------------------
\* The rounds that main has recorded tell the truth.  A round it calls valid has
\* had every event handled.  A round of h2h_rust is valid whatever the order in
\* which the last stage's writes and main's reads happened: complete_if_final
\* stores the checksum before the count, and main reads it after the shutdown.
\* So is a round of unicast_breakdown, whose consumer adds the checksum before
\* the count and whose phases without a consumer never wrap, as long as
\* n (n - 1) fits the accumulator.  And an exit code of 0 from a program that
\* validates its rounds means that each of them ran and was valid.
RoundsAreExact ==
    /\ \A i \in DOMAIN records :
         LET r == records[i]
         IN /\ r.valid => r.handled = r.total
            /\ program = "h2h_rust" => r.valid
            /\ program = "unicast_breakdown" /\ 2 * r.total * (r.total - 1) < Modulus => r.valid
    /\ code = 0 /\ cfg # Unset
       /\ program \in {"h2h_rust", "pipeline_breakdown", "h2h_tail_latency"} =>
           Len(records) = Len(plan) /\ \A i \in DOMAIN records : records[i].valid

\* The measured rounds of a phase: what the statistics are about.
Measured(phase) == {i \in DOMAIN records : records[i].phase = phase /\ ~records[i].warm}

\* A nearest-rank percentile: a sample that enough samples do not exceed, and
\* that no smaller sample could replace.
IsPercentile(samples, bp, v) ==
    LET Share(x) == Cardinality({i \in DOMAIN samples : samples[i].latency <= x}) * 10000
    IN /\ \E i \in DOMAIN samples : samples[i].latency = v
       /\ Share(v) >= bp * Len(samples)
       /\ \A i \in DOMAIN samples : samples[i].latency < v =>
             Share(samples[i].latency) < bp * Len(samples)

\* What summarize, summarize_runs and compute_stats report is what the words
\* say: the median has no more than half of the measured rounds on either side,
\* the extremes are the extremes of the measured rounds, valid_all speaks of the
\* warm-up rounds too; and p50 to p99.99 are nearest-rank percentiles.
StatisticsAreTrue ==
    /\ summary # Unset =>
         \A phase \in DOMAIN summary :
           LET s      == summary[phase]
               n      == Cardinality(Measured(phase))
               speeds == {records[i].speed : i \in Measured(phase)}
           IN /\ 2 * Cardinality({i \in Measured(phase) : 2 * records[i].speed < s.median2}) <= n
              /\ 2 * Cardinality({i \in Measured(phase) : 2 * records[i].speed > s.median2}) <= n
              /\ s.min = Min(speeds) /\ s.max = Max(speeds)
              /\ s.valid_all <=> \A i \in DOMAIN records :
                                    records[i].phase = phase => records[i].valid
    /\ \A i \in DOMAIN handler.loads :
         LET l == handler.loads[i]
         IN \A bp \in DOMAIN l.stats.p : IsPercentile(l.samples, bp, l.stats.p[bp])

\* A load of h2h_tail_latency that main judges has one sample for each measured
\* event, in order; its workload kept and released what the retention window
\* says, so that only the clock can invalidate it; and the pause was taken
\* exactly when one was asked for, at its sequence.
TailOutcomeIsComplete ==
    \A i \in DOMAIN handler.loads :
       LET l == handler.loads[i]
       IN /\ Len(l.samples) = cfg.events - cfg.warmup
          /\ \A j \in DOMAIN l.samples : l.samples[j].sequence = cfg.warmup + j - 1
          /\ l.workload_valid
          /\ l.inject = Unset <=> l.observation = Unset
          /\ l.observation # Unset => l.observation \in cfg.warmup .. cfg.events - 1

\* Every run of every program ends, whatever it was asked for: no publisher
\* waits for a slot for ever, and where a count is never reached, as when the
\* batches do not fit the ring and the refusals are ignored, the wait times out.
BenchmarksEnd == <>(main = "exit")

\* "one or more pipeline breakdown phases failed correctness validation" is said
\* of a phase whose events were lost or wrong; every round that runs to its end
\* is valid.
PhasesAreValid ==
    \A i \in DOMAIN records : program = "pipeline_breakdown" => records[i].valid
=============================================================================
