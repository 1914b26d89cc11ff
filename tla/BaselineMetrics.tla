-------------------------- MODULE BaselineMetrics --------------------------
(***************************************************************************)
(* src/bin/baseline_metrics.rs: ten scenarios in a row after a discarded   *)
(* warm-up.  A row tells whether the counter reached its target in time;   *)
(* nothing else is validated, and main ends with 0 whatever the rows say.  *)
(* A worker pool is seen as one stage: each event is handled once, by one  *)
(* of the workers (WorkPool), and they all add to the same counter.        *)
(***************************************************************************)
EXTENDS BenchRing

Options == [events |-> Nat, buffer |-> Nat]

\* A value that is missing or does not parse leaves the option as it was, and
\* an unknown argument is skipped.
parse_args ==
    FoldLeft(LAMBDA seen, word :
                 IF word[1] \in DOMAIN Options /\ word[2] \in Options[word[1]]
                 THEN [seen EXCEPT ![word[1]] = word[2]] ELSE seen,
             [events |-> Default.events, buffer |-> Default.small_buffer], line)

Greater(a, b) == IF a > b THEN a ELSE b

\* A scenario builds, publishes, waits for the counter, shuts down and returns its
\* row: those are the steps of the main thread below.
Row(scenario, total, size, threads, chunk, stages) ==
    [phase |-> scenario, warm |-> FALSE, total |-> total, size |-> size,
     threads |-> threads, chunk |-> chunk, stages |-> stages]

spsc(events, buffer)              == Row("spsc", events, buffer, 1, 1, 1)
spsc_batch(events, buffer, batch) == Row("spsc_batch", events, buffer, 1, batch, 1)
mpsc(events, buffer, producers) ==
    Row("mpsc", producers * (events \div producers), Greater(buffer, Default.mpsc_buffer),
        producers, 1, 1)
worker_pool(events, buffer) == Row("worker_pool", events, buffer, 1, 1, 1)
pipeline2(events, buffer)   == Row("pipeline2", events, buffer, 1, 1, 2)
pipeline3(events, buffer)   == Row("pipeline3", events, buffer, 1, 1, 3)

rows(events, buffer) ==
    <<[spsc(Default.events, buffer) EXCEPT !.warm = TRUE],
      spsc(events, buffer), spsc(events, buffer),
      spsc_batch(events, buffer, Default.batch), spsc_batch(events, buffer, Default.large_batch),
      mpsc(events, buffer, 2), mpsc(events, buffer, 4),
      worker_pool(events, buffer), worker_pool(events, buffer),
      pipeline2(events, buffer), pipeline3(events \div 2, buffer)>>

Begin ==
    Accept([status |-> "ok"], TRUE, parse_args, rows(parse_args.events, parse_args.buffer), "round")

\* build() panics on a ring size that is not a power of two.
BuildPanics ==
    /\ main = "round" /\ Len(records) < Len(plan) /\ R.size \notin PowersOfTwo
    /\ Exit(101)
    /\ UNCHANGED <<cfg, plan, records, summary, roundVars, affinity_failed>>

Build ==
    /\ main = "round" /\ Len(records) < Len(plan) /\ R.size \in PowersOfTwo
    /\ BuildRound("go")

\* A stage before the last adds one to the value, the last one only counts.
on_event(k) ==
    /\ Handling(k)
    /\ IF k < R.stages
       THEN Handled(k, [ring[Slot(k)] EXCEPT !.value = @ + 1], local, report)
       ELSE Handled(k, ring[Slot(k)], local, <<<<"processed", processed + 1>>>>)

ConsumerStep(k) == OnStart(k, FALSE) \/ TakeBatch(k) \/ on_event(k) \/ Commit(k)

populate == [e \in Events, v \in Values |-> [e EXCEPT !.value = v]]

Go         == main = "go" /\ StartProducers("publish")
Publish(p) == main = "publish" /\ PublishChunk(p, populate)
Published  == main = "publish" /\ AllPublished /\ MainGoes("wait")

wait_count(counter, target) ==
    /\ main = "wait"
    /\ IF counter >= target THEN MainGoes("stop_valid") ELSE MainGoes("stop_invalid")

AwaitCounter == wait_count(processed, R.total)

PushRow ==
    /\ main \in {"stop_valid", "stop_invalid"} /\ Drained /\ report = <<>>
    /\ PushRecord(main = "stop_valid", 0)

\* The tables are written to three files; a failure panics.
WriteTables ==
    /\ main = "round" /\ Len(records) = Len(plan)
    /\ Exit(0) \/ Exit(101)
    /\ UNCHANGED <<cfg, plan, records, summary, roundVars, affinity_failed>>

MainStep ==
    \/ Begin \/ BuildPanics \/ Build \/ Go \/ Published \/ AwaitCounter \/ PushRow \/ WriteTables
=============================================================================
