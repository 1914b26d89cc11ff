------------------------------ MODULE H2hRust ------------------------------
(***************************************************************************)
(* src/bin/h2h_rust.rs: the head-to-head throughput harness.  One scenario *)
(* per process, warm-up rounds before measured ones; the last stage stores *)
(* its checksum and the count at the final sequence, main waits for the    *)
(* count, shuts the pipeline down and only then reads the checksum.        *)
(***************************************************************************)
EXTENDS BenchRing

Scenarios      == {"unicast", "unicast_batch", "mpsc_batch", "pipeline"}
HandlerModes   == {"value", "r", "w1", "w3", "sb"}
MPSC_PRODUCERS == 3

\* The sum of 0 .. n - 1, exact in 128 bits and then cut to 64.
arithmetic_checksum(n) == ((n * (n - 1)) \div 2) % Modulus

\* The sum of v + 11, wrapping at every step.
pipeline_checksum(n) ==
    FoldLeft(LAMBDA sum, v : (sum + v + 11) % Modulus, 0, [i \in 1 .. n |-> i - 1])

default_buffer(scenario) ==
    IF scenario = "pipeline" THEN Default.small_buffer ELSE Default.buffer

default_events(scenario, quick) ==
    CASE scenario = "mpsc_batch" -> IF quick THEN Default.quick_mpsc ELSE Default.mpsc_events
      [] OTHER                   -> IF quick THEN Default.quick ELSE Default.events

default_batch(scenario) ==
    IF scenario \in {"unicast", "pipeline"} THEN 1 ELSE Default.batch

\* An empty list pins nothing; a list names a core once.
parse_cpu_list(list) == IsInjective(list)

Options ==
    [scenario |-> Scenarios, wait |-> {"busy-spin", "yielding"}, pad |-> {"none", "128"},
     buffer |-> Nat, events |-> Nat, batch |-> Nat, warmup |-> Nat, measured |-> Nat,
     handler_mode |-> HandlerModes, output |-> {"file"},
     quick |-> {TRUE}, diagnostics |-> {TRUE},
     cpus |-> {l \in Seq(Nat) : parse_cpu_list(l)}]

parse_args ==
    ParseLoop(Options,
        [scenario |-> Unset, wait |-> Unset, pad |-> "none", buffer |-> Unset,
         events |-> Unset, batch |-> Unset, warmup |-> Default.warmup,
         measured |-> Default.measured, handler_mode |-> "value", output |-> Unset,
         quick |-> FALSE, diagnostics |-> FALSE, cpus |-> <<>>])

Or(value, default) == IF value = Unset THEN default ELSE value

\* The defaults that depend on the scenario, and --quick's fewer rounds.
Resolved(c) ==
    [c EXCEPT !.buffer   = Or(@, default_buffer(c.scenario)),
              !.events   = Or(@, default_events(c.scenario, c.quick)),
              !.batch    = Or(@, default_batch(c.scenario)),
              !.warmup   = IF c.quick THEN Lesser(@, 1) ELSE @,
              !.measured = IF c.quick THEN Lesser(@, 2) ELSE @]

required_cpus(scenario) == IF scenario \in {"unicast", "unicast_batch"} THEN 2 ELSE 4

\* Accepted: the checks of parse_args.  No check relates the batch to the ring.
Accepted(c) ==
    /\ c.scenario # Unset
    /\ LET r == Resolved(c)
       IN /\ r.buffer \in PowersOfTwo
          /\ c.measured # 0 /\ r.batch # 0 /\ r.events # 0
          /\ r.scenario = "mpsc_batch" => /\ r.events % MPSC_PRODUCERS = 0
                                          /\ r.pad = "none"
          /\ r.handler_mode # "value" => r.scenario = "unicast"
          /\ r.cpus # <<>> => Len(r.cpus) >= required_cpus(r.scenario)

\* A scenario builds a ring, waits for its threads, publishes, waits for the count,
\* shuts down and records: those are the steps of the main thread below.  What
\* tells the scenarios apart is the shape of their rounds.
Rounds(c, shape) ==
    [i \in 1 .. c.warmup + c.measured |->
        [phase |-> c.scenario, warm |-> i <= c.warmup, total |-> c.events,
         size |-> c.buffer] @@ shape]

run_unicast_w(c) ==
    Rounds(c, [stages |-> 1, threads |-> 1,
               chunk |-> IF c.scenario = "unicast_batch" THEN c.batch ELSE 1,
               expected |-> IF c.handler_mode = "value" THEN arithmetic_checksum(c.events)
                            ELSE pipeline_checksum(c.events)])

run_mpsc_batch_w(c) ==
    Rounds(c, [stages |-> 1, threads |-> MPSC_PRODUCERS, chunk |-> c.batch,
               expected |-> arithmetic_checksum(c.events)])

run_pipeline_w(c) ==
    Rounds(c, [stages |-> 3, threads |-> 1, chunk |-> 1,
               expected |-> pipeline_checksum(c.events)])

Plan(c) == CASE c.scenario \in {"unicast", "unicast_batch"} -> run_unicast_w(c)
             [] c.scenario = "mpsc_batch"                   -> run_mpsc_batch_w(c)
             [] c.scenario = "pipeline"                     -> run_pipeline_w(c)

Begin ==
    LET parsed   == parse_args
        accepted == parsed.status = "ok" /\ Accepted(parsed.cfg)
    IN \/ PrintHelp(parsed)
       \/ Refuse(parsed, accepted, 2)
       \/ Accept(parsed, accepted, Resolved(parsed.cfg), Plan(Resolved(parsed.cfg)), "pin")

-----------------------------------------------------------------------------
(* The handlers.                                                           *)

Pinned == cfg.cpus # <<>>

\* pin_current_thread sets a flag that main looks at; the thread goes on.
pin_current_thread ==
    \/ UNCHANGED affinity_failed
    \/ Pinned /\ affinity_failed' = TRUE

on_start(k) == OnStart(k, Pinned)

\* complete_if_final: nothing is told before the last event of the round.
complete_if_final(k, sum) ==
    IF stage[k].next = R.total - 1
    THEN <<<<"checksum", sum>>, <<"processed", R.total>>>>
    ELSE <<>>

\* TerminalHandler: what it adds up, and what it writes back into the slot.
TerminalValue(e) ==
    IF R.phase = "pipeline" THEN e.stage2_value + 7
    ELSE IF cfg.handler_mode = "value" THEN e.value ELSE e.value + 1 + 3 + 7

TerminalWrites(e) ==
    CASE R.phase = "pipeline"               -> [e EXCEPT !.stage3_value = e.stage2_value + 7]
      [] cfg.handler_mode = "w1"            -> [e EXCEPT !.stage3_value = e.value + 11]
      [] cfg.handler_mode = "w3"            -> [e EXCEPT !.stage1_value = e.value + 1,
                                                        !.stage2_value = e.value + 4,
                                                        !.stage3_value = e.value + 11]
      [] OTHER                              -> e

TerminalHandler(k) ==
    LET e   == ring[Slot(k)]
        sum == (local.sum + TerminalValue(e)) % Modulus
    IN Handled(k, TerminalWrites(e), [local EXCEPT !.sum = sum], complete_if_final(k, sum))

PipelineStageHandler(k) ==
    LET e == ring[Slot(k)]
    IN Handled(k, IF k = 1 THEN [e EXCEPT !.stage1_value = e.value + 1]
                           ELSE [e EXCEPT !.stage2_value = e.stage1_value + 3],
               local, report)

on_event(k) ==
    /\ Handling(k)
    /\ IF k = R.stages THEN TerminalHandler(k) ELSE PipelineStageHandler(k)

ConsumerStep(k) == on_start(k) \/ TakeBatch(k) \/ on_event(k) \/ Commit(k)

-----------------------------------------------------------------------------
(* The main thread.                                                        *)

\* main pins itself before the first round.
PinMain ==
    /\ main = "pin" /\ pin_current_thread
    /\ IF affinity_failed' THEN Exit(1) ELSE main' = "round" /\ UNCHANGED code
    /\ UNCHANGED <<cfg, plan, records, summary, roundVars>>

\* Mutant of wait_count: the deadline is never looked at.
wait_count_forever(place, counter, target, then, late) ==
    main = place /\ counter >= target /\ MainGoes(then)

wait_count(place, counter, target, then, late) ==
    /\ main = place
    /\ IF counter >= target THEN MainGoes(then) ELSE MainGoes(late)

AwaitReady == wait_count("ready", ready, R.stages, "affinity", "failing")

\* After a wait for threads main looks at their flag.  With several producers
\* it then spawns them and waits again.
CheckAffinity ==
    /\ main = "affinity"
    /\ IF affinity_failed THEN MainGoes("failing")
       ELSE IF R.threads = 1 THEN StartProducers("publish") ELSE MainGoes("spawned")

\* A producer thread pins itself, reports and spins on the start flag.
ProducerReady(p) ==
    /\ main \in {"spawned", "failing", "producers"} /\ R.threads > 1
    /\ producer[p].at = "new" /\ producer' = [producer EXCEPT ![p].at = "spin"]
    /\ pin_current_thread
    /\ UNCHANGED <<main, mainVars, ring, cursor, stage, ready, processed, checksum, local, report>>

producers_ready == Cardinality({p \in DOMAIN producer : producer[p].at # "new"})

AwaitProducers == wait_count("spawned", producers_ready, MPSC_PRODUCERS, "producers", "failing")

RaiseStartFlag ==
    /\ main = "producers"
    /\ IF affinity_failed THEN MainGoes("failing") ELSE StartProducers("publish")

populate == [e \in Events, v \in Values |-> Event(v)]

Publish(p) == PublishChunk(p, populate)

\* The publishing loop, or the joins, end.
Published == main = "publish" /\ AllPublished /\ MainGoes("wait")

AwaitProcessed == wait_count("wait", processed, R.total, "shutdown", "failing")

\* Every error path shuts the handle down first.
FailAfterShutdown ==
    /\ main = "failing" /\ Drained /\ Exit(1)
    /\ UNCHANGED <<cfg, plan, records, summary, roundVars, affinity_failed>>

\* A probe sends its sums when its stage shuts down.
collect_round_diagnostics == cfg.diagnostics => \A k \in DOMAIN stage : stage[k].seen = R.total

Record ==
    /\ main = "shutdown" /\ Drained
    /\ IF collect_round_diagnostics
       THEN \E speed \in Speeds : PushRecord(checksum = R.expected, speed)
       ELSE Exit(1) /\ UNCHANGED <<cfg, plan, records, summary, roundVars, affinity_failed>>

summarize(rounds) ==
    [p \in {cfg.scenario} |->
        SummaryOf(AllValid(rounds),
                  Sorted(SpeedsOf(SubSeq(rounds, cfg.warmup + 1, Len(rounds)))))]

Finish ==
    /\ main = "round" /\ Len(records) = Len(plan)
    /\ summary' = summarize(records)
    /\ \/ cfg.output # Unset /\ Exit(1)                       \* the file cannot be written
       \/ Exit(IF summary'[cfg.scenario].valid_all THEN 0 ELSE 2)
    /\ UNCHANGED <<cfg, plan, records, roundVars, affinity_failed>>

MainStep ==
    \/ Begin \/ PinMain \/ BuildRound("ready") \/ AwaitReady \/ CheckAffinity
    \/ AwaitProducers \/ RaiseStartFlag \/ Published \/ AwaitProcessed
    \/ FailAfterShutdown \/ Record \/ Finish

ProducerStep(p) == Publish(p) \/ ProducerReady(p)
=============================================================================
