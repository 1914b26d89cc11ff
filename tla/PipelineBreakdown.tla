------------------------- MODULE PipelineBreakdown -------------------------
(***************************************************************************)
(* src/bin/pipeline_breakdown.rs: the same arithmetic on every event, by   *)
(* one, two or three stages.  The last stage adds its pending sums to      *)
(* main's counters at the end of a batch, the count before the checksum;   *)
(* main reads the checksum as soon as the count is complete.               *)
(***************************************************************************)
EXTENDS BenchRing

phases ==
    [mode \in {"all", "single-stage", "two-stage", "three-stage"} |->
        IF mode = "all" THEN <<"single-stage", "two-stage", "three-stage">> ELSE <<mode>>]

stage_count ==
    [phase \in {"single-stage", "two-stage", "three-stage"} |->
        CASE phase = "single-stage" -> 1
          [] phase = "two-stage"    -> 2
          [] phase = "three-stage"  -> 3]

Options ==
    [mode |-> DOMAIN phases, wait |-> {"busy-spin", "yielding"}, padding |-> {"none", "64"},
     events |-> Nat, buffer |-> Nat, warmup |-> Nat, measured |-> Nat, output |-> {"file"}]

from_args ==
    ParseLoop(Options,
        [mode |-> "all", wait |-> "yielding", padding |-> "none", events |-> Default.events,
         buffer |-> Default.small_buffer, warmup |-> Default.warmup,
         measured |-> Default.measured, output |-> Unset])

try_from(c) == c.events # 0 /\ c.buffer \in PowersOfTwo /\ c.measured # 0

\* Exact in 128 bits, then cut to 64.
arithmetic_checksum(count) == ((count * (count - 1)) \div 2) % Modulus

pipeline_checksum(count) == (arithmetic_checksum(count) + count * 11) % Modulus

run_phase(c, phase) ==
    [i \in 1 .. c.warmup + c.measured |->
        [phase |-> phase, warm |-> i <= c.warmup, total |-> c.events, size |-> c.buffer,
         threads |-> 1, chunk |-> 1, stages |-> stage_count[phase]]]

run_with_wait_strategy_typed(c) ==
    FlattenSeq([i \in DOMAIN phases[c.mode] |-> run_phase(c, phases[c.mode][i])])

Begin ==
    LET parsed   == from_args
        accepted == parsed.status = "ok" /\ try_from(parsed.cfg)
    IN \/ PrintHelp(parsed)
       \/ Refuse(parsed, accepted, 1)
       \/ Accept(parsed, accepted, parsed.cfg, run_with_wait_strategy_typed(parsed.cfg), "round")

-----------------------------------------------------------------------------
(* The handlers.                                                           *)

populate_input == [e \in Events, v \in Values |-> Event(v)]
apply_stage1(e)      == [e EXCEPT !.stage1_value = e.value + 1]
apply_stage2(e)      == [e EXCEPT !.stage2_value = e.stage1_value + 3]
apply_stage3(e)      == [e EXCEPT !.stage3_value = e.stage2_value + 7]

Stage1PassHandler(k) == Handled(k, apply_stage1(ring[Slot(k)]), local, report)
Stage2PassHandler(k) == Handled(k, apply_stage2(ring[Slot(k)]), local, report)

\* The fetch_adds of flush, in their order.
flush(pending) ==
    <<<<"processed", processed + pending.count>>,
      <<"checksum", (checksum + pending.sum) % Modulus>>>>

\* event: the slot after the stages that the handler applies.  The flush of
\* on_shutdown finds nothing pending, since a stop falls between two batches.
FinalHandler(k, event) ==
    LET pending == [sum |-> (local.sum + event.stage3_value) % Modulus,
                    count |-> local.count + 1]
    IN IF EndOfBatch(k) THEN Handled(k, event, [sum |-> 0, count |-> 0], flush(pending))
       ELSE Handled(k, event, pending, <<>>)

Stage123FinalHandler(k) ==
    FinalHandler(k, apply_stage3(apply_stage2(apply_stage1(ring[Slot(k)]))))
Stage23FinalHandler(k) == FinalHandler(k, apply_stage3(apply_stage2(ring[Slot(k)])))
Stage3FinalHandler(k)  == FinalHandler(k, apply_stage3(ring[Slot(k)]))

on_event(k) ==
    /\ Handling(k)
    /\ CASE k < R.stages /\ k = 1 -> Stage1PassHandler(k)
         [] k < R.stages /\ k = 2 -> Stage2PassHandler(k)
         [] k = R.stages /\ k = 1 -> Stage123FinalHandler(k)
         [] k = R.stages /\ k = 2 -> Stage23FinalHandler(k)
         [] k = R.stages /\ k = 3 -> Stage3FinalHandler(k)

ConsumerStep(k) == OnStart(k, FALSE) \/ TakeBatch(k) \/ on_event(k) \/ Commit(k)

-----------------------------------------------------------------------------
(* The main thread.                                                        *)

wait_for_counter(place, counter, expected, then) ==
    /\ main = place
    /\ IF counter >= expected THEN MainGoes(then) ELSE MainGoes("failing")

AwaitReady     == wait_for_counter("ready", ready, R.stages, "go")
Go             == main = "go" /\ StartProducers("publish")
Publish        == main = "publish" /\ PublishChunk(1, populate_input)
Published      == main = "publish" /\ AllPublished /\ MainGoes("wait")
AwaitProcessed == wait_for_counter("wait", processed, R.total, "read")

\* The record is made before the shutdown.
ReadCounters ==
    /\ main = "read"
    /\ IF processed = R.total /\ checksum = pipeline_checksum(R.total)
       THEN MainGoes("stop_valid") ELSE MainGoes("stop_invalid")

Record ==
    /\ main \in {"stop_valid", "stop_invalid"} /\ Drained /\ report = <<>>
    /\ \E speed \in Speeds : PushRecord(main = "stop_valid", speed)

\* The error drops the handle, whose bounded drain may end in an abrupt stop.
DropHandle ==
    /\ main = "failing" /\ report = <<>>
    /\ \A k \in DOMAIN stage : stage[k].at = "wait"
    /\ Exit(1)
    /\ UNCHANGED <<cfg, plan, records, summary, roundVars, affinity_failed>>

OfPhase(rounds, phase) == SelectSeq(rounds, LAMBDA r : r.phase = phase)

summarize_runs(runs) ==
    SummaryOf(AllValid(runs), Sorted(SpeedsOf(SelectSeq(runs, LAMBDA r : ~r.warm))))

\* The result is printed first; an invalid round then makes it an error.
run_main ==
    /\ main = "round" /\ Len(records) = Len(plan)
    /\ summary' = [phase \in ToSet(phases[cfg.mode]) |-> summarize_runs(OfPhase(records, phase))]
    /\ \/ cfg.output # Unset /\ Exit(1)
       \/ Exit(IF \A phase \in DOMAIN summary' : summary'[phase].valid_all THEN 0 ELSE 1)
    /\ UNCHANGED <<cfg, plan, records, roundVars, affinity_failed>>

MainStep ==
    \/ Begin \/ BuildRound("ready") \/ AwaitReady \/ Go \/ Publish \/ Published
    \/ AwaitProcessed \/ ReadCounters \/ Record \/ DropHandle \/ run_main
=============================================================================
