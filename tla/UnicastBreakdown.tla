-------------------------- MODULE UnicastBreakdown --------------------------
(***************************************************************************)
(* src/bin/unicast_breakdown.rs: the cost of one producer and one consumer *)
(* taken apart into phases.  Four phases run in the main thread alone, on  *)
(* a sequencer that nothing gates; the fifth drives a hand-written         *)
(* consumer thread, of which the program holds one copy per event layout.  *)
(***************************************************************************)
EXTENDS BenchRing

Layouts == {"minimal", "comparison", "comparison-padded64", "comparison-padded128"}

phases ==
    [mode \in {"all", "baseline", "claim-only", "claim-write", "claim-write-publish",
               "end-to-end"} |->
        IF mode = "all"
        THEN <<"baseline", "claim-only", "claim-write", "claim-write-publish", "end-to-end">>
        ELSE <<mode>>]

Options ==
    [mode |-> DOMAIN phases, wait |-> {"busy-spin", "yielding"}, event_layout |-> Layouts,
     events |-> Nat, buffer |-> Nat, allow_wrap |-> {TRUE}, warmup |-> Nat,
     measured |-> Nat, output |-> {"file"}]

from_args ==
    ParseLoop(Options,
        [mode |-> "all", wait |-> "yielding", event_layout |-> "minimal",
         events |-> Default.events, buffer |-> Unset, allow_wrap |-> FALSE,
         warmup |-> Default.warmup, measured |-> Default.measured, output |-> Unset])

next_power_of_two(n) == CHOOSE b \in PowersOfTwo : b >= n /\ \A o \in PowersOfTwo : o >= n => b <= o

Buffer(c) == IF c.buffer = Unset THEN next_power_of_two(c.events) ELSE c.buffer

try_from(c) ==
    /\ c.events # 0
    /\ c.event_layout # "minimal" => c.mode = "end-to-end"
    /\ c.measured # 0
    /\ Buffer(c) \in PowersOfTwo
    /\ Buffer(c) < c.events => c.allow_wrap /\ c.mode = "end-to-end"

\* Every phase runs all of its rounds, warm-up first, before the next phase.
run_phase(c, phase) ==
    [i \in 1 .. c.warmup + c.measured |->
        [phase |-> phase, warm |-> i <= c.warmup, total |-> c.events, size |-> Buffer(c),
         threads |-> 1, chunk |-> 1, stages |-> IF phase = "end-to-end" THEN 1 ELSE 0]]

run_breakdown(c) ==
    FlattenSeq([i \in DOMAIN phases[c.mode] |-> run_phase(c, phases[c.mode][i])])

Begin ==
    LET parsed   == from_args
        accepted == parsed.status = "ok" /\ try_from(parsed.cfg)
    IN \/ PrintHelp(parsed)
       \/ Refuse(parsed, accepted, 1)
       \/ Accept(parsed, accepted, parsed.cfg, run_breakdown(parsed.cfg), "round")

-----------------------------------------------------------------------------
(* The phases without a consumer.  Nothing else touches their ring.        *)

\* The value of a 64-bit word read as a signed number.
Signed(x) == LET r == x % Modulus IN IF 2 * r >= Modulus THEN r - Modulus ELSE r

Half(x) == IF x < 0 THEN -((-x) \div 2) ELSE x \div 2

\* (n - 1) * n wraps before it is halved.
arithmetic_checksum(n) == Half(Signed((n - 1) * n)) % Modulus

WrappingSum(values) == FoldLeft(LAMBDA sum, v : (sum + v) % Modulus, 0, values)

\* The claims of a sequencer without gating sequences never wait: value v goes
\* to sequence v, and the slot keeps the last value written to it.
WrittenRing(n, size) ==
    [i \in 0 .. size - 1 |->
        LET written == {v \in 0 .. n - 1 : v % size = i}
        IN IF written = {} THEN 0 ELSE Max(written)]

checksum_ring_buffer(buffer, n, size) ==
    WrappingSum([i \in 1 .. n |-> buffer[(i - 1) % size]])

RunAlone(phase, valid) ==
    /\ main = "round" /\ Len(records) < Len(plan) /\ R.phase = phase
    /\ \E speed \in Speeds : PushRecord(valid, speed)

run_baseline ==
    RunAlone("baseline",
             WrappingSum([i \in 1 .. R.total |-> i - 1]) = arithmetic_checksum(R.total))

run_claim_only ==
    LET last_sequence == FoldLeft(LAMBDA s, i : s + 1, -1, [i \in 1 .. R.total |-> i])
    IN RunAlone("claim-only", last_sequence = R.total - 1)

run_claim_write ==
    LET buffer == WrittenRing(R.total, R.size)
    IN RunAlone("claim-write",
                checksum_ring_buffer(buffer, R.total, R.size) = arithmetic_checksum(R.total))

run_claim_write_publish ==
    LET buffer    == WrittenRing(R.total, R.size)
        published == FoldLeft(LAMBDA s, i : s + 1, -1, [i \in 1 .. R.total |-> i])
    IN RunAlone("claim-write-publish",
                /\ checksum_ring_buffer(buffer, R.total, R.size) = arithmetic_checksum(R.total)
                /\ published = R.total - 1)

-----------------------------------------------------------------------------
(* The end-to-end phase.                                                   *)

Using(layout) == cfg # Unset /\ cfg.event_layout = layout

NewRuntime(layout) ==
    /\ main = "round" /\ Len(records) < Len(plan) /\ R.phase = "end-to-end"
    /\ Using(layout) /\ BuildRound("ready")

DirectConsumerRuntime            == NewRuntime("minimal")
DirectComparisonRuntime          == NewRuntime("comparison")
DirectPaddedComparisonRuntime    == NewRuntime("comparison-padded64")
DirectPadded128ComparisonRuntime == NewRuntime("comparison-padded128")

\* Mutant of SumEvent: the count is told before the checksum.
SumEventCountFirst(k) ==
    LET sums == [sum |-> (local.sum + ring[Slot(k)].value) % Modulus,
                 count |-> local.count + 1]
    IN /\ Handling(k)
       /\ IF EndOfBatch(k)
          THEN Handled(k, ring[Slot(k)], [sum |-> 0, count |-> 0],
                       <<<<"processed", processed + sums.count>>,
                         <<"checksum", (checksum + sums.sum) % Modulus>>>>)
          ELSE Handled(k, ring[Slot(k)], sums, <<>>)

\* The consumer thread sums a batch up and adds its sums to main's counters,
\* the checksum before the count, and then moves its sequence.
SumEvent(k) ==
    LET sums == [sum |-> (local.sum + ring[Slot(k)].value) % Modulus,
                 count |-> local.count + 1]
    IN /\ Handling(k)
       /\ IF EndOfBatch(k)
          THEN Handled(k, ring[Slot(k)], [sum |-> 0, count |-> 0],
                       <<<<"checksum", (checksum + sums.sum) % Modulus>>,
                         <<"processed", processed + sums.count>>>>)
          ELSE Handled(k, ring[Slot(k)], sums, <<>>)

\* An alert ends the thread once main has raised the flag.
Stopping == main \in {"stop_valid", "stop_invalid", "failing"}

LeaveLoop(k) ==
    /\ Stopping /\ stage[k].at = "wait"
    /\ stage' = [stage EXCEPT ![k].at = "gone"]
    /\ UNCHANGED <<main, mainVars, ring, cursor, producer, ready, processed, checksum, local,
                   report, affinity_failed>>

Consumer(k, layout) ==
    /\ Using(layout)
    /\ OnStart(k, FALSE) \/ TakeBatch(k) \/ SumEvent(k) \/ Commit(k) \/ LeaveLoop(k)

spawn_direct_consumer(k)                      == Consumer(k, "minimal")
spawn_direct_comparison_consumer(k)           == Consumer(k, "comparison")
spawn_direct_padded_comparison_consumer(k)    == Consumer(k, "comparison-padded64")
spawn_direct_padded128_comparison_consumer(k) == Consumer(k, "comparison-padded128")

ConsumerStep(k) ==
    \/ spawn_direct_consumer(k)
    \/ spawn_direct_comparison_consumer(k)
    \/ spawn_direct_padded_comparison_consumer(k)
    \/ spawn_direct_padded128_comparison_consumer(k)

wait_for_ready ==
    main = "ready" /\ IF ready > 0 THEN StartProducers("publish") ELSE MainGoes("failing")

wait_for_processed ==
    /\ main = "wait"
    /\ IF processed = R.total THEN MainGoes("read") ELSE MainGoes("failing")

\* The counters are read while the consumer still runs.
ReadCounters ==
    /\ main = "read"
    /\ IF processed = R.total /\ checksum = arithmetic_checksum(R.total)
       THEN MainGoes("stop_valid") ELSE MainGoes("stop_invalid")

populate_minimal == [e \in Events, v \in Values |-> [e EXCEPT !.value = v]]
populate_comparison_event == [e \in Events, v \in Values |-> Event(v)]
populate_padded_comparison_event == [e \in Events, v \in Values |-> Event(v)]
populate_padded128_comparison_event == [e \in Events, v \in Values |-> Event(v)]

EndToEnd(layout, populate) ==
    /\ Using(layout)
    /\ \/ wait_for_ready
       \/ main = "publish" /\ PublishChunk(1, populate)
       \/ main = "publish" /\ AllPublished /\ MainGoes("wait")
       \/ wait_for_processed
       \/ ReadCounters

run_end_to_end_minimal    == EndToEnd("minimal", populate_minimal)
run_end_to_end_comparison == EndToEnd("comparison", populate_comparison_event)
run_end_to_end_comparison_padded64 ==
    EndToEnd("comparison-padded64", populate_padded_comparison_event)
run_end_to_end_comparison_padded128 ==
    EndToEnd("comparison-padded128", populate_padded128_comparison_event)

run_end_to_end ==
    \/ run_end_to_end_minimal
    \/ run_end_to_end_comparison
    \/ run_end_to_end_comparison_padded64
    \/ run_end_to_end_comparison_padded128

\* Flag and alert are up; main joins the thread, and then has its record or its error.
Shutdown(layout) ==
    /\ Using(layout) /\ \A k \in DOMAIN stage : stage[k].at = "gone"
    /\ \/ /\ main \in {"stop_valid", "stop_invalid"}
          /\ \E speed \in Speeds : PushRecord(main = "stop_valid", speed)
       \/ /\ main = "failing" /\ Exit(1)
          /\ UNCHANGED <<cfg, plan, records, summary, roundVars, affinity_failed>>

shutdown_direct               == Shutdown("minimal")
shutdown_comparison           == Shutdown("comparison")
shutdown_padded_comparison    == Shutdown("comparison-padded64")
shutdown_padded128_comparison == Shutdown("comparison-padded128")

-----------------------------------------------------------------------------
OfPhase(rounds, phase) == SelectSeq(rounds, LAMBDA r : r.phase = phase)

summarize(runs) ==
    SummaryOf(AllValid(runs), Sorted(SpeedsOf(SelectSeq(runs, LAMBDA r : ~r.warm))))

\* An invalid phase is reported, and the exit code is 0 all the same.
run_main ==
    /\ main = "round" /\ Len(records) = Len(plan)
    /\ summary' = [phase \in ToSet(phases[cfg.mode]) |-> summarize(OfPhase(records, phase))]
    /\ \/ cfg.output # Unset /\ Exit(1)
       \/ Exit(0)
    /\ UNCHANGED <<cfg, plan, records, roundVars, affinity_failed>>

MainStep ==
    \/ Begin \/ run_baseline \/ run_claim_only \/ run_claim_write \/ run_claim_write_publish
    \/ DirectConsumerRuntime \/ DirectComparisonRuntime
    \/ DirectPaddedComparisonRuntime \/ DirectPadded128ComparisonRuntime
    \/ run_end_to_end
    \/ shutdown_direct \/ shutdown_comparison
    \/ shutdown_padded_comparison \/ shutdown_padded128_comparison
    \/ run_main
=============================================================================
