----------------------------- MODULE BenchRing -----------------------------
(***************************************************************************)
(* What the benchmark programs under src/bin have in common: a main thread *)
(* that reads its command line, runs a list of rounds and ends with an     *)
(* exit code; and, for each round, a fresh ring with its producers, its    *)
(* chain of consumer stages and the counters by which the last stage tells *)
(* the main thread what it has seen.                                       *)
(*                                                                         *)
(* The ring is the library seen from outside, as EventLog describes it: a  *)
(* batch is published whole once the last stage has freed its slots, and a *)
(* stage takes everything its predecessor has passed.  Every write to a    *)
(* counter of the main thread is a step of its own.                        *)
(***************************************************************************)
EXTENDS Integers, Sequences, FiniteSets, SequencesExt

CONSTANTS
    Lines,       \* program -> the command lines it is run with
    Default,     \* option -> its default, scaled down
    Modulus,     \* how many values a 64-bit accumulator takes, scaled down
    Speeds,      \* bound: the ops_per_sec that a round may measure
    Bad,         \* a value that is missing or does not parse
    Unset        \* an option that was not given, a result not there yet

ASSUME BenchAssumption == Modulus \in Nat \ {0} /\ Speeds \subseteq Nat

VARIABLES
    program, line,              \* the binary and its command line
    main, cfg, plan,            \* its main thread: the place, the Config, the rounds to run
    records, summary, code,     \* the rounds run, their Summary, the exit code
    ring, cursor, producer,     \* of this round: the slots, the producing threads
    stage,                      \* the consumer threads, first stage first
    ready, processed, checksum, \* the atomics that main reads
    local, report,              \* the last stage: its sums, and the writes it is about to do
    affinity_failed

roundVars == <<ring, cursor, producer, stage, ready, processed, checksum, local, report>>
mainVars  == <<cfg, plan, records, summary, code>>
benchVars == <<program, line, main, mainVars, roundVars, affinity_failed>>

BenchInit ==
    /\ line \in Lines[program]
    /\ main = "parse" /\ cfg = Unset /\ plan = <<>>
    /\ records = <<>> /\ summary = Unset /\ code = Unset
    /\ ring = <<>> /\ cursor = -1 /\ producer = <<>> /\ stage = <<>>
    /\ ready = 0 /\ processed = 0 /\ checksum = 0
    /\ local = [sum |-> 0, count |-> 0] /\ report = <<>>
    /\ affinity_failed = FALSE

Lesser(a, b) == IF a < b THEN a ELSE b

\* is_power_of_two
PowersOfTwo == {2 ^ i : i \in 0 .. 6}

-----------------------------------------------------------------------------
(* The command line.                                                       *)

\* One turn of an argument loop: --help leaves at once, an unknown argument
\* and a missing or unparsable value are errors, a later option overrides.
ParseWord(options, seen, word) ==
    CASE seen.status # "ok"             -> seen
      [] word[1] = "help"               -> [seen EXCEPT !.status = "help"]
      [] word[1] \notin DOMAIN options  -> [seen EXCEPT !.status = "error"]
      [] OTHER -> IF word[2] \in options[word[1]]
                  THEN [seen EXCEPT !.cfg[word[1]] = word[2]]
                  ELSE [seen EXCEPT !.status = "error"]

ParseLoop(options, defaults) ==
    FoldLeft(LAMBDA seen, word : ParseWord(options, seen, word),
             [status |-> "ok", cfg |-> defaults], line)

Exit(c) == main' = "exit" /\ code' = c

\* What main does with the parsed command line: print the help, refuse, or go on.
PrintHelp(parsed) ==
    /\ main = "parse" /\ parsed.status = "help" /\ Exit(0)
    /\ UNCHANGED <<cfg, plan, records, summary, roundVars, affinity_failed>>

Refuse(parsed, accepted, c) ==
    /\ main = "parse"
    /\ parsed.status = "error" \/ (parsed.status = "ok" /\ ~accepted)
    /\ Exit(c)
    /\ UNCHANGED <<cfg, plan, records, summary, roundVars, affinity_failed>>

Accept(parsed, accepted, resolved, rounds, place) ==
    /\ main = "parse" /\ parsed.status = "ok" /\ accepted
    /\ cfg' = resolved /\ plan' = rounds /\ main' = place
    /\ UNCHANGED <<records, summary, code, roundVars, affinity_failed>>

-----------------------------------------------------------------------------
(* A round.                                                                *)

R        == plan[Len(records) + 1]
Event(v) == [value |-> v, stage1_value |-> 0, stage2_value |-> 0, stage3_value |-> 0]

\* Fresh counters, a ring and its threads.  place is where main goes on.
BuildRound(place) ==
    /\ main = "round" /\ Len(records) < Len(plan)
    /\ ring' = [i \in 0 .. R.size - 1 |-> Event(0)] /\ cursor' = -1
    /\ producer' = [p \in 1 .. R.threads |->
                       [at |-> "new", next |-> (p - 1) * (R.total \div R.threads)]]
    /\ stage' = [k \in 1 .. R.stages |->
                       [at |-> "new", next |-> 0, upto |-> -1, sequence |-> -1, seen |-> 0]]
    /\ ready' = 0 /\ processed' = 0 /\ checksum' = 0
    /\ local' = [sum |-> 0, count |-> 0] /\ report' = <<>>
    /\ main' = place
    /\ UNCHANGED <<mainVars, affinity_failed>>

\* Main lets its producers, or itself as the only one, begin.
StartProducers(place) ==
    /\ producer' = [p \in DOMAIN producer |-> [producer[p] EXCEPT !.at = "publish"]]
    /\ main' = place
    /\ UNCHANGED <<mainVars, ring, cursor, stage, ready, processed, checksum, local,
                   report, affinity_failed>>

RangeEnd(p) == p * (R.total \div R.threads)

\* What a publishing closure is a function of: the event in the slot, its value.
Events == {ring[i] : i \in DOMAIN ring}
Values == 0 .. R.total - 1

\* One turn of a publishing loop: claim a chunk, populate its slots, publish.
\* The claim waits for the last stage; a chunk larger than the ring is refused
\* and the loop goes on all the same.
PublishChunk(p, populate) ==
    /\ producer[p].at = "publish" /\ producer[p].next < RangeEnd(p)
    /\ LET from == producer[p].next
           n    == Lesser(R.chunk, RangeEnd(p) - from)
       IN /\ producer' = [producer EXCEPT ![p].next = from + n]
          /\ IF n > R.size THEN UNCHANGED <<ring, cursor>>
             ELSE /\ cursor + n - R.size <= stage[R.stages].sequence
                  /\ cursor' = cursor + n
                  /\ ring' = [i \in DOMAIN ring |->
                       LET j == (i - cursor - 1) % R.size
                       IN IF j < n THEN populate[ring[i], from + j] ELSE ring[i]]
    /\ UNCHANGED <<main, mainVars, stage, ready, processed, checksum, local, report,
                   affinity_failed>>

AllPublished == \A p \in DOMAIN producer : producer[p].next = RangeEnd(p)

\* A consumer thread starts.  pins: it may fail to be pinned to its core.
OnStart(k, pins) ==
    /\ stage[k].at = "new"
    /\ stage' = [stage EXCEPT ![k].at = "wait"]
    /\ ready' = ready + 1
    /\ \/ UNCHANGED affinity_failed
       \/ pins /\ affinity_failed' = TRUE
    /\ UNCHANGED <<main, mainVars, ring, cursor, producer, processed, checksum, local, report>>

\* The wait of a stage ends with everything its predecessor has passed.
TakeBatch(k) ==
    LET available == IF k = 1 THEN cursor ELSE stage[k - 1].sequence
    IN /\ stage[k].at = "wait" /\ available >= stage[k].next
       /\ stage' = [stage EXCEPT ![k].at = "handle", ![k].upto = available,
                                 ![k].seen = @ + available - stage[k].next + 1]
       /\ UNCHANGED <<main, mainVars, ring, cursor, producer, ready, processed, checksum,
                      local, report, affinity_failed>>

Handling(k) == stage[k].at = "handle" /\ (k = R.stages => report = <<>>)

\* The event stage k is about to handle.
Slot(k)       == stage[k].next % R.size
EndOfBatch(k) == stage[k].next = stage[k].upto

\* A handler has run: what it left in the slot, in its own sums, and the
\* writes to main's counters that it does before it returns.
Handled(k, event, sums, writes) ==
    /\ ring' = [ring EXCEPT ![Slot(k)] = event]
    /\ local' = sums /\ report' = writes
    /\ stage' = [stage EXCEPT ![k].next = @ + 1,
                              ![k].at = IF EndOfBatch(k) THEN "commit" ELSE "handle"]
    /\ UNCHANGED <<main, mainVars, cursor, producer, ready, processed, checksum,
                   affinity_failed>>

Report ==
    /\ report # <<>>
    /\ LET w == Head(report)
       IN \/ w[1] = "checksum"  /\ checksum' = w[2]  /\ UNCHANGED processed
          \/ w[1] = "processed" /\ processed' = w[2] /\ UNCHANGED checksum
    /\ report' = Tail(report)
    /\ UNCHANGED <<main, mainVars, ring, cursor, producer, stage, ready, local,
                   affinity_failed>>

\* The batch is done and the stage's sequence moves.
Commit(k) ==
    /\ stage[k].at = "commit" /\ (k = R.stages => report = <<>>)
    /\ stage' = [stage EXCEPT ![k].at = "wait", ![k].sequence = stage[k].upto]
    /\ UNCHANGED <<main, mainVars, ring, cursor, producer, ready, processed, checksum,
                   local, report, affinity_failed>>

\* DisruptorHandle::shutdown returns once every stage has drained.
Drained == \A k \in DOMAIN stage : stage[k].at = "wait" /\ stage[k].sequence = cursor

\* Main's own steps leave the round and the results alone.
MainGoes(place) == main' = place /\ UNCHANGED <<mainVars, roundVars, affinity_failed>>

\* Its ring, its threads and its counters are dropped.
RoundOver ==
    /\ ring' = <<>> /\ cursor' = -1 /\ producer' = <<>> /\ stage' = <<>>
    /\ ready' = 0 /\ processed' = 0 /\ checksum' = 0
    /\ local' = [sum |-> 0, count |-> 0] /\ report' = <<>>

\* The round is over.  speed is the ops_per_sec it measured.
PushRecord(valid, speed) ==
    /\ records' = Append(records, [phase |-> R.phase, warm |-> R.warm, valid |-> valid,
                                   speed |-> speed, total |-> R.total,
                                   handled |-> IF R.stages = 0 THEN R.total
                                               ELSE stage[R.stages].sequence + 1])
    /\ main' = "round" /\ RoundOver
    /\ UNCHANGED <<cfg, plan, summary, code, affinity_failed>>

-----------------------------------------------------------------------------
(* Summaries.                                                              *)

SpeedsOf(rs) == [i \in DOMAIN rs |-> rs[i].speed]
Sorted(s)    == SortSeq(s, <)

\* Twice the median, the midpoint of the two middle ones when there are two.
Median2(s) ==
    LET h == Len(s) \div 2
    IN IF Len(s) % 2 = 1 THEN 2 * s[h + 1] ELSE s[h] + s[h + 1]

SummaryOf(valid_all, s) ==
    IF s = <<>> THEN [valid_all |-> valid_all, median2 |-> 0, min |-> 0, max |-> 0]
    ELSE [valid_all |-> valid_all, median2 |-> Median2(s), min |-> s[1], max |-> s[Len(s)]]

AllValid(rs) == \A i \in DOMAIN rs : rs[i].valid
=============================================================================
