-------------------------- MODULE BuilderAssembly ---------------------------
(***************************************************************************)
(* The Builder: the calls that register consumers stage by stage, and      *)
(* build, which starts the consumers one after the other and wires each to *)
(* the sequences of the stage before it.  The first threads run, and may   *)
(* fail to pin themselves, while build is still at work.  A thread's name  *)
(* goes the way of its core and is left out, as is the slots' padding.     *)
(***************************************************************************)
EXTENDS Integers, Sequences

CONSTANTS
    Sizes,         \* ring sizes that are asked for
    Cores,         \* core ids a caller may ask for
    CoreCount,     \* the machine has the cores 0 .. CoreCount - 1
    MaxConsumers,  \* bound: consumers that are registered
    Unset          \* no core

VARIABLES
    typestate,             \* the builder's type, then the progress of build
    size, consumers,       \* SharedBuilderState
    current_cpu_affinity, current_stage_index,
    building,              \* how many consumers build has started
    dependent_sequences,   \* consumer -> whose sequences its barrier waits for
    stage_sequences,       \* stage -> its started consumers, in order
    run_mode,              \* consumer -> how it runs
    gating,                \* whose sequences gate the producer
    threads,               \* consumer -> the state of its thread
    asked                  \* history: the core asked for since the last handler

declVars  == <<size, consumers, current_cpu_affinity, current_stage_index, asked>>
startVars == <<building, dependent_sequences, stage_sequences, run_mode, gating, threads>>
builderVars == <<typestate, declVars, startVars>>

\* build_single_producer and build_multi_producer start alike.
build_single_producer ==
    /\ typestate = "NoConsumers" /\ size \in Sizes /\ consumers = <<>>
    /\ current_cpu_affinity = Unset /\ current_stage_index = 0 /\ asked = <<Unset>>

BuilderInit ==
    /\ build_single_producer
    /\ building = 0 /\ dependent_sequences = <<>> /\ stage_sequences = <<>>
    /\ run_mode = <<>> /\ gating = {} /\ threads = <<>>

\* What a registration leaves behind.
ConsumerInfo == [access : {"Mutable", "Readonly"}, stage : Nat, cpu : Cores \cup {Unset}]

-----------------------------------------------------------------------------
(* The fluent calls.                                                       *)

Declaring == typestate \in {"NoConsumers", "HasConsumers", "Dependent"}

pin_at_core(core) ==
    /\ current_cpu_affinity' = core
    /\ asked' = [asked EXCEPT ![Len(asked)] = core]
    /\ UNCHANGED <<typestate, size, consumers, current_stage_index, startVars>>

ConfigMethods ==
    /\ typestate \in {"NoConsumers", "HasConsumers"}
    /\ \E core \in Cores : pin_at_core(core)

DependentConfig ==
    /\ typestate = "Dependent"
    /\ \E core \in Cores : pin_at_core(core)

take_thread_meta == current_cpu_affinity' = Unset

assert_access_compatible(access) ==
    \A i \in 1 .. Len(consumers) :
        consumers[i].stage = current_stage_index => consumers[i].access = access

\* A stage that would mix the kinds of access ends the declaration in a panic.
push(access) ==
    /\ Declaring /\ Len(consumers) < MaxConsumers
    /\ take_thread_meta
    /\ IF assert_access_compatible(access)
       THEN /\ consumers' = Append(consumers, [access |-> access, stage |-> current_stage_index,
                                               cpu |-> current_cpu_affinity])
            /\ typestate' = "HasConsumers" /\ asked' = Append(asked, Unset)
       ELSE typestate' = "panicked" /\ UNCHANGED <<consumers, asked>>
    /\ UNCHANGED <<size, current_stage_index, startVars>>

add_mut_closure == push("Mutable")
add_mut_handler == push("Mutable")
add_fanout      == push("Readonly")

FirstHandlers ==
    /\ typestate = "NoConsumers"
    /\ add_mut_closure \/ add_mut_handler \/ add_fanout

MoreHandlers ==
    /\ typestate = "HasConsumers"
    /\ add_mut_closure \/ add_mut_handler \/ add_fanout

DependentHandlers ==
    /\ typestate = "Dependent"
    /\ add_mut_closure \/ add_mut_handler \/ add_fanout

\* advance_stage; the new type has no build and no and_then.
and_then ==
    /\ typestate = "HasConsumers" /\ typestate' = "Dependent"
    /\ current_stage_index' = current_stage_index + 1
    /\ UNCHANGED <<size, consumers, current_cpu_affinity, asked, startVars>>

-----------------------------------------------------------------------------
(* build: create_disruptor_core.                                           *)

Stages == {consumers[i].stage : i \in 1 .. Len(consumers)}
InStage(k) == {i \in 1 .. Len(consumers) : consumers[i].stage = k}

\* One more than the highest stage of a consumer.
stage_count == 1 + CHOOSE m \in Stages : \A k \in Stages : k <= m

\* WorkerPool only for a stage of several mutable handlers (a stage has one
\* kind of access).
stage_run_modes(k) ==
    IF (\E i, j \in InStage(k) : i # j) /\ \E i \in InStage(k) : consumers[i].access = "Mutable"
    THEN "WorkPool" ELSE "Sequential"

PowersOfTwo == {1, 2, 4, 8}

BeginBuild ==
    /\ typestate = "HasConsumers"
    /\ typestate' = IF size \in PowersOfTwo THEN "starting" ELSE "panicked"
    /\ stage_sequences' = [k \in 1 .. stage_count |-> <<>>]
    /\ UNCHANGED <<declVars, building, dependent_sequences, run_mode, gating, threads>>

build_single == BeginBuild
build_multi  == BeginBuild

Listed(s) == {s[i] : i \in 1 .. Len(s)}

\* Mutant of Previous: the last consumer of the stage before is enough.
PreviousLast(k) ==
    LET all == stage_sequences[k] IN IF all = <<>> THEN {} ELSE {all[Len(all)]}

Previous(k) == Listed(stage_sequences[k])

\* The assertions of the loop: contiguous stages, somebody upstream.
Upstreamless(k) == k > 0 /\ (k \notin DOMAIN stage_sequences \/ stage_sequences[k] = <<>>)

\* One round: the barrier, the thread, and its sequence for the next stage.
StartConsumer ==
    /\ typestate = "starting" /\ building < Len(consumers)
    /\ LET i == building + 1
           k == consumers[i].stage
       IN IF Upstreamless(k)
          THEN typestate' = "asserted" /\ UNCHANGED startVars
          ELSE /\ dependent_sequences' = Append(dependent_sequences, IF k = 0 THEN {} ELSE Previous(k))
               /\ run_mode' = Append(run_mode, stage_run_modes(k))
               /\ stage_sequences' = [stage_sequences EXCEPT ![k + 1] = Append(@, i)]
               /\ threads' = Append(threads, "spawned")
               /\ building' = i /\ UNCHANGED <<typestate, gating>>
    /\ UNCHANGED declVars

\* expect on the spawn: the started consumers are dropped, which joins them.
SpawnFails ==
    /\ typestate = "starting" /\ building < Len(consumers) /\ typestate' = "unwinding"
    /\ UNCHANGED <<declVars, startVars>>

DropStarted ==
    /\ typestate = "unwinding" /\ \A i \in 1 .. Len(threads) : threads[i] = "ended"
    /\ typestate' = "panicked"
    /\ UNCHANGED <<declVars, startVars>>

\* The producer is gated on the last stage.
add_gating_sequences ==
    /\ typestate = "starting" /\ building = Len(consumers) /\ typestate' = "built"
    /\ gating' = Listed(stage_sequences[Len(stage_sequences)])
    /\ UNCHANGED <<declVars, building, dependent_sequences, stage_sequences, run_mode, threads>>

\* The answers of set_thread_affinity: a core that exists may be refused, and
\* the list of cores may not be had.
set_thread_affinity(core) == IF core < CoreCount THEN BOOLEAN ELSE {FALSE}

\* A spawned thread pins itself; one that cannot poisons the pipeline and ends.
start_consumer_thread(i) ==
    /\ threads[i] = "spawned"
    /\ \E pinned \in IF consumers[i].cpu = Unset THEN {TRUE}
                     ELSE set_thread_affinity(consumers[i].cpu) :
          threads' = [threads EXCEPT ![i] = IF pinned THEN "running" ELSE "ended"]
    /\ UNCHANGED <<typestate, declVars, building, dependent_sequences, stage_sequences,
                   run_mode, gating>>

BuilderNext ==
    \/ ConfigMethods \/ DependentConfig
    \/ FirstHandlers \/ MoreHandlers \/ DependentHandlers \/ and_then
    \/ build_single \/ build_multi \/ StartConsumer \/ SpawnFails \/ DropStarted
    \/ add_gating_sequences
    \/ \E i \in 1 .. Len(threads) : start_consumer_thread(i)

BuilderSpec == BuilderInit /\ [][BuilderNext]_builderVars

-----------------------------------------------------------------------------
\* Whatever the order of the calls, build's own assertions hold ("consumer
\* stages must be contiguous", "dependent consumer stage must have upstream
\* consumers"), and what it has wired is what was declared: every consumer
\* waits for all of the stage before, the producer for all of the last one, a
\* stage of several mutable handlers shares its events, and a core is asked for
\* by the next consumer only.
BuiltAsDeclared ==
    /\ typestate # "asserted"
    /\ typestate = "built" =>
          LET last == current_stage_index IN
          /\ gating = InStage(last) /\ Stages = 0 .. last
          /\ \A i \in 1 .. Len(consumers) :
                /\ dependent_sequences[i] = InStage(consumers[i].stage - 1)
                /\ consumers[i].cpu = asked[i]
                /\ run_mode[i] = "WorkPool" <=>
                      \E j \in InStage(consumers[i].stage) \ {i} :
                         consumers[i].access = "Mutable" /\ consumers[j].access = "Mutable"

-----------------------------------------------------------------------------
(* The invariant behind it.                                                *)

BuilderTypeOK ==
    /\ typestate \in {"NoConsumers", "HasConsumers", "Dependent", "starting", "unwinding",
                      "built", "panicked"}
    /\ consumers \in Seq(ConsumerInfo)
    /\ current_cpu_affinity \in Cores \cup {Unset} /\ current_stage_index \in Nat
    /\ asked \in Seq(Cores \cup {Unset}) /\ building \in Nat
    /\ dependent_sequences \in Seq(SUBSET Nat) /\ stage_sequences \in Seq(Seq(Nat))
    /\ run_mode \in Seq({"WorkPool", "Sequential"})
    /\ threads \in Seq({"spawned", "running", "ended"})

\* The calls go through the stages in order: none is left empty but the one
\* that and_then has just opened, and none mixes the kinds of access.
StagesInv ==
    /\ \A i \in 1 .. Len(consumers) : consumers[i].stage <= current_stage_index
    /\ \A i, j \in 1 .. Len(consumers) : i < j => consumers[i].stage <= consumers[j].stage
    /\ \A i, j \in 1 .. Len(consumers) :
          consumers[i].stage = consumers[j].stage => consumers[i].access = consumers[j].access
    /\ \A k \in 0 .. current_stage_index - 1 : InStage(k) # {}
    /\ typestate \in {"HasConsumers", "starting", "built"} => InStage(current_stage_index) # {}
    /\ typestate = "NoConsumers" => current_stage_index = 0

\* Every core asked for is with its consumer, or with the builder.
CoresInv ==
    /\ Len(asked) = Len(consumers) + 1
    /\ \A i \in 1 .. Len(consumers) : consumers[i].cpu = asked[i]
    /\ Declaring => asked[Len(asked)] = current_cpu_affinity

\* What build has wired so far: the first building consumers.
WiredInv ==
    /\ Declaring => building = 0 /\ dependent_sequences = <<>> /\ run_mode = <<>>
    /\ typestate \in {"starting", "built"} =>
          /\ building <= Len(consumers)
          /\ Len(dependent_sequences) = building /\ Len(run_mode) = building
          /\ Len(stage_sequences) = current_stage_index + 1
          /\ \A k \in 0 .. current_stage_index :
                Listed(stage_sequences[k + 1]) = {i \in InStage(k) : i <= building}
          /\ \A i \in 1 .. building :
                /\ dependent_sequences[i] = InStage(consumers[i].stage - 1)
                /\ run_mode[i] = stage_run_modes(consumers[i].stage)
    /\ typestate = "built" => building = Len(consumers) /\ gating = InStage(current_stage_index)

BuilderInv == BuilderTypeOK /\ StagesInv /\ CoresInv /\ WiredInv
=============================================================================
