-------------------------- MODULE ElegantConsumer --------------------------
(***************************************************************************)
(* The ElegantConsumer of the extras feature: a thread of its own over a   *)
(* ring.  It reads no cursor and gates nobody; it meets the producer       *)
(* through its panic hook alone.                                           *)
(***************************************************************************)
EXTENDS StandaloneRing

VARIABLES
    constructor,             \* how the consumer was made
    thread, elegant_next,    \* its thread and local next_sequence
    elegant_sequence, elegant_shutdown, elegant_poisoned,
    owner                    \* the thread that holds its handle

elegantVars == <<constructor, thread, elegant_next, elegant_sequence,
                 elegant_shutdown, elegant_poisoned, owner>>

(* The constructors of the elegant consumer: which loop it runs, and what  *)
(* its panic hook does ("user": something this model does not see).        *)

new                          == [loop |-> "plain", hook |-> None]
new_with_panic_hook          == [loop |-> "plain", hook |-> "user"]
new_with_sequencer_poison    == [loop |-> "plain", hook |-> "poison"]
with_state                   == [loop |-> "state", hook |-> None]
with_state_and_panic_hook    == [loop |-> "state", hook |-> "user"]
with_affinity                == new
with_affinity_and_panic_hook == new_with_panic_hook

\* spawn_plain enters its loop at once, whether or not the thread was pinned;
\* spawn_with_state first calls initialize_state.
spawn_plain      == "loop"
spawn_with_state == "initialize"

ElegantInit ==
    /\ constructor \in
         {new, new_with_panic_hook, new_with_sequencer_poison, with_state,
          with_state_and_panic_hook, with_affinity, with_affinity_and_panic_hook}
    /\ thread = IF constructor.loop = "plain" THEN spawn_plain ELSE spawn_with_state
    /\ elegant_next = 0 /\ elegant_sequence = -1
    /\ elegant_shutdown = FALSE /\ elegant_poisoned = FALSE
    /\ owner = "holds"

-----------------------------------------------------------------------------
(* The elegant consumer's thread.                                          *)

GoTo(place) == thread' = place

elegantRest == <<constructor, owner>>

\* A panic of initialize_state is outside catch_unwind: the thread dies, no
\* flag is set and no hook runs.
initialize_state ==
    /\ thread = "initialize"
    /\ GoTo("loop") \/ GoTo("died")
    /\ UNCHANGED <<elegant_next, elegant_sequence, elegant_shutdown,
                   elegant_poisoned, elegantRest, failureVars>>

\* Mutant of LoopHead: the flag is left to wait_for_events.
LoopHeadBlind ==
    /\ thread = "loop"
    /\ GoTo("wait")
    /\ UNCHANGED <<elegant_next, elegant_sequence, elegant_shutdown,
                   elegant_poisoned, elegantRest, failureVars>>

\* while !shutdown.
LoopHead ==
    /\ thread = "loop"
    /\ GoTo(IF elegant_shutdown THEN "ended" ELSE "wait")
    /\ UNCHANGED <<elegant_next, elegant_sequence, elegant_shutdown,
                   elegant_poisoned, elegantRest, failureVars>>

\* Within the first lap the answer is the sequence that was asked for; later
\* it is the same after one backoff.  No cursor is read.
wait_for_events ==
    /\ \/ /\ thread = "wait"
          /\ GoTo(IF elegant_next < Size /\ ~elegant_shutdown THEN "handle"
                  ELSE "backoff")
       \/ /\ thread = "backoff"
          /\ GoTo(IF elegant_shutdown THEN "loop" ELSE "handle")
    /\ UNCHANGED <<elegant_next, elegant_sequence, elegant_shutdown,
                   elegant_poisoned, elegantRest, failureVars>>

\* The inner loop has one event, since the answer was next_sequence: it is
\* handled, or the handler panics; a stop seen first skips it.
HandleEvent ==
    /\ thread = "handle"
    /\ \/ /\ elegant_shutdown /\ GoTo("store") /\ UNCHANGED elegant_next
       \/ /\ ~elegant_shutdown /\ elegant_next <= MaxSequence
          /\ \/ GoTo("store") /\ elegant_next' = elegant_next + 1
             \/ GoTo("panic") /\ UNCHANGED elegant_next
    /\ UNCHANGED <<elegant_sequence, elegant_shutdown, elegant_poisoned,
                   elegantRest, failureVars>>

StoreSequence ==
    /\ thread = "store"
    /\ elegant_sequence' = elegant_next - 1 /\ GoTo("loop")
    /\ UNCHANGED <<elegant_next, elegant_shutdown, elegant_poisoned, elegantRest,
                   failureVars>>

\* shutdown, poisoned, the hook (record, then poison), and the panic goes on.
Unwind ==
    /\ \/ /\ thread = "panic" /\ elegant_shutdown' = TRUE
          /\ GoTo("mark") /\ UNCHANGED <<elegant_poisoned, failureVars>>
       \/ /\ thread = "mark" /\ elegant_poisoned' = TRUE
          /\ GoTo(IF constructor.hook = "poison" THEN "record" ELSE "unwound")
          /\ UNCHANGED <<elegant_shutdown, failureVars>>
       \/ /\ thread = "record" /\ GoTo("poison")
          /\ record_failure("ConsumerPanic")
          /\ UNCHANGED <<elegant_shutdown, elegant_poisoned, poisoned>>
       \/ /\ thread = "poison" /\ poisoned' = TRUE /\ GoTo("unwound")
          /\ UNCHANGED <<elegant_shutdown, elegant_poisoned, first_failure>>
    /\ UNCHANGED <<elegant_next, elegant_sequence, elegantRest>>

ConsumerLoop ==
    LoopHead \/ wait_for_events \/ HandleEvent \/ StoreSequence \/ Unwind

consumer_loop == constructor.loop = "plain" /\ ConsumerLoop

consumer_loop_with_state ==
    constructor.loop = "state" /\ (initialize_state \/ ConsumerLoop)

ElegantStep == (consumer_loop \/ consumer_loop_with_state) /\ UNCHANGED ringVars

Gone == {"ended", "unwound", "died"}

\* shutdown() and Drop store the flag; then the thread is joined, by
\* shutdown() itself or by the Drop of the ManagedThread.
Shutdown ==
    /\ owner = "holds"
    /\ elegant_shutdown' = TRUE /\ owner' = "join"
    /\ UNCHANGED <<constructor, thread, elegant_next, elegant_sequence, elegant_poisoned>>

join ==
    /\ owner = "join" /\ thread \in Gone
    /\ owner' = IF thread = "ended" THEN "Ok" ELSE "Err"
    /\ UNCHANGED <<constructor, thread, elegant_next, elegant_sequence,
                   elegant_shutdown, elegant_poisoned>>

OwnerStep == (Shutdown \/ join) /\ UNCHANGED <<ringVars, failureVars>>

\* Without gating sequences the producer laps the ring as it likes.
ElegantNext ==
    \/ ElegantStep \/ OwnerStep
    \/ (try_publish(cursor) \/ publish) /\ UNCHANGED elegantVars

\* The thread is scheduled and its handler returns.
ElegantSpec ==
    /\ RingInit /\ ElegantInit
    /\ [][ElegantNext]_<<ringVars, failureVars, elegantVars>>
    /\ WF_elegantVars(ElegantStep)

-----------------------------------------------------------------------------
\* shutdown(), and dropping the handle, end: the loop looks at the flag on
\* every turn, whatever the handler or the producer does.
ElegantStops == elegant_shutdown ~> thread \in Gone
=============================================================================
