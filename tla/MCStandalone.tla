---------------------------- MODULE MCStandalone ----------------------------
(***************************************************************************)
(* The parts that run without a pipeline around them, checked side by      *)
(* side: the variable subject chooses which one a behaviour is about, and  *)
(* the others keep their initial state.                                    *)
(***************************************************************************)
EXTENDS EventPoller, ElegantConsumer, ProcessorProbe, DslPublish, BarrierWait,
        BuilderAssembly

VARIABLE subject

allVars == <<subject, ringVars, failureVars, pollerVars, elegantVars, probeVars,
             publishVars, barrierVars, builderVars>>

MCInit ==
    /\ subject \in {"poller", "elegant", "processor", "publish", "barrier", "builder"}
    /\ RingInit /\ PollerInit /\ ElegantInit /\ ProbeInit /\ PublishInit /\ BarrierInit
    /\ BuilderInit
    /\ subject # "elegant" => constructor = new
    /\ subject # "publish" => \A d \in Disruptors : mode[d] = "Single"
    /\ subject # "barrier" => /\ wait_strategy = Custom
                              /\ ~needs_contiguity_check /\ ~dependent
    /\ subject # "builder" => size \in PowersOfTwo

MCNext ==
    /\ UNCHANGED subject
    /\ \/ /\ subject = "poller" /\ PollerNext
          /\ UNCHANGED <<elegantVars, probeVars, publishVars, barrierVars, builderVars>>
       \/ /\ subject = "elegant" /\ ElegantNext
          /\ UNCHANGED <<pollerVars, probeVars, publishVars, barrierVars, builderVars>>
       \/ /\ subject = "processor" /\ ProbeNext
          /\ UNCHANGED <<pollerVars, elegantVars, publishVars, barrierVars, builderVars>>
       \/ /\ subject \in {"publish", "barrier", "builder"}
          /\ UNCHANGED <<ringVars, failureVars, pollerVars, elegantVars, probeVars>>
          /\ \/ /\ subject = "publish" /\ PublishNext
                /\ UNCHANGED <<barrierVars, builderVars>>
             \/ /\ subject = "barrier" /\ BarrierNext
                /\ UNCHANGED <<publishVars, builderVars>>
             \/ /\ subject = "builder" /\ BuilderNext
                /\ UNCHANGED <<publishVars, barrierVars>>

\* A step of one of the parts, for the fairness of its own specification.
Of(part, step) == subject = part /\ step /\ MCNext

MCSpec ==
    /\ MCInit /\ [][MCNext]_allVars
    /\ WF_allVars(Of("elegant", ElegantStep))
    /\ WF_allVars(Of("processor", at["run"] # "out" /\ CallerStep("run")))
    /\ WF_allVars(Of("barrier", WaitStep)) /\ WF_allVars(Of("barrier", Elapse))
=============================================================================
