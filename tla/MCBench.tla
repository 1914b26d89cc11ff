------------------------------ MODULE MCBench ------------------------------
(***************************************************************************)
(* Benchmarks on small command lines: every scenario, mode, layout and     *)
(* handler, rings that wrap and batches that do not fit, and lines that    *)
(* are refused.  The defaults are scaled down so that a round has a        *)
(* handful of events.                                                      *)
(***************************************************************************)
EXTENDS Benchmarks

MCDefault ==
    [events |-> 3, buffer |-> 4, small_buffer |-> 2, mpsc_buffer |-> 2, mpsc_events |-> 3,
     quick |-> 2, quick_mpsc |-> 3, quick_warmup |-> 1, quick_calibration |-> 1,
     batch |-> 2, large_batch |-> 4, warmup |-> 1, measured |-> 1, min_samples |-> 1,
     load_levels |-> <<10, 50>>, calibration_events |-> 2]

H2hLines ==
    {<<<<"scenario", "unicast">>, <<"buffer", 2>>, <<"measured", 2>>>>,
     <<<<"scenario", "unicast">>, <<"quick", TRUE>>, <<"handler_mode", "w1">>, <<"output", "file">>>>,
     <<<<"scenario", "unicast">>, <<"events", 2>>, <<"handler_mode", "w3">>, <<"warmup", 0>>>>,
     <<<<"scenario", "unicast">>, <<"events", 2>>, <<"handler_mode", "sb">>, <<"cpus", <<0, 1>>>>>>,
     <<<<"scenario", "unicast_batch">>, <<"buffer", 2>>, <<"diagnostics", TRUE>>>>,
     <<<<"scenario", "unicast_batch">>, <<"buffer", 1>>, <<"warmup", 0>>>>,
     <<<<"scenario", "mpsc_batch">>, <<"buffer", 2>>, <<"warmup", 0>>>>,
     <<<<"scenario", "mpsc_batch">>, <<"warmup", 0>>, <<"cpus", <<0, 1, 2, 3>>>>>>,
     <<<<"scenario", "pipeline">>, <<"warmup", 0>>>>,
     <<<<"help", Bad>>>>, <<<<"events", 3>>>>, <<<<"scenario", Bad>>>>, <<<<"oops", Bad>>>>}

UnicastLines ==
    {<<>>,
     <<<<"mode", "baseline">>, <<"events", 5>>>>,
     <<<<"mode", "claim-write">>, <<"buffer", 2>>>>,
     <<<<"mode", "end-to-end">>, <<"measured", 2>>>>,
     <<<<"mode", "end-to-end">>, <<"buffer", 2>>, <<"allow_wrap", TRUE>>, <<"output", "file">>>>,
     <<<<"help", Bad>>>>, <<<<"events", 0>>>>}
    \union {<<<<"mode", "end-to-end">>, <<"event_layout", l>>, <<"events", 2>>>> :
               l \in {"comparison", "comparison-padded64", "comparison-padded128"}}

PipelineLines ==
    {<<<<"events", 2>>, <<"warmup", 0>>>>,
     <<<<"mode", "single-stage">>, <<"measured", 2>>>>,
     <<<<"mode", "two-stage">>, <<"output", "file">>>>,
     <<<<"help", Bad>>>>, <<<<"buffer", 3>>>>}

BaselineLines ==
    {<<<<"events", 1>>>>, <<<<"events", 2>>, <<"buffer", 1>>>>, <<<<"events", Bad>>, <<"buffer", 3>>>>}

Measure == <<<<"samples_output", "file">>>>

TailLines ==
    {Measure,
     Measure \o <<<<"quick", TRUE>>, <<"max_rate", 4>>, <<"inject_sleeps", <<1, 2>>>>>>,
     Measure \o <<<<"rate", 2>>, <<"handler_mode", "allocating">>, <<"retention_window", 2>>>>,
     Measure \o <<<<"rate", 2>>, <<"handler_mode", "allocating">>, <<"retention_window", 4>>>>,
     Measure \o <<<<"rate", 2>>, <<"buffer", 2>>, <<"inject_sleeps", <<1>>>>>>,
     Measure \o <<<<"rate", 2>>, <<"cpus", <<0, 1>>>>>>,
     Measure \o <<<<"max_rate", 1>>, <<"load_levels", <<10>>>>>>,
     <<<<"calibrate_only", TRUE>>, <<"handler_mode", "allocating">>, <<"retention_window", 1>>>>,
     <<<<"help", Bad>>>>, <<>>}

MCLines ==
    [p \in Programs |->
        CASE p = "h2h_rust"           -> H2hLines
          [] p = "unicast_breakdown"  -> UnicastLines
          [] p = "pipeline_breakdown" -> PipelineLines
          [] p = "baseline_metrics"   -> BaselineLines
          [] p = "h2h_tail_latency"   -> TailLines]

\* The pipelines of pipeline_breakdown alone.
MCPipelineLines ==
    [p \in Programs |-> IF p = "pipeline_breakdown" THEN PipelineLines ELSE {}]
=============================================================================
