---------------------------- MODULE ModelFilter -----------------------------
(***************************************************************************)
(* The model filter of the decision loop: when it is active at all, what   *)
(* score_for_filter says and what _run_model_filter_stage makes of it.  A  *)
(* probability is in percent; how a model comes to it is outside.          *)
(***************************************************************************)
EXTENDS Integers

\* What comes of loading model_artifact_path.
Artifacts == {"unset", "broken", "loaded"}

\* _init_model_filter.  A filter that is asked for and cannot be loaded is off:
\* the candidates pass unfiltered.
FilterActive(mode, enabled, artifact) ==
    /\ mode \in {"demo", "paper"}
    /\ enabled
    /\ artifact = "loaded"

Unavailable == -1

\* A model without a prediction is one that lacks the method, or raises.  The
\* features the decision loop passes are never missing.
Scores == 0 .. 100 \union {Unavailable}

\* score_for_filter lets pass what has no score.
Allowed(score, threshold) == score = Unavailable \/ score >= threshold

\* The stage does not: without a score it says no, in every mode.
FilterPasses(active, mode, score, threshold) ==
    \/ ~active
    \/ score # Unavailable /\ (mode = "shadow" \/ Allowed(score, threshold))

=============================================================================
