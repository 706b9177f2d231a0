--------------------------- MODULE MCCheckProfile ---------------------------
(* Instance of CheckProfile, with an ablation of one method.               *)
EXTENDS CheckProfile

MCSteps ==
  [smoke |-> SmokeSteps,
   ablation |-> MethodSteps("trace1", "metrics1")
                  \o <<Write("summary"), Add("summary", "summary")>>]
=============================================================================
