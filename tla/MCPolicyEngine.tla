-------------------------- MODULE MCPolicyEngine --------------------------
(* PolicyEngine on the facts buildPolicyInputs can report. *)
EXTENDS PolicyEngine

\* Of all facts: neither path drift nor a resolver divergence is ever reported, and the
\* three composite scam scores, like the hidden frames and anchors, go through the same stage.
Distinct ==
  (RenderFacts \cup OtherFacts) \
    {"path_drift", "dns_divergence", "ps_hard", "ps_block", "ps_warn", "cd_hard", "cd_block",
     "cd_warn", "hidden_anchors"}
==========================================================================
