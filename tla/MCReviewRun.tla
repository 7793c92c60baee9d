----------------------------- MODULE MCReviewRun -----------------------------
(* ReviewRun with one risk type, which its rule calls high and puts up for review; the model *)
(* and the evidence may call it medium.                                                       *)
EXTENDS ReviewRun

MCRuleLevel  == [t \in RiskTypes |-> "high"]
MCRuleReview == [t \in RiskTypes |-> TRUE]
==============================================================================
