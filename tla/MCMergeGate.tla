------------------------------ MODULE MCMergeGate ------------------------------
EXTENDS MergeGate

\* Main has no policy, or one that asks for a review and a check.
MCPolicies == {{}, {"review", "check"}}
\* Main always has a policy that asks for everything.
MCStrict == {Requirements}
\* Main has no policy, or one that asks for a review.
MCReview == {{}, {"review"}}
=============================================================================
