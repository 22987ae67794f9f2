-------------------------------- MODULE Answers --------------------------------
(* What a layer can be told, and how its reasons become an outcome.            *)
CONSTANTS
    Failed, \* the answer to a question whose fetcher threw
    None    \* null: the answer is that nothing is known, or that there is none

\* optionalEvidence: what cannot be had is null, and recorded as a gap.
optionalEvidence(answer) == IF answer = Failed THEN None ELSE answer

\* Every layer returns its reasons, and rejects if there is one.
ByReasons(reasons) == IF reasons = {} THEN "PASS" ELSE "REJECT"
=============================================================================
