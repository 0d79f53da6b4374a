------------------------- MODULE MCInferenceQueue -------------------------
\* Values of the constants of InferenceQueue for TLC.
EXTENDS InferenceQueue

CONSTANTS r1, r2, r3, w1, w2

\* r1 and r2 may share a batch, r3 may not.
MCKey(r) == IF r = r3 THEN "other" ELSE "common"
=============================================================================
