------------------------- MODULE MCInferenceRouter -------------------------
\* Values of the constants of InferenceRouter for TLC.
EXTENDS InferenceRouter

CONSTANTS t1, t2, t3, t4
=============================================================================
