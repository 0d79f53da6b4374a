--------------------------- MODULE MCCurationJobs ---------------------------
\* Values of the constants of CurationJobs for TLC: two turns that wish the same.
EXTENDS CurationJobs

CONSTANTS j1, t1, t2, p1, p2

MCGoal(j) == "deliver"
MCWish(t) == "deliver"
MCBackends == {"task", "thread", "failed"}
MCFaults == {"crash", "raise", "again"}
=============================================================================
