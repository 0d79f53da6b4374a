--------------------------- MODULE MCDispatchPlan ---------------------------
\* Values of the constants of DispatchPlan for TLC.
EXTENDS DispatchPlan

CONSTANTS p1, p2, p3, s1, w1, w2

\* Three jobs of one type and one of another, of two pools and two providers, and one job
\* whose payload names a class that no pool routes on.
MCTypeOrder == <<"ANALYZE_PATH", "PIPELINE_STAGE">>
MCType(j) == IF j = s1 THEN "PIPELINE_STAGE" ELSE "ANALYZE_PATH"
MCRank(j) == CASE j = p1 -> 0 [] j = p2 -> 1 [] j = s1 -> 2 [] j = p3 -> 3
MCProvider(j) == IF j = p2 THEN "local" ELSE "_default"
MCPool(j) == IF j = p1 THEN "reporting" ELSE "inference"
MCServes(w) == IF w = w1 THEN "any" ELSE "inference"
MCCapacity(w) == 1
MCMaxForType(t) == 2
MCProviderMax(p) == IF p = "local" THEN 1 ELSE 2
=============================================================================
