----------------------- MODULE SessionAnalysis_proofs -----------------------
(***************************************************************************)
(* Proofs about SessionAnalysis, for any images, any number of processes,  *)
(* and any way of choosing what a batch keeps.                             *)
(***************************************************************************)
EXTENDS SessionAnalysis, TLAPS

Firsts == {"list", "load1", "load2", "report", "outcome"}
Nexts == {"load1", "load2", "report", "outcome", "close"}

LEMMA PlacesOfStages ==
  /\ \A s \in Stages : First(s) \in Firsts /\ After(s) \in Nexts
  /\ First(1) = "list" /\ First(2) = "load1" /\ First(3) = "load2"
  /\ First(4) = "report" /\ First(5) = "outcome"
  /\ setup.whole => /\ After(1) = "load1" /\ After(2) = "load2" /\ After(3) = "report"
                    /\ After(4) = "outcome"
  /\ ~setup.whole => \A s \in Stages : After(s) = "close"
  /\ After(5) = "close"
PROOF
  <1>1. \A s \in Stages : s = 1 \/ s = 2 \/ s = 3 \/ s = 4 \/ s = 5
      BY DEF Stages
  <1>2. /\ First(1) = "list" /\ First(2) = "load1" /\ First(3) = "load2"
        /\ First(4) = "report" /\ First(5) = "outcome"
      BY DEF First
  <1>3. \A s \in Stages : First(s) \in Firsts
      BY <1>1, <1>2 DEF Firsts
  <1>4. /\ setup.whole => /\ After(1) = First(2) /\ After(2) = First(3)
                          /\ After(3) = First(4) /\ After(4) = First(5)
        /\ ~setup.whole => \A s \in Stages : After(s) = "close"
        /\ After(5) = "close"
      BY DEF After
  <1> HIDE DEF First, After
  <1>5. \A s \in Stages : After(s) \in Nexts
    <2>1. CASE setup.whole
        BY <1>1, <1>2, <1>4, <2>1 DEF Nexts
    <2>2. CASE ~setup.whole
        BY <1>4, <2>2 DEF Nexts
    <2> QED BY <2>1, <2>2
  <1> QED BY <1>2, <1>3, <1>4, <1>5

(* Whatever the strategy, stage 3 records a score or a placeholder.        *)
LEMMA InferRows == Direct \cup FastFirst \subseteq {"score", "weak", "placeholder"}
PROOF
  <1>1. Direct \subseteq {"score", "weak", "placeholder"}
      BY DEF Direct, Answers
  <1>2. ASSUME NEW fast \in Answers, NEW full \in Answers \cup {"none"}
        PROVE  Merged(fast, full) \in {"score", "weak", "placeholder"}
      BY DEF Answers, Merged
  <1>3. ASSUME NEW row \in FastFirst PROVE row \in {"score", "weak", "placeholder"}
    <2>1. PICK fast \in Answers, full \in Answers \cup {"none"} : row = Merged(fast, full)
        BY <1>3 DEF FastFirst
    <2> QED BY <1>2, <2>1
  <1> QED BY <1>1, <1>3

-----------------------------------------------------------------------------
(* Types.                                                                  *)

\* A claim in use has a holder.
TypeInv == TypeOK /\ \A s \in Stages : status[s] = "RUNNING" => holder[s] \in Procs

LEMMA TypeInit == Init => TypeInv
PROOF
  <1> SUFFICES ASSUME Init PROVE TypeInv
      OBVIOUS
  <1>1. /\ setup \in Setups
        /\ status \in [Stages -> {"NONE", "QUEUED", "RUNNING", "SUCCEEDED", "FAILED"}]
        /\ holder \in [Stages -> Procs \cup {NoProc}]
        /\ \A s \in Stages : status[s] # "RUNNING"
      BY DEF Init
  <1>2. at \in [Procs -> Places] /\ of \in [Procs -> Stages]
      BY DEF Init, Places, Stages
  <1>3. todo \in [Procs -> SUBSET Images] /\ out \in [Procs -> SUBSET Images]
      BY DEF Init
  <1>4. faults \in 0..MaxFaults /\ retries \in 0..MaxRetries
      BY BoundAssumption DEF Init
  <1>5. audit \in [Images -> Rows]
      BY DEF Init, Rows
  <1> QED BY <1>1, <1>2, <1>3, <1>4, <1>5 DEF Init, TypeInv, TypeOK

\* A step of a process inside its run.
LEMMA WorkType ==
  ASSUME TypeInv, NEW p \in Procs, NEW place \in Places,
         NEW td \in SUBSET Images, NEW ot \in SUBSET Images, Work(p, place, td, ot),
         audit' \in [Images -> Rows], m1' \subseteq Images, m2' \subseteq Images,
         current' \in BOOLEAN, analyzed' \in BOOLEAN, faults' \in 0..MaxFaults,
         UNCHANGED <<retries, overlapped, rewound, torn>>, stale' \subseteq Images
  PROVE  TypeInv'
PROOF
  <1>1. at' \in [Procs -> Places] /\ of' = of
      BY DEF TypeInv, TypeOK, Work
  <1>2. todo' \in [Procs -> SUBSET Images] /\ out' \in [Procs -> SUBSET Images]
      BY DEF TypeInv, TypeOK, Work
  <1> QED BY <1>1, <1>2 DEF TypeInv, TypeOK, Work, jobVars

LEMMA StepType == ASSUME TypeInv, NEW p \in Procs, Step(p) PROVE TypeInv'
PROOF
  <1> USE DEF fileVars, pastVars
  <1>1. /\ at[p] \in Places /\ todo[p] \in SUBSET Images /\ out[p] \in SUBSET Images
        /\ m1 \in SUBSET Images /\ m2 \in SUBSET Images
        /\ audit \in [Images -> Rows] /\ current \in BOOLEAN /\ analyzed \in BOOLEAN
        /\ stale \subseteq Images /\ faults \in 0..MaxFaults
      BY DEF TypeInv, TypeOK
  <1>2. \A s \in Stages : First(s) \in Places /\ After(s) \in Places
      BY PlacesOfStages DEF Firsts, Nexts, Places
  <1>3. 1 \in Stages /\ 2 \in Stages /\ 3 \in Stages /\ 4 \in Stages /\ 5 \in Stages
      BY DEF Stages
  <1>4. /\ PlanEnd \in Places /\ ScoreEnd(p) \in Places
        /\ {"assess", "save1", "fill1", "score", "turn", "save2", "fill2", "plan", "infer",
            "save3", "fill3"} \subseteq Places
      BY <1>2, <1>3 DEF PlanEnd, ScoreEnd, Places
  <1>5. ASSUME NEW i \in Images, NEW r \in Rows, Append(i, r)
        PROVE  /\ audit' \in [Images -> Rows] /\ current' \in BOOLEAN
               /\ stale' \subseteq Images
               /\ UNCHANGED <<m1, m2, analyzed, faults, retries, overlapped, rewound, torn>>
      BY <1>1, <1>5 DEF Append, Row
  <1>6. ASSUME Reset(p) PROVE TypeInv'
    <2>1. audit' \in [Images -> Rows]
        BY <1>6 DEF Reset, Rows
    <2>2. Work(p, First(1), {}, {}) /\ First(1) \in Places
        BY <1>2, <1>3, <1>6 DEF Reset
    <2>3. /\ m1' = {} /\ m2' = {} /\ stale' = {} /\ current' = FALSE
          /\ UNCHANGED <<analyzed, faults, retries, overlapped, rewound, torn>>
        BY <1>6 DEF Reset
    <2>4. current' \in BOOLEAN /\ analyzed' \in BOOLEAN /\ faults' \in 0..MaxFaults
        BY <1>1, <2>3
    <2>5. {} \in SUBSET Images
        OBVIOUS
    <2> QED BY <2>1, <2>2, <2>3, <2>4, <2>5, WorkType
  <1>7. ASSUME List(p) PROVE TypeInv'
    <2> DEFINE left == Images \ Skipped(Done)
    <2>1. \/ Work(p, After(1), {}, {}) /\ m1' = {}
          \/ Work(p, "assess", left, {}) /\ m1' = m1
        BY <1>7 DEF List
    <2>2. left \in SUBSET Images
        OBVIOUS
    <2>3. UNCHANGED <<audit, m2, current, analyzed, pastVars>>
        BY <1>7 DEF List
    <2> HIDE DEF left
    <2> QED BY <1>1, <1>2, <1>3, <1>4, <2>1, <2>2, <2>3, WorkType
  <1>8. ASSUME Save1(p) \/ Fill1(p) \/ Save2(p) \/ Fill2(p) \/ Save3(p) \/ Fill3(p)
        PROVE TypeInv'
      BY <1>1, <1>2, <1>3, <1>4, <1>8, WorkType
         DEF Save1, Fill1, Save2, Fill2, Save3, Fill3
  <1>9. ASSUME Load1(p) PROVE TypeInv'
      BY <1>1, <1>2, <1>3, <1>4, <1>9, WorkType DEF Load1
  <1>10. ASSUME Gate(p) PROVE TypeInv'
    <2>1. Admit(out[p]) \in SUBSET Images /\ out[p] \ Admit(out[p]) \in SUBSET Images
        BY <1>1, AdmitAssumption
    <2>2. \E place \in {"save2", "turn"} :
             Work(p, place, out[p] \ Admit(out[p]), Admit(out[p]))
        BY <1>10 DEF Gate
    <2>3. NoRow
        BY <1>10 DEF Gate
    <2> QED BY <1>1, <1>4, <2>1, <2>2, <2>3, WorkType DEF NoRow
  <1>11. ASSUME Load2(p) PROVE TypeInv'
    <2> DEFINE left == Candidates \ Skipped(Scored)
    <2>1. left \in SUBSET Images
        BY <1>1 DEF Candidates
    <2>2. NoRow /\ (Work(p, After(3), left, {}) \/ Work(p, "plan", left, {}))
        BY <1>11 DEF Load2
    <2> HIDE DEF left
    <2> QED BY <1>1, <1>2, <1>3, <1>4, <2>1, <2>2, WorkType DEF NoRow
  <1>12. ASSUME Plan(p) PROVE TypeInv'
    <2>1. PICK keep \in SUBSET todo[p] :
             Work(p, IF keep = {} THEN PlanEnd ELSE "infer", keep, PutOff(p, keep))
        BY <1>12 DEF Plan
    <2>2. keep \in SUBSET Images /\ PutOff(p, keep) \in SUBSET Images
        BY <1>1 DEF PutOff
    <2>3. NoRow /\ (IF keep = {} THEN PlanEnd ELSE "infer") \in Places
        BY <1>4, <1>12 DEF Plan
    <2> QED BY <1>1, <2>1, <2>2, <2>3, WorkType DEF NoRow
  <1>13. ASSUME Report(p) \/ Outcome(p) PROVE TypeInv'
      BY <1>1, <1>2, <1>3, <1>13, WorkType DEF Report, Outcome
  <1>14. ASSUME NEW i \in Images, Assess(p, i) \/ Score(p, i) PROVE TypeInv'
    <2>1. PICK place \in Places, ot \in SUBSET Images : Work(p, place, todo[p] \ {i}, ot)
        BY <1>1, <1>4, <1>14 DEF Assess, Score, Through
    <2>2. NoRow \/ Append(i, "reject")
        BY <1>14 DEF Assess, Score
    <2>3. "reject" \in Rows /\ todo[p] \ {i} \in SUBSET Images
        BY <1>1 DEF Rows
    <2> QED BY <1>1, <1>5, <2>1, <2>2, <2>3, WorkType DEF NoRow
  <1>15. ASSUME NEW i \in Images, Turn(p, i) \/ Infer(p, i) PROVE TypeInv'
    <2>1. PICK place \in Places : Work(p, place, todo[p] \ {i}, out[p])
        BY <1>1, <1>4, <1>15 DEF Turn, Infer, Through
    <2>2. PICK r \in Rows : Append(i, r)
        BY <1>15, InferRows DEF Turn, Infer, Rows
    <2>3. todo[p] \ {i} \in SUBSET Images
        BY <1>1
    <2> QED BY <1>1, <1>5, <2>1, <2>2, <2>3, WorkType
  <1>16. ASSUME Succeed(p) PROVE TypeInv'
      BY <1>16 DEF Succeed, Verdict, Leave, TypeInv, TypeOK, Places, Stages
  <1> QED BY <1>6, <1>7, <1>8, <1>9, <1>10, <1>11, <1>12, <1>13, <1>14, <1>15, <1>16
           DEF Step

LEMMA TypeStep == TypeInv /\ [Next]_vars => TypeInv'
PROOF
  <1> SUFFICES ASSUME TypeInv, [Next]_vars PROVE TypeInv'
      OBVIOUS
  <1> USE BoundAssumption, ProcAssumption DEF fileVars, pastVars, jobVars
  <1>1. ASSUME NEW p \in Procs, Step(p) PROVE TypeInv'
      BY <1>1, StepType
  <1>2. ASSUME NEW p \in Procs, NEW i \in Images, AssessRaises(p, i) PROVE TypeInv'
    <2>1. PICK place \in Places : Work(p, place, todo[p] \ {i}, out[p])
        BY <1>2 DEF AssessRaises, Through, TypeInv, TypeOK, Places
    <2>2. /\ audit' \in [Images -> Rows] /\ current' \in BOOLEAN /\ stale' \subseteq Images
          /\ UNCHANGED <<m1, m2, analyzed, retries, overlapped, rewound, torn>>
      <3>1. Row(i, "reject") /\ UNCHANGED <<retries, overlapped, rewound, torn>>
          BY <1>2 DEF AssessRaises
      <3>2. audit \in [Images -> Rows] /\ stale \subseteq Images /\ "reject" \in Rows
          BY DEF TypeInv, TypeOK, Rows
      <3> QED BY <3>1, <3>2 DEF Row
    <2>4. faults' \in 0..MaxFaults
        BY <1>2 DEF AssessRaises, TypeInv, TypeOK
    <2>3. todo[p] \ {i} \in SUBSET Images /\ out[p] \in SUBSET Images
        BY DEF TypeInv, TypeOK
    <2> QED BY <2>1, <2>2, <2>3, <2>4, WorkType DEF TypeInv, TypeOK
  <1>3. ASSUME NEW p \in Procs, Stall(p) PROVE TypeInv'
    <2>1. Work(p, "stalled", todo[p], out[p]) /\ faults' \in 0..MaxFaults
        BY <1>3 DEF Stall, TypeInv, TypeOK
    <2>2. todo[p] \in SUBSET Images /\ out[p] \in SUBSET Images /\ "stalled" \in Places
        BY DEF TypeInv, TypeOK, Places
    <2>3. UNCHANGED <<fileVars, analyzed, retries, overlapped, rewound, torn, stale>>
        BY <1>3 DEF Stall
    <2> QED BY <2>1, <2>2, <2>3, WorkType DEF TypeInv, TypeOK
  <1>4. ASSUME NEW p \in Procs, Fail(p) \/ Crash(p) PROVE TypeInv'
    <2>1. Leave(p) /\ faults' \in 0..MaxFaults /\ torn' \in BOOLEAN
      <3>1. Leave(p) /\ (faults' = faults \/ (faults < MaxFaults /\ faults' = faults + 1))
          BY <1>4 DEF Fail, Crash, Verdict
      <3>2. torn' = (torn \/ at[p] = "fill3")
          BY <1>4 DEF Fail, Crash
      <3>3. faults \in 0..MaxFaults /\ torn \in BOOLEAN
          BY DEF TypeInv, TypeOK
      <3>4. faults' \in 0..MaxFaults
          BY <3>1, <3>3
      <3>5. torn' \in BOOLEAN
          BY <3>2
      <3> QED BY <3>1, <3>4, <3>5
    <2>2. /\ at' \in [Procs -> Places] /\ of' \in [Procs -> Stages]
          /\ todo' \in [Procs -> SUBSET Images] /\ out' \in [Procs -> SUBSET Images]
        BY <2>1 DEF Leave, TypeInv, TypeOK, Places, Stages
    <2>3. /\ status' \in [Stages -> {"NONE", "QUEUED", "RUNNING", "SUCCEEDED", "FAILED"}]
          /\ holder' \in [Stages -> Procs \cup {NoProc}]
          /\ \A s \in Stages : status'[s] = "RUNNING" => holder'[s] \in Procs
        BY <1>4 DEF Fail, Crash, Verdict, TypeInv, TypeOK
    <2>4. UNCHANGED <<setup, fileVars, analyzed, retries, overlapped, rewound, stale>>
        BY <1>4 DEF Fail, Crash, Verdict
    <2> QED BY <2>1, <2>2, <2>3, <2>4 DEF TypeInv, TypeOK
  <1>5. ASSUME NEW p \in Procs, NEW s \in Stages, Start(p, s) PROVE TypeInv'
    <2>1. (IF setup.force THEN "reset" ELSE First(s)) \in Places
        BY PlacesOfStages DEF Firsts, Places
    <2>2. /\ at' \in [Procs -> Places] /\ of' \in [Procs -> Stages]
          /\ UNCHANGED <<todo, out, setup, fileVars, analyzed, faults, retries, rewound, torn>>
        BY <1>5, <2>1 DEF Start, TypeInv, TypeOK
    <2>3. /\ status' \in [Stages -> {"NONE", "QUEUED", "RUNNING", "SUCCEEDED", "FAILED"}]
          /\ holder' \in [Stages -> Procs \cup {NoProc}]
          /\ \A t \in Stages : status'[t] = "RUNNING" => holder'[t] \in Procs
        BY <1>5 DEF Start, TypeInv, TypeOK
    <2>4. overlapped' \in BOOLEAN /\ stale' \subseteq Images
        BY <1>5 DEF Start, TypeInv, TypeOK
    <2> QED BY <2>2, <2>3, <2>4 DEF TypeInv, TypeOK
  <1>6. ASSUME NEW s \in Stages, Create(s) \/ Requeue(s) \/ Retry(s) PROVE TypeInv'
    <2>1. /\ faults' \in 0..MaxFaults /\ retries' \in 0..MaxRetries
          /\ rewound' \in BOOLEAN
        BY <1>6 DEF Create, Requeue, Retry, TypeInv, TypeOK, Setups
    <2>2. /\ status' \in [Stages -> {"NONE", "QUEUED", "RUNNING", "SUCCEEDED", "FAILED"}]
          /\ holder' \in [Stages -> Procs \cup {NoProc}]
          /\ \A t \in Stages : status'[t] = "RUNNING" => holder'[t] \in Procs
        BY <1>6 DEF Create, Requeue, Retry, TypeInv, TypeOK
    <2>3. UNCHANGED <<setup, fileVars, analyzed, procVars, overlapped, torn, stale>>
        BY <1>6 DEF Create, Requeue, Retry
    <2> QED BY <2>1, <2>2, <2>3 DEF TypeInv, TypeOK, procVars
  <1>7. CASE UNCHANGED vars
      BY <1>7 DEF vars, procVars, TypeInv, TypeOK
  <1> QED BY <1>1, <1>2, <1>3, <1>4, <1>5, <1>6, <1>7 DEF Next

\* Files, jobs and processes are well typed, and a running job has a process behind it.
THEOREM AnalysisTypesHold == Spec => []TypeOK
PROOF
  <1>1. TypeInv => TypeOK
      BY DEF TypeInv
  <1> QED BY TypeInit, TypeStep, <1>1, PTL DEF Spec

-----------------------------------------------------------------------------
(* What is turned down costs no model call.  The claim holds because it    *)
(* travels with the images: a manifest, and what a process still has to    *)
(* look at or will hand on, leaves out what the stages before turned down, *)
(* even while another process is rewriting the file.                       *)

Bad == Unfit \cup Dull

Clean(place, td, ot) ==
    /\ place \in {"assess", "save1", "fill1"} => ot \cap Unfit = {}
    /\ place \in {"score", "stalled"} => td \cap Unfit = {}
    /\ place \in {"score", "stalled", "gate", "turn", "save2", "fill2",
                  "plan", "infer", "save3", "fill3"} => ot \cap Bad = {}
    /\ place \in {"plan", "infer"} => td \cap Bad = {}

CleanFiles ==
    /\ \A i \in Bad : audit[i] \in {"none", "reject"}
    /\ m1 \cap Unfit = {} /\ m2 \cap Bad = {}

CleanInv == CleanFiles /\ \A p \in Procs : Clean(at[p], todo[p], out[p])

\* A place that only begins a stage asks nothing.
LEMMA CleanStart ==
  ASSUME NEW place, place \in Firsts \cup Nexts \cup {"idle", "reset", "broken"},
         NEW td, NEW ot
  PROVE  Clean(place, td, ot)
PROOF
  BY DEF Clean, Firsts, Nexts

\* A step of a process changes nothing for the others.
LEMMA CleanWork ==
  ASSUME TypeInv, CleanInv, NEW p \in Procs, NEW place, NEW td, NEW ot,
         Work(p, place, td, ot), Clean(place, td, ot), CleanFiles'
  PROVE  CleanInv'
PROOF
  <1>1. ASSUME NEW q \in Procs PROVE Clean(at'[q], todo'[q], out'[q])
    <2>1. CASE q = p
      <3>1. at'[q] = place /\ todo'[q] = td /\ out'[q] = ot
          BY <2>1 DEF Work, TypeInv, TypeOK
      <3> QED BY <3>1
    <2>2. CASE q # p
      <3>1. at'[q] = at[q] /\ todo'[q] = todo[q] /\ out'[q] = out[q]
          BY <2>2 DEF Work, TypeInv, TypeOK
      <3> QED BY <3>1 DEF CleanInv
    <2> QED BY <2>1, <2>2
  <1>2. \A q \in Procs : Clean(at[q], todo[q], out[q])'
      BY <1>1 DEF Clean
  <1> QED BY <1>2 DEF CleanInv

\* A row may be written for an image nothing turned down, or turn one down.
LEMMA CleanRow ==
  ASSUME TypeInv, CleanInv, NEW i \in Images, NEW r \in Rows, Row(i, r),
         r = "reject" \/ i \notin Bad
  PROVE  CleanFiles'
PROOF
  <1>1. \A j \in Bad : j \in Images
      BY VerdictAssumption DEF Bad
  <1>2. m1' = m1 /\ m2' = m2 /\ audit' = [audit EXCEPT ![i] = r]
      BY DEF Row
  <1>3. \A j \in Bad : audit'[j] \in {"none", "reject"}
      BY <1>1, <1>2 DEF TypeInv, TypeOK, CleanInv, CleanFiles
  <1> QED BY <1>2, <1>3 DEF CleanInv, CleanFiles

LEMMA CleanStep == ASSUME TypeInv, CleanInv, NEW p \in Procs, Step(p) PROVE CleanInv'
PROOF
  <1> USE DEF fileVars, pastVars
  <1>1. /\ Clean(at[p], todo[p], out[p])
        /\ \A i \in Bad : audit[i] \in {"none", "reject"}
        /\ m1 \cap Unfit = {} /\ m2 \cap Bad = {}
        /\ todo[p] \in SUBSET Images /\ out[p] \in SUBSET Images
      BY DEF CleanInv, CleanFiles, TypeInv, TypeOK
  <1>2. \A s \in Stages : First(s) \in Firsts /\ After(s) \in Nexts
      BY PlacesOfStages
  <1>3. 1 \in Stages /\ 2 \in Stages /\ 3 \in Stages /\ 4 \in Stages /\ 5 \in Stages
      BY DEF Stages
  <1>4. \A s \in Stages : \A td, ot : Clean(First(s), td, ot) /\ Clean(After(s), td, ot)
      BY <1>2, CleanStart
  <1>5. \A td, ot : /\ Clean(After(1), td, ot) /\ Clean(After(2), td, ot)
                    /\ Clean(After(3), td, ot) /\ Clean(After(4), td, ot)
                    /\ Clean(After(5), td, ot) /\ Clean(First(1), td, ot)
      BY <1>3, <1>4
  <1>6. ASSUME UNCHANGED <<audit, m1, m2>> PROVE CleanFiles'
      BY <1>1, <1>6 DEF CleanFiles
  <1>7. ASSUME Reset(p) PROVE CleanInv'
    <2>1. CleanFiles'
        BY <1>7, VerdictAssumption DEF Reset, CleanFiles, Bad
    <2> QED BY <1>5, <1>7, <2>1, CleanWork DEF Reset
  <1>8. ASSUME List(p) PROVE CleanInv'
    <2> DEFINE left == Images \ Skipped(Done)
    <2>1. \/ Work(p, After(1), {}, {}) /\ m1' = {}
          \/ Work(p, "assess", left, {}) /\ m1' = m1
        BY <1>8 DEF List
    <2>2. CleanFiles'
        BY <1>1, <1>8, <2>1 DEF List, CleanFiles
    <2>3. Clean("assess", left, {})
        BY DEF Clean
    <2> HIDE DEF left
    <2> QED BY <1>5, <2>1, <2>2, <2>3, CleanWork
  <1>9. ASSUME Save1(p) PROVE CleanInv'
    <2>1. out[p] \cap Unfit = {}
        BY <1>1, <1>9 DEF Save1, Clean
    <2>2. CleanFiles'
        BY <1>1, <1>9, <2>1 DEF Save1, CleanFiles
    <2>3. Clean("fill1", {}, out[p])
        BY <2>1 DEF Clean
    <2> QED BY <1>9, <2>2, <2>3, CleanWork DEF Save1
  <1>10. ASSUME Fill1(p) PROVE CleanInv'
    <2>1. out[p] \cap Unfit = {}
        BY <1>1, <1>10 DEF Fill1, Clean
    <2>2. CleanFiles'
        BY <1>1, <1>10, <2>1 DEF Fill1, CleanFiles
    <2> QED BY <1>5, <1>10, <2>2, CleanWork DEF Fill1
  <1>11. ASSUME Load1(p) PROVE CleanInv'
    <2>1. \/ m2' = {} /\ Work(p, After(2), {}, {})
          \/ m2' = m2 /\ Work(p, "score", m1, {})
        BY <1>11 DEF Load1
    <2>2. CleanFiles'
        BY <1>1, <1>11, <2>1 DEF Load1, CleanFiles
    <2>3. Clean("score", m1, {})
        BY <1>1 DEF Clean
    <2> QED BY <1>5, <2>1, <2>2, <2>3, CleanWork
  <1>12. ASSUME Gate(p) PROVE CleanInv'
    <2>1. out[p] \cap Bad = {}
        BY <1>1, <1>12 DEF Gate, Clean
    <2>2. Admit(out[p]) \subseteq out[p]
        BY <1>1, AdmitAssumption
    <2>3. PICK place \in {"save2", "turn"} :
             Work(p, place, out[p] \ Admit(out[p]), Admit(out[p]))
        BY <1>12 DEF Gate
    <2>4. Clean(place, out[p] \ Admit(out[p]), Admit(out[p]))
        BY <2>1, <2>2 DEF Clean
    <2>5. CleanFiles'
        BY <1>6, <1>12 DEF Gate, NoRow
    <2> QED BY <2>3, <2>4, <2>5, CleanWork
  <1>13. ASSUME Save2(p) PROVE CleanInv'
    <2>1. out[p] \cap Bad = {}
        BY <1>1, <1>13 DEF Save2, Clean
    <2>2. CleanFiles'
        BY <1>1, <1>13, <2>1 DEF Save2, CleanFiles
    <2>3. Clean("fill2", {}, out[p])
        BY <2>1 DEF Clean
    <2> QED BY <1>13, <2>2, <2>3, CleanWork DEF Save2
  <1>14. ASSUME Fill2(p) PROVE CleanInv'
    <2>1. out[p] \cap Bad = {}
        BY <1>1, <1>14 DEF Fill2, Clean
    <2>2. CleanFiles'
        BY <1>1, <1>14, <2>1 DEF Fill2, CleanFiles
    <2> QED BY <1>5, <1>14, <2>2, CleanWork DEF Fill2
  <1>15. ASSUME Load2(p) PROVE CleanInv'
    <2> DEFINE left == Candidates \ Skipped(Scored)
    <2>1. \/ Work(p, After(3), left, {})
          \/ Work(p, "plan", left, {})
        BY <1>15 DEF Load2
    <2>2. left \cap Bad = {}
        BY <1>1 DEF Candidates
    <2>3. Clean("plan", left, {})
        BY <2>2 DEF Clean
    <2>4. CleanFiles'
        BY <1>6, <1>15 DEF Load2, NoRow
    <2> HIDE DEF left
    <2> QED BY <1>5, <2>1, <2>3, <2>4, CleanWork
  <1>16. ASSUME Plan(p) PROVE CleanInv'
    <2>1. PICK keep \in SUBSET todo[p] :
             Work(p, IF keep = {} THEN PlanEnd ELSE "infer", keep, PutOff(p, keep))
        BY <1>16 DEF Plan
    <2>2. todo[p] \cap Bad = {}
        BY <1>1, <1>16 DEF Plan, Clean
    <2>3. keep \cap Bad = {} /\ PutOff(p, keep) \cap Bad = {}
        BY <2>2 DEF PutOff
    <2>4. Clean("infer", keep, PutOff(p, keep)) /\ Clean("save3", keep, PutOff(p, keep))
        BY <2>3 DEF Clean
    <2>5. Clean(IF keep = {} THEN PlanEnd ELSE "infer", keep, PutOff(p, keep))
        BY <1>5, <2>4 DEF PlanEnd
    <2>6. CleanFiles'
        BY <1>6, <1>16 DEF Plan, NoRow
    <2> QED BY <2>1, <2>5, <2>6, CleanWork
  <1>17. ASSUME Save3(p) PROVE CleanInv'
    <2>1. out[p] \cap Bad = {}
        BY <1>1, <1>17 DEF Save3, Clean
    <2>2. CleanFiles'
        BY <1>1, <1>17, <2>1 DEF Save3, CleanFiles
    <2>3. Clean("fill3", {}, out[p])
        BY <2>1 DEF Clean
    <2> QED BY <1>17, <2>2, <2>3, CleanWork DEF Save3
  <1>18. ASSUME Fill3(p) PROVE CleanInv'
    <2>1. out[p] \cap Bad = {}
        BY <1>1, <1>18 DEF Fill3, Clean
    <2>2. CleanFiles'
        BY <1>1, <1>18, <2>1 DEF Fill3, CleanFiles
    <2> QED BY <1>5, <1>18, <2>2, CleanWork DEF Fill3
  <1>19. ASSUME Report(p) \/ Outcome(p) PROVE CleanInv'
    <2>1. CleanFiles'
        BY <1>6, <1>19 DEF Report, Outcome
    <2> QED BY <1>5, <1>19, <2>1, CleanWork DEF Report, Outcome
  <1>20. ASSUME Succeed(p) PROVE CleanInv'
    <2>1. CleanFiles'
        BY <1>6, <1>20 DEF Succeed, Verdict
    <2>2. Leave(p)
        BY <1>20 DEF Succeed, Verdict
    <2>3. ASSUME NEW q \in Procs PROVE Clean(at'[q], todo'[q], out'[q])
      <3>1. \/ at'[q] = "idle"
            \/ at'[q] = at[q] /\ todo'[q] = todo[q] /\ out'[q] = out[q]
          BY <2>2 DEF Leave, TypeInv, TypeOK
      <3> QED BY <3>1, CleanStart DEF CleanInv
    <2> QED BY <2>1, <2>3 DEF CleanInv, Clean
  <1>21. ASSUME NEW i \in Images, Assess(p, i) PROVE CleanInv'
    <2>1. at[p] = "assess" /\ out[p] \cap Unfit = {}
        BY <1>1, <1>21 DEF Assess, Clean
    <2>2. PICK ot \in {out[p], out[p] \cup {i}} :
            /\ ot \cap Unfit = {}
            /\ Through(p, i, "save1", ot)
        BY <1>21, <2>1 DEF Assess
    <2>3. CleanFiles'
        BY <1>6, <1>21, CleanRow DEF Assess, Append, NoRow, Rows
    <2>4. Clean("assess", todo[p] \ {i}, ot) /\ Clean("save1", todo[p] \ {i}, ot)
        BY <2>2 DEF Clean
    <2> QED BY <2>1, <2>2, <2>3, <2>4, CleanWork DEF Through
  <1>22. ASSUME NEW i \in Images, Score(p, i) PROVE CleanInv'
    <2>1. at[p] \in {"score", "stalled"} /\ todo[p] \cap Unfit = {} /\ out[p] \cap Bad = {}
        BY <1>1, <1>22 DEF Score, Clean
    <2>2. PICK ot \in {out[p], out[p] \cup {i}} :
            /\ ot \cap Bad = {}
            /\ Through(p, i, ScoreEnd(p), ot)
        BY <1>22, <2>1 DEF Score, Bad
    <2>3. CleanFiles'
        BY <1>6, <1>22, CleanRow DEF Score, Append, NoRow, Rows
    <2>4. Clean(at[p], todo[p] \ {i}, ot) /\ Clean(ScoreEnd(p), todo[p] \ {i}, ot)
        BY <2>1, <2>2 DEF Clean, ScoreEnd
    <2> QED BY <2>2, <2>3, <2>4, CleanWork DEF Through
  <1>23. ASSUME NEW i \in Images, Turn(p, i) PROVE CleanInv'
    <2>1. at[p] = "turn" /\ out[p] \cap Bad = {}
        BY <1>1, <1>23 DEF Turn, Clean
    <2>2. Through(p, i, "save2", out[p]) /\ Row(i, "reject")
        BY <1>23 DEF Turn, Append
    <2>3. CleanFiles'
        BY <2>2, CleanRow DEF Rows
    <2>4. Clean("turn", todo[p] \ {i}, out[p]) /\ Clean("save2", todo[p] \ {i}, out[p])
        BY <2>1 DEF Clean
    <2> QED BY <2>1, <2>2, <2>3, <2>4, CleanWork DEF Through
  <1>24. ASSUME NEW i \in Images, Infer(p, i) PROVE CleanInv'
    <2>1. at[p] = "infer" /\ out[p] \cap Bad = {} /\ todo[p] \cap Bad = {}
        BY <1>1, <1>24 DEF Infer, Clean
    <2>2. Through(p, i, PlanEnd, out[p])
        BY <1>24 DEF Infer
    <2>3. PICK r \in {"score", "weak", "placeholder"} : Row(i, r)
        BY <1>24, InferRows DEF Infer, Append
    <2>4. i \notin Bad /\ r \in Rows
        BY <1>24, <2>1 DEF Infer, Rows
    <2>5. CleanFiles'
        BY <2>3, <2>4, CleanRow
    <2>6. /\ Clean("infer", todo[p] \ {i}, out[p])
          /\ Clean("save3", todo[p] \ {i}, out[p])
        BY <2>1 DEF Clean
    <2>7. Clean(PlanEnd, todo[p] \ {i}, out[p])
        BY <1>5, <2>6 DEF PlanEnd
    <2> QED BY <2>1, <2>2, <2>5, <2>6, <2>7, CleanWork DEF Through
  <1> QED BY <1>7, <1>8, <1>9, <1>10, <1>11, <1>12, <1>13, <1>14, <1>15, <1>16, <1>17, <1>18,
             <1>19, <1>20, <1>21, <1>22, <1>23, <1>24 DEF Step

LEMMA CleanNext == TypeInv /\ CleanInv /\ [Next]_vars => CleanInv'
PROOF
  <1> SUFFICES ASSUME TypeInv, CleanInv, [Next]_vars PROVE CleanInv'
      OBVIOUS
  <1> USE DEF fileVars, pastVars, procVars
  <1>1. ASSUME NEW p \in Procs, Step(p) PROVE CleanInv'
      BY <1>1, CleanStep
  <1>2. ASSUME UNCHANGED <<audit, m1, m2>> PROVE CleanFiles'
      BY <1>2 DEF CleanInv, CleanFiles
  <1>3. ASSUME NEW p \in Procs, NEW i \in Images, AssessRaises(p, i) PROVE CleanInv'
    <2>1. /\ at[p] = "assess" /\ i \notin Unfit /\ Through(p, i, "save1", out[p])
          /\ Row(i, "reject")
        BY <1>3 DEF AssessRaises
    <2>2. Clean("assess", todo[p] \ {i}, out[p]) /\ Clean("save1", todo[p] \ {i}, out[p])
        BY <2>1 DEF CleanInv, Clean
    <2>3. CleanFiles'
        BY <2>1, CleanRow DEF Rows
    <2> QED BY <2>1, <2>2, <2>3, CleanWork DEF Through
  <1>4. ASSUME NEW p \in Procs, Stall(p) PROVE CleanInv'
    <2>1. Work(p, "stalled", todo[p], out[p]) /\ at[p] = "score"
        BY <1>4 DEF Stall
    <2>2. Clean("stalled", todo[p], out[p])
        BY <2>1 DEF CleanInv, Clean
    <2>3. CleanFiles'
        BY <1>2, <1>4 DEF Stall
    <2> QED BY <2>1, <2>2, <2>3, CleanWork
  <1>5. ASSUME NEW p \in Procs, Fail(p) \/ Crash(p) PROVE CleanInv'
    <2>1. CleanFiles'
        BY <1>2, <1>5 DEF Fail, Crash, Verdict
    <2>2. Leave(p)
        BY <1>5 DEF Fail, Crash, Verdict
    <2>3. ASSUME NEW q \in Procs PROVE Clean(at'[q], todo'[q], out'[q])
      <3>1. \/ at'[q] = "idle"
            \/ at'[q] = at[q] /\ todo'[q] = todo[q] /\ out'[q] = out[q]
          BY <2>2 DEF Leave, TypeInv, TypeOK
      <3> QED BY <3>1, CleanStart DEF CleanInv
    <2> QED BY <2>1, <2>3 DEF CleanInv, Clean
  <1>6. ASSUME NEW p \in Procs, NEW s \in Stages, Start(p, s) PROVE CleanInv'
    <2>1. CleanFiles'
        BY <1>2, <1>6 DEF Start
    <2>2. ASSUME NEW q \in Procs PROVE Clean(at'[q], todo'[q], out'[q])
      <3>1. \/ at'[q] = "reset" \/ at'[q] = First(s)
            \/ at'[q] = at[q] /\ todo'[q] = todo[q] /\ out'[q] = out[q]
          BY <1>6 DEF Start, TypeInv, TypeOK
      <3>2. First(s) \in Firsts
          BY PlacesOfStages
      <3> QED BY <3>1, <3>2, CleanStart DEF CleanInv
    <2> QED BY <2>1, <2>2 DEF CleanInv, Clean
  <1>7. ASSUME UNCHANGED <<fileVars, procVars>> PROVE CleanInv'
      BY <1>7 DEF CleanInv, CleanFiles, Clean
  <1>8. ASSUME NEW s \in Stages, Create(s) \/ Requeue(s) \/ Retry(s) PROVE CleanInv'
      BY <1>7, <1>8 DEF Create, Requeue, Retry
  <1>9. CASE UNCHANGED vars
      BY <1>7, <1>9 DEF vars
  <1> QED BY <1>1, <1>3, <1>4, <1>5, <1>6, <1>8, <1>9 DEF Next

\* An image that stage 1 or stage 2 turns down never costs a model call,
\* whatever is resumed, repeated, or read while it is being written.
THEOREM TurnedDownIsFinal == Spec => []TurnedDownStaysOut
PROOF
  <1>1. Init => CleanInv
      BY VerdictAssumption DEF Init, CleanInv, CleanFiles, Clean, Bad
  <1>2. CleanInv => TurnedDownStaysOut
      BY DEF CleanInv, CleanFiles, TurnedDownStaysOut, Bad
  <1> QED BY TypeInit, TypeStep, CleanNext, <1>1, <1>2, PTL DEF Spec

-----------------------------------------------------------------------------
(* Published results.  Two facts carry the proof: as long as runs do not   *)
(* overlap one process at most is at work, on a stage that has not         *)
(* succeeded; and in a chain nothing repeats a stage under one that has.   *)
(* So nobody writes an audit row once the results are out.                 *)

Early == Places \ {"idle", "report", "outcome", "close"}

Fits(s, place) ==
    IF setup.whole THEN s = 1
    ELSE /\ s = 4 => place \in {"report", "close"}
         /\ s = 5 => place \in {"outcome", "close"}
         /\ s \in {1, 2, 3} => place \notin {"report", "outcome"}

Due(s, place) ==
    /\ place = "close" /\ (setup.whole \/ s = 5) => analyzed
    /\ place \in {"outcome", "close"} /\ setup.whole => current
    /\ place = "close" /\ ~setup.whole /\ s = 4 => current

Shape ==
    /\ status[1] # "NONE"
    /\ setup.whole => \A s \in Stages \ {1} : status[s] = "NONE"
    /\ \A p \in Procs : at[p] # "idle" => Fits(of[p], at[p])

Alone == \A p, q \in Procs : at[p] # "idle" /\ at[q] # "idle" => p = q

Busy(p) ==
    at[p] # "idle" =>
        /\ status[of[p]] # "SUCCEEDED"
        /\ ~setup.whole => DependencySatisfied(of[p])
        /\ Due(of[p], at[p])

Published ==
    /\ ~setup.whole => /\ \A s \in Stages : status[s] = "SUCCEEDED" => DependencySatisfied(s)
                       /\ status[4] = "SUCCEEDED" => current
                       /\ status[5] = "SUCCEEDED" => analyzed
    /\ setup.whole /\ status[1] = "SUCCEEDED" => current /\ analyzed

Calm == Alone /\ (\A p \in Procs : Busy(p)) /\ Published

ResultInv == Shape /\ (~overlapped /\ ~rewound => Calm)

\* A step of a process inside its run.
LEMMA ResultWork ==
  ASSUME TypeInv, ResultInv, NEW p \in Procs, at[p] # "idle",
         NEW place \in Places, NEW td, NEW ot, Work(p, place, td, ot),
         Fits(of[p], place), place # "idle",
         UNCHANGED <<overlapped, rewound>>,
         analyzed => analyzed',
         at[p] \in Early \/ (current => current'),
         ~overlapped /\ ~rewound => Due(of[p], place)'
  PROVE  ResultInv'
PROOF
  <1>1. /\ setup' = setup /\ status' = status /\ of' = of
        /\ at'[p] = place
        /\ \A q \in Procs : q # p => at'[q] = at[q]
      BY DEF Work, jobVars, TypeInv, TypeOK
  <1>2. of[p] \in Stages
      BY DEF TypeInv, TypeOK
  <1>3. Shape'
    <2>1. ASSUME NEW q \in Procs, at'[q] # "idle" PROVE Fits(of[q], at'[q])
      <3>1. CASE q = p
          BY <1>1, <3>1
      <3>2. CASE q # p
          BY <1>1, <2>1, <3>2 DEF ResultInv, Shape
      <3> QED BY <3>1, <3>2
    <2> QED BY <1>1, <2>1 DEF ResultInv, Shape, Fits
  <1>4. ASSUME ~overlapped, ~rewound PROVE Calm'
    <2>1. Alone /\ Busy(p) /\ Published
        BY <1>4 DEF ResultInv, Calm
    <2>2. \A q \in Procs : q # p => at[q] = "idle"
        BY <2>1 DEF Alone
    <2>3. Alone'
        BY <1>1, <2>2 DEF Alone
    <2>4. Due(of[p], place)'
        BY <1>4
    <2>5. ASSUME NEW q \in Procs PROVE Busy(q)'
      <3>1. CASE q = p
          BY <1>1, <2>1, <2>4, <3>1 DEF Busy, DependencySatisfied, Due
      <3>2. CASE q # p
          BY <1>1, <2>2, <3>2 DEF Busy
      <3> QED BY <3>1, <3>2
    <2>6. ASSUME ~setup.whole, status[4] = "SUCCEEDED" PROVE current'
      <3>1. status[3] = "SUCCEEDED" /\ status[2] = "SUCCEEDED" /\ status[1] = "SUCCEEDED"
          BY <2>1, <2>6 DEF Published, DependencySatisfied, Stages
      <3>2. of[p] = 5
          BY <1>2, <2>1, <2>6, <3>1 DEF Busy, Stages
      <3>3. at[p] \in {"outcome", "close"}
          BY <2>6, <3>2 DEF ResultInv, Shape, Fits
      <3> QED BY <2>1, <2>6, <3>3 DEF Published, Early
    <2>7. ASSUME setup.whole PROVE status[1] # "SUCCEEDED"
        BY <2>1, <2>7 DEF Busy, ResultInv, Shape, Fits
    <2>8. Published'
        BY <1>1, <2>1, <2>6, <2>7 DEF Published, DependencySatisfied
    <2> QED BY <2>3, <2>5, <2>8 DEF Calm
  <1> QED BY <1>3, <1>4 DEF ResultInv

\* Before the results are written nothing is due.
LEMMA ResultEarly ==
  ASSUME TypeInv, ResultInv, NEW p \in Procs, at[p] \in Early,
         NEW place \in Early \cup {After(1), After(2), After(3)}, NEW td, NEW ot,
         Work(p, place, td, ot), UNCHANGED <<analyzed, overlapped, rewound>>
  PROVE  ResultInv'
PROOF
  <1>1. Fits(of[p], at[p]) /\ of[p] \in Stages
      BY DEF ResultInv, Shape, TypeInv, TypeOK, Early
  <1>2. ~setup.whole => of[p] \in {1, 2, 3}
      BY <1>1 DEF Fits, Early, Stages
  <1>3. /\ setup.whole => place \in Early \cup {"report"}
        /\ ~setup.whole => place \in Early \cup {"close"}
    <2>1. /\ setup.whole => After(1) = "load1" /\ After(2) = "load2" /\ After(3) = "report"
          /\ ~setup.whole => \A s \in Stages : After(s) = "close"
        BY PlacesOfStages
    <2>2. 1 \in Stages /\ 2 \in Stages /\ 3 \in Stages
        BY DEF Stages
    <2>3. "load1" \in Early /\ "load2" \in Early
        BY DEF Early, Places
    <2> HIDE DEF After
    <2> QED BY <2>1, <2>2, <2>3
  <1>4. place \in Places /\ place # "idle" /\ Fits(of[p], place)
      BY <1>1, <1>2, <1>3 DEF Early, Fits, Places
  <1>5. setup' = setup /\ of' = of
      BY DEF Work
  <1>6. Due(of[p], place)'
    <2>1. CASE setup.whole
      <3>1. place \notin {"outcome", "close"}
          BY <1>3, <2>1 DEF Early
      <3> QED BY <1>5, <2>1, <3>1 DEF Due
    <2>2. CASE ~setup.whole
      <3>1. of[p] # 4 /\ of[p] # 5
          BY <1>2, <2>2
      <3> QED BY <1>5, <2>2, <3>1 DEF Due
    <2> QED BY <2>1, <2>2
  <1> QED BY <1>4, <1>6, ResultWork DEF Early

\* The process is done, and leaves its job as it was or with a verdict.
LEMMA ResultLeave ==
  ASSUME TypeInv, ResultInv, NEW p \in Procs, at[p] # "idle", Leave(p),
         UNCHANGED <<setup, current, analyzed, overlapped, rewound>>,
         NEW verdict \in {"SUCCEEDED", "QUEUED", "FAILED"},
         \/ status' = status
         \/ status' = [status EXCEPT ![of[p]] = verdict],
         verdict = "SUCCEEDED" => at[p] = "close"
  PROVE  ResultInv'
PROOF
  <1>1. /\ at'[p] = "idle" /\ of[p] \in Stages
        /\ \A q \in Procs : q # p => at'[q] = at[q] /\ of'[q] = of[q]
      BY DEF Leave, TypeInv, TypeOK
  <1>2. Fits(of[p], at[p])
      BY DEF ResultInv, Shape
  <1>3. \A s \in Stages : \/ status'[s] = status[s]
                          \/ s = of[p] /\ status'[s] = verdict
      BY DEF TypeInv, TypeOK
  <1>4. Shape'
    <2>1. setup.whole => of[p] = 1
        BY <1>2 DEF Fits
    <2>2. setup.whole => \A s \in Stages \ {1} : status'[s] = "NONE"
        BY <1>3, <2>1 DEF ResultInv, Shape
    <2>4. \A q \in Procs : at'[q] # "idle" => Fits(of'[q], at'[q])
        BY <1>1 DEF ResultInv, Shape
    <2>5. status'[1] # "NONE"
        BY <1>3 DEF ResultInv, Shape, Stages
    <2> QED BY <2>2, <2>4, <2>5 DEF Shape, Fits
  <1>5. ASSUME ~overlapped, ~rewound PROVE Calm'
    <2>1. Alone /\ Busy(p) /\ Published
        BY <1>5 DEF ResultInv, Calm
    <2>2. \A q \in Procs : at'[q] = "idle"
        BY <1>1, <2>1 DEF Alone
    <2>3. Alone' /\ \A q \in Procs : Busy(q)'
        BY <2>2 DEF Alone, Busy
    <2>4. status[of[p]] # "SUCCEEDED"
        BY <2>1 DEF Busy
    <2>5. \A s \in Stages : status[s] = "SUCCEEDED" => status'[s] = "SUCCEEDED"
        BY <1>3, <2>4
    <2>6. \A s \in Stages : status'[s] = "SUCCEEDED" =>
             \/ status[s] = "SUCCEEDED"
             \/ s = of[p] /\ at[p] = "close"
        BY <1>3
    <2>7. Due(of[p], at[p]) /\ (~setup.whole => DependencySatisfied(of[p]))
        BY <2>1 DEF Busy
    <2>8. ASSUME ~setup.whole, NEW s \in Stages, status'[s] = "SUCCEEDED"
          PROVE  DependencySatisfied(s)'
      <3>1. DependencySatisfied(s)
          BY <2>1, <2>6, <2>7, <2>8 DEF Published
      <3>2. s > 1 => s - 1 \in Stages
          BY DEF Stages
      <3> QED BY <2>5, <3>1, <3>2 DEF DependencySatisfied
    <2>9. ~setup.whole => /\ status'[4] = "SUCCEEDED" => current
                          /\ status'[5] = "SUCCEEDED" => analyzed
        BY <2>1, <2>6, <2>7 DEF Published, Due, Stages
    <2>10. setup.whole /\ status'[1] = "SUCCEEDED" => current /\ analyzed
        BY <2>1, <2>6, <2>7 DEF Published, Due, Stages
    <2>11. Published'
        BY <2>8, <2>9, <2>10 DEF Published
    <2> QED BY <2>3, <2>11 DEF Calm
  <1> QED BY <1>4, <1>5 DEF ResultInv

\* A job is created, given back, or repeated.
LEMMA ResultAgain ==
  ASSUME TypeInv, ResultInv, NEW s \in Stages,
         setup.whole => status[s] # "NONE", status' = [status EXCEPT ![s] = "QUEUED"],
         UNCHANGED <<setup, current, analyzed, at, of, overlapped>>,
         rewound => rewound',
         ~setup.whole /\ status[s] = "SUCCEEDED" => rewound'
  PROVE  ResultInv'
PROOF
  <1>1. \A t \in Stages : status'[t] = IF t = s THEN "QUEUED" ELSE status[t]
      BY DEF TypeInv, TypeOK
  <1>2. Shape'
      BY <1>1 DEF ResultInv, Shape, Fits
  <1>3. ASSUME ~overlapped, ~rewound' PROVE Calm'
    <2>1. Alone /\ (\A p \in Procs : Busy(p)) /\ Published
        BY <1>3 DEF ResultInv, Calm
    <2>2. ~setup.whole => \A t \in Stages : status'[t] = "SUCCEEDED" <=> status[t] = "SUCCEEDED"
        BY <1>1, <1>3
    <2>3. \A t \in Stages : status'[t] = "SUCCEEDED" => status[t] = "SUCCEEDED"
        BY <1>1
    <2>4. \A t \in Stages : t > 1 => t - 1 \in Stages
        BY DEF Stages
    <2>5. ASSUME NEW p \in Procs PROVE Busy(p)'
      <3>1. of[p] \in Stages
          BY DEF TypeInv, TypeOK
      <3> QED BY <2>1, <2>2, <2>3, <2>4, <3>1 DEF Busy, Due, DependencySatisfied
    <2>6. Published'
        BY <2>1, <2>2, <2>3, <2>4 DEF Published, DependencySatisfied, Stages
    <2>7. Alone'
        BY <2>1 DEF Alone
    <2> QED BY <2>5, <2>6, <2>7 DEF Calm
  <1> QED BY <1>2, <1>3 DEF ResultInv

LEMMA ResultStart ==
  ASSUME TypeInv, ResultInv, NEW p \in Procs, NEW s \in Stages, Start(p, s)
  PROVE  ResultInv'
PROOF
  <1>1. /\ at[p] = "idle" /\ status[s] = "QUEUED" /\ DependencySatisfied(s)
        /\ status' = [status EXCEPT ![s] = "RUNNING"]
        /\ setup' = setup /\ current' = current /\ analyzed' = analyzed /\ rewound' = rewound
        /\ overlapped' = (overlapped \/ \E q \in Procs : at[q] # "idle")
      BY DEF Start, fileVars
  <1>2. /\ \A t \in Stages : status'[t] = IF t = s THEN "RUNNING" ELSE status[t]
        /\ \A q \in Procs : q # p => at'[q] = at[q] /\ of'[q] = of[q]
        /\ of'[p] = s /\ at'[p] = IF setup.force THEN "reset" ELSE First(s)
      BY DEF Start, TypeInv, TypeOK
  <1>3. setup.whole => s = 1
      BY <1>1 DEF ResultInv, Shape
  <1>4. setup.force => setup.whole
      BY DEF TypeInv, TypeOK, Setups
  <1>5. Fits(s, at'[p]) /\ at'[p] # "close" /\ (setup.whole => at'[p] # "outcome")
    <2>1. s = 1 \/ s = 2 \/ s = 3 \/ s = 4 \/ s = 5
        BY DEF Stages
    <2>2. /\ First(1) = "list" /\ First(2) = "load1" /\ First(3) = "load2"
          /\ First(4) = "report" /\ First(5) = "outcome"
        BY PlacesOfStages
    <2> HIDE DEF First
    <2> QED BY <1>2, <1>3, <1>4, <2>1, <2>2 DEF Fits
  <1>6. Shape'
    <2>1. setup.whole => \A t \in Stages \ {1} : status'[t] = "NONE"
        BY <1>2, <1>3 DEF ResultInv, Shape
    <2>3. \A q \in Procs : at'[q] # "idle" => Fits(of'[q], at'[q])
        BY <1>2, <1>5 DEF ResultInv, Shape
    <2>4. status'[1] # "NONE"
        BY <1>2 DEF ResultInv, Shape, Stages
    <2> QED BY <1>1, <2>1, <2>3, <2>4 DEF Shape, Fits
  <1>7. ASSUME ~overlapped', ~rewound PROVE Calm'
    <2>1. ~overlapped /\ \A q \in Procs : at[q] = "idle"
        BY <1>1, <1>7
    <2>2. Published
        BY <1>7, <2>1 DEF ResultInv, Calm
    <2>3. \A t \in Stages : status'[t] = "SUCCEEDED" <=> status[t] = "SUCCEEDED"
        BY <1>1, <1>2
    <2>4. \A t \in Stages : t > 1 => t - 1 \in Stages
        BY DEF Stages
    <2>5. Alone'
        BY <1>2, <2>1 DEF Alone
    <2>6. ASSUME NEW q \in Procs PROVE Busy(q)'
      <3>1. CASE q # p
          BY <1>2, <2>1, <3>1 DEF Busy
      <3>2. CASE q = p
        <4>1. status'[s] # "SUCCEEDED" /\ Due(s, at'[p])
            BY <1>2, <1>5 DEF Due
        <4>2. DependencySatisfied(s)'
            BY <1>1, <2>3, <2>4 DEF DependencySatisfied
        <4> QED BY <1>1, <1>2, <3>2, <4>1, <4>2 DEF Busy, Due, DependencySatisfied
      <3> QED BY <3>1, <3>2
    <2>7. Published'
        BY <1>1, <2>2, <2>3, <2>4 DEF Published, DependencySatisfied, Stages
    <2> QED BY <2>5, <2>6, <2>7 DEF Calm
  <1> QED BY <1>1, <1>6, <1>7 DEF ResultInv

LEMMA ResultStep == ASSUME TypeInv, ResultInv, NEW p \in Procs, Step(p) PROVE ResultInv'
PROOF
  <1> USE DEF fileVars, pastVars
  <1>1. /\ {"list", "assess", "save1", "fill1", "score", "stalled", "broken", "gate", "turn",
            "save2", "fill2", "plan", "infer", "save3", "fill3"} \subseteq Early
        /\ {"load1", "load2", "reset"} \subseteq Early
        /\ First(1) = "list" /\ 4 \in Stages /\ 5 \in Stages
      BY PlacesOfStages DEF Early, Places, Stages
  <1> DEFINE Next3 == Early \cup {After(1), After(2), After(3)}
  <1>2. /\ PlanEnd \in Next3
        /\ ScoreEnd(p) \in Early
      BY <1>1 DEF PlanEnd, ScoreEnd
  <1>3. ASSUME Reset(p) PROVE ResultInv'
      BY <1>1, <1>3, ResultEarly DEF Reset
  <1>4. ASSUME List(p) PROVE ResultInv'
    <2>1. \E place \in {"assess", After(1)}, td \in {{}, Images \ Skipped(Done)} :
             Work(p, place, td, {})
        BY <1>4 DEF List
    <2> QED BY <1>1, <1>4, <2>1, ResultEarly DEF List
  <1>5. ASSUME Save1(p) \/ Save2(p) \/ Save3(p) PROVE ResultInv'
      BY <1>1, <1>5, ResultEarly DEF Save1, Save2, Save3
  <1>6. ASSUME Fill1(p) \/ Fill2(p) \/ Fill3(p) PROVE ResultInv'
      BY <1>1, <1>6, ResultEarly DEF Fill1, Fill2, Fill3
  <1>7. ASSUME Load1(p) PROVE ResultInv'
    <2>1. \E place \in {"score", After(2)}, td \in {{}, m1} : Work(p, place, td, {})
        BY <1>7 DEF Load1
    <2> QED BY <1>1, <1>7, <2>1, ResultEarly DEF Load1
  <1>8. ASSUME Gate(p) PROVE ResultInv'
    <2>1. \E place \in {"save2", "turn"} :
             Work(p, place, out[p] \ Admit(out[p]), Admit(out[p]))
        BY <1>8 DEF Gate
    <2> QED BY <1>1, <1>8, <2>1, ResultEarly DEF Gate, NoRow
  <1>9. ASSUME Load2(p) PROVE ResultInv'
    <2>1. \E place \in {"plan", After(3)} :
             Work(p, place, Candidates \ Skipped(Scored), {})
        BY <1>9 DEF Load2
    <2> QED BY <1>1, <1>9, <2>1, ResultEarly DEF Load2, NoRow
  <1>10. ASSUME Plan(p) PROVE ResultInv'
    <2>1. PICK keep \in SUBSET todo[p] :
             Work(p, IF keep = {} THEN PlanEnd ELSE "infer", keep, PutOff(p, keep))
        BY <1>10 DEF Plan
    <2>2. (IF keep = {} THEN PlanEnd ELSE "infer") \in Next3
        BY <1>1, <1>2
    <2> QED BY <1>1, <1>10, <2>1, <2>2, ResultEarly DEF Plan, NoRow
  <1>11. ASSUME NEW i \in Images, Assess(p, i) \/ Score(p, i) \/ Turn(p, i) \/ Infer(p, i)
         PROVE  ResultInv'
    <2>1. PICK next \in Next3, ot \in {out[p], out[p] \cup {i}} : Through(p, i, next, ot)
        BY <1>1, <1>2, <1>11 DEF Assess, Score, Turn, Infer
    <2>2. at[p] \in Early
        BY <1>1, <1>11 DEF Assess, Score, Turn, Infer
    <2>3. UNCHANGED <<analyzed, overlapped, rewound>>
        BY <1>11 DEF Assess, Score, Turn, Infer, NoRow, Append, Row
    <2>4. (IF todo[p] = {i} THEN next ELSE at[p]) \in Next3
        BY <2>2
    <2> QED BY <2>1, <2>2, <2>3, <2>4, ResultEarly DEF Through
  <1>12. /\ \A q \in Procs : at[q] # "idle" => Fits(of[q], at[q]) /\ of[q] \in Stages
         /\ setup.whole => After(4) = "outcome"
         /\ ~setup.whole => After(4) = "close"
         /\ After(5) = "close"
      BY <1>1, PlacesOfStages DEF ResultInv, Shape, TypeInv, TypeOK
  <1>13. ASSUME Report(p) PROVE ResultInv'
    <2>1. /\ at[p] = "report" /\ current' = TRUE /\ setup' = setup /\ of' = of
          /\ UNCHANGED <<analyzed, overlapped, rewound>>
        BY <1>13 DEF Report, Work
    <2>2. PICK place \in {"outcome", "close"} :
             /\ Work(p, place, {}, out[p])
             /\ place = IF setup.whole THEN "outcome" ELSE "close"
        BY <1>12, <1>13 DEF Report
    <2>3. Fits(of[p], "report") /\ of[p] \in Stages
        BY <1>12, <2>1
    <2>4. IF setup.whole THEN of[p] = 1 ELSE of[p] = 4
        BY <2>3 DEF Fits, Stages
    <2>5. Fits(of[p], place) /\ Due(of[p], place)'
      <3>1. CASE setup.whole
          BY <2>1, <2>2, <2>4, <3>1 DEF Fits, Due
      <3>2. CASE ~setup.whole
          BY <2>1, <2>2, <2>4, <3>2 DEF Fits, Due
      <3> QED BY <3>1, <3>2
    <2>6. place \in Places /\ place # "idle"
        BY DEF Places
    <2> QED BY <2>1, <2>2, <2>5, <2>6, ResultWork
  <1>14. ASSUME Outcome(p) PROVE ResultInv'
    <2>1. /\ Work(p, "close", {}, out[p]) /\ at[p] = "outcome" /\ analyzed' = TRUE
          /\ UNCHANGED <<current, overlapped, rewound>> /\ setup' = setup /\ of' = of
        BY <1>12, <1>14 DEF Outcome, Work
    <2>2. Fits(of[p], "outcome") /\ of[p] \in Stages
        BY <1>12, <2>1
    <2>3. IF setup.whole THEN of[p] = 1 ELSE of[p] = 5
        BY <2>2 DEF Fits, Stages
    <2>4. Fits(of[p], "close")
        BY <2>3 DEF Fits
    <2>5. ~overlapped /\ ~rewound => Due(of[p], at[p])
        BY <2>1 DEF ResultInv, Calm, Busy
    <2>6. ~overlapped /\ ~rewound => Due(of[p], "close")'
      <3>1. CASE setup.whole
          BY <2>1, <2>5, <3>1 DEF Due
      <3>2. CASE ~setup.whole
          BY <2>1, <2>3, <3>2 DEF Due
      <3> QED BY <3>1, <3>2
    <2>7. "close" \in Places /\ at[p] # "idle"
        BY <2>1 DEF Places
    <2> QED BY <2>1, <2>4, <2>6, <2>7, ResultWork
  <1>15. ASSUME Succeed(p) PROVE ResultInv'
      BY <1>15, ResultLeave DEF Succeed, Verdict
  <1> QED BY <1>3, <1>4, <1>5, <1>6, <1>7, <1>8, <1>9, <1>10, <1>11, <1>13, <1>14, <1>15
           DEF Step

LEMMA ResultNext == TypeInv /\ ResultInv /\ [Next]_vars => ResultInv'
PROOF
  <1> SUFFICES ASSUME TypeInv, ResultInv, [Next]_vars PROVE ResultInv'
      OBVIOUS
  <1> USE DEF fileVars, pastVars
  <1>1. {"assess", "save1", "score", "stalled"} \subseteq Early
      BY DEF Early, Places
  <1>2. ASSUME NEW p \in Procs, NEW i \in Images, AssessRaises(p, i) PROVE ResultInv'
    <2>1. PICK next \in {"assess", "save1"} : Work(p, next, todo[p] \ {i}, out[p])
        BY <1>2 DEF AssessRaises, Through
    <2> QED BY <1>1, <1>2, <2>1, ResultEarly DEF AssessRaises, Row
  <1>3. ASSUME NEW p \in Procs, Stall(p) PROVE ResultInv'
      BY <1>1, <1>3, ResultEarly DEF Stall
  <1>4. ASSUME NEW p \in Procs, Fail(p) PROVE ResultInv'
    <2>1. PICK result \in {"QUEUED", "FAILED"} : Verdict(p, result)
        BY <1>4 DEF Fail
    <2> QED BY <1>4, <2>1, ResultLeave DEF Fail, Verdict
  <1>5. ASSUME NEW p \in Procs, Crash(p) PROVE ResultInv'
    <2>1. "FAILED" \in {"SUCCEEDED", "QUEUED", "FAILED"} /\ status' = status
        BY <1>5 DEF Crash, jobVars
    <2> QED BY <1>5, <2>1, ResultLeave DEF Crash
  <1>6. ASSUME NEW s \in Stages, Create(s) \/ Requeue(s) \/ Retry(s) PROVE ResultInv'
    <2>1. /\ setup.whole => status[s] # "NONE"
          /\ status' = [status EXCEPT ![s] = "QUEUED"]
          /\ UNCHANGED <<setup, current, analyzed, at, of, overlapped>>
        BY <1>6 DEF Create, Requeue, Retry, procVars
    <2>2. (rewound => rewound') /\ (~setup.whole /\ status[s] = "SUCCEEDED" => rewound')
      <3>1. CASE Requeue(s)
          BY <3>1 DEF Requeue
      <3>2. CASE Retry(s)
          BY <3>2 DEF Retry
      <3>3. CASE Create(s)
          BY <3>3 DEF Create
      <3> QED BY <1>6, <3>1, <3>2, <3>3
    <2> QED BY <2>1, <2>2, ResultAgain
  <1>7. CASE UNCHANGED vars
      BY <1>7 DEF vars, jobVars, procVars, ResultInv, Shape, Fits, Calm, Alone, Busy, Due,
                  Published, DependencySatisfied
  <1> QED BY <1>2, <1>3, <1>4, <1>5, <1>6, <1>7, ResultStep, ResultStart DEF Next

\* When the one job has succeeded, or each job of a chain created to its end, the published
\* results say what the audit log says, unless runs overlapped or a stage was repeated alone.
THEOREM ResultsStayCurrent == Spec => []ResultsAreCurrent
PROOF
  <1>1. Init => ResultInv
      BY DEF Init, ResultInv, Shape, Calm, Alone, Busy, Published, Stages
  <1>2. ResultInv => ResultsAreCurrent
    <2> SUFFICES ASSUME ResultInv, \A s \in IF setup.whole THEN {1} ELSE Stages : status[s] = "SUCCEEDED",
                        ~overlapped, ~rewound
                 PROVE  current /\ analyzed
        BY DEF ResultsAreCurrent
    <2>1. Published
        BY DEF ResultInv, Calm
    <2>2. status[1] = "SUCCEEDED"
        BY DEF Stages
    <2>3. ~setup.whole => status[4] = "SUCCEEDED" /\ status[5] = "SUCCEEDED"
        BY DEF Stages
    <2> QED BY <2>1, <2>2, <2>3 DEF Published
  <1> QED BY TypeInit, TypeStep, ResultNext, <1>1, <1>2, PTL DEF Spec
-----------------------------------------------------------------------------
(* No image is lost.  What a run still owes an answer - images without a   *)
(* row, and placeholders older than the run - is at every place of the run *)
(* either in the process's hands or in the manifest it reads next; and the *)
(* run of a stage that may truncate a manifest has not succeeded yet.      *)

Pending == {i \in Images : audit[i] = "none"} \cup stale

Spots(s) == <<{"list", "assess", "save1", "fill1"},
              {"load1", "score", "stalled", "broken", "gate", "turn", "save2", "fill2"},
              {"load2", "plan", "infer", "save3", "fill3"}, {"report"}, {"outcome"}>>[s]

AtHome(s, place) ==
    place # "idle" =>
        IF setup.whole THEN s = 1 /\ place \notin {"save3", "fill3"}
                       ELSE place \in Spots(s) \cup {"close"}

Ending == {"report", "outcome", "close"}
Behind1 == {"load1", "score", "gate", "turn", "save2", "fill2", "load2", "plan", "infer"} \cup Ending
Behind2 == {"load2", "plan", "infer"} \cup Ending

NeedsM1(s, place) ==
    place = "load1" \/ IF setup.whole THEN place \in Behind1 ELSE s = 1 /\ place = "close"
NeedsM2(s, place) ==
    IF setup.whole THEN place \in Behind2
    ELSE s \in {2, 3} /\ place \in {"load2", "plan", "infer", "save3", "close"}

Carried(s, place, td, ot) ==
    /\ place \in {"assess", "score", "turn"} => Pending \subseteq td \cup ot
    /\ place \in {"save1", "fill1", "gate", "save2", "fill2"} => Pending \subseteq ot
    /\ NeedsM1(s, place) => Pending \subseteq m1
    /\ ~torn =>
        /\ place = "plan" => Pending \subseteq td
        /\ place = "infer" => Pending \subseteq td \cup ot
        /\ place \in {"save3", "fill3"} => Pending \subseteq ot
        /\ NeedsM2(s, place) => Pending \subseteq m2
    /\ setup.whole /\ place \in Ending => stale \subseteq ot

Kept ==
    \A i \in Images : audit[i] = "none" =>
       /\ Over(1) => i \in m1
       /\ Over(2) /\ ~torn => i \in m2 \/ \E p \in Procs : at[p] = "fill3" /\ i \in out[p]

Tidy ==
    /\ setup.whole => ~torn /\ \A s \in Stages \ {1} : status[s] = "NONE"
    /\ stale \subseteq {i \in Images : audit[i] = "placeholder"}
    /\ ~setup.whole => stale = {}
    /\ \A p \in Procs : AtHome(of[p], at[p])

Bears(p) == Carried(of[p], at[p], todo[p], out[p])
Owed(p) == at[p] # "idle" => status[of[p]] # "SUCCEEDED" /\ Bears(p)

LostInv == Tidy /\ (~overlapped => Alone /\ Kept /\ \A p \in Procs : Owed(p))

LEMMA Homes ==
  ASSUME NEW s \in Stages, NEW place, AtHome(s, place)
  PROVE  /\ place \in {"list", "assess", "save1", "fill1"} => s = 1
         /\ ~setup.whole => /\ place \in Spots(2) => s = 2
                            /\ place \in Spots(3) => s = 3
                            /\ place \notin {"reset"}
         /\ place \in {"save3", "fill3"} => ~setup.whole
         /\ setup.whole /\ place # "idle" => s = 1
PROOF
  <1>1. s = 1 \/ s = 2 \/ s = 3 \/ s = 4 \/ s = 5
      BY DEF Stages
  <1>2. /\ Spots(1) = {"list", "assess", "save1", "fill1"}
        /\ Spots(2) = {"load1", "score", "stalled", "broken", "gate", "turn", "save2", "fill2"}
        /\ Spots(3) = {"load2", "plan", "infer", "save3", "fill3"}
        /\ Spots(4) = {"report"} /\ Spots(5) = {"outcome"}
      BY DEF Spots
  <1> HIDE DEF Spots
  <1>3. CASE setup.whole
      BY <1>3 DEF AtHome
  <1>4. CASE ~setup.whole
    <2>1. place # "idle" => place \in Spots(s) \cup {"close"}
        BY <1>4 DEF AtHome
    <2> QED BY <1>1, <1>2, <1>4, <2>1
  <1> QED BY <1>3, <1>4

\* Where a process goes in its run.
LEMMA NextHomes ==
  ASSUME NEW s \in Stages, NEW place, AtHome(s, place), place # "idle"
  PROVE  /\ place \in Spots(1) => \A next \in Spots(1) \cup {After(1)} : AtHome(s, next)
         /\ place \in Spots(2) => \A next \in Spots(2) \cup {After(2)} : AtHome(s, next)
         /\ place \in Spots(3) => \A next \in {"plan", "infer", PlanEnd, After(3)} : AtHome(s, next)
         /\ place = "save3" => AtHome(s, "fill3")
         /\ AtHome(s, "close")
         /\ place = "report" => AtHome(s, After(4))
         /\ place = "outcome" => AtHome(s, After(5))
         /\ place = "reset" => AtHome(s, "list")
PROOF
  <1>1. /\ setup.whole => /\ After(1) = "load1" /\ After(2) = "load2" /\ After(3) = "report"
                          /\ After(4) = "outcome"
        /\ ~setup.whole => \A t \in Stages : After(t) = "close"
        /\ After(5) = "close"
        /\ 1 \in Stages /\ 2 \in Stages /\ 3 \in Stages /\ 4 \in Stages /\ 5 \in Stages
      BY PlacesOfStages DEF Stages
  <1>2. /\ Spots(1) = {"list", "assess", "save1", "fill1"}
        /\ Spots(2) = {"load1", "score", "stalled", "broken", "gate", "turn", "save2", "fill2"}
        /\ Spots(3) = {"load2", "plan", "infer", "save3", "fill3"}
      BY DEF Spots
  <1>3. PlanEnd = IF setup.whole THEN After(3) ELSE "save3"
      BY DEF PlanEnd
  <1> HIDE DEF Spots, After, PlanEnd
  <1>4. CASE setup.whole
      BY <1>1, <1>2, <1>3, <1>4 DEF AtHome
  <1>5. CASE ~setup.whole
    <2>1. /\ place \in Spots(1) => s = 1
          /\ place \in Spots(2) => s = 2
          /\ place \in Spots(3) => s = 3
          /\ place # "reset"
        BY <1>2, <1>5, Homes
    <2> QED BY <1>1, <1>2, <1>3, <1>5, <2>1 DEF AtHome
  <1> QED BY <1>4, <1>5

LEMMA LostWork ==
  ASSUME TypeInv, LostInv, NEW p \in Procs, at[p] # "idle",
         NEW place \in Places, NEW td, NEW ot, Work(p, place, td, ot), place # "idle",
         UNCHANGED <<overlapped, torn>>,
         stale' \subseteq {i \in Images : audit'[i] = "placeholder"}, stale' \subseteq stale,
         AtHome(of[p], place),
         ~overlapped => Bears(p)' /\ Kept'
  PROVE  LostInv'
PROOF
  <1>1. /\ setup' = setup /\ status' = status /\ of' = of
        /\ at'[p] = place /\ todo'[p] = td /\ out'[p] = ot
        /\ \A q \in Procs : q # p => at'[q] = at[q]
      BY DEF Work, jobVars, TypeInv, TypeOK
  <1>2. Tidy'
    <2>1. \A q \in Procs : AtHome(of[q], at'[q])
        BY <1>1 DEF LostInv, Tidy
    <2>2. \A q \in Procs : AtHome(of[q], at[q])'
        BY <1>1, <2>1 DEF AtHome
    <2> QED BY <1>1, <2>2 DEF LostInv, Tidy
  <1>3. ASSUME ~overlapped PROVE (Alone /\ Kept /\ \A q \in Procs : Owed(q))'
    <2>1. Alone /\ Owed(p)
        BY <1>3 DEF LostInv
    <2>2. \A q \in Procs : q # p => at[q] = "idle"
        BY <2>1 DEF Alone
    <2>3. Alone'
        BY <1>1, <2>2 DEF Alone
    <2>4. ASSUME NEW q \in Procs PROVE Owed(q)'
      <3>1. CASE q = p
          BY <1>1, <1>3, <2>1, <3>1 DEF Owed
      <3>2. CASE q # p
          BY <1>1, <2>2, <3>2 DEF Owed
      <3> QED BY <3>1, <3>2
    <2> QED BY <1>3, <2>3, <2>4
  <1> QED BY <1>2, <1>3 DEF LostInv

\* A step that takes no row away, and that touches no manifest of a stage that is over.
LEMMA KeptQuiet ==
  ASSUME TypeInv, LostInv, ~overlapped, NEW p \in Procs, at[p] \notin {"idle", "fill3"},
         NEW place, NEW td, NEW ot, Work(p, place, td, ot), torn' = torn,
         \A i \in Images : audit'[i] = "none" => audit[i] = "none",
         m1' = m1 \/ of[p] = 1,
         m2' = m2 \/ of[p] = 2 \/ setup.whole
  PROVE  Kept'
PROOF
  <1>1. /\ setup' = setup /\ status' = status
        /\ \A q \in Procs : q # p => at'[q] = at[q] /\ out'[q] = out[q]
      BY DEF Work, jobVars, TypeInv, TypeOK
  <1>2. /\ of[p] \in Stages /\ status[of[p]] # "SUCCEEDED" /\ Kept
        /\ setup.whole => of[p] = 1
      BY DEF LostInv, Owed, Tidy, AtHome, TypeInv, TypeOK
  <1>3. /\ Over(1)' <=> Over(1)
        /\ Over(2)' <=> Over(2)
      BY <1>1 DEF Over
  <1>4. /\ m1' = m1 \/ ~Over(1)
        /\ m2' = m2 \/ ~Over(2)
      BY <1>2 DEF Over
  <1>5. \A i \in Images : (\E q \in Procs : at[q] = "fill3" /\ i \in out[q])
                          => \E q \in Procs : at'[q] = "fill3" /\ i \in out'[q]
      BY <1>1
  <1> HIDE DEF Over
  <1> QED BY <1>2, <1>3, <1>4, <1>5 DEF Kept

\* An image that gets its row is no longer owed.
LEMMA RowPending ==
  ASSUME TypeInv, LostInv, NEW i \in Images,
         NEW r \in {"reject", "score", "weak", "placeholder"}, Row(i, r)
  PROVE  /\ Pending' = Pending \ {i} /\ stale' \subseteq stale
         /\ stale' \subseteq {j \in Images : audit'[j] = "placeholder"}
         /\ \A j \in Images : audit'[j] = "none" => audit[j] = "none"
         /\ m1' = m1 /\ m2' = m2
PROOF
  <1>1. /\ audit' = [audit EXCEPT ![i] = r] /\ stale' = stale \ {i} /\ m1' = m1 /\ m2' = m2
      BY DEF Row
  <1>2. \A j \in Images : audit'[j] = IF j = i THEN r ELSE audit[j]
      BY <1>1 DEF TypeInv, TypeOK
  <1>3. stale \subseteq {j \in Images : audit[j] = "placeholder"}
      BY DEF LostInv, Tidy
  <1>4. stale' \subseteq {j \in Images : audit'[j] = "placeholder"}
      BY <1>1, <1>2, <1>3
  <1>5. Pending' = Pending \ {i}
      BY <1>1, <1>2, <1>3 DEF Pending
  <1> QED BY <1>1, <1>2, <1>4, <1>5

\* What a step of a run does to what is owed.
Effect ==
    /\ Pending' \subseteq Pending /\ stale' \subseteq stale
    /\ stale' \subseteq {j \in Images : audit'[j] = "placeholder"}
    /\ ~overlapped => Kept'

LEMMA RowEffect ==
  ASSUME TypeInv, LostInv, NEW p \in Procs, at[p] \notin {"idle", "fill3"},
         NEW place, NEW td, NEW ot, Work(p, place, td, ot), torn' = torn,
         NEW i \in Images, NEW r \in {"reject", "score", "weak", "placeholder"}, Row(i, r)
  PROVE  Effect /\ Pending' = Pending \ {i} /\ m1' = m1 /\ m2' = m2
PROOF
  BY RowPending, KeptQuiet DEF Effect

LEMMA NoRowEffect ==
  ASSUME TypeInv, LostInv, NEW p \in Procs, at[p] \notin {"idle", "fill3"},
         NEW place, NEW td, NEW ot, Work(p, place, td, ot), torn' = torn,
         UNCHANGED <<audit, stale>>, m1' = m1 \/ of[p] = 1, m2' = m2 \/ of[p] = 2 \/ setup.whole
  PROVE  Effect
PROOF
  <1>1. /\ Pending' = Pending /\ stale' \subseteq stale
        /\ stale' \subseteq {j \in Images : audit'[j] = "placeholder"}
        /\ \A j \in Images : audit'[j] = "none" => audit[j] = "none"
      BY DEF Pending, LostInv, Tidy
  <1> QED BY <1>1, KeptQuiet DEF Effect

LEMMA LostMove ==
  ASSUME TypeInv, LostInv, NEW p \in Procs, at[p] # "idle",
         NEW place \in Places \ {"idle"}, NEW td, NEW ot, Work(p, place, td, ot),
         UNCHANGED <<overlapped, torn>>, AtHome(of[p], place), Effect,
         ~overlapped => Bears(p)'
  PROVE  LostInv'
PROOF
  BY LostWork DEF Effect

\* What a process knows at its place.
LEMMA WhatIsOwed ==
  ASSUME TypeInv, LostInv, NEW p \in Procs, at[p] # "idle"
  PROVE  /\ of[p] \in Stages /\ AtHome(of[p], at[p])
         /\ ~overlapped => Bears(p)
         /\ Pending \subseteq Images /\ stale \subseteq Pending
         /\ Pending \cap Done = {} /\ Pending \cap Scored = {}
         /\ setup.whole => ~torn
PROOF
  <1>1. stale \subseteq {i \in Images : audit[i] = "placeholder"}
      BY DEF LostInv, Tidy
  <1>2. Pending \cap Done = {}
      BY <1>1 DEF Pending, Done
  <1>3. Pending \cap Scored = {}
      BY <1>1, <1>2 DEF Pending, Scored
  <1> QED BY <1>1, <1>2, <1>3 DEF LostInv, Tidy, Owed, TypeInv, TypeOK, Pending

LEMMA Moved ==
  ASSUME TypeInv, NEW p \in Procs, NEW place, NEW td, NEW ot, Work(p, place, td, ot)
  PROVE  at'[p] = place /\ todo'[p] = td /\ out'[p] = ot /\ of' = of /\ setup' = setup
PROOF
  BY DEF Work, TypeInv, TypeOK

LEMMA LostStage1 ==
  ASSUME TypeInv, LostInv, NEW p \in Procs,
         \/ List(p) \/ Save1(p) \/ Fill1(p)
         \/ \E i \in Images : Assess(p, i) \/ AssessRaises(p, i)
  PROVE  LostInv'
PROOF
  <1>1. /\ at[p] \in {"list", "assess", "save1", "fill1"}
        /\ Spots(1) = {"list", "assess", "save1", "fill1"}
      BY DEF List, Save1, Fill1, Assess, AssessRaises, Spots
  <1>2. /\ at[p] \notin {"idle", "fill3"}
        /\ {"assess", "save1", "fill1", After(1)} \subseteq Places \ {"idle"}
      BY <1>1, PlacesOfStages DEF Places, Stages, Nexts
  <1>3. of[p] = 1 /\ \A next \in {"assess", "save1", "fill1", After(1)} : AtHome(of[p], next)
      BY <1>1, <1>2, WhatIsOwed, Homes, NextHomes
  <1>4. /\ setup.whole => After(1) = "load1"
        /\ ~setup.whole => After(1) = "close"
      BY PlacesOfStages DEF Stages
  <1>5. /\ Pending \subseteq Images /\ Pending \cap Done = {}
        /\ ~overlapped => Bears(p)
      BY <1>2, WhatIsOwed
  <1> HIDE DEF After, Spots
  <1> USE DEF fileVars, pastVars
  <1>6. ASSUME List(p) PROVE LostInv'
    <2> DEFINE left == Images \ Skipped(Done)
    <2>1. /\ UNCHANGED <<audit, stale, m2, overlapped, torn>>
          /\ \/ Work(p, After(1), {}, {}) /\ left = {}
             \/ Work(p, "assess", left, {})
        BY <1>6 DEF List
    <2>2. Pending \subseteq left
        BY <1>5 DEF Skipped
    <2> HIDE DEF left
    <2>3. CASE Work(p, After(1), {}, {}) /\ left = {}
      <3>1. Effect
          BY <1>2, <1>3, <2>1, <2>3, NoRowEffect
      <3>2. Bears(p)'
          BY <1>3, <1>4, <2>2, <2>3, <3>1, Moved
             DEF Bears, Carried, NeedsM1, NeedsM2, Behind1, Behind2, Ending, Effect
      <3> QED BY <1>2, <1>3, <2>1, <2>3, <3>1, <3>2, LostMove
    <2>4. CASE Work(p, "assess", left, {})
      <3>1. Effect
          BY <1>2, <1>3, <2>1, <2>4, NoRowEffect
      <3>2. Bears(p)'
          BY <1>3, <2>2, <2>4, <3>1, Moved
             DEF Bears, Carried, NeedsM1, NeedsM2, Behind1, Behind2, Ending, Effect
      <3> QED BY <1>2, <1>3, <2>1, <2>4, <3>1, <3>2, LostMove
    <2> QED BY <2>1, <2>3, <2>4
  <1>7. ASSUME NEW i \in Images, Assess(p, i) \/ AssessRaises(p, i) PROVE LostInv'
    <2>1. /\ at[p] = "assess" /\ UNCHANGED <<overlapped, torn>>
          /\ \/ /\ Row(i, "reject")
                /\ Work(p, IF todo[p] = {i} THEN "save1" ELSE "assess", todo[p] \ {i}, out[p])
             \/ /\ UNCHANGED <<audit, stale, m1, m2>>
                /\ Work(p, IF todo[p] = {i} THEN "save1" ELSE "assess", todo[p] \ {i},
                        out[p] \cup {i})
        BY <1>7 DEF Assess, AssessRaises, Append, NoRow, Through
    <2> DEFINE place == IF todo[p] = {i} THEN "save1" ELSE "assess"
    <2>2. place \in {"assess", "save1"} /\ (place = "save1" => todo[p] = {i})
        OBVIOUS
    <2>3. ~overlapped => Pending \subseteq todo[p] \cup out[p]
        BY <1>5, <2>1 DEF Bears, Carried
    <2> HIDE DEF place
    <2>4. CASE Row(i, "reject") /\ Work(p, place, todo[p] \ {i}, out[p])
      <3>1. Effect /\ Pending' = Pending \ {i}
          BY <1>2, <2>1, <2>4, RowEffect
      <3>2. ~overlapped => Pending' \subseteq todo'[p] \cup out'[p]
          BY <2>3, <2>4, <3>1, Moved
      <3>3. ~overlapped => Bears(p)'
          BY <1>3, <2>2, <2>4, <3>2, Moved
             DEF Bears, Carried, NeedsM1, NeedsM2, Behind1, Behind2, Ending
      <3> QED BY <1>2, <1>3, <2>1, <2>2, <2>4, <3>1, <3>3, LostMove
    <2>5. CASE UNCHANGED <<audit, stale, m1, m2>> /\ Work(p, place, todo[p] \ {i}, out[p] \cup {i})
      <3>1. Effect
          BY <1>2, <2>1, <2>5, NoRowEffect
      <3>2. ~overlapped => Pending' \subseteq todo'[p] \cup out'[p]
          BY <2>3, <2>5, <3>1, Moved DEF Effect
      <3>3. ~overlapped => Bears(p)'
          BY <1>3, <2>2, <2>5, <3>2, Moved
             DEF Bears, Carried, NeedsM1, NeedsM2, Behind1, Behind2, Ending
      <3> QED BY <1>2, <1>3, <2>1, <2>2, <2>5, <3>1, <3>3, LostMove
    <2> QED BY <2>1, <2>4, <2>5 DEF place
  <1>8. ASSUME Save1(p) PROVE LostInv'
    <2>1. Work(p, "fill1", {}, out[p]) /\ UNCHANGED <<audit, stale, m2, overlapped, torn>>
        BY <1>8 DEF Save1
    <2>2. Effect
        BY <1>2, <1>3, <2>1, NoRowEffect
    <2>3. ~overlapped => Bears(p)'
        BY <1>3, <1>5, <1>8, <2>2, Moved
           DEF Bears, Carried, NeedsM1, NeedsM2, Behind1, Behind2, Ending, Save1, Effect
    <2> QED BY <1>2, <1>3, <2>1, <2>2, <2>3, LostMove
  <1>9. ASSUME Fill1(p) PROVE LostInv'
    <2>1. /\ Work(p, After(1), {}, {}) /\ UNCHANGED <<audit, stale, m2, overlapped, torn>>
          /\ m1' = out[p] /\ at[p] = "fill1"
        BY <1>9 DEF Fill1
    <2>2. Effect
        BY <1>2, <1>3, <2>1, NoRowEffect
    <2>3. ~overlapped => Bears(p)'
        BY <1>3, <1>4, <1>5, <2>1, <2>2, Moved
           DEF Bears, Carried, NeedsM1, NeedsM2, Behind1, Behind2, Ending, Effect
    <2> QED BY <1>2, <1>3, <2>1, <2>2, <2>3, LostMove
  <1> QED BY <1>6, <1>7, <1>8, <1>9

LEMMA LostStage2 ==
  ASSUME TypeInv, LostInv, NEW p \in Procs,
         \/ Load1(p) \/ Stall(p) \/ Gate(p) \/ Save2(p) \/ Fill2(p)
         \/ \E i \in Images : Score(p, i) \/ Turn(p, i)
  PROVE  LostInv'
PROOF
  <1> DEFINE Here == {"load1", "score", "stalled", "broken", "gate", "turn", "save2", "fill2"}
  <1>1. at[p] \in Here /\ Spots(2) = Here
      BY DEF Load1, Stall, Gate, Save2, Fill2, Score, Turn, Spots
  <1>2. at[p] \notin {"idle", "fill3"} /\ Here \cup {After(2)} \subseteq Places \ {"idle"}
      BY <1>1, PlacesOfStages DEF Places, Stages, Nexts
  <1>3. /\ (of[p] = 2 \/ setup.whole)
        /\ \A next \in Here \cup {After(2)} : AtHome(of[p], next)
      BY <1>1, <1>2, WhatIsOwed, Homes, NextHomes
  <1>4. /\ setup.whole => After(2) = "load2"
        /\ ~setup.whole => After(2) = "close"
      BY PlacesOfStages DEF Stages
  <1>5. ~overlapped => Bears(p)
      BY <1>2, WhatIsOwed
  <1> HIDE DEF After, Spots
  <1> USE DEF fileVars, pastVars
  <1>6. ASSUME Load1(p) PROVE LostInv'
    <2>1. PICK next \in {After(2), "score"}, td \in {{}, m1} :
             /\ UNCHANGED <<audit, stale, m1, overlapped, torn>> /\ Work(p, next, td, {})
             /\ at[p] = "load1"
             /\ next = After(2) => m1 = {}
             /\ next = "score" => td = m1
        BY <1>4, <1>6 DEF Load1
    <2>2. Effect
        BY <1>2, <1>3, <2>1, NoRowEffect
    <2>3. ~overlapped => Bears(p)'
        BY <1>3, <1>4, <1>5, <2>1, <2>2, Moved
           DEF Bears, Carried, NeedsM1, NeedsM2, Behind1, Behind2, Ending, Effect
    <2> QED BY <1>2, <1>3, <2>1, <2>2, <2>3, LostMove
  <1>7. ASSUME NEW i \in Images, Score(p, i) \/ Turn(p, i) PROVE LostInv'
    <2>1. PICK next \in Here, ot \in {out[p], out[p] \cup {i}} :
             /\ UNCHANGED <<overlapped, torn>> /\ Work(p, next, todo[p] \ {i}, ot)
             /\ \/ Row(i, "reject")
                \/ UNCHANGED <<audit, stale, m1, m2>> /\ ot = out[p] \cup {i}
             /\ \/ next = at[p]
                \/ todo[p] = {i} /\ at[p] = "score" /\ next = "gate"
                \/ next = "broken"
                \/ todo[p] = {i} /\ at[p] = "turn" /\ next = "save2"
             /\ at[p] \in {"score", "turn", "stalled"}
        BY <1>1, <1>7 DEF Score, Turn, ScoreEnd, Append, NoRow, Through
    <2>2. Effect /\ m1' = m1 /\ (Pending' = Pending \ {i} \/ ot = out[p] \cup {i})
      <3>1. CASE Row(i, "reject")
          BY <1>2, <2>1, <3>1, RowEffect
      <3>2. CASE UNCHANGED <<audit, stale, m1, m2>> /\ ot = out[p] \cup {i}
          BY <1>2, <2>1, <3>2, NoRowEffect
      <3> QED BY <2>1, <3>1, <3>2
    <2>3. ~overlapped /\ next \in {"score", "turn", "gate", "save2"}
          => /\ Pending' \subseteq (todo[p] \ {i}) \cup ot
             /\ setup.whole => Pending' \subseteq m1
        BY <1>5, <2>1, <2>2 DEF Bears, Carried, NeedsM1, Behind1, Effect
    <2>4. next \in {"gate", "save2"} => todo[p] \ {i} = {}
        BY <2>1
    <2>5. ~overlapped => Bears(p)'
        BY <1>1, <1>3, <2>1, <2>2, <2>3, <2>4, Moved
           DEF Bears, Carried, NeedsM1, NeedsM2, Behind1, Behind2, Ending
    <2> QED BY <1>2, <1>3, <2>1, <2>2, <2>5, LostMove
  <1>8. ASSUME Stall(p) PROVE LostInv'
    <2>1. Work(p, "stalled", todo[p], out[p]) /\ UNCHANGED <<audit, m1, m2, stale, overlapped, torn>>
        BY <1>8 DEF Stall
    <2>2. Effect
        BY <1>2, <2>1, NoRowEffect
    <2>3. Bears(p)'
        BY <2>1, Moved
           DEF Bears, Carried, NeedsM1, NeedsM2, Behind1, Behind2, Ending
    <2> QED BY <1>2, <1>3, <2>1, <2>2, <2>3, LostMove
  <1>9. ASSUME Gate(p) PROVE LostInv'
    <2> DEFINE kept == Admit(out[p])
    <2>1. PICK next \in {"save2", "turn"} :
             /\ UNCHANGED <<audit, m1, m2, stale, overlapped, torn>>
             /\ Work(p, next, out[p] \ kept, kept) /\ at[p] = "gate"
             /\ next = "save2" => out[p] \ kept = {}
        BY <1>9 DEF Gate, NoRow
    <2> HIDE DEF kept
    <2>2. Effect
        BY <1>2, <2>1, NoRowEffect
    <2>3. ~overlapped => Bears(p)'
        BY <1>5, <2>1, <2>2, Moved
           DEF Bears, Carried, NeedsM1, NeedsM2, Behind1, Behind2, Ending, Effect
    <2> QED BY <1>2, <1>3, <2>1, <2>2, <2>3, LostMove
  <1>10. ASSUME Save2(p) PROVE LostInv'
    <2>1. /\ UNCHANGED <<audit, m1, stale, overlapped, torn>>
          /\ Work(p, "fill2", {}, out[p]) /\ at[p] = "save2"
        BY <1>10 DEF Save2
    <2>2. Effect
        BY <1>2, <1>3, <2>1, NoRowEffect
    <2>3. ~overlapped => Bears(p)'
        BY <1>5, <2>1, <2>2, Moved
           DEF Bears, Carried, NeedsM1, NeedsM2, Behind1, Behind2, Ending, Effect
    <2> QED BY <1>2, <1>3, <2>1, <2>2, <2>3, LostMove
  <1>11. ASSUME Fill2(p) PROVE LostInv'
    <2>1. /\ UNCHANGED <<audit, m1, stale, overlapped, torn>> /\ m2' = out[p]
          /\ Work(p, After(2), {}, {}) /\ at[p] = "fill2"
        BY <1>11 DEF Fill2
    <2>2. Effect
        BY <1>2, <1>3, <2>1, NoRowEffect
    <2>3. ~overlapped => Bears(p)'
        BY <1>3, <1>4, <1>5, <2>1, <2>2, Moved
           DEF Bears, Carried, NeedsM1, NeedsM2, Behind1, Behind2, Ending, Effect
    <2> QED BY <1>2, <1>3, <2>1, <2>2, <2>3, LostMove
  <1> QED BY <1>6, <1>7, <1>8, <1>9, <1>10, <1>11

LEMMA LostStage3 ==
  ASSUME TypeInv, LostInv, NEW p \in Procs,
         \/ Load2(p) \/ Plan(p) \/ Save3(p) \/ Fill3(p)
         \/ \E i \in Images : Infer(p, i)
  PROVE  LostInv'
PROOF
  <1> DEFINE Here == {"load2", "plan", "infer", "save3", "fill3"}
  <1>1. at[p] \in Here /\ Spots(3) = Here
      BY DEF Load2, Plan, Save3, Fill3, Infer, Spots
  <1>2. /\ at[p] # "idle"
        /\ Here \cup {After(3), PlanEnd} \subseteq Places \ {"idle"}
      BY <1>1, PlacesOfStages DEF Places, Stages, Nexts, PlanEnd
  <1>3. /\ of[p] = IF setup.whole THEN 1 ELSE 3
        /\ \A next \in {"plan", "infer", PlanEnd, After(3)} : AtHome(of[p], next)
        /\ at[p] = "save3" => AtHome(of[p], "fill3")
        /\ at[p] \in {"save3", "fill3"} => ~setup.whole
      BY <1>1, <1>2, WhatIsOwed, Homes, NextHomes
  <1>4. /\ After(3) = IF setup.whole THEN "report" ELSE "close"
        /\ PlanEnd = IF setup.whole THEN "report" ELSE "save3"
      BY PlacesOfStages DEF Stages, PlanEnd
  <1>5. /\ ~overlapped => Bears(p)
        /\ Pending \cap Scored = {} /\ stale \subseteq Pending
        /\ setup.whole => ~torn
      BY <1>2, WhatIsOwed
  <1> HIDE DEF After, Spots, PlanEnd
  <1> USE DEF fileVars, pastVars
  <1>6. ASSUME Load2(p) PROVE LostInv'
    <2> DEFINE left == Candidates \ Skipped(Scored)
    <2>1. PICK next \in {After(3), "plan"} :
             /\ UNCHANGED <<audit, m1, m2, stale, overlapped, torn>> /\ Work(p, next, left, {})
             /\ at[p] = "load2"
             /\ next = After(3) => left = {}
        BY <1>4, <1>6 DEF Load2, NoRow
    <2>2. Effect
        BY <1>2, <2>1, NoRowEffect
    <2>3. ~overlapped /\ ~torn => Pending \subseteq m2 /\ Pending \subseteq left
        BY <1>3, <1>5, <2>1 DEF Bears, Carried, NeedsM2, Behind2, Candidates, Skipped
    <2> HIDE DEF left
    <2>4. ~overlapped => Bears(p)'
        BY <1>3, <1>4, <1>5, <2>1, <2>2, <2>3, Moved
           DEF Bears, Carried, NeedsM1, NeedsM2, Behind1, Behind2, Ending, Effect
    <2> QED BY <1>2, <1>3, <2>1, <2>2, <2>4, LostMove
  <1>7. ASSUME Plan(p) PROVE LostInv'
    <2>1. PICK keep \in SUBSET todo[p], next \in {PlanEnd, "infer"} :
             /\ UNCHANGED <<audit, m1, m2, stale, overlapped, torn>>
             /\ Work(p, next, keep, todo[p] \ keep) /\ at[p] = "plan"
             /\ next = PlanEnd => keep = {}
        BY <1>4, <1>7 DEF Plan, PutOff, NoRow
    <2>2. Effect
        BY <1>2, <2>1, NoRowEffect
    <2>3. ~overlapped => Bears(p)'
        BY <1>3, <1>4, <1>5, <2>1, <2>2, Moved
           DEF Bears, Carried, NeedsM1, NeedsM2, Behind1, Behind2, Ending, Effect
    <2> QED BY <1>2, <1>3, <2>1, <2>2, <2>3, LostMove
  <1>8. ASSUME NEW i \in Images, Infer(p, i) PROVE LostInv'
    <2>1. PICK next \in {PlanEnd, "infer"}, r \in {"reject", "score", "weak", "placeholder"} :
             /\ UNCHANGED <<overlapped, torn>> /\ Row(i, r)
             /\ Work(p, next, todo[p] \ {i}, out[p]) /\ at[p] = "infer"
             /\ next = PlanEnd => todo[p] = {i}
        BY <1>4, <1>8, InferRows DEF Infer, Append, Through
    <2>2. Effect /\ Pending' = Pending \ {i} /\ m1' = m1 /\ m2' = m2
        BY <1>2, <2>1, RowEffect
    <2>3. ~overlapped /\ ~torn => Pending' \subseteq (todo[p] \ {i}) \cup out[p]
        BY <1>5, <2>1, <2>2 DEF Bears, Carried
    <2>4. next = PlanEnd => todo[p] \ {i} = {}
        BY <2>1
    <2>5. stale' \subseteq Pending'
        BY DEF Pending
    <2>6. ~overlapped => Bears(p)'
        BY <1>3, <1>4, <1>5, <2>1, <2>2, <2>3, <2>4, <2>5, Moved
           DEF Bears, Carried, NeedsM1, NeedsM2, Behind1, Behind2, Ending
    <2> QED BY <1>2, <1>3, <2>1, <2>2, <2>6, LostMove
  <1>9. ASSUME Save3(p) \/ Fill3(p) PROVE LostInv'
    <2>1. PICK next \in {After(3), "fill3"} :
             /\ UNCHANGED <<audit, m1, stale, overlapped, torn>>
             /\ Work(p, next, {}, out[p])
             /\ \/ at[p] = "save3" /\ next = "fill3"
                \/ at[p] = "fill3" /\ next = After(3) /\ m2' = out[p]
        BY <1>9 DEF Save3, Fill3
    <2>2. ~setup.whole /\ next \in {"close", "fill3"} /\ next # "idle" /\ Pending' = Pending
        BY <1>3, <1>4, <2>1 DEF Pending
    <2>3. ~overlapped /\ ~torn => Pending \subseteq out[p]
        BY <1>5, <2>1 DEF Bears, Carried
    <2>4. /\ status' = status /\ setup' = setup /\ at'[p] = next /\ out'[p] = out[p]
          /\ \A q \in Procs : q # p => at'[q] = at[q] /\ out'[q] = out[q]
        BY <2>1 DEF Work, jobVars, TypeInv, TypeOK
    <2>5. ASSUME ~overlapped PROVE Kept'
      <3>1. Kept
          BY <2>5 DEF LostInv
      <3>2. (Over(1)' <=> Over(1)) /\ torn' = torn /\ audit' = audit /\ m1' = m1
          BY <2>1, <2>4 DEF Over
      <3>3. ~torn => \A i \in Images : audit[i] = "none" =>
               i \in m2' \/ \E q \in Procs : at'[q] = "fill3" /\ i \in out'[q]
          BY <1>4, <2>1, <2>2, <2>3, <2>4, <2>5 DEF Pending
      <3> HIDE DEF Over
      <3> QED BY <3>1, <3>2, <3>3 DEF Kept
    <2>6. Effect
      <3>1. stale' \subseteq {j \in Images : audit'[j] = "placeholder"} /\ stale' = stale
          BY <2>1 DEF LostInv, Tidy
      <3> QED BY <2>2, <2>5, <3>1 DEF Effect
    <2>7. ~overlapped => Bears(p)'
        BY <1>3, <1>4, <2>1, <2>2, <2>3, Moved
           DEF Bears, Carried, NeedsM1, NeedsM2, Behind1, Behind2, Ending
    <2>8. AtHome(of[p], next) /\ next \in Places \ {"idle"}
        BY <1>2, <1>3, <2>1
    <2> QED BY <1>2, <2>1, <2>6, <2>7, <2>8, LostMove
  <1> QED BY <1>6, <1>7, <1>8, <1>9

LEMMA LostEnding ==
  ASSUME TypeInv, LostInv, NEW p \in Procs, Report(p) \/ Outcome(p) PROVE LostInv'
PROOF
  <1> USE DEF fileVars, pastVars
  <1>1. PICK next \in {After(4), After(5)} :
           /\ UNCHANGED <<audit, m1, m2, stale, overlapped, torn>>
           /\ Work(p, next, {}, out[p])
           /\ \/ at[p] = "report" /\ next = After(4)
              \/ at[p] = "outcome" /\ next = After(5)
      BY DEF Report, Outcome
  <1>2. /\ at[p] \notin {"idle", "fill3"} /\ next \in {"outcome", "close"}
        /\ next \in Places \ {"idle"} /\ AtHome(of[p], next)
    <2>1. /\ setup.whole => After(4) = "outcome"
          /\ ~setup.whole => After(4) = "close"
          /\ After(5) = "close"
        BY PlacesOfStages DEF Stages
    <2>2. of[p] \in Stages /\ AtHome(of[p], at[p])
        BY <1>1, WhatIsOwed
    <2>3. next \in {"outcome", "close"}
        BY <1>1, <2>1
    <2>4. AtHome(of[p], next)
        BY <1>1, <2>2, NextHomes
    <2> HIDE DEF After
    <2> QED BY <1>1, <2>3, <2>4 DEF Places
  <1>3. Effect
      BY <1>1, <1>2, NoRowEffect
  <1>4. ~setup.whole => of[p] \notin {1, 2, 3}
    <2>1. /\ Spots(1) = {"list", "assess", "save1", "fill1"}
          /\ Spots(3) = {"load2", "plan", "infer", "save3", "fill3"}
          /\ Spots(2) = {"load1", "score", "stalled", "broken", "gate", "turn", "save2", "fill2"}
        BY DEF Spots
    <2>2. AtHome(of[p], at[p])
        BY <1>2, WhatIsOwed
    <2> HIDE DEF Spots
    <2> QED BY <1>1, <2>1, <2>2 DEF AtHome
  <1>5. ~overlapped => Bears(p)'
    <2>1. ~overlapped => Bears(p)
        BY <1>2, WhatIsOwed
    <2> QED BY <1>1, <1>2, <1>3, <1>4, <2>1, Moved
            DEF Bears, Carried, NeedsM1, NeedsM2, Behind1, Behind2, Ending, Effect
  <1> QED BY <1>1, <1>2, <1>3, <1>5, LostMove

LEMMA LostReset ==
  ASSUME TypeInv, LostInv, NEW p \in Procs, Reset(p) PROVE LostInv'
PROOF
  <1>1. /\ at[p] = "reset" /\ Work(p, "list", {}, {}) /\ stale' = {}
        /\ UNCHANGED <<overlapped, torn>>
      BY PlacesOfStages DEF Reset
  <1>2. setup.whole /\ of[p] = 1 /\ AtHome(of[p], "list")
      BY <1>1, WhatIsOwed, Homes, NextHomes
  <1>3. ~overlapped => Kept'
    <2>1. ~overlapped => status[1] # "SUCCEEDED"
        BY <1>1, <1>2 DEF LostInv, Owed
    <2>2. setup' = setup /\ status' = status
        BY <1>1 DEF Work, jobVars
    <2> QED BY <1>2, <2>1, <2>2 DEF Kept, Over
  <1>4. Bears(p)'
      BY <1>1, Moved DEF Bears, Carried, NeedsM1, NeedsM2, Behind1, Behind2, Ending
  <1>5. "list" \in Places \ {"idle"} /\ stale' \subseteq {j \in Images : audit'[j] = "placeholder"}
      BY <1>1 DEF Places
  <1> QED BY <1>1, <1>2, <1>3, <1>4, <1>5, LostWork

\* The process is done.
LEMMA LostLeave ==
  ASSUME TypeInv, LostInv, NEW p \in Procs, at[p] # "idle", Leave(p),
         UNCHANGED <<setup, fileVars, overlapped, stale>>,
         torn' <=> (torn \/ at[p] = "fill3"),
         NEW verdict \in {"SUCCEEDED", "QUEUED", "FAILED"},
         \/ status' = status
         \/ status' = [status EXCEPT ![of[p]] = verdict],
         verdict = "SUCCEEDED" => at[p] = "close"
  PROVE  LostInv'
PROOF
  <1>1. /\ at'[p] = "idle" /\ of'[p] = 1
        /\ \A q \in Procs : q # p => at'[q] = at[q] /\ of'[q] = of[q]
                                     /\ out'[q] = out[q] /\ todo'[q] = todo[q]
      BY DEF Leave, TypeInv, TypeOK
  <1>2. of[p] \in Stages /\ AtHome(of[p], at[p])
      BY WhatIsOwed
  <1>3. /\ \A s \in Stages : status'[s] = status[s] \/ (s = of[p] /\ status'[s] = verdict)
        /\ setup' = setup /\ audit' = audit /\ m1' = m1 /\ m2' = m2
        /\ 1 \in Stages /\ 2 \in Stages
    <2>1. \A s \in Stages : status'[s] = status[s] \/ (s = of[p] /\ status'[s] = verdict)
        BY DEF TypeInv, TypeOK
    <2>2. 1 \in Stages /\ 2 \in Stages
        BY DEF Stages
    <2> QED BY <2>1, <2>2 DEF fileVars
  <1>4. Tidy'
    <2>1. setup.whole => of[p] = 1 /\ at[p] # "fill3"
        BY <1>2 DEF AtHome
    <2>2. setup.whole => ~torn' /\ \A s \in Stages \ {1} : status'[s] = "NONE"
        BY <1>3, <2>1 DEF LostInv, Tidy
    <2>3. \A q \in Procs : AtHome(of[q], at[q])'
      <3>1. \A q \in Procs : AtHome(of'[q], at'[q])
          BY <1>1 DEF LostInv, Tidy, AtHome
      <3> QED BY <1>3, <3>1 DEF AtHome
    <2> QED BY <1>3, <2>2, <2>3 DEF LostInv, Tidy
  <1>5. ASSUME ~overlapped PROVE (Alone /\ Kept /\ \A q \in Procs : Owed(q))'
    <2>1. Alone /\ Kept /\ Owed(p)
        BY <1>5 DEF LostInv
    <2>2. \A q \in Procs : at'[q] = "idle"
        BY <1>1, <2>1 DEF Alone
    <2>3. Alone' /\ \A q \in Procs : Owed(q)'
        BY <2>2 DEF Alone, Owed
    <2>4. Over(1)' => Over(1) \/ Pending \subseteq m1
      <3>1. at[p] = "close" /\ (setup.whole \/ of[p] = 1) => Pending \subseteq m1
          BY <2>1 DEF Owed, Bears, Carried, NeedsM1, Behind1, Ending
      <3> QED BY <1>3, <3>1 DEF Over
    <2>5. Over(2)' /\ ~torn' => Over(2) \/ Pending \subseteq m2
      <3>1. at[p] = "close" /\ (setup.whole \/ of[p] = 2) /\ ~torn => Pending \subseteq m2
          BY <2>1 DEF Owed, Bears, Carried, NeedsM2, Behind2, Ending
      <3> QED BY <1>3, <3>1 DEF Over
    <2>6. ~torn' => ~torn /\ \A q \in Procs : at[q] # "fill3"
        BY <2>1 DEF Alone
    <2>7. Kept'
      <3> HIDE DEF Over
      <3> QED BY <1>3, <2>1, <2>4, <2>5, <2>6 DEF Kept, Pending
    <2> QED BY <2>3, <2>7
  <1> QED BY <1>4, <1>5 DEF LostInv

LEMMA LostStart ==
  ASSUME TypeInv, LostInv, NEW p \in Procs, NEW s \in Stages, Start(p, s)
  PROVE  LostInv'
PROOF
  <1>1. /\ at[p] = "idle" /\ status[s] = "QUEUED" /\ DependencySatisfied(s)
        /\ setup' = setup /\ audit' = audit /\ m1' = m1 /\ m2' = m2 /\ torn' = torn
        /\ overlapped' = (overlapped \/ \E q \in Procs : at[q] # "idle")
        /\ stale' = IF setup.whole THEN {i \in Images : audit[i] = "placeholder"} ELSE {}
      BY DEF Start, fileVars
  <1>2. /\ \A t \in Stages : status'[t] = IF t = s THEN "RUNNING" ELSE status[t]
        /\ \A q \in Procs : q # p => at'[q] = at[q] /\ of'[q] = of[q]
        /\ of'[p] = s /\ at'[p] = IF setup.force THEN "reset" ELSE First(s)
        /\ out' = out
      BY DEF Start, TypeInv, TypeOK
  <1>3. setup.whole => s = 1
      BY <1>1 DEF LostInv, Tidy
  <1>4. setup.force => setup.whole
      BY DEF TypeInv, TypeOK, Setups
  <1>5. /\ First(1) = "list" /\ First(2) = "load1" /\ First(3) = "load2"
        /\ First(4) = "report" /\ First(5) = "outcome"
        /\ (s = 1 \/ s = 2 \/ s = 3 \/ s = 4 \/ s = 5)
      BY PlacesOfStages DEF Stages
  <1> HIDE DEF First
  <1>6. AtHome(s, at'[p])
    <2>1. CASE setup.whole
        BY <1>2, <1>3, <1>5, <2>1 DEF AtHome
    <2>2. CASE ~setup.whole
      <3>1. at'[p] = First(s)
          BY <1>2, <1>4, <2>2
      <3>2. First(s) \in Spots(s)
          BY <1>5 DEF Spots
      <3> QED BY <2>2, <3>1, <3>2 DEF AtHome
    <2> QED BY <2>1, <2>2
  <1>7. Tidy'
    <2>1. \A q \in Procs : AtHome(of'[q], at'[q])
        BY <1>2, <1>6 DEF LostInv, Tidy
    <2>2. \A q \in Procs : AtHome(of[q], at[q])'
        BY <1>1, <2>1 DEF AtHome
    <2>3. setup.whole => ~torn' /\ \A t \in Stages \ {1} : status'[t] = "NONE"
        BY <1>1, <1>2, <1>3 DEF LostInv, Tidy
    <2> QED BY <1>1, <2>2, <2>3 DEF Tidy
  <1>8. ASSUME ~overlapped' PROVE (Alone /\ Kept /\ \A q \in Procs : Owed(q))'
    <2>1. ~overlapped /\ \A q \in Procs : at[q] = "idle"
        BY <1>1, <1>8
    <2>2. Kept
        BY <2>1 DEF LostInv
    <2>3. Alone'
        BY <1>2, <2>1 DEF Alone
    <2>4. (Over(1)' => Over(1)) /\ (Over(2)' => Over(2))
        BY <1>1, <1>2 DEF Over, Stages
    <2>5. Kept'
      <3> HIDE DEF Over
      <3> QED BY <1>1, <2>1, <2>2, <2>4 DEF Kept
    <2>6. ~setup.whole => Pending' = {i \in Images : audit[i] = "none"}
        BY <1>1 DEF Pending
    <2>7. ~setup.whole /\ s = 2 => Pending' \subseteq m1
        BY <1>1, <2>2, <2>6 DEF Kept, Over, DependencySatisfied
    <2>8. ~setup.whole /\ s = 3 /\ ~torn => Pending' \subseteq m2
        BY <1>1, <2>1, <2>2, <2>6 DEF Kept, Over, DependencySatisfied
    <2>9. Bears(p)'
      <3>1. at'[p] \in {"reset", "list"} \/ (~setup.whole /\ at'[p] = First(s))
          BY <1>2, <1>3, <1>4, <1>5
      <3> QED BY <1>1, <1>2, <1>5, <2>7, <2>8, <3>1
              DEF Bears, Carried, NeedsM1, NeedsM2, Behind1, Behind2, Ending
    <2>10. \A q \in Procs : Owed(q)'
        BY <1>2, <2>1, <2>9 DEF Owed
    <2> QED BY <2>3, <2>5, <2>10
  <1> QED BY <1>1, <1>7, <1>8 DEF LostInv

LEMMA LostAgain ==
  ASSUME TypeInv, LostInv, NEW s \in Stages, Create(s) \/ Requeue(s) \/ Retry(s)
  PROVE  LostInv'
PROOF
  <1>1. /\ UNCHANGED <<setup, fileVars, procVars, overlapped, torn, stale>>
        /\ status' = [status EXCEPT ![s] = "QUEUED"]
        /\ setup.whole => status[s] # "NONE"
      BY DEF Create, Requeue, Retry, pastVars
  <1>2. \A t \in Stages : status'[t] = IF t = s THEN "QUEUED" ELSE status[t]
      BY <1>1 DEF TypeInv, TypeOK
  <1>3. Tidy'
      BY <1>1, <1>2 DEF LostInv, Tidy, AtHome, procVars, fileVars
  <1>4. (Over(1)' => Over(1)) /\ (Over(2)' => Over(2))
      BY <1>1, <1>2 DEF Over, Stages
  <1>5. ASSUME ~overlapped PROVE (Alone /\ Kept /\ \A q \in Procs : Owed(q))'
    <2>1. Alone /\ Kept /\ \A q \in Procs : Owed(q)
        BY <1>5 DEF LostInv
    <2>2. Kept'
      <3> HIDE DEF Over
      <3> QED BY <1>1, <1>4, <2>1 DEF Kept, procVars, fileVars
    <2>3. Alone'
        BY <1>1, <2>1 DEF Alone, procVars
    <2>4. \A q \in Procs : Owed(q)'
      <3>1. \A q \in Procs : of[q] \in Stages
          BY DEF TypeInv, TypeOK
      <3>2. \A q \in Procs : Bears(q) => Bears(q)'
          BY <1>1 DEF Bears, Carried, NeedsM1, NeedsM2, Pending, procVars, fileVars
      <3> QED BY <1>1, <1>2, <2>1, <3>1, <3>2 DEF Owed, procVars
    <2> QED BY <2>2, <2>3, <2>4
  <1> QED BY <1>1, <1>3, <1>5 DEF LostInv

LEMMA LostNext == TypeInv /\ LostInv /\ [Next]_vars => LostInv'
PROOF
  <1> SUFFICES ASSUME TypeInv, LostInv, [Next]_vars PROVE LostInv'
      OBVIOUS
  <1>1. ASSUME NEW p \in Procs, Step(p) PROVE LostInv'
    <2>1. ASSUME Succeed(p) PROVE LostInv'
      <3>1. at[p] = "close" /\ (torn' <=> (torn \/ at[p] = "fill3")) /\ Verdict(p, "SUCCEEDED")
          BY <2>1 DEF Succeed
      <3> QED BY <2>1, <3>1, LostLeave DEF Succeed, Verdict
    <2> QED BY <1>1, <2>1, LostReset, LostStage1, LostStage2, LostStage3, LostEnding DEF Step
  <1>2. ASSUME NEW p \in Procs, Fail(p) PROVE LostInv'
    <2>1. PICK result \in {"QUEUED", "FAILED"} : Verdict(p, result)
        BY <1>2 DEF Fail
    <2> QED BY <1>2, <2>1, LostLeave DEF Fail, Verdict
  <1>3. ASSUME NEW p \in Procs, Crash(p) PROVE LostInv'
    <2>1. "FAILED" \in {"SUCCEEDED", "QUEUED", "FAILED"} /\ status' = status
        BY <1>3 DEF Crash, jobVars
    <2> QED BY <1>3, <2>1, LostLeave DEF Crash
  <1>4. CASE UNCHANGED vars
    <2>1. UNCHANGED <<setup, status, audit, m1, m2, at, of, todo, out, overlapped, torn, stale>>
        BY <1>4 DEF vars, jobVars, fileVars, procVars, pastVars
    <2>2. Tidy'
        BY <2>1 DEF LostInv, Tidy, AtHome
    <2>3. Kept => Kept'
        BY <2>1 DEF Kept, Over
    <2>4. \A q \in Procs : Owed(q) => Owed(q)'
        BY <2>1 DEF Owed, Bears, Carried, NeedsM1, NeedsM2, Pending
    <2>5. Alone => Alone'
        BY <2>1 DEF Alone
    <2> QED BY <2>1, <2>2, <2>3, <2>4, <2>5 DEF LostInv
  <1> QED BY <1>1, <1>2, <1>3, <1>4, LostStage1, LostStage2, LostStart, LostAgain DEF Next

\* No image falls between the stages, whatever fails, crashes, is resumed or is repeated.
THEOREM NoImageIsLost == Spec => []NoImageLost
PROOF
  <1>1. Init => LostInv
      BY DEF Init, LostInv, Tidy, AtHome, Alone, Owed, Kept, Over, Stages
  <1>2. LostInv => NoImageLost
    <2> SUFFICES ASSUME LostInv, ~overlapped PROVE NoImageLost
        BY DEF NoImageLost
    <2>1. Kept /\ \A p \in Procs : Owed(p)
        BY DEF LostInv
    <2>2. setup.whole => \A p \in Procs : at[p] \in Ending => stale \subseteq out[p]
        BY <2>1 DEF Owed, Bears, Carried, Ending
    <2> HIDE DEF Over
    <2> QED BY <2>1, <2>2 DEF NoImageLost, Kept, Ending
  <1> QED BY TypeInit, TypeStep, LostNext, <1>1, <1>2, PTL DEF Spec

-----------------------------------------------------------------------------
(* Scores are kept.  A stage that skips what is done has no score in hand  *)
(* when it writes, and in a chain that nobody repeats there is no score    *)
(* before stage 2 is over.                                                 *)

ScoredNow == {i \in Images : audit[i] = "score"}

Front == {"assess", "save1", "fill1", "score", "stalled", "gate", "turn"}

Fresh(p) ==
    /\ at[p] = "reset" => setup.force
    /\ at[p] \in {"assess", "plan", "infer"} => todo[p] \cap ScoredNow = {}
    /\ setup.whole => /\ at[p] \in Front => (todo[p] \cup out[p]) \cap ScoredNow = {}
                      /\ at[p] = "load1" => m1 \cap ScoredNow = {}

Settled == ~setup.whole /\ ~rewound /\ ScoredNow # {} => status[2] = "SUCCEEDED"

FreshInv == setup.checkpoint /\ ~overlapped => Settled /\ \A p \in Procs : Fresh(p)

LEMMA FreshWork ==
  ASSUME TypeInv, LostInv, FreshInv, NEW p \in Procs, at[p] # "idle",
         NEW place, NEW td, NEW ot, Work(p, place, td, ot), place # "idle",
         UNCHANGED <<overlapped, rewound>>,
         setup.checkpoint /\ ~overlapped => Fresh(p)' /\ Settled'
  PROVE  FreshInv'
PROOF
  <1> SUFFICES ASSUME setup'.checkpoint, ~overlapped' PROVE (Settled /\ \A q \in Procs : Fresh(q))'
      BY DEF FreshInv
  <1>1. /\ setup' = setup
        /\ \A q \in Procs : q # p => at'[q] = at[q]
      BY DEF Work, TypeInv, TypeOK
  <1>2. \A q \in Procs : q # p => at[q] = "idle"
      BY DEF LostInv, Alone
  <1>3. ASSUME NEW q \in Procs PROVE Fresh(q)'
      BY <1>1, <1>2, <1>3 DEF Fresh, Front
  <1> QED BY <1>1, <1>3

\* A step that writes no score.
LEMMA FreshQuiet ==
  ASSUME TypeInv, LostInv, FreshInv, NEW p \in Procs, at[p] # "idle",
         NEW place, NEW td, NEW ot, Work(p, place, td, ot), place # "idle",
         UNCHANGED <<overlapped, rewound>>, ScoredNow' \subseteq ScoredNow,
         setup.checkpoint /\ ~overlapped => Fresh(p)'
  PROVE  FreshInv'
PROOF
  <1>1. setup.checkpoint /\ ~overlapped => Settled'
      BY DEF FreshInv, Settled, Work, jobVars
  <1> QED BY <1>1, FreshWork

LEMMA FreshRow ==
  ASSUME TypeInv, NEW i \in Images, NEW r \in Rows, Row(i, r)
  PROVE  /\ ScoredNow' \subseteq ScoredNow \cup {i}
         /\ r # "score" => ScoredNow' \subseteq ScoredNow
         /\ m1' = m1
PROOF
  BY DEF Row, ScoredNow, TypeInv, TypeOK

\* The process is done; a stage it ran had not succeeded before.
LEMMA FreshLeave ==
  ASSUME TypeInv, LostInv, FreshInv, NEW p \in Procs, at[p] # "idle", Leave(p),
         UNCHANGED <<setup, audit, overlapped, rewound>>,
         NEW verdict \in {"SUCCEEDED", "QUEUED", "FAILED"},
         \/ status' = status
         \/ status' = [status EXCEPT ![of[p]] = verdict]
  PROVE  FreshInv'
PROOF
  <1> SUFFICES ASSUME setup'.checkpoint, ~overlapped' PROVE (Settled /\ \A q \in Procs : Fresh(q))'
      BY DEF FreshInv
  <1>1. Alone /\ status[of[p]] # "SUCCEEDED" /\ Settled
      BY DEF LostInv, Owed, FreshInv
  <1>2. \A q \in Procs : at'[q] = "idle"
      BY <1>1 DEF Leave, Alone, TypeInv, TypeOK
  <1>3. status[2] = "SUCCEEDED" => status'[2] = "SUCCEEDED"
      BY <1>1 DEF TypeInv, TypeOK, Stages
  <1>4. Settled'
      BY <1>1, <1>3 DEF Settled, ScoredNow
  <1> QED BY <1>2, <1>4 DEF Fresh, Front

LEMMA FreshStep ==
  ASSUME TypeInv, ResultInv, LostInv, FreshInv, NEW p \in Procs, Step(p) \/ Stall(p)
  PROVE  FreshInv'
PROOF
  <1> USE DEF fileVars, pastVars
  <1>1. /\ setup.checkpoint /\ ~overlapped => Fresh(p)
        /\ audit' = audit => ScoredNow' = ScoredNow
      BY DEF FreshInv, ScoredNow
  <1>2. /\ setup.whole => /\ After(1) = "load1" /\ After(2) = "load2" /\ After(3) = "report"
                          /\ After(4) = "outcome"
        /\ ~setup.whole => /\ After(1) = "close" /\ After(2) = "close" /\ After(3) = "close"
                           /\ After(4) = "close"
        /\ After(5) = "close" /\ First(1) = "list"
        /\ PlanEnd = IF setup.whole THEN After(3) ELSE "save3"
      BY PlacesOfStages DEF Stages, PlanEnd
  <1> HIDE DEF After, First, PlanEnd
  <1>3. setup.checkpoint => Skipped(Done) = Done /\ Skipped(Scored) = Scored
                            /\ ScoredNow \subseteq Done /\ ScoredNow \subseteq Scored
      BY DEF Skipped, Done, Scored, ScoredNow
  <1>4. ASSUME Reset(p) PROVE FreshInv'
      BY <1>1, <1>4 DEF Reset, Work, Fresh, FreshInv, TypeInv, TypeOK, Setups
  <1>5. ASSUME List(p) PROVE FreshInv'
    <2>1. PICK next \in {"assess", After(1)}, td \in SUBSET Images :
             /\ Work(p, next, td, {}) /\ UNCHANGED <<audit, overlapped, rewound>>
             /\ td \subseteq Images \ Skipped(Done)
             /\ next = After(1) => m1' = {}
        BY <1>2, <1>5 DEF List
    <2>2. setup.checkpoint => Fresh(p)'
        BY <1>1, <1>2, <1>3, <2>1, Moved DEF Fresh, Front
    <2> QED BY <1>1, <1>2, <1>5, <2>1, <2>2, FreshQuiet DEF List
  <1>6. ASSUME Save1(p) \/ Fill1(p) \/ Load1(p) \/ Save2(p) \/ Fill2(p) \/ Save3(p) \/ Fill3(p)
               \/ Report(p) \/ Outcome(p) \/ Stall(p) \/ Gate(p)
        PROVE FreshInv'
    <2>1. PICK next, td, ot :
             /\ Work(p, next, td, ot) /\ UNCHANGED <<audit, overlapped, rewound>>
             /\ \/ next = "fill1" /\ td = {} /\ ot = out[p] /\ at[p] = "save1"
                \/ next = After(1) /\ m1' = out[p] /\ at[p] = "fill1"
                \/ next = "score" /\ td = m1 /\ ot = {} /\ at[p] = "load1"
                \/ next = "stalled" /\ td = todo[p] /\ ot = out[p] /\ at[p] = "score"
                \/ next = "turn" /\ td \subseteq out[p] /\ ot \subseteq out[p] /\ at[p] = "gate"
                \/ next \in {"save2", "fill2", "fill3", After(2), After(3), After(4), After(5)}
                   /\ at[p] # "idle"
        BY <1>6, AdmitAssumption
           DEF Save1, Fill1, Load1, Save2, Fill2, Save3, Fill3, Report, Outcome, Stall, Gate,
               NoRow, TypeInv, TypeOK
    <2>2. next # "idle" /\ at[p] # "idle"
        BY <1>2, <2>1
    <2>3. setup.checkpoint /\ ~overlapped => Fresh(p)'
        BY <1>1, <1>2, <2>1, Moved DEF Fresh, Front
    <2> QED BY <1>1, <2>1, <2>2, <2>3, FreshQuiet
  <1>7. ASSUME NEW i \in Images, Assess(p, i) \/ Score(p, i) \/ Turn(p, i) PROVE FreshInv'
    <2>1. PICK next \in {at[p], "save1", "gate", "broken", "save2"}, ot \in {out[p], out[p] \cup {i}} :
             /\ Work(p, next, todo[p] \ {i}, ot) /\ UNCHANGED <<overlapped, rewound>>
             /\ UNCHANGED audit \/ Row(i, "reject")
             /\ i \in todo[p] /\ at[p] \in {"assess", "score", "stalled", "turn"}
        BY <1>7 DEF Assess, Score, Turn, ScoreEnd, Append, NoRow, Through
    <2>2. ScoredNow' \subseteq ScoredNow
        BY <1>1, <2>1, FreshRow DEF Rows
    <2>3. setup.checkpoint /\ ~overlapped => Fresh(p)'
        BY <1>1, <2>1, <2>2, Moved DEF Fresh, Front
    <2>4. next # "idle" /\ at[p] # "idle"
        BY <2>1
    <2> QED BY <2>1, <2>2, <2>3, <2>4, FreshQuiet
  <1>8. ASSUME NEW i \in Images, Infer(p, i) PROVE FreshInv'
    <2>1. PICK next \in {"infer", PlanEnd}, r \in Rows :
             /\ Work(p, next, todo[p] \ {i}, out[p]) /\ UNCHANGED <<overlapped, rewound>>
             /\ Row(i, r) /\ at[p] = "infer"
        BY <1>8, InferRows DEF Infer, Append, Through, Rows
    <2>2. ScoredNow' \subseteq ScoredNow \cup {i}
        BY <2>1, FreshRow
    <2>3. setup.checkpoint /\ ~overlapped => Fresh(p)'
        BY <1>1, <1>2, <2>1, <2>2, Moved DEF Fresh, Front
    <2>4. ASSUME ~overlapped PROVE Settled'
      <3>1. setup' = setup /\ status' = status
          BY <2>1 DEF Work, jobVars
      <3>2. ASSUME ~setup.whole, ~rewound PROVE status[2] = "SUCCEEDED"
        <4>1. Spots(3) = {"load2", "plan", "infer", "save3", "fill3"}
            BY DEF Spots
        <4>2. of[p] = 3
            BY <2>1, <3>2, <4>1, WhatIsOwed, Homes
        <4>3. DependencySatisfied(of[p])
            BY <2>1, <2>4, <3>2 DEF ResultInv, Calm, Busy
        <4> QED BY <4>2, <4>3 DEF DependencySatisfied
      <3> QED BY <2>1, <3>1, <3>2 DEF Settled
    <2>5. next # "idle" /\ at[p] # "idle"
        BY <1>2, <2>1
    <2> QED BY <2>1, <2>3, <2>4, <2>5, FreshWork
  <1>9. ASSUME Load2(p) \/ Plan(p) PROVE FreshInv'
    <2>1. PICK next, td, ot :
             /\ next \in {"plan", "infer", After(3), PlanEnd}
             /\ Work(p, next, td, ot) /\ UNCHANGED <<audit, overlapped, rewound>>
             /\ \/ at[p] = "load2" /\ td = Candidates \ Skipped(Scored)
                \/ at[p] = "plan" /\ td \subseteq todo[p]
        BY <1>9 DEF Load2, Plan, NoRow
    <2>2. setup.checkpoint /\ ~overlapped => Fresh(p)'
        BY <1>1, <1>2, <1>3, <2>1, Moved DEF Fresh, Front
    <2>3. next # "idle" /\ at[p] # "idle"
        BY <1>2, <2>1
    <2> QED BY <1>1, <2>1, <2>2, <2>3, FreshQuiet
  <1>10. ASSUME Succeed(p) PROVE FreshInv'
    <2>1. /\ at[p] = "close" /\ Leave(p) /\ UNCHANGED <<setup, audit, overlapped, rewound>>
          /\ \/ status' = status
             \/ status' = [status EXCEPT ![of[p]] = "SUCCEEDED"]
        BY <1>10 DEF Succeed, Verdict
    <2> QED BY <2>1, FreshLeave
  <1> QED BY <1>4, <1>5, <1>6, <1>7, <1>8, <1>9, <1>10 DEF Step

LEMMA FreshNext == TypeInv /\ ResultInv /\ LostInv /\ FreshInv /\ [Next]_vars => FreshInv'
PROOF
  <1> SUFFICES ASSUME TypeInv, ResultInv, LostInv, FreshInv, [Next]_vars PROVE FreshInv'
      OBVIOUS
  <1> USE DEF fileVars, pastVars
  <1>1. ASSUME NEW p \in Procs, NEW i \in Images, AssessRaises(p, i) PROVE FreshInv'
    <2>1. PICK next \in {"assess", "save1"} :
             /\ Work(p, next, todo[p] \ {i}, out[p]) /\ UNCHANGED <<overlapped, rewound>>
             /\ Row(i, "reject") /\ at[p] = "assess"
        BY <1>1 DEF AssessRaises, Through
    <2>2. ScoredNow' \subseteq ScoredNow
        BY <2>1, FreshRow DEF Rows
    <2>3. setup.checkpoint /\ ~overlapped => Fresh(p)'
        BY <2>1, <2>2, Moved DEF FreshInv, Fresh, Front
    <2> QED BY <2>1, <2>2, <2>3, FreshQuiet
  <1>2. ASSUME NEW p \in Procs, Fail(p) PROVE FreshInv'
    <2>1. PICK result \in {"QUEUED", "FAILED"} : Verdict(p, result)
        BY <1>2 DEF Fail
    <2> QED BY <1>2, <2>1, FreshLeave DEF Fail, Verdict
  <1>3. ASSUME NEW p \in Procs, Crash(p) PROVE FreshInv'
    <2>1. status' = status
        BY <1>3 DEF Crash, jobVars
    <2> QED BY <1>3, <2>1, FreshLeave DEF Crash
  <1>4. ASSUME NEW p \in Procs, NEW s \in Stages, Start(p, s) PROVE FreshInv'
    <2>1. /\ status[s] = "QUEUED" /\ setup' = setup /\ audit' = audit /\ rewound' = rewound
          /\ overlapped' = (overlapped \/ \E q \in Procs : at[q] # "idle")
        BY <1>4 DEF Start
    <2>2. /\ \A t \in Stages : status'[t] = IF t = s THEN "RUNNING" ELSE status[t]
          /\ \A q \in Procs : q # p => at'[q] = at[q]
          /\ at'[p] = IF setup.force THEN "reset" ELSE First(s)
        BY <1>4 DEF Start, TypeInv, TypeOK
    <2>3. ASSUME setup.checkpoint, ~overlapped' PROVE Settled' /\ \A q \in Procs : Fresh(q)'
      <3>1. ~overlapped /\ Settled /\ \A q \in Procs : at[q] = "idle"
          BY <2>1, <2>3 DEF FreshInv
      <3>2. Settled'
          BY <2>1, <2>2, <3>1 DEF Settled, ScoredNow, Stages
      <3>3. setup.whole => s = 1
          BY <2>1 DEF LostInv, Tidy
      <3>4. First(1) = "list" /\ First(s) \in Firsts
          BY PlacesOfStages
      <3> HIDE DEF First
      <3>5. Fresh(p)'
          BY <2>1, <2>2, <3>3, <3>4 DEF Fresh, Front, Firsts
      <3>6. \A q \in Procs : q # p => Fresh(q)'
          BY <2>2, <3>1 DEF Fresh, Front
      <3> QED BY <3>2, <3>5, <3>6
    <2> QED BY <2>1, <2>3 DEF FreshInv
  <1>5. ASSUME NEW s \in Stages, Create(s) \/ Requeue(s) \/ Retry(s) PROVE FreshInv'
    <2>1. /\ UNCHANGED <<setup, audit, m1, at, todo, out, overlapped>>
          /\ status' = [status EXCEPT ![s] = "QUEUED"]
        BY <1>5 DEF Create, Requeue, Retry, procVars
    <2>2. /\ rewound => rewound'
          /\ ~setup.whole /\ status[s] = "SUCCEEDED" => rewound'
      <3>1. CASE Create(s)
          BY <3>1 DEF Create
      <3>2. CASE Requeue(s)
          BY <3>2 DEF Requeue
      <3>3. CASE Retry(s)
          BY <3>3 DEF Retry
      <3> QED BY <1>5, <3>1, <3>2, <3>3
    <2>3. Settled => Settled'
        BY <2>1, <2>2 DEF Settled, ScoredNow, TypeInv, TypeOK
    <2>4. \A q \in Procs : Fresh(q) => Fresh(q)'
        BY <2>1 DEF Fresh, ScoredNow
    <2> QED BY <2>1, <2>3, <2>4 DEF FreshInv
  <1>6. CASE UNCHANGED vars
      BY <1>6 DEF vars, jobVars, procVars, FreshInv, Settled, Fresh, ScoredNow
  <1> QED BY <1>1, <1>2, <1>3, <1>4, <1>5, <1>6, FreshStep DEF Next

\* A row that replaces a score: only stage 2 writes it, in a chain somebody has rewound.
LEMMA ScoreStep ==
  TypeInv /\ CleanInv /\ LostInv /\ FreshInv /\ [Next]_vars
  => (setup.checkpoint /\ ~overlapped =>
        \A i \in Images : audit[i] = "score" =>
           audit'[i] = "score" \/ (rewound /\ audit'[i] = "reject"))
PROOF
  <1> SUFFICES ASSUME TypeInv, CleanInv, LostInv, FreshInv, [Next]_vars,
                      setup.checkpoint, ~overlapped, NEW i \in Images, audit[i] = "score",
                      audit'[i] # "score"
               PROVE  rewound /\ audit'[i] = "reject"
      OBVIOUS
  <1> USE DEF fileVars, pastVars
  <1>1. \A j \in Images, r \in Rows : Row(j, r) => j = i /\ audit'[i] = r
      BY DEF Row, TypeInv, TypeOK
  <1>2. i \in ScoredNow /\ i \notin Bad
      BY DEF ScoredNow, CleanInv, CleanFiles
  <1>3. \A p \in Procs : Fresh(p) /\ Settled
      BY DEF FreshInv
  <1>4. ASSUME NEW p \in Procs, NEW j \in Images, Assess(p, j) \/ AssessRaises(p, j) PROVE FALSE
    <2>1. at[p] = "assess" /\ j \in todo[p] /\ (audit' = audit \/ Row(j, "reject"))
        BY <1>4 DEF Assess, AssessRaises, Append, NoRow
    <2> QED BY <1>1, <1>2, <1>3, <2>1 DEF Fresh, Rows
  <1>5. ASSUME NEW p \in Procs, NEW j \in Images, Score(p, j) PROVE FALSE
      BY <1>1, <1>2, <1>5 DEF Score, Append, NoRow, Bad, Rows
  <1>6. ASSUME NEW p \in Procs, NEW j \in Images, Infer(p, j) PROVE FALSE
    <2>1. PICK r \in Rows : at[p] = "infer" /\ j \in todo[p] /\ Row(j, r)
        BY <1>6, InferRows DEF Infer, Append, Rows
    <2> QED BY <1>1, <1>2, <1>3, <2>1 DEF Fresh
  <1>7. ASSUME NEW p \in Procs, NEW j \in Images, Turn(p, j)
        PROVE  rewound /\ audit'[i] = "reject"
    <2>1. at[p] = "turn" /\ j \in todo[p] /\ Row(j, "reject")
        BY <1>7 DEF Turn, Append
    <2>2. j = i /\ audit'[i] = "reject"
        BY <1>1, <2>1 DEF Rows
    <2>3. ~setup.whole
        BY <1>2, <1>3, <2>1, <2>2 DEF Fresh, Front
    <2>4. of[p] = 2 /\ status[of[p]] # "SUCCEEDED"
      <3>1. "turn" \in Spots(2)
          BY DEF Spots
      <3> QED BY <2>1, <2>3, <3>1, WhatIsOwed, Homes DEF LostInv, Owed
    <2> QED BY <1>2, <1>3, <2>2, <2>3, <2>4 DEF Settled
  <1>8. ASSUME NEW p \in Procs, Reset(p) PROVE FALSE
      BY <1>3, <1>8 DEF Reset, Fresh, TypeInv, TypeOK, Setups
  <1>9. audit' # audit
      OBVIOUS
  <1>10. ASSUME NEW p \in Procs, Step(p) PROVE rewound /\ audit'[i] = "reject"
      BY <1>4, <1>5, <1>6, <1>7, <1>8, <1>9, <1>10
         DEF Step, List, Save1, Fill1, Load1, Gate, Save2, Fill2, Load2, Plan, Save3, Fill3,
             Report, Outcome, Succeed, Verdict, NoRow
  <1>11. CASE UNCHANGED vars
      BY <1>9, <1>11 DEF vars
  <1> QED BY <1>4, <1>9, <1>10, <1>11
          DEF Next, Stall, Fail, Verdict, Crash, Start, Create, Requeue, Retry

\* Failed and resumed runs cost no model call twice: a score is replaced at most by a verdict
\* of stage 2, where the operator has repeated a stage of a chain alone.
THEOREM ScoresSurvive == Spec => ScoresAreKept
PROOF
  <1>1. Init => FreshInv
      BY DEF Init, FreshInv, Settled, Fresh, ScoredNow, Front
  <1>2. Init => ResultInv
      BY DEF Init, ResultInv, Shape, Calm, Alone, Busy, Published, Stages
  <1>3. Init => LostInv
      BY DEF Init, LostInv, Tidy, AtHome, Alone, Owed, Kept, Over, Stages
  <1>4. Init => CleanInv
      BY VerdictAssumption DEF Init, CleanInv, CleanFiles, Clean, Bad
  <1>5. TypeInv /\ CleanInv /\ LostInv /\ FreshInv /\ [Next]_vars =>
        [setup.checkpoint /\ ~overlapped =>
          \A i \in Images : audit[i] = "score" =>
             audit'[i] = "score" \/ (rewound /\ audit'[i] = "reject")]_vars
      BY ScoreStep
  <1> QED BY TypeInit, TypeStep, CleanNext, ResultNext, LostNext, FreshNext,
             <1>1, <1>2, <1>3, <1>4, <1>5, PTL DEF Spec, ScoresAreKept
=============================================================================
