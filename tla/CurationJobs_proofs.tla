------------------------ MODULE CurationJobs_proofs ------------------------
(***************************************************************************)
(* Proofs about CurationJobs, for any jobs, goals, turns, runners and      *)
(* faults.                                                                 *)
(***************************************************************************)
EXTENDS CurationJobs, TLAPS

\* A turn knows what it inserted; a runner has a job outside its idle place, and a result
\* in hand only behind the search.
PlaceInv ==
    /\ \A t \in Turns : turn[t] = "inserted" => made[t] \in Jobs
    /\ \A p \in Runners :
        /\ job[p] = None <=> at[p] = "idle"
        /\ found[p] # None => at[p] \in {"close", "record", "raised"}
        /\ at[p] = "close" => found[p] \in {"aborted", "error", "empty", "files"}
        /\ at[p] = "record" => found[p] \in Ended
        /\ at[p] = "recall" => job[p] \in asked

\* A job without a row has no trace anywhere, and a row was inserted by one turn.
TraceInv ==
    /\ \A t, u \in Turns : made[t] # None /\ made[t] = made[u] => t = u
    /\ \A t \in Turns : made[t] # None => status[made[t]] # None
    /\ \A p \in Runners : job[p] # None => status[job[p]] # None
    /\ \A j \in Jobs : posted[j] # None \/ j \in asked \cup wrote => status[j] # None

\* A run that begins on an ended row gets no further than to repeat a cancel.
LateRunInv ==
    \A p \in fresh :
        job[p] # None => /\ status[job[p]] \in Ended
                         /\ at[p] \in {"read", "recall", "raised"}

\* What a run has in hand was written to the file, or is an empty search.
ResultInv ==
    /\ \A p \in Runners :
          /\ found[p] = "files" => job[p] \in wrote
          /\ found[p] = "empty" => job[p] \in barren
          /\ found[p] = "done" => job[p] \in wrote \cup barren
    /\ \A j \in Jobs : status[j] = "done" => j \in wrote \cup barren

\* A queued job was not cancelled, and no run of it has passed the claim; one that was
\* cancelled in the queue stays so, and none of its runs ever looks.
QueuedInv ==
    \A j \in Jobs :
        /\ status[j] = "queued" =>
              /\ j \notin asked \cup wrote
              /\ \A p \in Runners :
                    job[p] = j => at[p] \in {"read", "expire", "claim", "raised"}
        /\ j \in early =>
              /\ status[j] \in Ended /\ j \in asked /\ j \notin wrote
              /\ \A p \in Runners :
                    job[p] = j => at[p] \in {"read", "recall", "expire", "claim", "reread",
                                             "raised"}

\* A job that no fault has hit is in one place: with the turn that inserted it, posted,
\* or in the hands of one runner.
OneRunInv ==
    \A j \in Jobs \ shaken :
        /\ \A p, q \in Runners : job[p] = j /\ job[q] = j => p = q
        /\ \A p \in Runners : job[p] = j => posted[j] = None
        /\ \A t \in Turns :
              turn[t] = "inserted" /\ made[t] = j =>
                  posted[j] = None /\ \A p \in Runners : job[p] # j

\* The run of such a job that has made its last look, with nothing behind it, will report
\* what it selects; once the file is written, the row is done or about to be.
SelectInv ==
    \A j \in Jobs \ (shaken \cup overtaken) :
        /\ \A p \in Runners :
              job[p] = j /\ (at[p] = "select" \/ found[p] = "files") =>
                  j \notin asked \cup late /\ status[j] # "cancelled"
        /\ j \in wrote =>
              /\ posted[j] = None
              /\ \A t \in Turns : ~(turn[t] = "inserted" /\ made[t] = j)
              /\ \A p \in Runners :
                    job[p] = j => \/ at[p] = "close" /\ found[p] = "files"
                                  \/ at[p] = "record" /\ found[p] = "done"
              /\ (\A p \in Runners : job[p] # j) => status[j] = "done"

\* A cancel that found no run behind its last look stays in the row, and whatever runs the
\* job has left have nothing in hand that could be recorded over it.
CancelInv ==
    \A j \in asked \ overtaken :
        /\ status[j] = "cancelled"
        /\ \A p \in Runners :
              job[p] = j => /\ at[p] \notin {"select", "expire"} /\ found[p] # "files"
                            /\ at[p] = "record" => found[p] = "cancelled"

-----------------------------------------------------------------------------
(* Types and places                                                        *)

LEMMA TypeInit == Init => TypeOK /\ PlaceInv
PROOF
  <1> SUFFICES ASSUME Init PROVE TypeOK /\ PlaceInv
      OBVIOUS
  <1>1. TypeOK
      BY FaultsAssumption DEF Init, TypeOK
  <1>2. PlaceInv
      BY DEF Init, PlaceInv
  <1> QED BY <1>1, <1>2

LEMMA TypeStep == TypeOK /\ PlaceInv /\ [Next]_vars => TypeOK' /\ PlaceInv'
PROOF
  <1> SUFFICES ASSUME TypeOK, PlaceInv, [Next]_vars PROVE TypeOK' /\ PlaceInv'
      OBVIOUS
  <1> USE FaultsAssumption, BackendsAssumption, NamesAssumption
  <1>1. ASSUME NEW t \in Turns, Look(t) PROVE TypeOK' /\ PlaceInv'
      BY <1>1 DEF Look, TypeOK, PlaceInv, row, run, history, seen
  <1>2. ASSUME NEW t \in Turns, NEW j \in Jobs, Insert(t, j) PROVE TypeOK' /\ PlaceInv'
      BY <1>2 DEF Insert, TypeOK, PlaceInv, run, history, seen, Statuses, Active
  <1>3. ASSUME NEW t \in Turns, NEW b \in Backends, Schedule(t, b)
        PROVE TypeOK' /\ PlaceInv'
      BY <1>3 DEF Schedule, TypeOK, PlaceInv, row, run, seen
  <1>4. ASSUME NEW j \in Jobs, Cancel(j) PROVE TypeOK' /\ PlaceInv'
      BY <1>4 DEF Cancel, Overtake, TypeOK, PlaceInv, chat, run, seen, Statuses, Ended
  <1>5. ASSUME NEW j \in Jobs, TimePasses(j) PROVE TypeOK' /\ PlaceInv'
      BY <1>5 DEF TimePasses, Overtake, TypeOK, PlaceInv, chat, run, seen
  <1>6. ASSUME NEW j \in Jobs, Again(j) PROVE TypeOK' /\ PlaceInv'
      BY <1>6 DEF Again, Fault, TypeOK, PlaceInv, row, chat, run, seen
  <1>7. ASSUME NEW t \in Turns, ChatCrash(t) PROVE TypeOK' /\ PlaceInv'
      BY <1>7 DEF ChatCrash, Fault, TypeOK, PlaceInv, row, run, seen
  <1>8. ASSUME NEW p \in Runners, NEW j \in Jobs, Take(p, j) PROVE TypeOK' /\ PlaceInv'
      BY <1>8 DEF Take, To, TypeOK, PlaceInv, row, chat
  <1>9. ASSUME NEW p \in Runners, Read(p) PROVE TypeOK' /\ PlaceInv'
      BY <1>9 DEF Read, AfterRead, To, Leave, TypeOK, PlaceInv, row, chat, history, seen
  <1>10. ASSUME NEW p \in Runners, RecordEarly(p) PROVE TypeOK' /\ PlaceInv'
      BY <1>10 DEF RecordEarly, To, Leave, TypeOK, PlaceInv, chat, history, seen, Statuses,
                   Ended
  <1>11. ASSUME NEW p \in Runners, Claim(p) PROVE TypeOK' /\ PlaceInv'
      BY <1>11 DEF Claim, To, TypeOK, PlaceInv, chat, history, seen, Statuses, Active
  <1>12. ASSUME NEW p \in Runners, Reread(p) PROVE TypeOK' /\ PlaceInv'
      BY <1>12 DEF Reread, To, Leave, TypeOK, PlaceInv, row, chat, history, seen
  <1>13. ASSUME NEW p \in Runners, FirstCheck(p) PROVE TypeOK' /\ PlaceInv'
      BY <1>13 DEF FirstCheck, Result, To, TypeOK, PlaceInv, row, chat, history, seen
  <1>14. ASSUME NEW p \in Runners, Search(p) PROVE TypeOK' /\ PlaceInv'
      BY <1>14 DEF Search, Result, To, TypeOK, PlaceInv, row, chat
  <1>15. ASSUME NEW p \in Runners, Select(p) PROVE TypeOK' /\ PlaceInv'
      BY <1>15 DEF Select, Result, To, TypeOK, PlaceInv, row, chat, history, seen
  <1>16. ASSUME NEW p \in Runners, Close(p) PROVE TypeOK' /\ PlaceInv'
      BY <1>16 DEF Close, Outcome, To, TypeOK, PlaceInv, row, chat, history, seen, Statuses,
                   Ended
  <1>17. ASSUME NEW p \in Runners, Record(p) PROVE TypeOK' /\ PlaceInv'
      BY <1>17 DEF Record, To, Leave, TypeOK, PlaceInv, chat, history, seen, Statuses
  <1>18. ASSUME NEW p \in Runners, Mark(p) PROVE TypeOK' /\ PlaceInv'
      BY <1>18 DEF Mark, To, Leave, TypeOK, PlaceInv, chat, history, seen, Statuses, Ended
  <1>19. ASSUME NEW p \in Runners, Raise(p) PROVE TypeOK' /\ PlaceInv'
      BY <1>19 DEF Raise, Fault, To, Leave, TypeOK, PlaceInv, row, chat, seen
  <1>20. ASSUME NEW p \in Runners, Crash(p) PROVE TypeOK' /\ PlaceInv'
      BY <1>20 DEF Crash, Fault, To, Leave, TypeOK, PlaceInv, row, chat, seen
  <1>21. CASE UNCHANGED vars
      BY <1>21 DEF vars, row, chat, run, history, seen, TypeOK, PlaceInv
  <1> QED BY <1>1, <1>2, <1>3, <1>4, <1>5, <1>6, <1>7, <1>8, <1>9, <1>10, <1>11, <1>12,
             <1>13, <1>14, <1>15, <1>16, <1>17, <1>18, <1>19, <1>20, <1>21
          DEF Next, Submit, Step

-----------------------------------------------------------------------------
(* One job and its runs                                                    *)

LEMMA TraceStep ==
  TypeOK /\ PlaceInv /\ TraceInv /\ [Next]_vars => TraceInv'
PROOF
  <1> SUFFICES ASSUME TypeOK, PlaceInv, TraceInv, [Next]_vars PROVE TraceInv'
      OBVIOUS
  <1> USE NamesAssumption DEF None, Active, Ended, TypeOK, PlaceInv, TraceInv
  <1>1. ASSUME NEW t \in Turns, Look(t) \/ ChatCrash(t) PROVE TraceInv'
      BY <1>1 DEF Look, ChatCrash, Fault, row, run, history, seen
  <1>2. ASSUME NEW t \in Turns, NEW j \in Jobs, Insert(t, j) PROVE TraceInv'
      BY <1>2 DEF Insert, run, history, seen
  <1>3. ASSUME NEW t \in Turns, NEW b \in Backends, Schedule(t, b) PROVE TraceInv'
      BY <1>3 DEF Schedule, row, run, seen
  <1>4. ASSUME NEW j \in Jobs, Cancel(j) \/ TimePasses(j) PROVE TraceInv'
      BY <1>4 DEF Cancel, TimePasses, Overtake, Committed, RunsOf, chat, run, seen
  <1>5. ASSUME NEW j \in Jobs, Again(j) PROVE TraceInv'
      BY <1>5 DEF Again, Fault, row, chat, run, seen
  <1>6. ASSUME NEW p \in Runners, NEW j \in Jobs, Take(p, j) PROVE TraceInv'
      BY <1>6 DEF Take, To, row, chat
  <1>7. ASSUME NEW p \in Runners, Read(p) \/ Reread(p) PROVE TraceInv'
      BY <1>7 DEF Read, Reread, AfterRead, To, Leave, row, chat, history, seen
  <1>8. ASSUME NEW p \in Runners, RecordEarly(p) \/ Record(p) \/ Mark(p) PROVE TraceInv'
      BY <1>8 DEF RecordEarly, Record, Mark, To, Leave, chat, history, seen
  <1>9. ASSUME NEW p \in Runners, Claim(p) PROVE TraceInv'
      BY <1>9 DEF Claim, To, chat, history, seen
  <1>10. ASSUME NEW p \in Runners, FirstCheck(p) \/ Search(p) PROVE TraceInv'
      BY <1>10 DEF FirstCheck, Search, Result, To, Abort, row, chat, history, seen
  <1>11. ASSUME NEW p \in Runners, Select(p) \/ Close(p) PROVE TraceInv'
      BY <1>11 DEF Select, Close, Result, To, Outcome, row, chat, history, seen
  <1>12. ASSUME NEW p \in Runners, Raise(p) \/ Crash(p) PROVE TraceInv'
      BY <1>12 DEF Raise, Crash, Fault, To, Leave, row, chat, seen
  <1>13. CASE UNCHANGED vars
      BY <1>13 DEF vars, row, chat, run, history, seen
  <1> QED BY <1>1, <1>2, <1>3, <1>4, <1>5, <1>6, <1>7, <1>8, <1>9, <1>10, <1>11, <1>12,
             <1>13 DEF Next, Submit, Step

\* A record over an ended row can only repeat an end, so a late run stays late.
LEMMA LateRunStep ==
  TypeOK /\ PlaceInv /\ LateRunInv /\ [Next]_vars => LateRunInv'
PROOF
  <1> SUFFICES ASSUME TypeOK, PlaceInv, LateRunInv, [Next]_vars PROVE LateRunInv'
      OBVIOUS
  <1> USE NamesAssumption DEF None, Active, Ended, TypeOK, PlaceInv, LateRunInv
  <1>1. ASSUME NEW t \in Turns, Look(t) \/ ChatCrash(t) PROVE LateRunInv'
      BY <1>1 DEF Look, ChatCrash, Fault, row, run, history, seen
  <1>2. ASSUME NEW t \in Turns, NEW j \in Jobs, Insert(t, j) PROVE LateRunInv'
      BY <1>2 DEF Insert, run, history, seen
  <1>3. ASSUME NEW t \in Turns, NEW b \in Backends, Schedule(t, b) PROVE LateRunInv'
      BY <1>3 DEF Schedule, row, run, seen
  <1>4. ASSUME NEW j \in Jobs, Cancel(j) \/ TimePasses(j) PROVE LateRunInv'
      BY <1>4 DEF Cancel, TimePasses, Overtake, Committed, RunsOf, chat, run, seen
  <1>5. ASSUME NEW j \in Jobs, Again(j) PROVE LateRunInv'
      BY <1>5 DEF Again, Fault, row, chat, run, seen
  <1>6. ASSUME NEW p \in Runners, NEW j \in Jobs, Take(p, j) PROVE LateRunInv'
      BY <1>6 DEF Take, To, row, chat
  <1>7. ASSUME NEW p \in Runners, Read(p) \/ Reread(p) PROVE LateRunInv'
      BY <1>7 DEF Read, Reread, AfterRead, To, Leave, row, chat, history, seen
  <1>8. ASSUME NEW p \in Runners, RecordEarly(p) \/ Record(p) \/ Mark(p) PROVE LateRunInv'
      BY <1>8 DEF RecordEarly, Record, Mark, To, Leave, chat, history, seen
  <1>9. ASSUME NEW p \in Runners, Claim(p) PROVE LateRunInv'
      BY <1>9 DEF Claim, To, chat, history, seen
  <1>10. ASSUME NEW p \in Runners, FirstCheck(p) \/ Search(p) PROVE LateRunInv'
      BY <1>10 DEF FirstCheck, Search, Result, To, Abort, row, chat, history, seen
  <1>11. ASSUME NEW p \in Runners, Select(p) \/ Close(p) PROVE LateRunInv'
      BY <1>11 DEF Select, Close, Result, To, Outcome, row, chat, history, seen
  <1>12. ASSUME NEW p \in Runners, Raise(p) \/ Crash(p) PROVE LateRunInv'
      BY <1>12 DEF Raise, Crash, Fault, To, Leave, row, chat, seen
  <1>13. CASE UNCHANGED vars
      BY <1>13 DEF vars, row, chat, run, history, seen
  <1> QED BY <1>1, <1>2, <1>3, <1>4, <1>5, <1>6, <1>7, <1>8, <1>9, <1>10, <1>11, <1>12,
             <1>13 DEF Next, Submit, Step

LEMMA ResultStep ==
  TypeOK /\ PlaceInv /\ ResultInv /\ [Next]_vars => ResultInv'
PROOF
  <1> SUFFICES ASSUME TypeOK, PlaceInv, ResultInv, [Next]_vars PROVE ResultInv'
      OBVIOUS
  <1> USE NamesAssumption DEF None, Active, Ended, TypeOK, PlaceInv, ResultInv
  <1>1. ASSUME NEW t \in Turns, Look(t) \/ ChatCrash(t) PROVE ResultInv'
      BY <1>1 DEF Look, ChatCrash, Fault, row, run, history, seen
  <1>2. ASSUME NEW t \in Turns, NEW j \in Jobs, Insert(t, j) PROVE ResultInv'
      BY <1>2 DEF Insert, run, history, seen
  <1>3. ASSUME NEW t \in Turns, NEW b \in Backends, Schedule(t, b) PROVE ResultInv'
      BY <1>3 DEF Schedule, row, run, seen
  <1>4. ASSUME NEW j \in Jobs, Cancel(j) \/ TimePasses(j) PROVE ResultInv'
      BY <1>4 DEF Cancel, TimePasses, Overtake, Committed, RunsOf, chat, run, seen
  <1>5. ASSUME NEW j \in Jobs, Again(j) PROVE ResultInv'
      BY <1>5 DEF Again, Fault, row, chat, run, seen
  <1>6. ASSUME NEW p \in Runners, NEW j \in Jobs, Take(p, j) PROVE ResultInv'
      BY <1>6 DEF Take, To, row, chat
  <1>7. ASSUME NEW p \in Runners, Read(p) \/ Reread(p) PROVE ResultInv'
      BY <1>7 DEF Read, Reread, AfterRead, To, Leave, row, chat, history, seen
  <1>8. ASSUME NEW p \in Runners, RecordEarly(p) \/ Record(p) \/ Mark(p) PROVE ResultInv'
      BY <1>8 DEF RecordEarly, Record, Mark, To, Leave, chat, history, seen
  <1>9. ASSUME NEW p \in Runners, Claim(p) PROVE ResultInv'
      BY <1>9 DEF Claim, To, chat, history, seen
  <1>10. ASSUME NEW p \in Runners, FirstCheck(p) \/ Search(p) PROVE ResultInv'
      BY <1>10 DEF FirstCheck, Search, Result, To, Abort, row, chat, history, seen
  <1>11. ASSUME NEW p \in Runners, Select(p) \/ Close(p) PROVE ResultInv'
      BY <1>11 DEF Select, Close, Result, To, Outcome, row, chat, history, seen
  <1>12. ASSUME NEW p \in Runners, Raise(p) \/ Crash(p) PROVE ResultInv'
      BY <1>12 DEF Raise, Crash, Fault, To, Leave, row, chat, seen
  <1>13. CASE UNCHANGED vars
      BY <1>13 DEF vars, row, chat, run, history, seen
  <1> QED BY <1>1, <1>2, <1>3, <1>4, <1>5, <1>6, <1>7, <1>8, <1>9, <1>10, <1>11, <1>12,
             <1>13 DEF Next, Submit, Step

LEMMA QueuedStep ==
  TypeOK /\ PlaceInv /\ TraceInv /\ QueuedInv /\ [Next]_vars => QueuedInv'
PROOF
  <1> SUFFICES ASSUME TypeOK, PlaceInv, TraceInv, QueuedInv, [Next]_vars PROVE QueuedInv'
      OBVIOUS
  <1> USE NamesAssumption DEF None, Active, Ended, TypeOK, PlaceInv, TraceInv, QueuedInv
  <1>1. ASSUME NEW t \in Turns, Look(t) \/ ChatCrash(t) PROVE QueuedInv'
      BY <1>1 DEF Look, ChatCrash, Fault, row, run, history, seen
  <1>2. ASSUME NEW t \in Turns, NEW j \in Jobs, Insert(t, j) PROVE QueuedInv'
      BY <1>2 DEF Insert, run, history, seen
  <1>3. ASSUME NEW t \in Turns, NEW b \in Backends, Schedule(t, b) PROVE QueuedInv'
      BY <1>3 DEF Schedule, row, run, seen
  <1>4. ASSUME NEW j \in Jobs, Cancel(j) \/ TimePasses(j) PROVE QueuedInv'
      BY <1>4 DEF Cancel, TimePasses, Overtake, Committed, RunsOf, chat, run, seen
  <1>5. ASSUME NEW j \in Jobs, Again(j) PROVE QueuedInv'
      BY <1>5 DEF Again, Fault, row, chat, run, seen
  <1>6. ASSUME NEW p \in Runners, NEW j \in Jobs, Take(p, j) PROVE QueuedInv'
      BY <1>6 DEF Take, To, row, chat
  <1>7. ASSUME NEW p \in Runners, Read(p) \/ Reread(p) PROVE QueuedInv'
      BY <1>7 DEF Read, Reread, AfterRead, To, Leave, row, chat, history, seen
  <1>8. ASSUME NEW p \in Runners, RecordEarly(p) \/ Record(p) \/ Mark(p) PROVE QueuedInv'
      BY <1>8 DEF RecordEarly, Record, Mark, To, Leave, chat, history, seen
  <1>9. ASSUME NEW p \in Runners, Claim(p) PROVE QueuedInv'
      BY <1>9 DEF Claim, To, chat, history, seen
  <1>10. ASSUME NEW p \in Runners, FirstCheck(p) \/ Search(p) PROVE QueuedInv'
      BY <1>10 DEF FirstCheck, Search, Result, To, Abort, row, chat, history, seen
  <1>11. ASSUME NEW p \in Runners, Select(p) \/ Close(p) PROVE QueuedInv'
      BY <1>11 DEF Select, Close, Result, To, Outcome, row, chat, history, seen
  <1>12. ASSUME NEW p \in Runners, Raise(p) \/ Crash(p) PROVE QueuedInv'
      BY <1>12 DEF Raise, Crash, Fault, To, Leave, row, chat, seen
  <1>13. CASE UNCHANGED vars
      BY <1>13 DEF vars, row, chat, run, history, seen
  <1> QED BY <1>1, <1>2, <1>3, <1>4, <1>5, <1>6, <1>7, <1>8, <1>9, <1>10, <1>11, <1>12,
             <1>13 DEF Next, Submit, Step

LEMMA OneRunStep ==
  TypeOK /\ PlaceInv /\ TraceInv /\ OneRunInv /\ [Next]_vars => OneRunInv'
PROOF
  <1> SUFFICES ASSUME TypeOK, PlaceInv, TraceInv, OneRunInv, [Next]_vars PROVE OneRunInv'
      OBVIOUS
  <1> USE NamesAssumption DEF None, Active, Ended, TypeOK, PlaceInv, TraceInv, OneRunInv
  <1>1. ASSUME NEW t \in Turns, Look(t) \/ ChatCrash(t) PROVE OneRunInv'
      BY <1>1 DEF Look, ChatCrash, Fault, row, run, history, seen
  <1>2. ASSUME NEW t \in Turns, NEW j \in Jobs, Insert(t, j) PROVE OneRunInv'
      BY <1>2 DEF Insert, run, history, seen
  <1>3. ASSUME NEW t \in Turns, NEW b \in Backends, Schedule(t, b) PROVE OneRunInv'
      BY <1>3 DEF Schedule, row, run, seen
  <1>4. ASSUME NEW j \in Jobs, Cancel(j) \/ TimePasses(j) PROVE OneRunInv'
      BY <1>4 DEF Cancel, TimePasses, Overtake, Committed, RunsOf, chat, run, seen
  <1>5. ASSUME NEW j \in Jobs, Again(j) PROVE OneRunInv'
      BY <1>5 DEF Again, Fault, row, chat, run, seen
  <1>6. ASSUME NEW p \in Runners, NEW j \in Jobs, Take(p, j) PROVE OneRunInv'
      BY <1>6 DEF Take, To, row, chat
  <1>7. ASSUME NEW p \in Runners, Read(p) \/ Reread(p) PROVE OneRunInv'
      BY <1>7 DEF Read, Reread, AfterRead, To, Leave, row, chat, history, seen
  <1>8. ASSUME NEW p \in Runners, RecordEarly(p) \/ Record(p) \/ Mark(p) PROVE OneRunInv'
      BY <1>8 DEF RecordEarly, Record, Mark, To, Leave, chat, history, seen
  <1>9. ASSUME NEW p \in Runners, Claim(p) PROVE OneRunInv'
      BY <1>9 DEF Claim, To, chat, history, seen
  <1>10. ASSUME NEW p \in Runners, FirstCheck(p) \/ Search(p) PROVE OneRunInv'
      BY <1>10 DEF FirstCheck, Search, Result, To, Abort, row, chat, history, seen
  <1>11. ASSUME NEW p \in Runners, Select(p) \/ Close(p) PROVE OneRunInv'
      BY <1>11 DEF Select, Close, Result, To, Outcome, row, chat, history, seen
  <1>12. ASSUME NEW p \in Runners, Raise(p) \/ Crash(p) PROVE OneRunInv'
      BY <1>12 DEF Raise, Crash, Fault, To, Leave, row, chat, seen
  <1>13. CASE UNCHANGED vars
      BY <1>13 DEF vars, row, chat, run, history, seen
  <1> QED BY <1>1, <1>2, <1>3, <1>4, <1>5, <1>6, <1>7, <1>8, <1>9, <1>10, <1>11, <1>12,
             <1>13 DEF Next, Submit, Step

\* Every look of a run sees the cancel; what was not seen is among the overtaken.
LEMMA CancelStep ==
  TypeOK /\ PlaceInv /\ TraceInv /\ CancelInv /\ [Next]_vars => CancelInv'
PROOF
  <1> SUFFICES ASSUME TypeOK, PlaceInv, TraceInv, CancelInv, [Next]_vars PROVE CancelInv'
      OBVIOUS
  <1> USE NamesAssumption DEF None, Active, Ended, TypeOK, PlaceInv, TraceInv, CancelInv
  <1>1. ASSUME NEW t \in Turns, Look(t) \/ ChatCrash(t) PROVE CancelInv'
      BY <1>1 DEF Look, ChatCrash, Fault, row, run, history, seen
  <1>2. ASSUME NEW t \in Turns, NEW j \in Jobs, Insert(t, j) PROVE CancelInv'
      BY <1>2 DEF Insert, run, history, seen
  <1>3. ASSUME NEW t \in Turns, NEW b \in Backends, Schedule(t, b) PROVE CancelInv'
      BY <1>3 DEF Schedule, row, run, seen
  <1>4. ASSUME NEW j \in Jobs, Cancel(j) \/ TimePasses(j) PROVE CancelInv'
      BY <1>4 DEF Cancel, TimePasses, Overtake, Committed, RunsOf, chat, run, seen
  <1>5. ASSUME NEW j \in Jobs, Again(j) PROVE CancelInv'
      BY <1>5 DEF Again, Fault, row, chat, run, seen
  <1>6. ASSUME NEW p \in Runners, NEW j \in Jobs, Take(p, j) PROVE CancelInv'
      BY <1>6 DEF Take, To, row, chat
  <1>7. ASSUME NEW p \in Runners, Read(p) \/ Reread(p) PROVE CancelInv'
      BY <1>7 DEF Read, Reread, AfterRead, To, Leave, row, chat, history, seen
  <1>8. ASSUME NEW p \in Runners, RecordEarly(p) \/ Record(p) \/ Mark(p) PROVE CancelInv'
      BY <1>8 DEF RecordEarly, Record, Mark, To, Leave, chat, history, seen
  <1>9. ASSUME NEW p \in Runners, Claim(p) PROVE CancelInv'
      BY <1>9 DEF Claim, To, chat, history, seen
  <1>10. ASSUME NEW p \in Runners, FirstCheck(p) \/ Search(p) PROVE CancelInv'
      BY <1>10 DEF FirstCheck, Search, Result, To, Abort, row, chat, history, seen
  <1>11. ASSUME NEW p \in Runners, Select(p) \/ Close(p) PROVE CancelInv'
      BY <1>11 DEF Select, Close, Result, To, Outcome, row, chat, history, seen
  <1>12. ASSUME NEW p \in Runners, Raise(p) \/ Crash(p) PROVE CancelInv'
      BY <1>12 DEF Raise, Crash, Fault, To, Leave, row, chat, seen
  <1>13. CASE UNCHANGED vars
      BY <1>13 DEF vars, row, chat, run, history, seen
  <1> QED BY <1>1, <1>2, <1>3, <1>4, <1>5, <1>6, <1>7, <1>8, <1>9, <1>10, <1>11, <1>12,
             <1>13 DEF Next, Submit, Step

\* Cancel and TimePasses put a job whose run has made its last look among the overtaken.
LEMMA SelectStep ==
  TypeOK /\ PlaceInv /\ TraceInv /\ ResultInv /\ OneRunInv /\ SelectInv /\ [Next]_vars => SelectInv'
PROOF
  <1> SUFFICES ASSUME TypeOK, PlaceInv, TraceInv, ResultInv, OneRunInv, SelectInv, [Next]_vars PROVE SelectInv'
      OBVIOUS
  <1> USE NamesAssumption DEF None, Active, Ended, TypeOK, PlaceInv, TraceInv, ResultInv,
                              OneRunInv, SelectInv
  <1>1. ASSUME NEW t \in Turns, Look(t) \/ ChatCrash(t) PROVE SelectInv'
      BY <1>1 DEF Look, ChatCrash, Fault, row, run, history, seen
  <1>2. ASSUME NEW t \in Turns, NEW j \in Jobs, Insert(t, j) PROVE SelectInv'
      BY <1>2 DEF Insert, run, history, seen
  <1>3. ASSUME NEW t \in Turns, NEW b \in Backends, Schedule(t, b) PROVE SelectInv'
      BY <1>3 DEF Schedule, row, run, seen
  <1>4. ASSUME NEW j \in Jobs, Cancel(j) \/ TimePasses(j) PROVE SelectInv'
      BY <1>4 DEF Cancel, TimePasses, Overtake, Committed, RunsOf, chat, run, seen
  <1>5. ASSUME NEW j \in Jobs, Again(j) PROVE SelectInv'
      BY <1>5 DEF Again, Fault, row, chat, run, seen
  <1>6. ASSUME NEW p \in Runners, NEW j \in Jobs, Take(p, j) PROVE SelectInv'
      BY <1>6 DEF Take, To, row, chat
  <1>7. ASSUME NEW p \in Runners, Read(p) \/ Reread(p) PROVE SelectInv'
      BY <1>7 DEF Read, Reread, AfterRead, To, Leave, row, chat, history, seen
  <1>8. ASSUME NEW p \in Runners, RecordEarly(p) \/ Record(p) \/ Mark(p) PROVE SelectInv'
      BY <1>8 DEF RecordEarly, Record, Mark, To, Leave, chat, history, seen
  <1>9. ASSUME NEW p \in Runners, Claim(p) PROVE SelectInv'
      BY <1>9 DEF Claim, To, chat, history, seen
  <1>10. ASSUME NEW p \in Runners, FirstCheck(p) \/ Search(p) PROVE SelectInv'
      BY <1>10 DEF FirstCheck, Search, Result, To, Abort, row, chat, history, seen
  <1>11. ASSUME NEW p \in Runners, Select(p) \/ Close(p) PROVE SelectInv'
      BY <1>11 DEF Select, Close, Result, To, Outcome, row, chat, history, seen
  <1>12. ASSUME NEW p \in Runners, Raise(p) \/ Crash(p) PROVE SelectInv'
      BY <1>12 DEF Raise, Crash, Fault, To, Leave, row, chat, seen
  <1>13. CASE UNCHANGED vars
      BY <1>13 DEF vars, row, chat, run, history, seen
  <1> QED BY <1>1, <1>2, <1>3, <1>4, <1>5, <1>6, <1>7, <1>8, <1>9, <1>10, <1>11, <1>12,
             <1>13 DEF Next, Submit, Step

LEMMA RestInit == Init => /\ TraceInv /\ LateRunInv /\ ResultInv /\ QueuedInv
                          /\ OneRunInv /\ SelectInv /\ CancelInv
PROOF
  <1> SUFFICES ASSUME Init
               PROVE  /\ TraceInv /\ LateRunInv /\ ResultInv /\ QueuedInv
                      /\ OneRunInv /\ SelectInv /\ CancelInv
      OBVIOUS
  <1> USE NamesAssumption DEF Init, None
  <1>1. TraceInv /\ LateRunInv /\ ResultInv
      BY DEF TraceInv, LateRunInv, ResultInv
  <1>2. QueuedInv
      BY DEF QueuedInv
  <1>3. OneRunInv
      BY DEF OneRunInv
  <1>4. SelectInv
      BY DEF SelectInv
  <1>5. CancelInv
      BY DEF CancelInv
  <1> QED BY <1>1, <1>2, <1>3, <1>4, <1>5

-----------------------------------------------------------------------------
(* What the gallery, the row and the chat can rely on                      *)

CurationInv ==
    /\ TypeOK /\ PlaceInv /\ TraceInv /\ LateRunInv
    /\ ResultInv /\ QueuedInv /\ OneRunInv /\ SelectInv /\ CancelInv

LEMMA CurationInvariant == Spec => []CurationInv
PROOF
  <1>1. Init => CurationInv
      BY TypeInit, RestInit DEF CurationInv
  <1>2. CurationInv /\ [Next]_vars => CurationInv'
      BY TypeStep, TraceStep, LateRunStep, ResultStep, QueuedStep, OneRunStep, SelectStep,
         CancelStep DEF CurationInv
  <1> QED BY <1>1, <1>2, PTL DEF Spec

\* Every field of the row, of the chat's turns and of the runs keeps its type.
THEOREM CurationTypesHold == Spec => []TypeOK
PROOF
  <1>1. CurationInv => TypeOK
      BY DEF CurationInv
  <1> QED BY <1>1, CurationInvariant, PTL

\* A job cancelled in the queue never selects, one reported done has selected or found
\* nothing, and one that selects with no cancel, timeout or fault behind its last look is
\* reported done.
THEOREM SelectionsAreReported == Spec => []SelectionIsReported
PROOF
  <1>1. CurationInv => SelectionIsReported
    <2> SUFFICES ASSUME CurationInv PROVE SelectionIsReported
        OBVIOUS
    <2>1. early \cap wrote = {}
        BY DEF CurationInv, TypeOK, QueuedInv
    <2>2. \A j \in Jobs : status[j] = "done" => j \in wrote \cup barren
        BY DEF CurationInv, ResultInv
    <2>3. ASSUME NEW j \in wrote \ (overtaken \cup shaken), RunsOf(j) = {}
          PROVE  status[j] = "done"
      <3>1. j \in Jobs \ (shaken \cup overtaken) /\ \A p \in Runners : job[p] # j
          BY <2>3 DEF CurationInv, TypeOK, RunsOf
      <3> QED BY <2>3, <3>1 DEF CurationInv, SelectInv
    <2> QED BY <2>1, <2>2, <2>3 DEF SelectionIsReported
  <1> QED BY <1>1, CurationInvariant, PTL


\* Nothing revives an ended job; of the runs that begin behind its outcome only one that
\* repeats a recorded cancel writes the row; and no run that looks undoes a cancel.
Final(j) ==
    /\ status[j] \in Ended => status'[j] \in Ended
    /\ \A p \in RunsOf(j) \cap fresh :
          at'[p] # at[p] /\ status'[j] # status[j] =>
             j \in asked /\ status'[j] = "cancelled"
    /\ j \in asked \ overtaken =>
          /\ status'[j] = "cancelled"
          /\ j \in wrote' => j \in wrote

LEMMA FinalStep ==
  CurationInv /\ [Next]_vars => \A i \in Jobs : Final(i)
PROOF
  <1> SUFFICES ASSUME CurationInv, [Next]_vars, NEW i \in Jobs PROVE Final(i)
      OBVIOUS
  <1> USE NamesAssumption DEF None, Active, Ended, CurationInv, TypeOK, PlaceInv,
                              LateRunInv, CancelInv, RunsOf, Final
  <1>1. ASSUME NEW t \in Turns, Look(t) \/ ChatCrash(t) PROVE Final(i)
      BY <1>1 DEF Look, ChatCrash, Fault, row, run, history, seen
  <1>2. ASSUME NEW t \in Turns, NEW j \in Jobs, Insert(t, j) PROVE Final(i)
      BY <1>2 DEF Insert, run, history, seen
  <1>3. ASSUME NEW t \in Turns, NEW b \in Backends, Schedule(t, b) PROVE Final(i)
      BY <1>3 DEF Schedule, row, run, seen
  <1>4. ASSUME NEW j \in Jobs, Cancel(j) \/ TimePasses(j) PROVE Final(i)
      BY <1>4 DEF Cancel, TimePasses, Overtake, Committed, chat, run, seen
  <1>5. ASSUME NEW j \in Jobs, Again(j) PROVE Final(i)
      BY <1>5 DEF Again, Fault, row, chat, run, seen
  <1>6. ASSUME NEW p \in Runners, NEW j \in Jobs, Take(p, j) PROVE Final(i)
      BY <1>6 DEF Take, To, row, chat
  <1>7. ASSUME NEW p \in Runners, Read(p) \/ Reread(p) PROVE Final(i)
      BY <1>7 DEF Read, Reread, AfterRead, To, Leave, row, chat, history, seen
  <1>8. ASSUME NEW p \in Runners, RecordEarly(p) \/ Record(p) \/ Mark(p) PROVE Final(i)
      BY <1>8 DEF RecordEarly, Record, Mark, To, Leave, chat, history, seen
  <1>9. ASSUME NEW p \in Runners, Claim(p) PROVE Final(i)
      BY <1>9 DEF Claim, To, chat, history, seen
  <1>10. ASSUME NEW p \in Runners, FirstCheck(p) \/ Search(p) PROVE Final(i)
      BY <1>10 DEF FirstCheck, Search, Result, To, Abort, row, chat, history, seen
  <1>11. ASSUME NEW p \in Runners, Select(p) \/ Close(p) PROVE Final(i)
      BY <1>11 DEF Select, Close, Result, To, Outcome, row, chat, history, seen
  <1>12. ASSUME NEW p \in Runners, Raise(p) \/ Crash(p) PROVE Final(i)
      BY <1>12 DEF Raise, Crash, Fault, To, Leave, row, chat, seen
  <1>13. CASE UNCHANGED vars
      BY <1>13 DEF vars, row, chat, run, history, seen
  <1> QED BY <1>1, <1>2, <1>3, <1>4, <1>5, <1>6, <1>7, <1>8, <1>9, <1>10, <1>11, <1>12,
             <1>13 DEF Next, Submit, Step

\* Neither cancel nor redelivery revives a job; a run that begins after the outcome was
\* recorded records nothing, except again a cancel that another run had recorded over; and
\* only a run that had made its last look when the cancel came selects or records over it.
THEOREM OutcomesAreFinal == Spec => OutcomeIsFinal
PROOF
  <1>1. CurationInv /\ [Next]_vars =>
          [\A j \in Jobs :
              /\ status[j] \in Ended => status'[j] \in Ended
              /\ \A p \in RunsOf(j) \cap fresh :
                    at'[p] # at[p] /\ status'[j] # status[j] =>
                       j \in asked /\ status'[j] = "cancelled"
              /\ j \in asked \ overtaken =>
                    /\ status'[j] = "cancelled"
                    /\ j \in wrote' => j \in wrote]_vars
      BY FinalStep DEF Final
  <1> QED BY <1>1, CurationInvariant, PTL DEF Spec, OutcomeIsFinal
=============================================================================
