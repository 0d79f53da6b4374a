------------------------ MODULE SessionIngest_proofs ------------------------
(***************************************************************************)
(* Proofs about SessionIngest: for any photos, any number of seeders and   *)
(* job rows, and any bounds, the safety claims of a session hold.          *)
(***************************************************************************)
EXTENDS SessionIngest, FiniteSetTheorems, TLAPS

-----------------------------------------------------------------------------
(* Types.                                                                  *)

LEMMA TypeInit == Init => TypeOK
PROOF
  <1> SUFFICES ASSUME Init PROVE TypeOK
      OBVIOUS
  <1>1. copies \in [Photos -> SUBSET {"own", "kept", "spare"}]
    <2>1. PICK kept \in SUBSET Imported :
             copies = [p \in Photos |-> IF p \in kept THEN {"kept"} ELSE {}]
        BY DEF Init
    <2> QED BY <2>1
  <1>2. faults \in 0..MaxFaults /\ asks \in 0..MaxAsks
      BY BoundAssumption DEF Init
  <1>3. /\ ledger \in [Photos -> {"none", "INGESTED", "ANALYZED"}]
        /\ seeder \in [Seeders -> {"idle", "read", "check", "create"}]
        /\ job \in [Jobs -> {"none", "queued", "work", "close"}]
        /\ seen \in [Jobs -> SUBSET Photos]
      BY DEF Init
  <1>4. current \in Photos \cup {NoPhoto} /\ (at = "row" <=> current \in Photos)
      BY NoPhotoAssumption DEF Init
  <1> QED BY <1>1, <1>2, <1>3, <1>4 DEF Init, TypeOK

LEMMA TypeStep == TypeOK /\ [Next]_vars => TypeOK'
PROOF
  <1> SUFFICES ASSUME TypeOK, [Next]_vars PROVE TypeOK'
      OBVIOUS
  <1> USE BoundAssumption, NoPhotoAssumption
      DEF workerVars, fileVars, jobVars, countVars, pastVars
  <1>1. ASSUME UNCHANGED <<fileVars, hooks, seeder, jobVars, countVars, pastVars>>,
               Poll \/ ScanEnds \/ \E p \in Photos : Skip(p)
        PROVE  TypeOK'
      BY <1>1 DEF TypeOK, Poll, ScanEnds, Skip, Listing
  <1>2. ASSUME NEW p \in Photos, RowFor(p)
        PROVE  /\ ledger' \in [Photos -> {"none", "INGESTED", "ANALYZED"}]
               /\ late' \subseteq Photos
      BY <1>2 DEF RowFor, TypeOK
  <1>3. ASSUME NEW p \in Photos, Repair(p) PROVE TypeOK'
      BY <1>2, <1>3 DEF TypeOK, Repair
  <1>4. ASSUME Record PROVE TypeOK'
    <2>1. current \in Photos
        BY <1>4 DEF Record, TypeOK
    <2> QED BY <1>2, <1>4, <2>1 DEF TypeOK, Record
  <1>5. ASSUME NEW p \in Photos, Copy(p) PROVE TypeOK'
    <2>1. copies' \in [Photos -> SUBSET {"own", "kept", "spare"}]
        BY <1>5 DEF Copy, Dest, TypeOK
    <2> QED BY <1>5, <2>1 DEF TypeOK, Copy
  <1>6. ASSUME NEW p \in Photos, CopyFails(p) \/ Extract(p) \/ Shoot(p) PROVE TypeOK'
      BY <1>6 DEF TypeOK, CopyFails, Fault, Extract, Shoot
  <1>7. ASSUME ScanFails \/ WorkerCrash PROVE TypeOK'
    <2>1. torn' \subseteq Photos
        BY <1>7 DEF ScanFails, WorkerCrash, TypeOK
    <2> QED BY <1>7, <2>1 DEF TypeOK, ScanFails, WorkerCrash, GiveUp, Fault
  <1>8. ASSUME RecordFails PROVE TypeOK'
    <2>1. current \in Photos
        BY <1>8 DEF RecordFails, TypeOK
    <2>2. copies' \in [Photos -> SUBSET {"own", "kept", "spare"}] /\ torn' \subseteq Photos
        BY <1>8, <2>1 DEF RecordFails, TypeOK
    <2> QED BY <1>8, <2>2 DEF TypeOK, RecordFails, GiveUp, Fault
  <1>9. ASSUME CallHook \/ ExtractFails \/ HookLost PROVE TypeOK'
    <2>1. hooks' \in Nat
        BY <1>9 DEF CallHook, ExtractFails, HookLost, PostHook, TypeOK
    <2>2. missed' \subseteq Photos
        BY <1>9 DEF CallHook, ExtractFails, HookLost, Ingested, TypeOK
    <2> QED BY <1>9, <2>1, <2>2 DEF TypeOK, CallHook, ExtractFails, HookLost, PostHook, Fault
  <1>10. ASSUME NEW s \in Seeders, HookTask(s) \/ SeedRead(s) \/ Ask(s) PROVE TypeOK'
      BY <1>10 DEF TypeOK, HookTask, SeedRead, Ask
  <1>11. ASSUME NEW s \in Seeders, SeedCheck(s) PROVE TypeOK'
    <2>1. missed' \subseteq Photos /\ raced' \in BOOLEAN
        BY <1>11 DEF SeedCheck, Ingested, TypeOK
    <2> QED BY <1>11, <2>1 DEF TypeOK, SeedCheck
  <1>12. ASSUME NEW s \in Seeders, NEW j \in Jobs, SeedCreate(s, j) PROVE TypeOK'
      BY <1>12 DEF TypeOK, SeedCreate
  <1>13. ASSUME NEW j \in Jobs, List(j) PROVE TypeOK'
    <2>1. seen' \in [Jobs -> SUBSET Photos] /\ late' \subseteq Photos
        BY <1>13 DEF List, SourceImages, Ingested, TypeOK
    <2> QED BY <1>13, <2>1 DEF TypeOK, List
  <1>14. ASSUME NEW j \in Jobs, Finalize(j) PROVE TypeOK'
    <2>1. /\ judged' \subseteq Photos
          /\ ledger' \in [Photos -> {"none", "INGESTED", "ANALYZED"}]
        BY <1>14 DEF Finalize, TypeOK
    <2> QED BY <1>14, <2>1 DEF TypeOK, Finalize
  <1>15. ASSUME NEW j \in Jobs, Close(j), UNCHANGED <<torn, late, raced>>,
                missed' \subseteq Photos, faults' \in 0..MaxFaults, asks' = asks
         PROVE  TypeOK'
      BY <1>15 DEF TypeOK, Close
  <1>16. ASSUME NEW j \in Jobs, Succeed(j) PROVE TypeOK'
      BY <1>15, <1>16 DEF Succeed, TypeOK
  <1>17. ASSUME NEW j \in Jobs, RunFails(j) PROVE TypeOK'
    <2>1. faults' \in 0..MaxFaults /\ asks' = asks
        BY <1>17 DEF RunFails, Fault, TypeOK
    <2>2. CASE /\ job' = [job EXCEPT ![j] = "queued"] /\ seen' = [seen EXCEPT ![j] = {}]
               /\ UNCHANGED <<fileVars, workerVars, hooks, seeder, judged, pastVars>>
        BY <2>1, <2>2 DEF TypeOK
    <2>3. CASE /\ Close(j) /\ missed' = missed \cup Ingested /\ UNCHANGED <<torn, late, raced>>
        BY <1>15, <2>1, <2>3 DEF TypeOK, Ingested
    <2> QED BY <1>17, <2>2, <2>3 DEF RunFails
  <1>18. ASSUME Poll \/ ScanEnds \/ \E p \in Photos : Skip(p) PROVE TypeOK'
      BY <1>1, <1>18 DEF Poll, ScanEnds, Skip
  <1>19. CASE UNCHANGED vars
      BY <1>19 DEF vars, TypeOK
  <1> QED BY <1>3, <1>4, <1>5, <1>6, <1>7, <1>8, <1>9, <1>10, <1>11, <1>12, <1>13, <1>14,
             <1>16, <1>17, <1>18, <1>19
           DEF Next, WorkerStep, Failure, SeederStep, JobStep

\* Card, archive, ledger, tasks and jobs are well typed.
THEOREM IngestTypesHold == Spec => []TypeOK
PROOF
  BY TypeInit, TypeStep, PTL DEF Spec

-----------------------------------------------------------------------------
(* Files and rows.  A photo the worker copied and did not record is either *)
(* the one it is at, or was left by a scan that broke off.                 *)

AtRow(p) == at = "row" /\ current = p

FileInv ==
    /\ \A p \in Photos : AtRow(p) => ledger[p] = "none" /\ "own" \in copies[p]
    /\ \A p \in Photos :
          "own" \in copies[p] /\ ledger[p] = "none" /\ ~AtRow(p) => p \in torn
    /\ \A p \in Photos : "spare" \in copies[p] => "own" \in copies[p]
    /\ FilesMatchRows

\* Steps that leave the files alone, and make no row.
LEMMA FileKept ==
  ASSUME FileInv, UNCHANGED <<at, current, copies, torn>>,
         \A p \in Photos : ledger'[p] = "none" <=> ledger[p] = "none"
  PROVE  FileInv'
PROOF
  BY DEF FileInv, AtRow, FilesMatchRows, RowHasFile, SecondCopyOnlyIfTorn

\* The worker is between two files before and after.
LEMMA FileAway ==
  ASSUME FileInv, at # "row", at' # "row", UNCHANGED copies, torn \subseteq torn',
         \A p \in Photos : /\ ledger'[p] = "none" => ledger[p] = "none"
                           /\ ledger'[p] = "none" \/ ledger[p] # "none" \/ copies[p] # {}
  PROVE  FileInv'
PROOF
  BY DEF FileInv, AtRow, FilesMatchRows, RowHasFile, SecondCopyOnlyIfTorn

LEMMA FileStep == TypeOK /\ FileInv /\ [Next]_vars => FileInv'
PROOF
  <1> SUFFICES ASSUME TypeOK, FileInv, [Next]_vars PROVE FileInv'
      OBVIOUS
  <1> USE DEF workerVars, fileVars, jobVars, countVars, pastVars
  <1>1. ASSUME \/ \E p \in Photos : Skip(p) \/ CopyFails(p) \/ Extract(p) \/ Shoot(p)
               \/ HookLost
               \/ \E s \in Seeders : HookTask(s) \/ SeedRead(s) \/ SeedCheck(s) \/ Ask(s)
               \/ \E s \in Seeders, j \in Jobs : SeedCreate(s, j)
               \/ \E j \in Jobs : List(j) \/ Succeed(j) \/ RunFails(j)
        PROVE  FileInv'
    <2>1. UNCHANGED <<at, current, copies, torn, ledger>>
        BY <1>1 DEF Skip, CopyFails, Extract, Shoot, HookLost, HookTask, SeedRead, SeedCheck, Ask,
                    SeedCreate, List, Succeed, RunFails, Close, Fault
    <2> QED BY <2>1, FileKept
  <1>2. ASSUME NEW j \in Jobs, Finalize(j) PROVE FileInv'
    <2>1. \A p \in Photos : ledger'[p] = "none" <=> ledger[p] = "none"
        BY <1>2 DEF Finalize, OutcomeOf, Ingested
    <2> QED BY <1>2, <2>1, FileKept DEF Finalize
  <1>3. ASSUME Poll \/ ScanEnds \/ CallHook \/ ExtractFails \/ ScanFails PROVE FileInv'
    <2>1. UNCHANGED <<copies, torn, ledger>> /\ at # "row" /\ at' # "row"
        BY <1>3 DEF Poll, ScanEnds, CallHook, ExtractFails, ScanFails, GiveUp, PostHook
    <2> QED BY <2>1, FileAway
  <1>4. ASSUME NEW p \in Photos, Repair(p) PROVE FileInv'
    <2>1. /\ at # "row" /\ at' = at /\ copies' = copies /\ torn' = torn
          /\ ledger' = [ledger EXCEPT ![p] = "INGESTED"] /\ copies[p] # {}
        BY <1>4 DEF Repair, RowFor
    <2> QED BY <2>1, FileAway DEF TypeOK
  <1>5. ASSUME NEW p \in Photos, Copy(p) PROVE FileInv'
    <2>1. /\ at = "each" /\ at' = "row" /\ current' = p /\ ledger[p] = "none"
          /\ UNCHANGED <<ledger, torn>>
          /\ copies' = [copies EXCEPT ![p] = @ \cup {Dest(p)}]
        BY <1>5 DEF Copy, Known
    <2>2. "own" \in copies[p] => p \in torn
        BY <2>1 DEF FileInv, AtRow
    <2>3. "own" \in copies'[p] /\ ({"own", "spare"} \subseteq copies'[p] =>
             p \in torn)
        BY <2>1, <2>2 DEF Dest, TypeOK, FileInv
    <2>4. \A q \in Photos : q # p => copies'[q] = copies[q]
        BY <2>1 DEF TypeOK
    <2> QED BY <2>1, <2>2, <2>3, <2>4
             DEF FileInv, AtRow, FilesMatchRows, RowHasFile, SecondCopyOnlyIfTorn
  <1>6. ASSUME Record PROVE FileInv'
    <2>1. /\ at = "row" /\ at' = "each" /\ UNCHANGED <<copies, torn>>
          /\ ledger' = [ledger EXCEPT ![current] = "INGESTED"] /\ current \in Photos
        BY <1>6 DEF Record, RowFor, TypeOK
    <2>2. "own" \in copies[current]
        BY <2>1 DEF FileInv, AtRow
    <2> QED BY <2>1, <2>2
             DEF FileInv, AtRow, FilesMatchRows, RowHasFile, SecondCopyOnlyIfTorn, TypeOK
  <1>7. ASSUME WorkerCrash PROVE FileInv'
    <2>1. /\ at' = "idle" /\ UNCHANGED <<copies, ledger>>
          /\ torn' = IF at = "row" THEN torn \cup {current} ELSE torn
        BY <1>7 DEF WorkerCrash, GiveUp
    <2> QED BY <2>1 DEF FileInv, AtRow, FilesMatchRows, RowHasFile, SecondCopyOnlyIfTorn
  <1>8. ASSUME RecordFails PROVE FileInv'
    <2>1. at = "row" /\ at' = "idle" /\ ledger' = ledger /\ current \in Photos
        BY <1>8 DEF RecordFails, GiveUp, TypeOK
    <2>2. CASE torn' = torn \cup {current} /\ copies' = copies
        BY <2>1, <2>2 DEF FileInv, AtRow, FilesMatchRows, RowHasFile, SecondCopyOnlyIfTorn
    <2>3. CASE /\ copies' = [copies EXCEPT ![current] =
                                 @ \ {IF "spare" \in @ THEN "spare" ELSE "own"}]
               /\ torn' = torn
      <3>1. ledger[current] = "none"
          BY <2>1 DEF FileInv, AtRow
      <3>2. \A q \in Photos : q # current => copies'[q] = copies[q]
          BY <2>1, <2>3 DEF TypeOK
      <3>3. copies'[current] = copies[current] \
               {IF "spare" \in copies[current] THEN "spare" ELSE "own"}
          BY <2>1, <2>3 DEF TypeOK
      <3>4. /\ "own" \in copies'[current] => current \in torn
            /\ "spare" \notin copies'[current]
          BY <2>1, <3>3 DEF FileInv, FilesMatchRows, SecondCopyOnlyIfTorn
      <3> QED BY <2>1, <2>3, <3>1, <3>2, <3>3, <3>4
               DEF FileInv, AtRow, FilesMatchRows, RowHasFile, SecondCopyOnlyIfTorn
    <2> QED BY <1>8, <2>2, <2>3 DEF RecordFails
  <1>9. CASE UNCHANGED vars
      BY <1>9, FileKept DEF vars
  <1> QED BY <1>1, <1>2, <1>3, <1>4, <1>5, <1>6, <1>7, <1>8, <1>9
           DEF Next, WorkerStep, Failure, SeederStep, JobStep

\* A photo in the ledger is in the archive, whichever step of its ingest failed or crashed;
\* a file is copied twice only after a scan that copied it without recording it.
THEOREM FilesKeepMatching == Spec => []FilesMatchRows
PROOF
  <1>1. Init => FileInv
    <2> SUFFICES ASSUME Init PROVE FileInv
        OBVIOUS
    <2>1. PICK kept \in SUBSET Imported :
             copies = [p \in Photos |-> IF p \in kept THEN {"kept"} ELSE {}]
        BY DEF Init
    <2>2. \A p \in Photos : "own" \notin copies[p]
        BY <2>1
    <2> QED BY <2>2 DEF Init, FileInv, AtRow, FilesMatchRows, RowHasFile, SecondCopyOnlyIfTorn
  <1>2. FileInv => FilesMatchRows
      BY DEF FileInv
  <1> QED BY TypeInit, TypeStep, FileStep, <1>1, <1>2, PTL DEF Spec

-----------------------------------------------------------------------------
(* Outcomes.  A run at work has listed every ingested photo, or the photo  *)
(* is late.                                                                *)

SeenInv ==
    /\ \A j \in Jobs : job[j] = "work" => Ingested \subseteq seen[j] \cup late
    /\ UnseenOnlyIfLate

\* Steps that make no row and start no run.
LEMMA SeenKept ==
  ASSUME SeenInv, ledger' = ledger, judged' = judged, late \subseteq late',
         \A j \in Jobs : job'[j] = "work" => job[j] = "work" /\ seen'[j] = seen[j]
  PROVE  SeenInv'
PROOF
  <1>1. Ingested' = Ingested
      BY DEF Ingested
  <1>2. UnseenOnlyIfLate'
      BY DEF SeenInv, UnseenOnlyIfLate
  <1>3. ASSUME NEW j \in Jobs, job'[j] = "work" PROVE Ingested \subseteq seen'[j] \cup late'
      BY <1>3 DEF SeenInv
  <1> QED BY <1>1, <1>2, <1>3 DEF SeenInv

LEMMA SeenRow ==
  ASSUME TypeOK, SeenInv, NEW p \in Photos, RowFor(p), UNCHANGED jobVars
  PROVE  SeenInv'
PROOF
  <1> USE DEF jobVars
  <1>1. /\ ledger'[p] = "INGESTED" /\ \A q \in Photos : q # p => ledger'[q] = ledger[q]
        /\ late \subseteq late'
      BY DEF RowFor, TypeOK
  <1>2. Ingested' \subseteq Ingested \cup {p}
      BY <1>1 DEF Ingested
  <1>3. UnseenOnlyIfLate'
      BY <1>1 DEF SeenInv, UnseenOnlyIfLate
  <1>4. ASSUME NEW j \in Jobs, job'[j] = "work" PROVE Ingested' \subseteq seen'[j] \cup late'
    <2>1. p \in late'
        BY <1>4 DEF RowFor
    <2>2. Ingested \subseteq seen[j] \cup late
        BY <1>4 DEF SeenInv
    <2> QED BY <1>1, <1>2, <2>1, <2>2
  <1> QED BY <1>3, <1>4 DEF SeenInv

LEMMA SeenStep == TypeOK /\ SeenInv /\ [Next]_vars => SeenInv'
PROOF
  <1> SUFFICES ASSUME TypeOK, SeenInv, [Next]_vars PROVE SeenInv'
      OBVIOUS
  <1> USE DEF workerVars, fileVars, jobVars, countVars, pastVars
  <1>1. ASSUME \/ Poll \/ ScanEnds \/ CallHook \/ ScanFails \/ RecordFails \/ WorkerCrash
               \/ ExtractFails \/ HookLost
               \/ \E p \in Photos : Skip(p) \/ Copy(p) \/ CopyFails(p) \/ Extract(p) \/ Shoot(p)
               \/ \E s \in Seeders : HookTask(s) \/ SeedRead(s) \/ SeedCheck(s) \/ Ask(s)
        PROVE  SeenInv'
    <2>1. UNCHANGED <<ledger, judged, late, job, seen>>
        BY <1>1 DEF Poll, ScanEnds, CallHook, ScanFails, RecordFails, WorkerCrash, ExtractFails,
                    HookLost, Skip, Copy, CopyFails, Extract, Shoot, HookTask, SeedRead,
                    SeedCheck, Ask, GiveUp, PostHook, Fault
    <2> QED BY <2>1, SeenKept
  <1>2. ASSUME NEW p \in Photos, Repair(p) PROVE SeenInv'
      BY <1>2, SeenRow DEF Repair
  <1>3. ASSUME Record PROVE SeenInv'
      BY <1>3, SeenRow DEF Record, TypeOK
  <1>4. ASSUME NEW s \in Seeders, NEW j \in Jobs, SeedCreate(s, j) PROVE SeenInv'
      BY <1>4, SeenKept DEF SeedCreate, TypeOK
  <1>5. ASSUME NEW j \in Jobs, List(j) PROVE SeenInv'
    <2>1. /\ ledger' = ledger /\ judged' = judged
          /\ late' = late \cup (Ingested \ previews) /\ seen'[j] = previews
          /\ \A k \in Jobs : k # j => job'[k] = job[k] /\ seen'[k] = seen[k]
        BY <1>5 DEF List, SourceImages, TypeOK
    <2>2. Ingested' = Ingested
        BY <2>1 DEF Ingested
    <2>3. UnseenOnlyIfLate'
        BY <2>1 DEF SeenInv, UnseenOnlyIfLate
    <2>4. ASSUME NEW k \in Jobs, job'[k] = "work" PROVE Ingested \subseteq seen'[k] \cup late'
      <3>1. CASE k = j
          BY <2>1, <3>1
      <3>2. CASE k # j
          BY <2>1, <2>4, <3>2 DEF SeenInv
      <3> QED BY <3>1, <3>2
    <2> QED BY <2>2, <2>3, <2>4 DEF SeenInv
  <1>6. ASSUME NEW j \in Jobs, Finalize(j) PROVE SeenInv'
    <2>1. /\ job[j] = "work" /\ job'[j] # "work" /\ late' = late /\ seen' = seen
          /\ judged' = judged \cup seen[j]
          /\ ledger' = [p \in Photos |-> IF p \in Ingested THEN "ANALYZED" ELSE ledger[p]]
        BY <1>6 DEF Finalize, OutcomeOf, TypeOK
    <2>2. Ingested' = {}
        BY <2>1 DEF Ingested
    <2>3. ASSUME NEW p \in Photos, ledger'[p] = "ANALYZED" PROVE p \in judged' \cup late'
      <3>1. CASE p \in Ingested
          BY <2>1, <3>1 DEF SeenInv
      <3>2. CASE p \notin Ingested
          BY <2>1, <2>3, <3>2 DEF SeenInv, UnseenOnlyIfLate
      <3> QED BY <3>1, <3>2
    <2> QED BY <2>2, <2>3 DEF SeenInv, UnseenOnlyIfLate
  <1>7. ASSUME NEW j \in Jobs, Succeed(j) \/ RunFails(j) PROVE SeenInv'
    <2>1. /\ ledger' = ledger /\ judged' = judged /\ late' = late
          /\ job'[j] # "work"
          /\ \A k \in Jobs : k # j => job'[k] = job[k] /\ seen'[k] = seen[k]
        BY <1>7 DEF Succeed, RunFails, Close, TypeOK
    <2> QED BY <2>1, SeenKept
  <1>8. CASE UNCHANGED vars
      BY <1>8, SeenKept DEF vars
  <1> QED BY <1>1, <1>2, <1>3, <1>4, <1>5, <1>6, <1>7, <1>8
           DEF Next, WorkerStep, Failure, SeederStep, JobStep

\* A photo is ANALYZED without a run having looked at it only when it came after the run's
\* listing, or had no preview by then.
THEOREM UnseenAreLate == Spec => []UnseenOnlyIfLate
PROOF
  <1>1. Init => SeenInv
      BY DEF Init, SeenInv, UnseenOnlyIfLate, Ingested
  <1>2. SeenInv => UnseenOnlyIfLate
      BY DEF SeenInv
  <1> QED BY TypeInit, TypeStep, SeenStep, <1>1, <1>2, PTL DEF Spec

-----------------------------------------------------------------------------
(* The way to a job.  A worker between two scans counts no new photo, so   *)
(* that beginning one forgets none.                                        *)

WayInv == (at = "idle" => fresh = {}) /\ NothingStranded

\* Steps that add no photo to those on their way and take no way from them.
LEMMA WayKept ==
  ASSUME WayInv, at' = "idle" => fresh' = {},
         Ingested' \ missed' \subseteq (Ingested \ missed) \cup fresh',
         \/ /\ (fresh \ missed') \subseteq fresh'
            /\ hooks > 0 => hooks' > 0
            /\ \A s \in Seeders : seeder[s] # "idle" => seeder'[s] # "idle"
            /\ \A j \in Jobs : job[j] \in {"queued", "work"} => job'[j] \in {"queued", "work"}
         \/ hooks' > 0
         \/ \E s \in Seeders : seeder'[s] # "idle"
         \/ \E j \in Jobs : job'[j] \in {"queued", "work"}
         \/ Ingested' \subseteq missed'
  PROVE  WayInv'
PROOF
  BY DEF WayInv, NothingStranded

LEMMA WayStep == TypeOK /\ WayInv /\ [Next]_vars => WayInv'
PROOF
  <1> SUFFICES ASSUME TypeOK, WayInv, [Next]_vars PROVE WayInv'
      OBVIOUS
  <1> USE DEF workerVars, fileVars, jobVars, countVars, pastVars
  <1>1. /\ ledger' = ledger => Ingested' = Ingested
        /\ at = "idle" => fresh = {}
      BY DEF Ingested, WayInv
  <1>2. ASSUME Poll \/ ScanEnds \/ \E p \in Photos : Skip(p) \/ Copy(p) \/ CopyFails(p)
                                                     \/ Extract(p) \/ Shoot(p)
        PROVE  WayInv'
    <2>1. /\ UNCHANGED <<ledger, missed, hooks, seeder, job>> /\ fresh \subseteq fresh'
          /\ at' = "idle" => fresh' = {}
        BY <1>1, <1>2 DEF Poll, ScanEnds, AnyNew, Skip, Copy, CopyFails, Extract, Shoot
    <2> QED BY <1>1, <2>1, WayKept
  <1>3. ASSUME NEW p \in Photos, RowFor(p), at' = "each", fresh' = fresh \cup {p},
               UNCHANGED <<missed, hooks, seeder, job>>
        PROVE  WayInv'
    <2>1. Ingested' \subseteq Ingested \cup {p}
        BY <1>3 DEF RowFor, Ingested, TypeOK
    <2> QED BY <1>3, <2>1, WayKept
  <1>4. ASSUME NEW p \in Photos, Repair(p) PROVE WayInv'
      BY <1>3, <1>4 DEF Repair
  <1>5. ASSUME Record PROVE WayInv'
      BY <1>3, <1>5 DEF Record, TypeOK
  <1>6. ASSUME ScanFails \/ RecordFails \/ WorkerCrash PROVE WayInv'
    <2>1. /\ UNCHANGED <<ledger, hooks, seeder, job>> /\ at' = "idle" /\ fresh' = {}
          /\ missed' = missed \cup fresh
        BY <1>6 DEF ScanFails, RecordFails, WorkerCrash, GiveUp
    <2> QED BY <1>1, <2>1, WayKept
  <1>7. ASSUME CallHook \/ ExtractFails PROVE WayInv'
    <2>1. UNCHANGED <<ledger, missed>> /\ fresh' = {} /\ hooks' > 0
        BY <1>7 DEF CallHook, ExtractFails, PostHook, TypeOK
    <2> QED BY <1>1, <2>1, WayKept
  <1>8. ASSUME HookLost PROVE WayInv'
    <2>1. UNCHANGED <<ledger, at, fresh>> /\ missed' = missed \cup Ingested
        BY <1>8 DEF HookLost
    <2> QED BY <1>1, <2>1, WayKept
  <1>9. ASSUME NEW s \in Seeders, HookTask(s) \/ Ask(s) PROVE WayInv'
    <2>1. UNCHANGED <<ledger, missed, at, fresh>> /\ seeder'[s] # "idle"
        BY <1>9 DEF HookTask, Ask, TypeOK
    <2> QED BY <1>1, <2>1, WayKept
  <1>10. ASSUME NEW s \in Seeders, SeedRead(s) PROVE WayInv'
    <2>1. /\ UNCHANGED <<ledger, missed, at, fresh>>
          /\ seeder'[s] = IF Ingested = {} THEN "idle" ELSE "check"
        BY <1>10 DEF SeedRead, TypeOK
    <2> QED BY <1>1, <2>1, WayKept
  <1>11. ASSUME NEW s \in Seeders, SeedCheck(s) PROVE WayInv'
    <2>1. UNCHANGED <<ledger, at, fresh, job>>
        BY <1>11 DEF SeedCheck
    <2>2. CASE Open = {}
      <3>1. seeder'[s] # "idle" /\ missed' = missed
          BY <1>11, <2>2 DEF SeedCheck, TypeOK
      <3> QED BY <1>1, <2>1, <3>1, WayKept
    <2>3. CASE Open # {} /\ \A j \in Open : job[j] = "close"
      <3>1. missed' = missed \cup Ingested
          BY <1>11, <2>3 DEF SeedCheck
      <3> QED BY <1>1, <2>1, <3>1, WayKept
    <2>4. CASE Open # {} /\ ~ \A j \in Open : job[j] = "close"
      <3>1. missed' = missed /\ \E j \in Jobs : job'[j] \in {"queued", "work"}
          BY <1>11, <2>1, <2>4 DEF SeedCheck, Open, TypeOK
      <3> QED BY <1>1, <2>1, <3>1, WayKept
    <2> QED BY <2>2, <2>3, <2>4
  <1>12. ASSUME NEW s \in Seeders, NEW j \in Jobs, SeedCreate(s, j) PROVE WayInv'
    <2>1. UNCHANGED <<ledger, missed, at, fresh>> /\ job'[j] = "queued"
        BY <1>12 DEF SeedCreate, TypeOK
    <2> QED BY <1>1, <2>1, WayKept
  <1>13. ASSUME NEW j \in Jobs, List(j) PROVE WayInv'
    <2>1. UNCHANGED <<ledger, missed, at, fresh>> /\ job'[j] = "work"
        BY <1>13 DEF List, TypeOK
    <2> QED BY <1>1, <2>1, WayKept
  <1>14. ASSUME NEW j \in Jobs, Finalize(j) PROVE WayInv'
    <2>1. Ingested' = {} /\ UNCHANGED <<at, fresh>>
        BY <1>14 DEF Finalize, OutcomeOf, Ingested
    <2> QED BY <1>1, <2>1, WayKept
  <1>15. ASSUME NEW j \in Jobs, Succeed(j) PROVE WayInv'
    <2>1. /\ UNCHANGED <<ledger, missed, at, fresh, hooks, seeder>>
          /\ \A k \in Jobs : job[k] \in {"queued", "work"} => job'[k] = job[k]
        BY <1>15 DEF Succeed, Close, TypeOK
    <2> QED BY <1>1, <2>1, WayKept
  <1>16. ASSUME NEW j \in Jobs, RunFails(j) PROVE WayInv'
    <2>1. UNCHANGED <<ledger, at, fresh>>
        BY <1>16 DEF RunFails, Close
    <2>2. \/ missed' = missed /\ job'[j] = "queued"
          \/ missed' = missed \cup Ingested
        BY <1>16 DEF RunFails, TypeOK
    <2> QED BY <1>1, <2>1, <2>2, WayKept
  <1>17. CASE UNCHANGED vars
      BY <1>1, <1>17, WayKept DEF vars
  <1> QED BY <1>2, <1>4, <1>5, <1>6, <1>7, <1>8, <1>9, <1>10, <1>11, <1>12, <1>13, <1>14, <1>15,
             <1>16, <1>17 DEF Next, WorkerStep, Failure, SeederStep, JobStep

\* Every ingested photo is on its way to a job, unless a scan broke off or a hook was lost
\* after it, or a run marked its photos just before.
THEOREM NothingIsStranded == Spec => []NothingStranded
PROOF
  <1>1. Init => WayInv
      BY DEF Init, WayInv, NothingStranded, Ingested
  <1>2. WayInv => NothingStranded
      BY DEF WayInv
  <1> QED BY TypeInit, TypeStep, WayStep, <1>1, <1>2, PTL DEF Spec

-----------------------------------------------------------------------------
(* One open job.  Of the seeders that may create a job and the open jobs   *)
(* there is one in all, until two seeders look at once.                    *)

Creating(s) == seeder[s] = "create"

JobInv ==
    ~raced =>
        /\ \A j, k \in Open : j = k
        /\ \A s \in Seeders : Creating(s) => Open = {}
        /\ \A s, t \in Seeders : Creating(s) /\ Creating(t) => s = t

\* Steps that open no job and let no seeder create one.
LEMMA JobKept ==
  ASSUME JobInv, raced' = raced, Open' \subseteq Open,
         \A s \in Seeders : Creating(s)' => Creating(s)
  PROVE  JobInv'
PROOF
  BY DEF JobInv, Creating

LEMMA JobStepKeeps == TypeOK /\ JobInv /\ [Next]_vars => JobInv'
PROOF
  <1> SUFFICES ASSUME TypeOK, JobInv, [Next]_vars PROVE JobInv'
      OBVIOUS
  <1> USE DEF workerVars, fileVars, jobVars, countVars, pastVars
  <1>1. ASSUME \/ WorkerStep
               \/ \E p \in Photos : CopyFails(p) \/ Shoot(p)
               \/ ScanFails \/ RecordFails \/ WorkerCrash \/ ExtractFails \/ HookLost
        PROVE  JobInv'
    <2>1. UNCHANGED <<job, seeder, raced>>
        BY <1>1 DEF WorkerStep, Poll, Record, ScanEnds, CallHook, Skip, Repair, Copy, Extract,
                    CopyFails, Shoot, ScanFails, RecordFails, WorkerCrash, ExtractFails, HookLost,
                    GiveUp, PostHook, Fault
    <2> QED BY <2>1, JobKept DEF Open, Creating
  <1>2. ASSUME NEW s \in Seeders, HookTask(s) \/ SeedRead(s) \/ Ask(s) PROVE JobInv'
    <2>1. UNCHANGED <<job, raced>> /\ \A t \in Seeders : Creating(t)' => Creating(t)
        BY <1>2 DEF HookTask, SeedRead, Ask, Creating, TypeOK
    <2> QED BY <2>1, JobKept DEF Open
  <1>3. ASSUME NEW s \in Seeders, SeedCheck(s) PROVE JobInv'
    <2>1. /\ Open' = Open
          /\ raced' = (raced \/ (Open = {} /\ \E t \in Seeders \ {s} : Creating(t)))
          /\ \A t \in Seeders : t # s => Creating(t)' = Creating(t)
          /\ Creating(s)' => Open = {}
        BY <1>3 DEF SeedCheck, Open, Creating, TypeOK
    <2> QED BY <2>1 DEF JobInv
  <1>4. ASSUME NEW s \in Seeders, NEW j \in Jobs, SeedCreate(s, j) PROVE JobInv'
    <2>1. /\ raced' = raced /\ Creating(s) /\ ~Creating(s)'
          /\ \A t \in Seeders : t # s => Creating(t)' = Creating(t)
          /\ Open' = Open \cup {j}
        BY <1>4 DEF SeedCreate, Open, Creating, TypeOK
    <2> QED BY <2>1 DEF JobInv
  <1>5. ASSUME NEW j \in Jobs, List(j) \/ Finalize(j) \/ Succeed(j) \/ RunFails(j) PROVE JobInv'
    <2>1. UNCHANGED <<seeder, raced>> /\ j \in Open
        BY <1>5 DEF List, Finalize, Succeed, RunFails, Close, Open
    <2>2. \A k \in Jobs : k # j => job'[k] = job[k]
        BY <1>5 DEF List, Finalize, Succeed, RunFails, Close, TypeOK
    <2>3. Open' \subseteq Open
        BY <2>1, <2>2 DEF Open
    <2> QED BY <2>1, <2>3, JobKept DEF Creating
  <1>6. CASE UNCHANGED vars
      BY <1>6, JobKept DEF vars, Open, Creating
  <1> QED BY <1>1, <1>2, <1>3, <1>4, <1>5, <1>6 DEF Next, Failure, SeederStep, JobStep

\* A session has one open job, unless two seeders looked at once.
THEOREM OneJobIsOpen == Spec => []OneOpenJob
PROOF
  <1>1. Init => JobInv
      BY DEF Init, JobInv, Open, Creating
  <1>2. JobInv => OneOpenJob
    <2> SUFFICES ASSUME JobInv, ~raced PROVE Cardinality(Open) <= 1
        BY DEF OneOpenJob
    <2>1. CASE Open = {}
        BY <2>1, FS_EmptySet
    <2>2. CASE Open # {}
      <3>1. PICK j \in Open : Open = {j}
          BY <2>2 DEF JobInv
      <3> QED BY <3>1, FS_Singleton
    <2> QED BY <2>1, <2>2
  <1> QED BY TypeInit, TypeStep, JobStepKeeps, <1>1, <1>2, PTL DEF Spec
=============================================================================
