------------------------- MODULE DispatchPlan_proofs -------------------------
(***************************************************************************)
(* Proofs about DispatchPlan, for any jobs, types, pools, workers and      *)
(* caps: what a round of the weighted fair planner may pick.               *)
(***************************************************************************)
EXTENDS DispatchPlan, FiniteSetTheorems, TLAPS

-----------------------------------------------------------------------------
(* Finite sets and lines.                                                  *)

LEMMA JobSets ==
  ASSUME NEW S \in SUBSET Jobs
  PROVE  IsFiniteSet(S) /\ Cardinality(S) \in Nat
PROOF
  BY JobsAssumption, FS_Subset, FS_CardinalityType

LEMMA SlotsAreFinite ==
  ASSUME NEW S \in SUBSET Workers
  PROVE  IsFiniteSet(Slots(S))
PROOF
  <1> DEFINE parts == {{w} \X (1..Capacity(w)) : w \in S}
  <1> DEFINE f == [w \in S |-> {w} \X (1..Capacity(w))]
  <1>1. IsFiniteSet(S)
      BY WorkersAssumption, FS_Subset
  <1>2. f \in Surjection(S, parts)
      BY DEF Surjection
  <1>3. IsFiniteSet(parts)
    <2> HIDE DEF parts, f
    <2> QED BY <1>1, <1>2, FS_Surjection
  <1>4. ASSUME NEW T \in parts PROVE IsFiniteSet(T)
    <2>1. PICK w \in S : T = {w} \X (1..Capacity(w))
        OBVIOUS
    <2>2. IsFiniteSet({w})
        BY FS_Singleton
    <2>3. Capacity(w) \in Int /\ 1 \in Int
        BY WorkersAssumption
    <2>4. IsFiniteSet(1..Capacity(w))
        BY <2>3, FS_Interval
    <2> QED BY <2>1, <2>2, <2>4, FS_Product
  <1>5. IsFiniteSet(UNION parts)
    <2> HIDE DEF parts
    <2> QED BY <1>3, <1>4, FS_UNION
  <1> QED BY <1>5 DEF Slots

LEMMA RoomIsBounded == ASSUME TypeOK PROVE EffectiveMax \in 0..MaxPerRound
PROOF
  <1>1. TotalCapacity \in Nat
      BY SlotsAreFinite, FS_CardinalityType DEF TotalCapacity, TypeOK
  <1>2. Busy \in Nat
      BY JobSets DEF Busy
  <1>3. Headroom \in Nat
      BY <1>1, <1>2 DEF Headroom
  <1> QED BY <1>1, <1>3, CapsAssumption DEF EffectiveMax, Least

LEMMA PoolsOffer == ASSUME TypeOK PROVE PoolHeadroom \in [RoutedPools -> Nat]
PROOF
  <1>1. ASSUME NEW p \in RoutedPools PROVE Cardinality(SlotsServing(p)) \in Nat
    <2>1. SlotsServing(p) \subseteq Slots(online)
        BY DEF SlotsServing, FreeSlots
    <2> QED BY <2>1, SlotsAreFinite, FS_Subset, FS_CardinalityType DEF TypeOK
  <1> QED BY <1>1 DEF PoolHeadroom

\* The line of a type, as the three steps that change it leave it.
LEMMA BucketLine ==
  ASSUME TypeOK, NEW t \in Types, NEW line \in Bucket(t)
  PROVE  /\ line \in Seq(Jobs)
         /\ \A i \in 1..Len(line) : Type(line[i]) = t
         /\ \A i, k \in 1..Len(line) : i < k => Rank(line[i]) <= Rank(line[k])
         /\ \A i, k \in 1..Len(line) : line[i] = line[k] => i = k
PROOF
  <1> DEFINE of == {j \in Listed : Type(j) = t}
  <1> DEFINE n == Cardinality(of)
  <1>1. n \in Nat /\ of \subseteq Jobs
      BY JobSets DEF Listed, TypeOK
  <1>2. /\ line \in [1..n -> of]
        /\ \A i, k \in 1..n : i < k => Rank(line[i]) <= Rank(line[k]) /\ line[i] # line[k]
      BY DEF Bucket
  <1>3. \A j \in of : Type(j) = t
      OBVIOUS
  <1> HIDE DEF of, n
  <1>4. line \in Seq(Jobs) /\ Len(line) = n
      BY <1>1, <1>2
  <1>5. \A i, k \in 1..n : line[i] = line[k] => i = k
      BY <1>1, <1>2
  <1> QED BY <1>2, <1>3, <1>4, <1>5

LEMMA TailOfLine ==
  ASSUME NEW line \in Seq(Jobs), Len(line) > 0
  PROVE  /\ Head(line) = line[1] /\ line[1] \in Jobs /\ 1 \in 1..Len(line)
         /\ Tail(line) \in Seq(Jobs) /\ Len(Tail(line)) = Len(line) - 1
         /\ \A i \in 1..Len(Tail(line)) : Tail(line)[i] = line[i + 1] /\ i + 1 \in 1..Len(line)
PROOF
  OBVIOUS

LEMMA LineToBack ==
  ASSUME NEW line \in Seq(Jobs), Len(line) > 0
  PROVE  /\ ToBack(line) \in Seq(Jobs) /\ Len(ToBack(line)) = Len(line)
         /\ \A i \in 1..Len(line) :
               ToBack(line)[i] = IF i = Len(line) THEN line[1] ELSE line[i + 1]
PROOF
  BY TailOfLine DEF ToBack

-----------------------------------------------------------------------------
(* Types.                                                                  *)

LEMMA TypeInit == Init => TypeOK
PROOF
  <1> SUFFICES ASSUME Init PROVE TypeOK
      OBVIOUS
  <1>1. Empty \in [Types -> Seq(Jobs)] /\ NoCaps \in [Providers -> Nat]
        /\ NoSlots \in [RoutedPools -> Int]
      BY DEF Empty, NoCaps, NoSlots
  <1>2. 1 \in 1..(Len(TypeOrder) + 1)
      BY OrderAssumption
  <1>3. 0 \in 0..MaxPerRound /\ 0 \in 0..MaxEvents
      BY CapsAssumption
  <1>4. owner \in [Jobs -> Workers \cup {Nobody}]
      BY DEF Init
  <1> QED BY <1>1, <1>2, <1>3, <1>4 DEF Init, TypeOK

LEMMA TypeStep == TypeOK /\ [Next]_vars => TypeOK'
PROOF
  <1> SUFFICES ASSUME TypeOK, [Next]_vars PROVE TypeOK'
      OBVIOUS
  <1> USE DEF world, caps, walk
  <1>0. Len(TypeOrder) \in Nat /\ MaxPerRound \in Nat /\ MaxEvents \in Nat
      BY OrderAssumption, CapsAssumption
  <1>1. ASSUME ListCandidates PROVE TypeOK'
    <2>1. PICK lines \in [Types -> UNION {Bucket(t) : t \in Types}] :
             (\A t \in Types : lines[t] \in Bucket(t)) /\ deques' = lines
        BY <1>1 DEF ListCandidates
    <2>2. \A t \in Types : lines[t] \in Seq(Jobs)
        BY <2>1, BucketLine
    <2>3. deques' \in [Types -> Seq(Jobs)]
        BY <2>1, <2>2
    <2> QED BY <1>1, <2>3 DEF ListCandidates, TypeOK
  <1>2. ASSUME ReadHeadroom PROVE TypeOK'
      BY <1>2, RoomIsBounded DEF ReadHeadroom, TypeOK
  <1>3. ASSUME NEW throttled \in ThrottledCaps, ReadPools(throttled) PROVE TypeOK'
    <2>1. PoolHeadroom \in [RoutedPools -> Int]
        BY PoolsOffer
    <2>2. throttled \in [Providers -> Nat]
        BY DEF ThrottledCaps
    <2> QED BY <1>3, <2>1, <2>2 DEF ReadPools, TypeOK
  <1>4. ASSUME NEW t \in Types, InTurn(t)
        PROVE  deques[t] \in Seq(Jobs) /\ Len(deques[t]) > 0 /\ turn \in 1..Len(TypeOrder)
      BY <1>0, <1>4 DEF InTurn, TypeOK
  <1>5. ASSUME NEW t \in Types, Pick(t) PROVE TypeOK'
    <2>1. deques' \in [Types -> Seq(Jobs)] /\ chosen' \subseteq Jobs
        BY <1>4, <1>5, TailOfLine DEF Pick, TypeOK
    <2>2. left' \in [RoutedPools -> Int]
      <3>1. /\ left \in [RoutedPools -> Int]
            /\ left' = [left EXCEPT ![Pool(Head(deques[t]))] = @ - 1]
          BY <1>5 DEF Pick, TypeOK
      <3>2. \A p \in RoutedPools : left[p] \in Int /\ left[p] - 1 \in Int
          BY <3>1
      <3>3. \A p \in RoutedPools : left'[p] = left[p] \/ left'[p] = left[p] - 1
          BY <3>1
      <3>4. left' = [p \in RoutedPools |-> left'[p]]
          BY <3>1
      <3> QED BY <3>2, <3>3, <3>4
    <2>3. turn' \in 1..(Len(TypeOrder) + 1)
        BY <1>0, <1>4, <1>5 DEF Pick
    <2> QED BY <1>5, <2>1, <2>2, <2>3 DEF Pick, TypeOK
  <1>6. ASSUME NEW t \in Types, Rotate(t) PROVE TypeOK'
    <2>1. deques' \in [Types -> Seq(Jobs)]
        BY <1>4, <1>6, LineToBack DEF Rotate, TypeOK
    <2> QED BY <1>6, <2>1 DEF Rotate, TypeOK
  <1>7. ASSUME NEW t \in Types, NextTurn(t) PROVE TypeOK'
    <2>1. turn' \in 1..(Len(TypeOrder) + 1)
        BY <1>0, <1>7 DEF NextTurn, TypeOK
    <2> QED BY <1>7, <2>1 DEF NextTurn, TypeOK
  <1>8. ASSUME NextPass \/ Stop PROVE TypeOK'
    <2>1. 1 \in 1..(Len(TypeOrder) + 1)
        BY <1>0
    <2>2. turn' \in 1..(Len(TypeOrder) + 1) /\ progress' \in BOOLEAN
        BY <1>8, <2>1 DEF NextPass, Stop, TypeOK
    <2> QED BY <1>8, <2>2 DEF NextPass, Stop, TypeOK
  <1>9. ASSUME Send PROVE TypeOK'
    <2>1. Empty \in [Types -> Seq(Jobs)] /\ NoCaps \in [Providers -> Nat]
          /\ NoSlots \in [RoutedPools -> Int]
        BY DEF Empty, NoCaps, NoSlots
    <2>2. 1 \in 1..(Len(TypeOrder) + 1) /\ 0 \in 0..MaxPerRound
        BY <1>0
    <2>3. mail' \subseteq Jobs
        BY <1>9 DEF Send, TypeOK
    <2> QED BY <1>9, <2>1, <2>2, <2>3 DEF Send, TypeOK
  <1>10. ASSUME NEW w \in Workers, NEW j \in Jobs, Claim(w, j) \/ Decline(w, j) PROVE TypeOK'
      BY <1>10 DEF Claim, Decline, TypeOK
  <1>11. ASSUME NEW j \in Jobs, Finish(j) \/ Arrive(j) PROVE TypeOK'
    <2>1. CASE Finish(j)
        BY <2>1 DEF Finish, TypeOK
    <2>2. CASE Arrive(j)
        BY <1>0, <2>2 DEF Arrive, TypeOK
    <2> QED BY <1>11, <2>1, <2>2
  <1>12. ASSUME NEW w \in Workers, Switch(w) PROVE TypeOK'
      BY <1>0, <1>12 DEF Switch, TypeOK
  <1>13. CASE UNCHANGED vars
      BY <1>13 DEF vars, TypeOK
  <1> QED BY <1>1, <1>2, <1>3, <1>5, <1>6, <1>7, <1>8, <1>9, <1>10, <1>11, <1>12, <1>13
           DEF Next, PlanStep

\* Plans, caps and rows are well typed; a round has no negative room.
THEOREM PlanTypesHold == Spec => []TypeOK
PROOF
  BY TypeInit, TypeStep, PTL DEF Spec

-----------------------------------------------------------------------------
(* Lines.  A candidate stands in one line, the one of its type, at one     *)
(* place, and leaves it when it is picked.                                 *)

LineOK(t) ==
    /\ \A i \in 1..Len(deques[t]) : Type(deques[t][i]) = t /\ deques[t][i] \notin chosen
    /\ \A i, k \in 1..Len(deques[t]) : deques[t][i] = deques[t][k] => i = k

LineInv ==
    /\ at \in {"idle", "listed", "sized"} =>
          chosen = {} /\ turn = 1 /\ looked = 0 /\ progress = FALSE
    /\ \A t \in Types : LineOK(t)

\* What a pick does to the lines and to the counts.
LEMMA PickFacts ==
  ASSUME TypeOK, LineInv, NEW t \in Types, Pick(t)
  PROVE  \E j \in Jobs :
           /\ j = deques[t][1] /\ j \notin chosen /\ Type(j) = t
           /\ MayPick(j) /\ chosen' = chosen \cup {j}
           /\ Len(deques[t]) > 0 /\ Len(deques'[t]) = Len(deques[t]) - 1
           /\ \A i \in 1..Len(deques'[t]) :
                 deques'[t][i] = deques[t][i + 1] /\ i + 1 \in 1..Len(deques[t])
           /\ \A u \in Types : u # t => deques'[u] = deques[u]
           /\ left' = [left EXCEPT ![Pool(j)] = @ - 1]
PROOF
  <1>1. deques[t] \in Seq(Jobs) /\ Len(deques[t]) > 0
      BY DEF Pick, InTurn, TypeOK
  <1>2. /\ Head(deques[t]) = deques[t][1] /\ deques[t][1] \in Jobs /\ 1 \in 1..Len(deques[t])
        /\ Len(Tail(deques[t])) = Len(deques[t]) - 1
        /\ \A i \in 1..Len(Tail(deques[t])) :
              Tail(deques[t])[i] = deques[t][i + 1] /\ i + 1 \in 1..Len(deques[t])
      BY <1>1, TailOfLine
  <1>3. /\ deques' = [deques EXCEPT ![t] = Tail(@)] /\ MayPick(deques[t][1])
        /\ chosen' = chosen \cup {deques[t][1]}
        /\ left' = [left EXCEPT ![Pool(deques[t][1])] = @ - 1]
      BY <1>2 DEF Pick
  <1>4. deques'[t] = Tail(deques[t]) /\ \A u \in Types : u # t => deques'[u] = deques[u]
      BY <1>3 DEF TypeOK
  <1>5. deques[t][1] \notin chosen /\ Type(deques[t][1]) = t
      BY <1>2 DEF LineInv, LineOK
  <1>6. deques[t][1] \in Jobs
      BY <1>2
  <1> HIDE DEF MayPick
  <1> USE <1>6
  <1> WITNESS deques[t][1] \in Jobs
  <1> QED BY <1>1, <1>2, <1>3, <1>4, <1>5

LEMMA RotateFacts ==
  ASSUME TypeOK, NEW t \in Types, Rotate(t)
  PROVE  /\ Len(deques[t]) > 0 /\ ~MayPick(deques[t][1])
         /\ Len(deques'[t]) = Len(deques[t])
         /\ \A i \in 1..Len(deques[t]) :
               deques'[t][i] = IF i = Len(deques[t]) THEN deques[t][1] ELSE deques[t][i + 1]
         /\ \A u \in Types : u # t => deques'[u] = deques[u]
PROOF
  <1>1. deques[t] \in Seq(Jobs) /\ Len(deques[t]) > 0
      BY DEF Rotate, InTurn, TypeOK
  <1>2. ~MayPick(Head(deques[t])) /\ deques' = [deques EXCEPT ![t] = ToBack(@)]
      BY DEF Rotate
  <1>3. deques'[t] = ToBack(deques[t]) /\ \A u \in Types : u # t => deques'[u] = deques[u]
      BY <1>2 DEF TypeOK
  <1> QED BY <1>1, <1>2, <1>3, LineToBack, TailOfLine

\* What the other steps leave as it was.
LEMMA WorldMoves ==
  ASSUME \/ \E w \in Workers, j \in Jobs : Claim(w, j) \/ Decline(w, j)
         \/ \E j \in Jobs : Finish(j) \/ Arrive(j)
         \/ \E w \in Workers : Switch(w)
         \/ UNCHANGED vars
  PROVE  UNCHANGED <<at, caps, walk>>
PROOF
  BY DEF Claim, Decline, Finish, Arrive, Switch, vars

LEMMA LineStep == TypeOK /\ LineInv /\ [Next]_vars => LineInv'
PROOF
  <1> SUFFICES ASSUME TypeOK, LineInv, [Next]_vars PROVE LineInv'
      OBVIOUS
  <1> USE DEF world, caps, walk
  <1>1. ASSUME ListCandidates PROVE LineInv'
    <2>1. PICK lines \in [Types -> UNION {Bucket(t) : t \in Types}] :
             (\A t \in Types : lines[t] \in Bucket(t)) /\ deques' = lines
        BY <1>1 DEF ListCandidates
    <2>2. /\ chosen' = {} /\ turn' = 1 /\ looked' = 0 /\ progress' = FALSE
        BY <1>1 DEF ListCandidates, LineInv
    <2>3. ASSUME NEW t \in Types PROVE LineOK(t)'
        BY <2>1, <2>2, BucketLine DEF LineOK
    <2> QED BY <2>2, <2>3 DEF LineInv
  <1>2. ASSUME ReadHeadroom \/ (\E throttled \in ThrottledCaps : ReadPools(throttled))
        PROVE  LineInv'
      BY <1>2 DEF ReadHeadroom, ReadPools, LineInv, LineOK
  <1>3. ASSUME NEW t \in Types, Pick(t) PROVE LineInv'
    <2>1. at' = "picking"
        BY <1>3 DEF Pick, InTurn
    <2>2. PICK j \in Jobs :
           /\ j = deques[t][1] /\ j \notin chosen /\ Type(j) = t
           /\ chosen' = chosen \cup {j}
           /\ Len(deques[t]) > 0 /\ Len(deques'[t]) = Len(deques[t]) - 1
           /\ \A i \in 1..Len(deques'[t]) :
                 deques'[t][i] = deques[t][i + 1] /\ i + 1 \in 1..Len(deques[t])
           /\ \A u \in Types : u # t => deques'[u] = deques[u]
        BY <1>3, PickFacts
    <2>3. ASSUME NEW u \in Types PROVE LineOK(u)'
      <3>1. CASE u # t
          BY <2>2, <3>1 DEF LineInv, LineOK
      <3>2. CASE u = t
        <4>1. Len(deques[t]) \in Nat /\ 1 \in 1..Len(deques[t])
            BY <2>2 DEF TypeOK
        <4>2. \A i \in 1..Len(deques'[t]) : deques'[t][i] # j
            BY <2>2, <4>1 DEF LineInv, LineOK
        <4>3. \A i \in 1..Len(deques'[t]) :
                 Type(deques'[t][i]) = t /\ deques'[t][i] \notin chosen'
            BY <2>2, <4>2 DEF LineInv, LineOK
        <4>4. \A i, k \in 1..Len(deques'[t]) : deques'[t][i] = deques'[t][k] => i = k
            BY <2>2, <4>1 DEF LineInv, LineOK
        <4> QED BY <3>2, <4>3, <4>4 DEF LineOK
      <3> QED BY <3>1, <3>2
    <2> QED BY <2>1, <2>3 DEF LineInv
  <1>4. ASSUME NEW t \in Types, Rotate(t) PROVE LineInv'
    <2>1. at' = "picking" /\ chosen' = chosen
        BY <1>4 DEF Rotate, InTurn
    <2>2. ASSUME NEW u \in Types PROVE LineOK(u)'
      <3>1. CASE u # t
          BY <1>4, <2>1, <3>1, RotateFacts DEF LineInv, LineOK
      <3>2. CASE u = t
        <4>1. /\ Len(deques[t]) > 0 /\ Len(deques'[t]) = Len(deques[t])
              /\ \A i \in 1..Len(deques[t]) :
                    deques'[t][i] = IF i = Len(deques[t]) THEN deques[t][1] ELSE deques[t][i + 1]
            BY <1>4, RotateFacts
        <4>2. Len(deques[t]) \in Nat /\ 1 \in 1..Len(deques[t])
            BY <4>1 DEF TypeOK
        <4>3. \A i \in 1..Len(deques[t]) : i # Len(deques[t]) => i + 1 \in 1..Len(deques[t])
            BY <4>2
        <4>4. \A i \in 1..Len(deques'[t]) :
                 Type(deques'[t][i]) = t /\ deques'[t][i] \notin chosen'
            BY <2>1, <4>1, <4>2, <4>3 DEF LineInv, LineOK
        <4>5. \A i, k \in 1..Len(deques'[t]) : deques'[t][i] = deques'[t][k] => i = k
            BY <4>1, <4>2, <4>3 DEF LineInv, LineOK
        <4> QED BY <3>2, <4>4, <4>5 DEF LineOK
      <3> QED BY <3>1, <3>2
    <2> QED BY <2>1, <2>2 DEF LineInv
  <1>5. ASSUME \/ \E t \in Types : NextTurn(t)
               \/ NextPass \/ Stop
        PROVE  LineInv'
      BY <1>5 DEF NextTurn, NextPass, Stop, LineInv, LineOK
  <1>6. ASSUME Send PROVE LineInv'
    <2>1. /\ deques' = Empty /\ chosen' = {} /\ turn' = 1 /\ looked' = 0 /\ progress' = FALSE
        BY <1>6 DEF Send
    <2> QED BY <2>1 DEF LineInv, LineOK, Empty
  <1>7. ASSUME UNCHANGED <<at, caps, walk>> PROVE LineInv'
      BY <1>7 DEF LineInv, LineOK
  <1> QED BY <1>1, <1>2, <1>3, <1>4, <1>5, <1>6, <1>7, WorldMoves DEF Next, PlanStep

LEMMA LineInit == Init => LineInv
PROOF
  BY DEF Init, LineInv, LineOK, Empty

-----------------------------------------------------------------------------
(* Caps.  A pick adds to its type, its provider and its pool a job none of *)
(* them had.                                                               *)

\* What one more job does to the count of the jobs of a kind.
LEMMA OneMore ==
  ASSUME TypeOK, NEW j \in Jobs, j \notin chosen, chosen' = chosen \cup {j}
  PROVE  /\ Cardinality(chosen') = Cardinality(chosen) + 1
         /\ \A t \in Types : Cardinality(ChosenOf(t))' =
               Cardinality(ChosenOf(t)) + IF Type(j) = t THEN 1 ELSE 0
         /\ \A p \in Providers : Cardinality(ChosenFor(p))' =
               Cardinality(ChosenFor(p)) + IF Provider(j) = p THEN 1 ELSE 0
         /\ \A p \in RoutedPools : Cardinality(ChosenIn(p))' =
               Cardinality(ChosenIn(p)) + IF Pool(j) = p THEN 1 ELSE 0
PROOF
  <1>1. ASSUME NEW S \in SUBSET chosen
        PROVE  /\ IsFiniteSet(S) /\ Cardinality(S) \in Nat
               /\ Cardinality(S \cup {j}) = Cardinality(S) + 1
    <2>1. S \in SUBSET Jobs /\ j \notin S
        BY DEF TypeOK
    <2>2. IsFiniteSet(S) /\ Cardinality(S) \in Nat
        BY <2>1, JobSets
    <2> QED BY <2>1, <2>2, FS_AddElement
  <1>2. ASSUME NEW t \in Types
        PROVE  Cardinality(ChosenOf(t))' =
                  Cardinality(ChosenOf(t)) + IF Type(j) = t THEN 1 ELSE 0
    <2>1. ChosenOf(t)' = IF Type(j) = t THEN ChosenOf(t) \cup {j} ELSE ChosenOf(t)
        BY DEF ChosenOf
    <2>2. ChosenOf(t) \in SUBSET chosen
        BY DEF ChosenOf
    <2> QED BY <1>1, <2>1, <2>2
  <1>3. ASSUME NEW p \in Providers
        PROVE  Cardinality(ChosenFor(p))' =
                  Cardinality(ChosenFor(p)) + IF Provider(j) = p THEN 1 ELSE 0
    <2>1. ChosenFor(p)' = IF Provider(j) = p THEN ChosenFor(p) \cup {j} ELSE ChosenFor(p)
        BY DEF ChosenFor
    <2>2. ChosenFor(p) \in SUBSET chosen
        BY DEF ChosenFor
    <2> QED BY <1>1, <2>1, <2>2
  <1>4. ASSUME NEW p \in RoutedPools
        PROVE  Cardinality(ChosenIn(p))' =
                  Cardinality(ChosenIn(p)) + IF Pool(j) = p THEN 1 ELSE 0
    <2>1. ChosenIn(p)' = IF Pool(j) = p THEN ChosenIn(p) \cup {j} ELSE ChosenIn(p)
        BY DEF ChosenIn
    <2>2. ChosenIn(p) \in SUBSET chosen
        BY DEF ChosenIn
    <2> QED BY <1>1, <2>1, <2>2
  <1>5. Cardinality(chosen') = Cardinality(chosen) + 1
      BY <1>1
  <1> QED BY <1>2, <1>3, <1>4, <1>5

LEMMA CountTypes ==
  ASSUME TypeOK
  PROVE  /\ Cardinality(chosen) \in Nat
         /\ \A t : Cardinality(ChosenOf(t)) \in Nat
         /\ \A p : Cardinality(ChosenFor(p)) \in Nat
         /\ \A p : Cardinality(ChosenIn(p)) \in Nat
PROOF
  BY JobSets DEF TypeOK, ChosenOf, ChosenFor, ChosenIn

\* Before the first pick there is room everywhere.
LEMMA NothingChosen ==
  ASSUME TypeOK, chosen = {}, left = offered, left \in [RoutedPools -> Nat]
  PROVE  WithinCaps
PROOF
  <1>1. /\ \A t : ChosenOf(t) = {}
        /\ \A p : ChosenFor(p) = {} /\ ChosenIn(p) = {}
      BY DEF ChosenOf, ChosenFor, ChosenIn
  <1>2. Cardinality({}) = 0
      BY FS_EmptySet
  <1>3. /\ Cardinality(chosen) = 0
        /\ \A t : Cardinality(ChosenOf(t)) = 0
        /\ \A p : Cardinality(ChosenFor(p)) = 0 /\ Cardinality(ChosenIn(p)) = 0
      BY <1>1, <1>2
  <1>4. room \in Nat /\ \A t \in Types : MaxForType(t) \in Nat
      BY CapsAssumption DEF TypeOK
  <1>5. \A p \in Providers : cap[p] \in Nat
      BY DEF TypeOK
  <1>6. \A p \in RoutedPools : left[p] = offered[p] /\ left[p] \in Nat
      OBVIOUS
  <1> HIDE DEF ChosenOf, ChosenFor, ChosenIn
  <1> QED BY <1>3, <1>4, <1>5, <1>6 DEF WithinCaps

LEMMA NothingChosenNext ==
  ASSUME TypeOK', chosen' = {}, left' = offered', left' \in [RoutedPools -> Nat]
  PROVE  WithinCaps'
PROOF
  <1>1. /\ \A t : ChosenOf(t)' = {}
        /\ \A p : ChosenFor(p)' = {} /\ ChosenIn(p)' = {}
      BY DEF ChosenOf, ChosenFor, ChosenIn
  <1>2. Cardinality({}) = 0
      BY FS_EmptySet
  <1>3. /\ Cardinality(chosen') = 0
        /\ \A t : Cardinality(ChosenOf(t)') = 0
        /\ \A p : Cardinality(ChosenFor(p)') = 0 /\ Cardinality(ChosenIn(p)') = 0
      BY <1>1, <1>2
  <1>4. room' \in Nat /\ \A t \in Types : MaxForType(t) \in Nat
      BY CapsAssumption DEF TypeOK
  <1>5. \A p \in Providers : cap'[p] \in Nat
      BY DEF TypeOK
  <1>6. \A p \in RoutedPools : left'[p] = offered'[p] /\ left'[p] \in Nat
      OBVIOUS
  <1> HIDE DEF ChosenOf, ChosenFor, ChosenIn
  <1> QED BY <1>3, <1>4, <1>5, <1>6 DEF WithinCaps

\* The pools' slots are read once per round.
SlotsKnown == at \in {"idle", "listed", "sized"} => left = offered /\ left \in [RoutedPools -> Nat]

LEMMA CapStep == TypeOK /\ LineInv /\ SlotsKnown /\ WithinCaps /\ [Next]_vars
                    => SlotsKnown' /\ WithinCaps'
PROOF
  <1> SUFFICES ASSUME TypeOK, LineInv, SlotsKnown, WithinCaps, [Next]_vars
               PROVE  SlotsKnown' /\ WithinCaps'
      OBVIOUS
  <1> USE DEF world, caps, walk
  <1>0. TypeOK' /\ LineInv'
      BY TypeStep, LineStep
  <1>1. ASSUME UNCHANGED <<chosen, room, cap, left, offered>>,
               at' \in {"idle", "listed", "sized"} => at \in {"idle", "listed", "sized"}
        PROVE  SlotsKnown' /\ WithinCaps'
    <2>1. SlotsKnown'
        BY <1>1 DEF SlotsKnown
    <2>2. WithinCaps'
        BY <1>1 DEF WithinCaps, ChosenOf, ChosenFor, ChosenIn
    <2> QED BY <2>1, <2>2
  <1>2. ASSUME ListCandidates PROVE SlotsKnown' /\ WithinCaps'
      BY <1>1, <1>2 DEF ListCandidates
  <1>3. ASSUME ReadHeadroom PROVE SlotsKnown' /\ WithinCaps'
    <2>1. SlotsKnown' /\ chosen' = {} /\ left' = offered' /\ left' \in [RoutedPools -> Nat]
        BY <1>3 DEF ReadHeadroom, SlotsKnown, LineInv
    <2> QED BY <1>0, <2>1, NothingChosenNext
  <1>4. ASSUME NEW throttled \in ThrottledCaps, ReadPools(throttled)
        PROVE  SlotsKnown' /\ WithinCaps'
    <2>1. /\ at' = "picking" /\ chosen' = {} /\ left' = PoolHeadroom /\ offered' = PoolHeadroom
        BY <1>4 DEF ReadPools, LineInv
    <2>2. left' = offered' /\ left' \in [RoutedPools -> Nat]
        BY <2>1, PoolsOffer
    <2> QED BY <1>0, <2>1, <2>2, NothingChosenNext DEF SlotsKnown
  <1>5. ASSUME NEW t \in Types, Pick(t) PROVE SlotsKnown' /\ WithinCaps'
    <2>1. PICK j \in Jobs :
           /\ j = deques[t][1] /\ j \notin chosen /\ Type(j) = t
           /\ MayPick(j) /\ chosen' = chosen \cup {j}
           /\ left' = [left EXCEPT ![Pool(j)] = @ - 1]
        BY <1>5, PickFacts
    <2>2. /\ at' = "picking" /\ UNCHANGED <<room, cap, offered>>
          /\ ~(Cardinality(chosen) >= room) /\ Cardinality(ChosenOf(t)) < MaxForType(t)
        BY <1>5 DEF Pick, InTurn, Full
    <2>3. /\ Cardinality(ChosenFor(Provider(j))) < cap[Provider(j)]
          /\ Pool(j) \in RoutedPools /\ left[Pool(j)] > 0
        BY <2>1 DEF MayPick
    <2>4. /\ room \in Nat /\ \A u \in Types : MaxForType(u) \in Nat
          /\ \A p \in Providers : cap[p] \in Nat
          /\ \A p \in RoutedPools : left[p] \in Int /\ offered[p] \in Int
        BY CapsAssumption DEF TypeOK
    <2>5. Cardinality(chosen') <= room'
      <3>1. Cardinality(chosen') = Cardinality(chosen) + 1 /\ Cardinality(chosen) \in Nat
          BY <2>1, OneMore, CountTypes
      <3> QED BY <2>2, <2>4, <3>1
    <2>6. ASSUME NEW u \in Types PROVE Cardinality(ChosenOf(u))' <= MaxForType(u)
      <3>1. Cardinality(ChosenOf(u)) <= MaxForType(u)
          BY DEF WithinCaps
      <3> QED BY <2>1, <2>2, <2>4, <3>1, OneMore, CountTypes
    <2>7. ASSUME NEW p \in Providers PROVE Cardinality(ChosenFor(p))' <= cap'[p]
      <3>1. Cardinality(ChosenFor(p)) <= cap[p]
          BY DEF WithinCaps
      <3> QED BY <2>1, <2>2, <2>3, <2>4, <3>1, OneMore, CountTypes
    <2>8. ASSUME NEW p \in RoutedPools
          PROVE  0 <= left'[p] /\ Cardinality(ChosenIn(p))' + left'[p] = offered'[p]
      <3>1. 0 <= left[p] /\ Cardinality(ChosenIn(p)) + left[p] = offered[p]
          BY DEF WithinCaps
      <3>2. left'[p] = IF p = Pool(j) THEN left[p] - 1 ELSE left[p]
          BY <2>1 DEF TypeOK
      <3>3. Cardinality(ChosenIn(p))' =
               Cardinality(ChosenIn(p)) + IF Pool(j) = p THEN 1 ELSE 0
          BY <2>1, OneMore
      <3>4. Cardinality(ChosenIn(p)) \in Nat
          BY CountTypes
      <3> QED BY <2>2, <2>3, <2>4, <3>1, <3>2, <3>3, <3>4
    <2> QED BY <2>2, <2>5, <2>6, <2>7, <2>8 DEF WithinCaps, SlotsKnown
  <1>6. ASSUME \/ \E t \in Types : Rotate(t) \/ NextTurn(t)
               \/ NextPass \/ Stop
        PROVE  SlotsKnown' /\ WithinCaps'
      BY <1>1, <1>6 DEF Rotate, NextTurn, InTurn, NextPass, Stop
  <1>7. ASSUME Send PROVE SlotsKnown' /\ WithinCaps'
    <2>1. chosen' = {} /\ left' = offered' /\ left' \in [RoutedPools -> Nat]
        BY <1>7 DEF Send, NoSlots
    <2> QED BY <1>0, <2>1, NothingChosenNext DEF SlotsKnown
  <1>8. ASSUME UNCHANGED <<at, caps, walk>> PROVE SlotsKnown' /\ WithinCaps'
      BY <1>1, <1>8
  <1> QED BY <1>2, <1>3, <1>4, <1>5, <1>6, <1>7, <1>8, WorldMoves DEF Next, PlanStep

\* No round picks more than the cluster, a type, a provider or a pool has room for, and the
\* slots the pools offered are all accounted for.
THEOREM CapsHold == Spec => []WithinCaps
PROOF
  <1>1. Init => SlotsKnown /\ WithinCaps
    <2>1. Init => TypeOK /\ chosen = {} /\ left = offered /\ left \in [RoutedPools -> Nat]
        BY TypeInit DEF Init, NoSlots
    <2> QED BY <2>1, NothingChosen DEF SlotsKnown
  <1> QED BY TypeInit, TypeStep, LineInit, LineStep, CapStep, <1>1, PTL DEF Spec

-----------------------------------------------------------------------------
(* Order.  What cannot be picked now cannot be picked later in the round,  *)
(* so moving it to the back disturbs no order among the others.            *)

\* While a round picks, a job once blocked stays blocked.
LEMMA BlockedStays ==
  ASSUME TypeOK, NEW j \in Jobs, j \notin chosen, chosen' = chosen \cup {j}, cap' = cap,
         left' = [left EXCEPT ![Pool(j)] = @ - 1], MayPick(j),
         NEW k \in Jobs, MayPick(k)'
  PROVE  MayPick(k)
PROOF
  <1>1. Provider(k) \in Providers
      BY DEF Providers
  <1>2. Cardinality(ChosenFor(Provider(k)))' >= Cardinality(ChosenFor(Provider(k)))
      BY <1>1, OneMore, CountTypes
  <1>3. /\ Cardinality(ChosenFor(Provider(k)))' < cap[Provider(k)]
        /\ Pool(k) \in RoutedPools /\ left'[Pool(k)] > 0
      BY DEF MayPick
  <1>4. cap[Provider(k)] \in Nat /\ left[Pool(k)] \in Int
      BY <1>1, <1>3 DEF TypeOK
  <1>5. left'[Pool(k)] <= left[Pool(k)]
      BY <1>3, <1>4 DEF TypeOK
  <1>6. left[Pool(k)] > 0
      BY <1>3, <1>4, <1>5 DEF TypeOK
  <1>7. Cardinality(ChosenFor(Provider(k))) < cap[Provider(k)]
      BY <1>1, <1>2, <1>3, <1>4, CountTypes, OneMore
  <1> QED BY <1>3, <1>6, <1>7 DEF MayPick

Ordered(t) ==
    \A i, k \in 1..Len(deques[t]) :
       i < k /\ (at = "picking" => MayPick(deques[t][i]) /\ MayPick(deques[t][k]))
          => Rank(deques[t][i]) <= Rank(deques[t][k])

OrderInv == at \in {"listed", "sized", "picking"} => \A t \in Types : Ordered(t)

LEMMA OrderStep == TypeOK /\ LineInv /\ OrderInv /\ [Next]_vars => OrderInv'
PROOF
  <1> SUFFICES ASSUME TypeOK, LineInv, OrderInv, [Next]_vars PROVE OrderInv'
      OBVIOUS
  <1> USE DEF world, caps, walk
  <1>1. ASSUME ListCandidates PROVE OrderInv'
    <2>1. PICK lines \in [Types -> UNION {Bucket(t) : t \in Types}] :
             (\A t \in Types : lines[t] \in Bucket(t)) /\ deques' = lines
        BY <1>1 DEF ListCandidates
    <2> QED BY <2>1, BucketLine DEF OrderInv, Ordered
  <1>2. ASSUME ReadHeadroom \/ (\E throttled \in ThrottledCaps : ReadPools(throttled))
        PROVE  OrderInv'
    <2>1. deques' = deques /\ at \in {"listed", "sized"}
        BY <1>2 DEF ReadHeadroom, ReadPools
    <2>2. \A t \in Types : \A i, k \in 1..Len(deques[t]) :
             i < k => Rank(deques[t][i]) <= Rank(deques[t][k])
        BY <2>1 DEF OrderInv, Ordered
    <2> QED BY <2>1, <2>2 DEF OrderInv, Ordered
  <1>3. ASSUME NEW t \in Types, Pick(t) PROVE OrderInv'
    <2>1. at = "picking" /\ at' = "picking" /\ cap' = cap
        BY <1>3 DEF Pick, InTurn
    <2>2. PICK j \in Jobs :
           /\ j = deques[t][1] /\ j \notin chosen /\ Type(j) = t
           /\ MayPick(j) /\ chosen' = chosen \cup {j}
           /\ Len(deques[t]) > 0 /\ Len(deques'[t]) = Len(deques[t]) - 1
           /\ \A i \in 1..Len(deques'[t]) :
                 deques'[t][i] = deques[t][i + 1] /\ i + 1 \in 1..Len(deques[t])
           /\ \A u \in Types : u # t => deques'[u] = deques[u]
           /\ left' = [left EXCEPT ![Pool(j)] = @ - 1]
        BY <1>3, PickFacts
    <2>3. \A k \in Jobs : MayPick(k)' => MayPick(k)
        BY <2>1, <2>2, BlockedStays
    <2>4. \A v \in Types : Len(deques[v]) \in Nat /\ \A n \in 1..Len(deques[v]) : deques[v][n] \in Jobs
        BY DEF TypeOK
    <2>5. \A v \in Types : \A n, m \in 1..Len(deques[v]) :
             n < m /\ MayPick(deques[v][n]) /\ MayPick(deques[v][m])
                => Rank(deques[v][n]) <= Rank(deques[v][m])
        BY <2>1 DEF OrderInv, Ordered
    <2>6. ASSUME NEW u \in Types, NEW i \in 1..Len(deques'[u]), NEW k \in 1..Len(deques'[u]),
                 i < k, MayPick(deques[u][i])', MayPick(deques[u][k])'
          PROVE  Rank(deques'[u][i]) <= Rank(deques'[u][k])
      <3>1. \E n, m \in 1..Len(deques[u]) :
               n < m /\ deques'[u][i] = deques[u][n] /\ deques'[u][k] = deques[u][m]
        <4>1. CASE u # t
            BY <2>2, <2>6, <4>1
        <4>2. CASE u = t
          <5>1. i \in 1..Len(deques'[t]) /\ k \in 1..Len(deques'[t])
              BY <4>2
          <5>2. /\ deques'[t][i] = deques[t][i + 1] /\ i + 1 \in 1..Len(deques[t])
                /\ deques'[t][k] = deques[t][k + 1] /\ k + 1 \in 1..Len(deques[t])
              BY <2>2, <5>1
          <5>3. i + 1 < k + 1
              BY <2>2, <2>4, <2>6, <5>1
          <5> QED BY <4>2, <5>2, <5>3
        <4> QED BY <4>1, <4>2
      <3>2. PICK n, m \in 1..Len(deques[u]) :
               n < m /\ deques'[u][i] = deques[u][n] /\ deques'[u][k] = deques[u][m]
          BY <3>1
      <3>3. PICK x, y \in Jobs : x = deques[u][n] /\ y = deques[u][m]
          BY <2>4
      <3>4. MayPick(x)' /\ MayPick(y)'
          BY <2>6, <3>2, <3>3 DEF MayPick, ChosenFor
      <3>5. MayPick(x) /\ MayPick(y)
          BY <2>3, <3>4
      <3>6. MayPick(deques[u][n]) /\ MayPick(deques[u][m])
          BY <3>3, <3>5
      <3> QED BY <2>5, <3>2, <3>6
    <2>7. ASSUME NEW u \in Types PROVE Ordered(u)'
        BY <2>1, <2>6 DEF Ordered
    <2> QED BY <2>7 DEF OrderInv
  <1>4. ASSUME NEW t \in Types, Rotate(t) PROVE OrderInv'
    <2>1. at = "picking" /\ at' = "picking" /\ UNCHANGED <<chosen, cap, left>>
        BY <1>4 DEF Rotate, InTurn
    <2>2. /\ Len(deques[t]) > 0 /\ ~MayPick(deques[t][1])
          /\ Len(deques'[t]) = Len(deques[t])
          /\ \A i \in 1..Len(deques[t]) :
                deques'[t][i] = IF i = Len(deques[t]) THEN deques[t][1] ELSE deques[t][i + 1]
          /\ \A u \in Types : u # t => deques'[u] = deques[u]
        BY <1>4, RotateFacts
    <2>3. Len(deques[t]) \in Nat
        BY DEF TypeOK
    <2>4. ASSUME NEW u \in Types, NEW i \in 1..Len(deques'[u]), NEW k \in 1..Len(deques'[u]),
                 i < k, MayPick(deques'[u][i]), MayPick(deques'[u][k])
          PROVE  Rank(deques'[u][i]) <= Rank(deques'[u][k])
      <3>1. CASE u # t
          BY <2>1, <2>2, <2>4, <3>1 DEF OrderInv, Ordered
      <3>2. CASE u = t
        <4>1. i # Len(deques[t]) /\ k # Len(deques[t])
            BY <2>2, <2>3, <2>4, <3>2
        <4>2. /\ deques'[t][i] = deques[t][i + 1] /\ i + 1 \in 1..Len(deques[t])
              /\ deques'[t][k] = deques[t][k + 1] /\ k + 1 \in 1..Len(deques[t])
              /\ i + 1 < k + 1
            BY <2>2, <2>3, <2>4, <3>2, <4>1
        <4> QED BY <2>1, <2>4, <3>2, <4>2 DEF OrderInv, Ordered
      <3> QED BY <3>1, <3>2
    <2> QED BY <2>1, <2>4 DEF OrderInv, Ordered, MayPick, ChosenFor
  <1>5. ASSUME \/ \E t \in Types : NextTurn(t)
               \/ NextPass
        PROVE  OrderInv'
    <2>1. at' = at /\ UNCHANGED <<deques, chosen, cap, left>>
        BY <1>5 DEF NextTurn, NextPass
    <2> QED BY <2>1 DEF OrderInv, Ordered, MayPick, ChosenFor
  <1>6. ASSUME Stop \/ Send PROVE OrderInv'
      BY <1>6 DEF Stop, Send, OrderInv
  <1>7. ASSUME UNCHANGED <<at, caps, walk>> PROVE OrderInv'
      BY <1>7 DEF OrderInv, Ordered, MayPick, ChosenFor
  <1> QED BY <1>1, <1>2, <1>3, <1>4, <1>5, <1>6, <1>7, WorldMoves DEF Next, PlanStep

\* Only a pick adds to the jobs picked.
LEMMA OnlyPicks ==
  ASSUME [Next]_vars, NEW j \in chosen' \ chosen
  PROVE  \E t \in Types : Pick(t)
PROOF
  <1> USE DEF world, caps, walk
  <1>1. ASSUME UNCHANGED <<at, caps, walk>> PROVE FALSE
      BY <1>1
  <1>2. ASSUME \/ ListCandidates \/ ReadHeadroom \/ NextPass \/ Stop \/ Send
               \/ \E throttled \in ThrottledCaps : ReadPools(throttled)
               \/ \E t \in Types : Rotate(t) \/ NextTurn(t)
        PROVE  FALSE
      BY <1>2 DEF ListCandidates, ReadHeadroom, NextPass, Stop, Send, ReadPools, Rotate, NextTurn
  <1> QED BY <1>1, <1>2, WorldMoves DEF Next, PlanStep

\* Rotating the rows of a type does not shuffle its line: the job picked is the first, by
\* priority and age, of the candidates of its type that could be picked.
THEOREM PicksAreInOrder == Spec => FirstInLine
PROOF
  <1>1. Init => OrderInv
      BY DEF Init, OrderInv
  <1>2. TypeOK /\ LineInv /\ OrderInv /\ [Next]_vars =>
           [\A j \in chosen' \ chosen : \A i \in 1..Len(deques[Type(j)]) :
               MayPick(deques[Type(j)][i]) => Rank(j) <= Rank(deques[Type(j)][i])]_vars
    <2> SUFFICES ASSUME TypeOK, LineInv, OrderInv, [Next]_vars,
                        NEW j \in chosen' \ chosen, NEW i \in 1..Len(deques[Type(j)]),
                        MayPick(deques[Type(j)][i])
                 PROVE  Rank(j) <= Rank(deques[Type(j)][i])
        OBVIOUS
    <2>1. PICK t \in Types : Pick(t)
        BY OnlyPicks
    <2>2. /\ j = deques[t][1] /\ Type(j) = t /\ MayPick(j) /\ j \in Jobs /\ Len(deques[t]) > 0
        BY <2>1, PickFacts
    <2>3. at = "picking"
        BY <2>1 DEF Pick, InTurn
    <2>4. Len(deques[t]) \in Nat /\ 1 \in 1..Len(deques[t]) /\ Rank(j) \in Nat
        BY <2>2, JobsAssumption DEF TypeOK
    <2>5. CASE i = 1
        BY <2>2, <2>4, <2>5
    <2>6. CASE i # 1
      <3>1. 1 < i
          BY <2>2, <2>4, <2>6
      <3> QED BY <2>2, <2>3, <2>4, <3>1 DEF OrderInv, Ordered
    <2> QED BY <2>5, <2>6
  <1> QED BY TypeInit, TypeStep, LineInit, LineStep, OrderStep, <1>1, <1>2, PTL
           DEF Spec, FirstInLine

-----------------------------------------------------------------------------
(* Turns.  In pass n every type has picked n jobs, or can pick no more; a  *)
(* pass in which nobody picked has passed only types that cannot.          *)

Even(k, m) ==
    /\ Cardinality(ChosenOf(TypeOrder[k])) <= m
    /\ Cardinality(ChosenOf(TypeOrder[k])) < m => Stuck(TypeOrder[k])

Passes(n) == \A k \in 1..Len(TypeOrder) : Even(k, IF k < turn THEN n + 1 ELSE n)

\* The rows this turn has put to the back are blocked.
BackIsBlocked ==
    /\ turn > Len(TypeOrder) => looked = 0
    /\ turn <= Len(TypeOrder) =>
          \A i \in 1..Len(deques[TypeOrder[turn]]) :
             i > Len(deques[TypeOrder[turn]]) - looked => ~MayPick(deques[TypeOrder[turn]][i])

IdlePass == ~progress => \A k \in 1..Len(TypeOrder) : k < turn => Stuck(TypeOrder[k])

TurnInv == at = "picking" => BackIsBlocked /\ IdlePass /\ \E n \in Nat : Passes(n)

\* The types are the entries of TypeOrder, each at one place.
LEMMA Order ==
  /\ Len(TypeOrder) \in Nat
  /\ \A k \in 1..Len(TypeOrder) : TypeOrder[k] \in Types
  /\ \A t \in Types : \E k \in 1..Len(TypeOrder) : TypeOrder[k] = t
  /\ \A i, k \in 1..Len(TypeOrder) : TypeOrder[i] = TypeOrder[k] => i = k
PROOF
  BY OrderAssumption DEF Types

LEMMA LinesOfJobs ==
  ASSUME TypeOK, NEW t \in Types
  PROVE  Len(deques[t]) \in Nat /\ \A i \in 1..Len(deques[t]) : deques[t][i] \in Jobs
PROOF
  BY DEF TypeOK

\* Nothing changes for a type when its line, the jobs picked and the caps do not.
LEMMA StuckSame ==
  ASSUME NEW t, Stuck(t), chosen' = chosen, cap' = cap, left' = left, deques'[t] = deques[t]
  PROVE  Stuck(t)'
PROOF
  BY DEF Stuck, MayPick, ChosenFor, ChosenOf

LEMMA StuckRotates ==
  ASSUME TypeOK, NEW t \in Types, Rotate(t), NEW u \in Types, Stuck(u)
  PROVE  Stuck(u)'
PROOF
  <1>1. UNCHANGED <<chosen, cap, left>>
      BY DEF Rotate, caps
  <1>2. /\ Len(deques[t]) > 0 /\ Len(deques'[t]) = Len(deques[t])
        /\ \A i \in 1..Len(deques[t]) :
              deques'[t][i] = IF i = Len(deques[t]) THEN deques[t][1] ELSE deques[t][i + 1]
        /\ \A v \in Types : v # t => deques'[v] = deques[v]
      BY RotateFacts
  <1>3. CASE u # t
      BY <1>1, <1>2, <1>3, StuckSame
  <1>4. CASE u = t
    <2>1. \A i \in 1..Len(deques'[t]) : \E k \in 1..Len(deques[t]) : deques'[t][i] = deques[t][k]
        BY <1>2, LinesOfJobs
    <2> QED BY <1>1, <1>4, <2>1 DEF Stuck, MayPick, ChosenFor, ChosenOf
  <1> QED BY <1>3, <1>4

LEMMA StuckStays ==
  ASSUME TypeOK, LineInv, NEW t \in Types, Pick(t), NEW u \in Types, Stuck(u)
  PROVE  Stuck(u)'
PROOF
  <1>1. cap' = cap
      BY DEF Pick
  <1>2. PICK j \in Jobs :
           /\ j = deques[t][1] /\ j \notin chosen /\ Type(j) = t
           /\ MayPick(j) /\ chosen' = chosen \cup {j}
           /\ Len(deques[t]) > 0 /\ Len(deques'[t]) = Len(deques[t]) - 1
           /\ \A i \in 1..Len(deques'[t]) :
                 deques'[t][i] = deques[t][i + 1] /\ i + 1 \in 1..Len(deques[t])
           /\ \A v \in Types : v # t => deques'[v] = deques[v]
           /\ left' = [left EXCEPT ![Pool(j)] = @ - 1]
      BY PickFacts
  <1>3. CASE Cardinality(ChosenOf(u)) >= MaxForType(u)
    <2>1. /\ Cardinality(ChosenOf(u))' \in {Cardinality(ChosenOf(u)), Cardinality(ChosenOf(u)) + 1}
          /\ Cardinality(ChosenOf(u)) \in Nat /\ MaxForType(u) \in Nat
        BY <1>2, OneMore, CountTypes, CapsAssumption
    <2>2. Cardinality(ChosenOf(u))' >= MaxForType(u)
        BY <1>3, <2>1
    <2> QED BY <2>2 DEF Stuck
  <1>4. CASE \A i \in 1..Len(deques[u]) : ~MayPick(deques[u][i])
    <2>1. \A i \in 1..Len(deques'[u]) : \E k \in 1..Len(deques[u]) : deques'[u][i] = deques[u][k]
        BY <1>2
    <2>2. \A k \in Jobs : ~MayPick(k) => ~MayPick(k)'
        BY <1>1, <1>2, BlockedStays
    <2>3. ASSUME NEW i \in 1..Len(deques'[u]) PROVE ~MayPick(deques[u][i])'
      <3>1. PICK k \in 1..Len(deques[u]) : deques'[u][i] = deques[u][k]
          BY <2>1
      <3>2. PICK x \in Jobs : x = deques[u][k]
          BY <3>1, LinesOfJobs
      <3>3. ~MayPick(x)'
          BY <1>4, <2>2, <3>1, <3>2
      <3> QED BY <3>1, <3>2, <3>3 DEF MayPick, ChosenFor
    <2> QED BY <2>3 DEF Stuck
  <1> QED BY <1>3, <1>4 DEF Stuck

LEMMA TurnStep == TypeOK /\ LineInv /\ TurnInv /\ [Next]_vars => TurnInv'
PROOF
  <1> SUFFICES ASSUME TypeOK, LineInv, TurnInv, [Next]_vars PROVE TurnInv'
      OBVIOUS
  <1> USE DEF world, caps, walk
  <1> DEFINE n0 == Len(TypeOrder)
  <1>0. /\ n0 \in Nat /\ turn \in 1..(n0 + 1) /\ looked \in Nat
        /\ \A k \in 1..n0 : TypeOrder[k] \in Types
        /\ \A i, k \in 1..n0 : TypeOrder[i] = TypeOrder[k] => i = k
        /\ \A t \in Types : Cardinality(ChosenOf(t)) \in Nat
        /\ \A t \in Types : Len(deques[t]) \in Nat
      BY Order, CountTypes, LinesOfJobs DEF TypeOK
  <1>1. ASSUME at' # "picking" PROVE TurnInv'
      BY <1>1 DEF TurnInv
  <1>2. ASSUME NEW throttled \in ThrottledCaps, ReadPools(throttled) PROVE TurnInv'
    <2>1. /\ chosen' = {} /\ turn' = 1 /\ looked' = 0 /\ deques' = deques
        BY <1>2 DEF ReadPools, LineInv
    <2>2. \A t : Cardinality(ChosenOf(t))' = 0
        BY <2>1, FS_EmptySet DEF ChosenOf
    <2>3. Passes(0)'
        BY <1>0, <2>1, <2>2 DEF Passes, Even
    <2>4. IdlePass'
        BY <1>0, <2>1 DEF IdlePass
    <2>5. BackIsBlocked'
      <3>1. turn' <= n0 => TypeOrder[turn'] \in Types
          BY <1>0, <2>1
      <3>2. turn' <= n0 => Len(deques'[TypeOrder[turn']]) \in Nat
          BY <1>0, <2>1, <3>1
      <3> QED BY <2>1, <3>2 DEF BackIsBlocked
    <2> QED BY <2>3, <2>4, <2>5 DEF TurnInv
  <1>3. ASSUME NEW t \in Types, Pick(t) PROVE TurnInv'
    <2>1. /\ at = "picking" /\ turn \in 1..n0 /\ TypeOrder[turn] = t
          /\ Cardinality(ChosenOf(t)) < MaxForType(t)
          /\ turn' = turn + 1 /\ looked' = 0 /\ progress' = TRUE
        BY <1>0, <1>3 DEF Pick, InTurn
    <2>2. PICK j \in Jobs :
             /\ j = deques[t][1] /\ j \notin chosen /\ Type(j) = t
             /\ MayPick(j) /\ chosen' = chosen \cup {j} /\ Len(deques[t]) > 0
        BY <1>3, PickFacts
    <2>3. /\ \A u \in Types : Cardinality(ChosenOf(u))' =
                Cardinality(ChosenOf(u)) + IF t = u THEN 1 ELSE 0
        BY <2>2, OneMore
    <2>4. ~Stuck(t)
        BY <1>0, <2>1, <2>2, CapsAssumption DEF Stuck
    <2>5. PICK n \in Nat : Passes(n)
        BY <2>1 DEF TurnInv
    <2>6. ASSUME NEW k \in 1..n0 PROVE Even(k, IF k < turn THEN n + 1 ELSE n)'
      <3>1. Even(k, IF k < turn THEN n + 1 ELSE n)
          BY <2>5 DEF Passes
      <3>2. TypeOrder[k] \in Types
          BY <1>0
      <3>3. CASE k = turn
        <4>1. Cardinality(ChosenOf(t)) = n
            BY <1>0, <2>1, <2>4, <3>1, <3>3 DEF Even
        <4>2. Cardinality(ChosenOf(TypeOrder[k]))' = n + 1
            BY <2>1, <2>3, <3>3, <4>1
        <4> QED BY <1>0, <2>1, <3>3, <4>2 DEF Even
      <3>4. CASE k # turn
        <4>1. TypeOrder[k] # t
            BY <1>0, <2>1, <3>4
        <4>2. Cardinality(ChosenOf(TypeOrder[k]))' = Cardinality(ChosenOf(TypeOrder[k]))
            BY <1>0, <2>3, <3>2, <4>1
        <4>3. Stuck(TypeOrder[k]) => Stuck(TypeOrder[k])'
            BY <1>3, <3>2, StuckStays
        <4>4. k < turn' <=> k < turn
            BY <1>0, <2>1, <3>4
        <4> QED BY <3>1, <4>2, <4>3, <4>4 DEF Even
      <3> QED BY <3>3, <3>4
    <2>7. Passes(n)'
        BY <2>6 DEF Passes
    <2>8. BackIsBlocked'
      <3>1. turn' <= n0 => TypeOrder[turn'] \in Types
          BY <1>0, <2>1
      <3>2. TypeOK'
          BY TypeStep
      <3>3. turn' <= n0 => Len(deques'[TypeOrder[turn']]) \in Nat
          BY <3>1, <3>2 DEF TypeOK
      <3> QED BY <2>1, <3>3 DEF BackIsBlocked
    <2> QED BY <2>1, <2>7, <2>8 DEF TurnInv, IdlePass
  <1>4. ASSUME NEW t \in Types, Rotate(t) PROVE TurnInv'
    <2>1. /\ at = "picking" /\ turn \in 1..n0 /\ TypeOrder[turn] = t
          /\ looked' = looked + 1 /\ UNCHANGED <<turn, progress, chosen, cap, left>>
        BY <1>0, <1>4 DEF Rotate, InTurn
    <2>2. /\ Len(deques[t]) > 0 /\ ~MayPick(deques[t][1])
          /\ Len(deques'[t]) = Len(deques[t])
          /\ \A i \in 1..Len(deques[t]) :
                deques'[t][i] = IF i = Len(deques[t]) THEN deques[t][1] ELSE deques[t][i + 1]
        BY <1>4, RotateFacts
    <2>3. \A i \in 1..Len(deques[t]) : i > Len(deques[t]) - looked => ~MayPick(deques[t][i])
        BY <1>0, <2>1 DEF TurnInv, BackIsBlocked
    <2>4. \A i \in 1..Len(deques[t]) :
             i > Len(deques[t]) - (looked + 1) => ~MayPick(deques'[t][i])
      <3> SUFFICES ASSUME NEW i \in 1..Len(deques[t]), i > Len(deques[t]) - (looked + 1)
                   PROVE  ~MayPick(deques'[t][i])
          OBVIOUS
      <3>1. CASE i = Len(deques[t])
          BY <2>2, <3>1
      <3>2. CASE i # Len(deques[t])
        <4>1. i + 1 \in 1..Len(deques[t]) /\ i + 1 > Len(deques[t]) - looked
            BY <1>0, <3>2
        <4> QED BY <2>2, <2>3, <3>2, <4>1
      <3> QED BY <3>1, <3>2
    <2>5. BackIsBlocked'
      <3>1. \A i \in 1..Len(deques'[t]) :
               i > Len(deques'[t]) - looked' => ~MayPick(deques'[t][i])
          BY <2>1, <2>2, <2>4
      <3>2. \A i \in 1..Len(deques'[t]) :
               i > Len(deques'[t]) - looked' => ~MayPick(deques[t][i])'
          BY <2>1, <3>1 DEF MayPick, ChosenFor
      <3>3. TypeOrder[turn'] = t /\ turn' <= n0
          BY <1>0, <2>1
      <3>4. ~(turn' > n0)
          BY <1>0, <3>3, <2>1
      <3> QED BY <3>2, <3>3, <3>4 DEF BackIsBlocked
    <2>6. \A u \in Types : Stuck(u) => Stuck(u)'
        BY <1>4, StuckRotates
    <2>7. IdlePass'
        BY <1>0, <2>1, <2>6 DEF TurnInv, IdlePass
    <2>8. PICK n \in Nat : Passes(n)
        BY <2>1 DEF TurnInv
    <2>9. Passes(n)'
        BY <1>0, <2>1, <2>6, <2>8 DEF Passes, Even, ChosenOf
    <2> QED BY <2>5, <2>7, <2>9 DEF TurnInv
  <1>5. ASSUME NEW t \in Types, NextTurn(t) PROVE TurnInv'
    <2>1. /\ at = "picking" /\ ~Full /\ turn \in 1..n0 /\ TypeOrder[turn] = t /\ ~InTurn(t)
          /\ turn' = turn + 1 /\ looked' = 0 /\ UNCHANGED <<progress, chosen, cap, left, deques>>
        BY <1>0, <1>5 DEF NextTurn
    <2>2. \A i \in 1..Len(deques[t]) : i > Len(deques[t]) - looked => ~MayPick(deques[t][i])
        BY <1>0, <2>1 DEF TurnInv, BackIsBlocked
    <2>3. Stuck(t)
      <3>1. ~(Cardinality(ChosenOf(t)) < MaxForType(t)) \/ ~(looked < Len(deques[t]))
          BY <1>0, <2>1 DEF InTurn
      <3>2. CASE ~(Cardinality(ChosenOf(t)) < MaxForType(t))
          BY <1>0, <3>2, CapsAssumption DEF Stuck
      <3>3. CASE ~(looked < Len(deques[t]))
        <4>1. \A i \in 1..Len(deques[t]) : i > Len(deques[t]) - looked
            BY <1>0, <3>3
        <4> QED BY <2>2, <4>1 DEF Stuck
      <3> QED BY <3>1, <3>2, <3>3
    <2>4. \A u \in Types : Stuck(u) => Stuck(u)'
        BY <2>1, StuckSame
    <2>5. PICK n \in Nat : Passes(n)
        BY <2>1 DEF TurnInv
    <2>6. ASSUME NEW k \in 1..n0 PROVE Even(k, IF k < turn THEN n + 1 ELSE n)'
      <3>1. Even(k, IF k < turn THEN n + 1 ELSE n)
          BY <2>5 DEF Passes
      <3>2. Cardinality(ChosenOf(TypeOrder[k]))' = Cardinality(ChosenOf(TypeOrder[k]))
          BY <2>1 DEF ChosenOf
      <3>3. /\ TypeOrder[k] \in Types /\ Cardinality(ChosenOf(TypeOrder[k])) \in Nat
            /\ Stuck(TypeOrder[k]) => Stuck(TypeOrder[k])'
          BY <1>0, <2>4
      <3>4. CASE k = turn
        <4>1. Stuck(TypeOrder[k])' /\ Cardinality(ChosenOf(TypeOrder[k])) <= n
            BY <1>0, <2>1, <2>3, <3>1, <3>3, <3>4 DEF Even
        <4>2. Cardinality(ChosenOf(TypeOrder[k]))' <= n + 1 /\ k < turn'
            BY <1>0, <2>1, <3>2, <3>3, <3>4, <4>1
        <4> QED BY <4>1, <4>2 DEF Even
      <3>5. CASE k # turn
        <4>1. k < turn' <=> k < turn
            BY <1>0, <2>1, <3>5
        <4> QED BY <3>1, <3>2, <3>3, <4>1 DEF Even
      <3> QED BY <3>4, <3>5
    <2>7. Passes(n)'
        BY <2>6 DEF Passes
    <2>8. IdlePass'
      <3> SUFFICES ASSUME ~progress, NEW k \in 1..n0, k < turn + 1 PROVE Stuck(TypeOrder[k])'
          BY <2>1 DEF IdlePass
      <3>1. k = turn \/ k < turn
          BY <1>0, <2>1
      <3>2. Stuck(TypeOrder[k])
          BY <2>1, <2>3, <3>1 DEF TurnInv, IdlePass
      <3> QED BY <1>0, <2>4, <3>2
    <2>9. BackIsBlocked'
      <3>1. turn' <= n0 => Len(deques'[TypeOrder[turn']]) \in Nat
          BY <1>0, <2>1
      <3> QED BY <2>1, <3>1 DEF BackIsBlocked
    <2> QED BY <2>7, <2>8, <2>9 DEF TurnInv
  <1>6. ASSUME NextPass PROVE TurnInv'
    <2>1. /\ at = "picking" /\ turn = n0 + 1 /\ turn' = 1 /\ progress' = FALSE
          /\ UNCHANGED <<looked, chosen, cap, left, deques>>
        BY <1>0, <1>6 DEF NextPass
    <2>2. looked = 0
        BY <1>0, <2>1 DEF TurnInv, BackIsBlocked
    <2>3. PICK n \in Nat : Passes(n)
        BY <2>1 DEF TurnInv
    <2>4. ASSUME NEW k \in 1..n0 PROVE Even(k, IF k < turn THEN (n + 1) + 1 ELSE n + 1)'
      <3>1. Even(k, n + 1)
          BY <1>0, <2>1, <2>3 DEF Passes
      <3>2. Stuck(TypeOrder[k]) => Stuck(TypeOrder[k])'
          BY <2>1, StuckSame
      <3>3. Cardinality(ChosenOf(TypeOrder[k]))' = Cardinality(ChosenOf(TypeOrder[k]))
          BY <2>1 DEF ChosenOf
      <3>4. ~(k < turn')
          BY <1>0, <2>1
      <3> QED BY <3>1, <3>2, <3>3, <3>4 DEF Even
    <2>5. n + 1 \in Nat /\ Passes(n + 1)'
        BY <2>4 DEF Passes
    <2>6. IdlePass'
        BY <1>0, <2>1 DEF IdlePass
    <2>7. BackIsBlocked'
      <3>1. turn' <= n0 => Len(deques'[TypeOrder[turn']]) \in Nat
          BY <1>0, <2>1
      <3> QED BY <2>1, <2>2, <3>1 DEF BackIsBlocked
    <2> QED BY <2>5, <2>6, <2>7 DEF TurnInv
  <1>7. ASSUME UNCHANGED <<at, caps, walk>> PROVE TurnInv'
    <2>1. \A u : Stuck(u) => Stuck(u)'
        BY <1>7, StuckSame
    <2>2. BackIsBlocked => BackIsBlocked'
        BY <1>7 DEF BackIsBlocked, MayPick, ChosenFor
    <2>3. IdlePass => IdlePass'
        BY <1>7, <2>1 DEF IdlePass
    <2>4. \A n \in Nat : Passes(n) => Passes(n)'
        BY <1>7, <2>1 DEF Passes, Even, ChosenOf
    <2> QED BY <1>7, <2>2, <2>3, <2>4 DEF TurnInv
  <1>8. ASSUME ListCandidates \/ ReadHeadroom \/ Stop \/ Send PROVE TurnInv'
      BY <1>1, <1>8 DEF ListCandidates, ReadHeadroom, Stop, Send
  <1> HIDE DEF n0
  <1> QED BY <1>2, <1>3, <1>4, <1>5, <1>6, <1>7, <1>8, WorldMoves DEF Next, PlanStep

LEMMA TurnInit == Init => TurnInv
PROOF
  BY DEF Init, TurnInv

\* Types take turns: one is ahead of another by two only if the other can pick nothing.
THEOREM TurnsAreFair == Spec => []TypesTakeTurns
PROOF
  <1>1. TypeOK /\ TurnInv => TypesTakeTurns
    <2> SUFFICES ASSUME TypeOK, TurnInv, at = "picking", NEW t \in Types, NEW u \in Types,
                        Cardinality(ChosenOf(u)) > Cardinality(ChosenOf(t)) + 1
                 PROVE  Stuck(t)
        BY DEF TypesTakeTurns
    <2>1. PICK n \in Nat : Passes(n)
        BY DEF TurnInv
    <2>2. PICK k \in 1..Len(TypeOrder), l \in 1..Len(TypeOrder) :
             TypeOrder[k] = t /\ TypeOrder[l] = u
        BY Order
    <2>3. /\ Even(k, IF k < turn THEN n + 1 ELSE n)
          /\ Even(l, IF l < turn THEN n + 1 ELSE n)
        BY <2>1 DEF Passes
    <2>4. Cardinality(ChosenOf(t)) \in Nat /\ Cardinality(ChosenOf(u)) \in Nat
        BY CountTypes
    <2>5. Cardinality(ChosenOf(u)) <= n + 1
        BY <2>2, <2>3, <2>4 DEF Even
    <2>6. Cardinality(ChosenOf(t)) < n
        BY <2>4, <2>5
    <2>7. Cardinality(ChosenOf(t)) < IF k < turn THEN n + 1 ELSE n
        BY <2>4, <2>6
    <2> QED BY <2>2, <2>3, <2>7 DEF Even
  <1> QED BY TypeInit, TypeStep, LineInit, LineStep, TurnInit, TurnStep, <1>1, PTL DEF Spec

\* A round ends only when it is full or no type can pick any more: a blocked row, type or
\* pool never costs another its slot.
THEOREM NoSlotIsWasted == Spec => RoundsAreFull
PROOF
  <1>1. TypeOK /\ TurnInv /\ [Next]_vars =>
           [at = "picking" /\ at' = "sending" => Full \/ \A t \in Types : Stuck(t)]_vars
    <2> SUFFICES ASSUME TypeOK, TurnInv, [Next]_vars, at = "picking", at' = "sending", ~Full,
                        NEW t \in Types
                 PROVE  Stuck(t)
        OBVIOUS
    <2>1. Stop
      <3> USE DEF world, caps, walk
      <3>1. ASSUME UNCHANGED <<at, caps, walk>> PROVE FALSE
          BY <3>1
      <3>2. ASSUME \/ ListCandidates \/ ReadHeadroom \/ NextPass \/ Send
                   \/ \E throttled \in ThrottledCaps : ReadPools(throttled)
                   \/ \E u \in Types : Pick(u) \/ Rotate(u) \/ NextTurn(u)
            PROVE  FALSE
          BY <3>2 DEF ListCandidates, ReadHeadroom, NextPass, Send, ReadPools, Pick, Rotate, NextTurn
      <3> QED BY <3>1, <3>2, WorldMoves DEF Next, PlanStep
    <2>2. turn > Len(TypeOrder) /\ ~progress
        BY <2>1 DEF Stop
    <2>3. PICK k \in 1..Len(TypeOrder) : TypeOrder[k] = t
        BY Order
    <2>4. k < turn
        BY <2>2, Order DEF TypeOK
    <2> QED BY <2>2, <2>3, <2>4 DEF TurnInv, IdlePass
  <1> QED BY TypeInit, TypeStep, LineInit, LineStep, TurnInit, TurnStep, <1>1, PTL
           DEF Spec, RoundsAreFull
=============================================================================
