---------------------------- MODULE DispatchPlan ----------------------------
(***************************************************************************)
(* The weighted fair planner (plan_dispatch, select_jobs_weighted_fair) at *)
(* work beside the workers it plans for.  A round lists the runnable jobs, *)
(* reads the cluster's headroom, then the headroom of the executor pools,  *)
(* and picks: one job per type and pass, blocked rows going to the back of *)
(* their type's queue.  The three reads are statements of their own, and   *)
(* jobs arrive, are claimed or finished and workers paused before any of   *)
(* them; the picking looks at no row, so what happens during it may as     *)
(* well happen after it.  The broker hands a message to any worker: one    *)
(* that may not run the job drops it.  A provider's pressure is any number *)
(* in [0, 1].                                                              *)
(***************************************************************************)
EXTENDS Integers, Sequences, FiniteSets

CONSTANTS
    Jobs,            \* the jobs that are runnable at the start, or arrive
    TypeOrder,       \* the types of the jobs in the order of _type_sort_key
    Type(_),         \* jobs.job_type
    Rank(_),         \* the place of a job by priority, enqueued_at and id: 0 is first
    Provider(_),     \* the normalized provider key
    Pool(_),         \* required_executor_class_for_job
    RoutedPools,     \* JOB_ROUTING_EXECUTOR_CLASSES
    Workers,         \* the workers rows
    Serves(_),       \* the class of the worker, "any" for the wildcard classes
    DefaultPool,     \* EXECUTOR_INFERENCE, as which the slots of an unknown class count
    Capacity(_),     \* workers.capacity
    MaxPerRound,     \* max_per_round
    MaxForType(_),   \* max_for_type
    ProviderMax(_),  \* per_provider_max: the cap before throttling
    MinSlots,        \* per_provider_min_slots
    Limit,           \* candidate_limit
    MaxEvents        \* bound: how often a job arrives or an operator switches a worker

Types == {TypeOrder[i] : i \in 1..Len(TypeOrder)}
Providers == {Provider(j) : j \in Jobs}

ASSUME JobsAssumption ==
    IsFiniteSet(Jobs) /\ \A j \in Jobs : Type(j) \in Types /\ Rank(j) \in Nat
ASSUME CapsAssumption ==
    /\ MaxPerRound \in Nat /\ MinSlots \in Nat /\ MaxEvents \in Nat /\ Limit \in Nat
    /\ \A t \in Types : MaxForType(t) \in Nat
    /\ \A p \in Providers : ProviderMax(p) \in Nat
ASSUME OrderAssumption ==
    /\ TypeOrder \in Seq(Types)
    /\ \A i, k \in 1..Len(TypeOrder) : TypeOrder[i] = TypeOrder[k] => i = k
ASSUME WorkersAssumption ==
    IsFiniteSet(Workers) /\ \A w \in Workers : Capacity(w) \in Nat

VARIABLES
    queued,     \* the jobs with a runnable status
    owner,      \* jobs.worker_id of the jobs that are running
    online,     \* the workers rows with status ONLINE
    mail,       \* the jobs with a run_job message at the broker
    events,     \* jobs that have arrived and workers switched so far
    at,         \* where the round is
    deques,     \* the candidates not picked yet, by type
    room,       \* effective_max
    cap,        \* provider_effective_caps
    left,       \* executor_pool_remaining
    turn,       \* the type that is next in the pass
    looked,     \* how many rows of that type this turn has put to the back
    progress,   \* this pass has picked a job
    chosen,     \* the jobs picked in this round
    offered     \* history: executor_pool_remaining before the first pick

world == <<queued, owner, online, events>>
caps == <<room, cap, left, offered>>
walk == <<deques, turn, looked, progress, chosen>>
vars == <<world, mail, at, caps, walk>>

Nobody == "nobody"
Empty == [t \in Types |-> <<>>]
NoSlots == [p \in RoutedPools |-> 0]
NoCaps == [p \in Providers |-> 0]

TypeOK ==
    /\ queued \subseteq Jobs /\ mail \subseteq Jobs /\ chosen \subseteq Jobs
    /\ owner \in [Jobs -> Workers \cup {Nobody}]
    /\ online \subseteq Workers
    /\ events \in 0..MaxEvents
    /\ at \in {"idle", "listed", "sized", "picking", "sending"}
    /\ deques \in [Types -> Seq(Jobs)]
    /\ room \in 0..MaxPerRound
    /\ cap \in [Providers -> Nat] /\ left \in [RoutedPools -> Int]
    /\ offered \in [RoutedPools -> Int]
    /\ turn \in 1..(Len(TypeOrder) + 1) /\ looked \in Nat /\ progress \in BOOLEAN

Init ==
    /\ queued \in SUBSET Jobs
    /\ owner = [j \in Jobs |-> Nobody]
    /\ online \in SUBSET Workers
    /\ events = 0 /\ mail = {} /\ at = "idle"
    /\ deques = Empty /\ room = 0 /\ cap = NoCaps
    /\ left = NoSlots /\ offered = NoSlots
    /\ turn = 1 /\ looked = 0 /\ progress = FALSE /\ chosen = {}

-----------------------------------------------------------------------------
(* What a round reads                                                      *)

Running(w) == {j \in Jobs : owner[j] = w}

\* The slots of a set of workers: a worker of capacity n has the slots 1 to n.
Slots(S) == UNION {{w} \X (1..Capacity(w)) : w \in S}
TotalCapacity == Cardinality(Slots(online))
Busy == Cardinality({j \in Jobs : owner[j] \in online})
Headroom == IF Busy < TotalCapacity THEN TotalCapacity - Busy ELSE 0

Least(a, b) == IF a < b THEN a ELSE b

EffectiveMax ==
    IF TotalCapacity > 0 THEN Least(MaxPerRound, Headroom)
    ELSE IF Workers = {} THEN MaxPerRound ELSE 0

FreeSlots == {s \in Slots(online) : s[2] > Cardinality(Running(s[1]))}

\* A worker of a class that pools do not route on counts for the default pool.
CountsFor(w) == IF Serves(w) \in RoutedPools \cup {"any"} THEN Serves(w) ELSE DefaultPool
SlotsServing(p) == {s \in FreeSlots : CountsFor(s[1]) \in {"any", p}}

\* effective_headroom_by_required_pool: the wildcard slots count for every pool.
PoolHeadroom == [p \in RoutedPools |-> Cardinality(SlotsServing(p))]

\* _effective_caps_per_provider, for every pressure in [0, 1].
ThrottledCaps ==
    LET base(p) == Least(ProviderMax(p), room)
    IN  {c \in [Providers -> 0..room] :
            \A p \in Providers : c[p] \in Least(MinSlots, base(p))..base(p)}

\* list_runnable_job_ids_for_dispatch: the first Limit of the runnable jobs.
Listed == {j \in queued : Cardinality({k \in queued : Rank(k) < Rank(j)}) < Limit}

\* _bucket_candidates: the lines in which the candidates of a type may stand, one when no
\* two of them have the same rank.
Bucket(t) ==
    LET of == {j \in Listed : Type(j) = t}
    IN  {line \in [1..Cardinality(of) -> of] :
            \A i, k \in 1..Cardinality(of) : i < k =>
               Rank(line[i]) <= Rank(line[k]) /\ line[i] # line[k]}

ListCandidates ==
    /\ at = "idle"
    /\ queued # {}
    /\ at' = "listed"
    /\ deques' \in {lines \in [Types -> UNION {Bucket(t) : t \in Types}] :
                       \A t \in Types : lines[t] \in Bucket(t)}
    /\ UNCHANGED <<world, mail, caps, turn, looked, progress, chosen>>

ReadHeadroom ==
    /\ at = "listed"
    /\ at' = "sized"
    /\ room' = EffectiveMax
    /\ UNCHANGED <<world, mail, cap, left, offered, walk>>

ReadPools(throttled) ==
    /\ at = "sized"
    /\ at' = "picking"
    /\ left' = PoolHeadroom /\ offered' = PoolHeadroom
    /\ cap' = throttled
    /\ UNCHANGED <<world, mail, room, walk>>

-----------------------------------------------------------------------------
(* select_jobs_weighted_fair                                               *)

ChosenOf(t) == {j \in chosen : Type(j) = t}
ChosenFor(p) == {j \in chosen : Provider(j) = p}
ChosenIn(p) == {j \in chosen : Pool(j) = p}

Full == Cardinality(chosen) >= room

\* A slip no run uses: the cap is compared after the fact.
MayPickLate(j) ==
    /\ Cardinality(ChosenFor(Provider(j))) <= cap[Provider(j)]
    /\ Pool(j) \in RoutedPools /\ left[Pool(j)] > 0

\* prov_ok and pool_ok; a class no pool routes on has no slots.
MayPick(j) ==
    /\ Cardinality(ChosenFor(Provider(j))) < cap[Provider(j)]
    /\ Pool(j) \in RoutedPools /\ left[Pool(j)] > 0

\* A turn in the pass: its type may still pick, and has rows it has not looked at.
InTurn(t) ==
    /\ at = "picking" /\ ~Full
    /\ turn <= Len(TypeOrder) /\ TypeOrder[turn] = t
    /\ Cardinality(ChosenOf(t)) < MaxForType(t)
    /\ looked < Len(deques[t])

\* A slip no run uses: the type goes on picking.
PickOn(t) ==
    /\ InTurn(t)
    /\ MayPick(Head(deques[t]))
    /\ chosen' = chosen \cup {Head(deques[t])}
    /\ left' = [left EXCEPT ![Pool(Head(deques[t]))] = @ - 1]
    /\ deques' = [deques EXCEPT ![t] = Tail(@)]
    /\ looked' = 0 /\ progress' = TRUE
    /\ UNCHANGED <<world, mail, at, room, cap, offered, turn>>

Pick(t) ==
    /\ InTurn(t)
    /\ MayPick(Head(deques[t]))
    /\ chosen' = chosen \cup {Head(deques[t])}
    /\ left' = [left EXCEPT ![Pool(Head(deques[t]))] = @ - 1]
    /\ deques' = [deques EXCEPT ![t] = Tail(@)]
    /\ turn' = turn + 1 /\ looked' = 0 /\ progress' = TRUE
    /\ UNCHANGED <<world, mail, at, room, cap, offered>>

\* dq.append(dq.pop(0)).  BackSwap is a slip: the row changes places with the last.
BackSwap(s) == [i \in 1..Len(s) |-> IF i = 1 THEN s[Len(s)] ELSE IF i = Len(s) THEN s[1] ELSE s[i]]

ToBack(s) == Append(Tail(s), Head(s))

\* A slip no run uses: a blocked row ends the turn.
RotateNever(t) ==
    /\ InTurn(t)
    /\ ~MayPick(Head(deques[t]))
    /\ looked' = Len(deques[t])
    /\ UNCHANGED <<world, mail, at, caps, deques, turn, progress, chosen>>

Rotate(t) ==
    /\ InTurn(t)
    /\ ~MayPick(Head(deques[t]))
    /\ deques' = [deques EXCEPT ![t] = ToBack(@)]
    /\ looked' = looked + 1
    /\ UNCHANGED <<world, mail, at, caps, turn, progress, chosen>>

\* The type is at its cap, has no rows, or all of its rows are blocked.
NextTurn(t) ==
    /\ at = "picking" /\ ~Full
    /\ turn <= Len(TypeOrder) /\ TypeOrder[turn] = t
    /\ ~InTurn(t)
    /\ turn' = turn + 1 /\ looked' = 0
    /\ UNCHANGED <<world, mail, at, caps, deques, progress, chosen>>

NextPass ==
    /\ at = "picking" /\ ~Full
    /\ turn > Len(TypeOrder) /\ progress
    /\ turn' = 1 /\ progress' = FALSE
    /\ UNCHANGED <<world, mail, at, caps, deques, looked, chosen>>

\* A slip no run uses: the first full pass is the last.
StopEarly ==
    /\ at = "picking"
    /\ Full \/ turn > Len(TypeOrder)
    /\ at' = "sending"
    /\ UNCHANGED <<world, mail, caps, walk>>

Stop ==
    /\ at = "picking"
    /\ Full \/ (turn > Len(TypeOrder) /\ ~progress)
    /\ at' = "sending"
    /\ UNCHANGED <<world, mail, caps, walk>>

\* send_task for every job picked; the plan is dropped.
Send ==
    /\ at = "sending"
    /\ at' = "idle"
    /\ mail' = mail \cup chosen
    /\ deques' = Empty /\ chosen' = {}
    /\ turn' = 1 /\ looked' = 0 /\ progress' = FALSE
    /\ room' = 0 /\ cap' = NoCaps /\ left' = NoSlots /\ offered' = NoSlots
    /\ UNCHANGED world

-----------------------------------------------------------------------------
(* The workers planned for                                                 *)

Reading == at \in {"idle", "listed", "sized"}

\* A job becomes runnable: it is created, or a job that ended is retried.
Arrive(j) ==
    /\ Reading
    /\ events < MaxEvents
    /\ j \notin queued /\ owner[j] = Nobody
    /\ events' = events + 1
    /\ queued' = queued \cup {j}
    /\ UNCHANGED <<owner, online, mail, at, caps, walk>>

\* worker_pool_accepts_job compares the classes themselves; worker_runtime_admission.
Accepts(w, j) == Serves(w) = "any" \/ Serves(w) = Pool(j)

Admits(w) == w \in online /\ Cardinality(Running(w)) < Capacity(w)

Claim(w, j) ==
    /\ Reading
    /\ j \in mail
    /\ j \in queued /\ Admits(w) /\ Accepts(w, j)
    /\ mail' = mail \ {j}
    /\ queued' = queued \ {j}
    /\ owner' = [owner EXCEPT ![j] = w]
    /\ UNCHANGED <<online, events, at, caps, walk>>

\* The message is gone; the job stays runnable and the next round sends it again.
Decline(w, j) ==
    /\ Reading
    /\ j \in mail
    /\ ~(j \in queued /\ Admits(w) /\ Accepts(w, j))
    /\ mail' = mail \ {j}
    /\ UNCHANGED <<world, at, caps, walk>>

Finish(j) ==
    /\ owner[j] # Nobody
    /\ owner' = [owner EXCEPT ![j] = Nobody]
    /\ UNCHANGED <<queued, online, events, mail, at, caps, walk>>

Switch(w) ==
    /\ Reading
    /\ events < MaxEvents
    /\ events' = events + 1
    /\ online' = IF w \in online THEN online \ {w} ELSE online \cup {w}
    /\ UNCHANGED <<queued, owner, mail, at, caps, walk>>

-----------------------------------------------------------------------------

PlanStep ==
    \/ ListCandidates \/ ReadHeadroom \/ NextPass \/ Stop \/ Send
    \/ \E throttled \in ThrottledCaps : ReadPools(throttled)
    \/ \E t \in Types : Pick(t) \/ Rotate(t) \/ NextTurn(t)

Next ==
    \/ PlanStep
    \/ \E w \in Workers, j \in Jobs : Claim(w, j) \/ Decline(w, j)
    \/ \E j \in Jobs : Finish(j) \/ Arrive(j)
    \/ \E w \in Workers : Switch(w)

Spec == Init /\ [][Next]_vars

\* The beat keeps planning and jobs end.  The broker does not for ever hand every message
\* to workers that drop it.
Fairness ==
    /\ WF_vars(PlanStep)
    /\ \A j \in Jobs : WF_vars(Finish(j))
    /\ SF_vars(\E w \in Workers, j \in Jobs : Claim(w, j))

FairSpec == Spec /\ Fairness

-----------------------------------------------------------------------------

\* No round picks more than the cluster, a type, a provider or a pool has room for, and
\* what the pools offered is accounted for slot by slot.
WithinCaps ==
    /\ Cardinality(chosen) <= room
    /\ \A t \in Types : Cardinality(ChosenOf(t)) <= MaxForType(t)
    /\ \A p \in Providers : Cardinality(ChosenFor(p)) <= cap[p]
    /\ \A p \in RoutedPools : 0 <= left[p] /\ Cardinality(ChosenIn(p)) + left[p] = offered[p]

\* Rotating the rows of a type does not shuffle its line: the job picked is the first,
\* by priority and age, of the candidates of its type that could be picked.
FirstInLine ==
    [][\A j \in chosen' \ chosen : \A i \in 1..Len(deques[Type(j)]) :
          MayPick(deques[Type(j)][i]) => Rank(j) <= Rank(deques[Type(j)][i])]_vars

\* A type has nothing (more) to pick in this round.
Stuck(t) ==
    \/ Cardinality(ChosenOf(t)) >= MaxForType(t)
    \/ \A i \in 1..Len(deques[t]) : ~MayPick(deques[t][i])

\* Types take turns: one is ahead of another by two only if the other can pick nothing.
TypesTakeTurns ==
    at = "picking" =>
        \A t, u \in Types :
            Cardinality(ChosenOf(u)) > Cardinality(ChosenOf(t)) + 1 => Stuck(t)

\* A round ends only when it is full or no type can pick any more: a blocked row, type or
\* pool never costs another its slot.
RoundsAreFull == [][at = "picking" /\ at' = "sending" => Full \/ \A t \in Types : Stuck(t)]_vars

\* Nobody that could run the job is at work.
Unserved(j) == Pool(j) \notin RoutedPools \/ \A w \in online : ~Accepts(w, j)

\* A runnable job is run, however other jobs are blocked or its messages dropped, as long
\* as its class is one that pools route on and a worker for it is online.
QueuedJobsRun == \A j \in Jobs : j \in queued ~> j \notin queued \/ Unserved(j)
=============================================================================
