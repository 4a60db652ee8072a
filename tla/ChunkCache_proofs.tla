-------------------------- MODULE ChunkCache_proofs --------------------------
(* Proofs about ChunkCache, for any number of tasks, paths and callers.    *)
EXTENDS ChunkCache, FiniteSetTheorems, TLAPS

IInv == TypeOK /\ RoomToLoad /\ WithinCapacity /\ OwnModel

(* The tasks with an entry are finitely many, however the cache looks; a   *)
(* cache with fewer entries has no more of them (_ensure_capacity).        *)
LEMMA CachedFacts ==
    ASSUME NEW C \in [Tasks -> Paths \cup {NoPath}],
           NEW D \in [Tasks -> Paths \cup {NoPath}],
           \A t \in Tasks : D[t] # NoPath => C[t] # NoPath
    PROVE  /\ IsFiniteSet(Cached(C))
           /\ Cardinality(Cached(C)) \in Nat
           /\ Cardinality(Cached(D)) \in Nat
           /\ Cardinality(Cached(D)) <= Cardinality(Cached(C))
<1>1. IsFiniteSet(Tasks)
  BY ChunkAssumption
<1>2. Cached(C) \subseteq Tasks /\ Cached(D) \subseteq Cached(C)
  BY DEF Cached
<1>3. IsFiniteSet(Cached(C)) /\ IsFiniteSet(Cached(D))
  BY <1>1, <1>2, FS_Subset
<1>4. Cardinality(Cached(D)) <= Cardinality(Cached(C))
  BY <1>2, <1>3, FS_Subset
<1> QED
  BY <1>3, <1>4, FS_CardinalityType

(* Inserting one entry adds at most one task (_get_or_create_task_entry).  *)
LEMMA InsertFacts ==
    ASSUME NEW C \in [Tasks -> Paths \cup {NoPath}], NEW t \in Tasks, NEW p \in Paths,
           NEW n \in Nat, Cardinality(Cached(C)) < n
    PROVE  Cardinality(Cached([C EXCEPT ![t] = p])) <= n
<1> DEFINE D == [C EXCEPT ![t] = p]
<1>1. IsFiniteSet(Cached(C)) /\ Cardinality(Cached(C)) \in Nat
  BY CachedFacts
<1>2. Cached(D) = Cached(C) \cup {t}
  BY ChunkAssumption DEF Cached
<1>3. \/ Cardinality(Cached(D)) = Cardinality(Cached(C))
      \/ Cardinality(Cached(D)) = Cardinality(Cached(C)) + 1
  <2> HIDE DEF D
  <2> QED
    BY <1>1, <1>2, FS_AddElement
<1> QED
  BY <1>1, <1>3

(* Expiry only takes entries away (_expire_stale_tasks_unlocked).          *)
LEMMA KeptFacts ==
    ASSUME TypeOK
    PROVE  /\ Kept \in [Tasks -> Paths \cup {NoPath}]
           /\ \A t \in Tasks : Kept[t] # NoPath => cache[t] # NoPath
           /\ Cardinality(Cached(Kept)) \in Nat
           /\ Cardinality(Cached(Kept)) <= Cardinality(Cached(cache))
           /\ Cardinality(Cached(cache)) \in Nat
<1>1. /\ cache \in [Tasks -> Paths \cup {NoPath}]
      /\ Kept \in [Tasks -> Paths \cup {NoPath}]
      /\ \A t \in Tasks : Kept[t] # NoPath => cache[t] # NoPath
  BY DEF TypeOK, Kept
<1> QED
  BY <1>1, CachedFacts

(* The service starts with an empty cache and no segment.                  *)
LEMMA InitIInv == Init => IInv
<1> SUFFICES ASSUME Init PROVE IInv
  OBVIOUS
<1>1. TypeOK
  BY ChunkAssumption DEF Init, TypeOK, SegmentStates
<1>2. Cached(cache) = {}
  BY DEF Init, Cached
<1>3. Cardinality(Cached(cache)) = 0
  BY <1>2, FS_EmptySet
<1>4. \A c \in Callers : seg[c].pc = "idle"
  BY DEF Init
<1> QED
  BY <1>1, <1>3, <1>4, ChunkAssumption
     DEF Init, IInv, RoomToLoad, WithinCapacity, OwnModel, At

(* An answered segment is an idle one, wherever it came from.               *)
LEMMA AnswerTyped ==
    ASSUME TypeOK, NEW c \in Callers, Answer(c)
    PROVE  seg' \in [Callers -> SegmentStates]
<1> DEFINE s == [seg[c] EXCEPT !.pc = "idle", !.entry = NoPath]
           Before == [pc : {"idle", "lookup", "loading"}, task : Tasks, path : Paths,
                      last : BOOLEAN, entry : {NoPath}]
           After == [pc : {"predicting", "releasing"}, task : Tasks, path : Paths,
                     last : BOOLEAN, entry : Paths]
<1>1. seg \in [Callers -> SegmentStates] /\ SegmentStates = Before \cup After
  BY DEF TypeOK, SegmentStates
<1>2. s \in Before
  <2>1. CASE seg[c] \in Before
    BY <2>1
  <2>2. CASE seg[c] \in After
    BY <2>2
  <2> QED
    BY <1>1, <2>1, <2>2
<1>3. seg' = [seg EXCEPT ![c] = s]
  BY <1>1 DEF Answer
<1> HIDE DEF s, Before, After
<1> QED
  BY <1>1, <1>2, <1>3

(* Every step keeps the invariant: one step of the proof per action.       *)
LEMMA NextIInv == IInv /\ [Next]_chunkVars => IInv'
<1> SUFFICES ASSUME IInv, [Next]_chunkVars PROVE IInv'
  OBVIOUS
<1> USE DEF At, IInv
<1>a. TypeOK /\ RoomToLoad /\ WithinCapacity /\ OwnModel
  OBVIOUS
<1>k. /\ Kept \in [Tasks -> Paths \cup {NoPath}]
      /\ \A t \in Tasks : Kept[t] # NoPath => cache[t] # NoPath
      /\ Cardinality(Cached(Kept)) \in Nat
      /\ Cardinality(Cached(Kept)) <= Cardinality(Cached(cache))
      /\ Cardinality(Cached(cache)) \in Nat
  BY KeptFacts
<1>m. MaxTasks \in Nat
  BY ChunkAssumption
<1>1. CASE Tick
  <2>1. TypeOK'
    BY <1>1, ChunkAssumption DEF TypeOK, Tick
  <2> QED
    BY <1>1, <2>1 DEF Tick, RoomToLoad, WithinCapacity, OwnModel, Cached
<1>2. ASSUME NEW c \in Callers, Receive(c) PROVE IInv'
  <2>1. TypeOK'
    BY <1>2 DEF TypeOK, Receive, SegmentStates
  <2>2. WithinCapacity'
    BY <1>2 DEF Receive, WithinCapacity
  <2>3. RoomToLoad'
    BY <1>2 DEF Receive, RoomToLoad, Idle, TypeOK
  <2>4. OwnModel'
    BY <1>2 DEF Receive, OwnModel, TypeOK
  <2> QED
    BY <2>1, <2>2, <2>3, <2>4
<1>3. ASSUME NEW c \in Callers, Hit(c) PROVE IInv'
  <2>1. TypeOK'
    BY <1>3, <1>k, ChunkAssumption DEF TypeOK, Hit, SegmentStates
  <2>2. WithinCapacity'
    BY <1>3, <1>k, <1>m DEF Hit, WithinCapacity
  <2>3. RoomToLoad'
    BY <1>3, ChunkAssumption DEF Hit, RoomToLoad, TypeOK
  <2>4. OwnModel'
    BY <1>3 DEF Hit, OwnModel, TypeOK
  <2> QED
    BY <2>1, <2>2, <2>3, <2>4
<1>4. ASSUME NEW c \in Callers, Refuse(c) PROVE IInv'
  <2>5. seg' \in [Callers -> SegmentStates]
    BY <1>4, AnswerTyped DEF Refuse
  <2>1. TypeOK'
    BY <1>4, <1>k, <2>5 DEF TypeOK, Refuse
  <2>2. WithinCapacity'
    BY <1>4, <1>k, <1>m DEF Refuse, WithinCapacity
  <2>3. RoomToLoad'
    BY <1>4, ChunkAssumption DEF Refuse, Answer, RoomToLoad, TypeOK
  <2>4. OwnModel'
    BY <1>4 DEF Refuse, Answer, OwnModel, TypeOK
  <2> QED
    BY <2>1, <2>2, <2>3, <2>4
<1>5. ASSUME NEW c \in Callers, Miss(c) PROVE IInv'
  <2>1. TypeOK'
    BY <1>5, <1>k DEF TypeOK, Miss, SegmentStates
  <2>2. WithinCapacity'
    BY <1>5, <1>k, <1>m DEF Miss, WithinCapacity
  <2>3. RoomToLoad'
    BY <1>5, <1>k, <1>m, ChunkAssumption DEF Miss, Full, RoomToLoad, TypeOK
  <2>4. OwnModel'
    BY <1>5 DEF Miss, OwnModel, TypeOK
  <2> QED
    BY <2>1, <2>2, <2>3, <2>4
<1>6. ASSUME NEW c \in Callers, Load(c) PROVE IInv'
  <2>0. seg[c].task \in Tasks /\ seg[c].path \in Paths
    BY DEF TypeOK, SegmentStates
  <2>1. TypeOK'
    BY <1>6, <2>0, ChunkAssumption DEF TypeOK, Load, SegmentStates
  <2>2. Cardinality(Cached(cache)) < MaxTasks
    BY <1>6 DEF Load, RoomToLoad
  <2>3. WithinCapacity'
    BY <1>6, <1>m, <2>0, <2>2, InsertFacts DEF Load, WithinCapacity, TypeOK
  <2>4. RoomToLoad'
    BY <1>6, ChunkAssumption DEF Load, RoomToLoad, TypeOK
  <2>5. OwnModel'
    BY <1>6 DEF Load, OwnModel, TypeOK
  <2> QED
    BY <2>1, <2>3, <2>4, <2>5
<1>7. ASSUME NEW c \in Callers, LoadError(c) PROVE IInv'
  <2>1. TypeOK'
    BY <1>7, AnswerTyped DEF TypeOK, LoadError
  <2>2. WithinCapacity'
    BY <1>7 DEF LoadError, WithinCapacity
  <2>3. RoomToLoad'
    BY <1>7, ChunkAssumption DEF LoadError, Answer, RoomToLoad, TypeOK
  <2>4. OwnModel'
    BY <1>7 DEF LoadError, Answer, OwnModel, TypeOK
  <2> QED
    BY <2>1, <2>2, <2>3, <2>4
<1>8. ASSUME NEW c \in Callers, Predict(c) PROVE IInv'
  <2>0. /\ seg'[c].pc \in {"idle", "releasing"}
        /\ \A d \in Callers : d # c => seg'[d] = seg[d]
        /\ seg[c].pc = "predicting"
        /\ cache' = cache /\ lock' = lock
    <3>1. CASE seg[c].last
      BY <1>8, <3>1 DEF Predict, TypeOK, SegmentStates
    <3>2. CASE ~seg[c].last
      BY <1>8, <3>2 DEF Predict, Answer, TypeOK, SegmentStates
    <3> QED
      BY <3>1, <3>2
  <2>1. TypeOK'
    <3>1. seg' \in [Callers -> SegmentStates]
      <4>1. CASE seg[c].last
        BY <1>8, <4>1 DEF Predict, TypeOK, SegmentStates
      <4>2. CASE ~seg[c].last
        BY <1>8, <4>2, AnswerTyped DEF Predict
      <4> QED
        BY <4>1, <4>2
    <3> QED
      BY <1>8, <3>1 DEF TypeOK, Predict
  <2>2. WithinCapacity'
    BY <2>0 DEF WithinCapacity
  <2>3. RoomToLoad'
    <3>1. lock # c
      BY <2>0 DEF RoomToLoad
    <3> SUFFICES ASSUME NEW d \in Callers
                 PROVE  /\ seg'[d].pc = "loading" <=> lock' = d
                        /\ seg'[d].pc = "loading" =>
                              /\ cache'[seg'[d].task] = NoPath
                              /\ Cardinality(Cached(cache')) < MaxTasks
      BY DEF RoomToLoad
    <3>2. CASE d = c
      BY <3>1, <3>2, <2>0
    <3>3. CASE d # c
      BY <3>3, <2>0 DEF RoomToLoad
    <3> QED
      BY <3>2, <3>3
  <2>4. OwnModel'
    BY <2>0 DEF OwnModel
  <2> QED
    BY <2>1, <2>2, <2>3, <2>4
<1>9. ASSUME NEW c \in Callers, Release(c) PROVE IInv'
  <2>0. seg[c].task \in Tasks
    BY DEF TypeOK, SegmentStates
  <2>1. TypeOK'
    BY <1>9, <2>0, AnswerTyped DEF TypeOK, Release
  <2>2. \A t \in Tasks : cache'[t] # NoPath => cache[t] # NoPath
    BY <1>9, <2>0 DEF Release, TypeOK
  <2>3. WithinCapacity'
    BY <1>m, <2>1, <2>2, CachedFacts DEF WithinCapacity, TypeOK
  <2>4. RoomToLoad'
    BY <1>9, ChunkAssumption DEF Release, Answer, RoomToLoad, TypeOK
  <2>5. OwnModel'
    BY <1>9 DEF Release, Answer, OwnModel, TypeOK
  <2> QED
    BY <2>1, <2>3, <2>4, <2>5
<1>10. CASE UNCHANGED chunkVars
  BY <1>10 DEF chunkVars, TypeOK, RoomToLoad, WithinCapacity, OwnModel, Cached
<1> QED
  BY <1>1, <1>2, <1>3, <1>4, <1>5, <1>6, <1>7, <1>8, <1>9, <1>10 DEF Next, Serve

(* The inductive invariant holds in every reachable state.                 *)
LEMMA Inductive == Spec => []IInv
  BY InitIInv, NextIInv, PTL DEF Spec

(* The state keeps the shape the code gives it.                            *)
THEOREM ChunkTypeCorrect == Spec => []TypeOK
<1>1. IInv => TypeOK
  BY DEF IInv
<1> QED
  BY Inductive, <1>1, PTL

(* However many threads serve segments, the cache never outgrows its limit *)
(* (_ensure_capacity_unlocked and _get_or_create_task_entry).              *)
THEOREM CapacityHolds == Spec => []WithinCapacity
<1>1. IInv => WithinCapacity
  BY DEF IInv
<1> QED
  BY Inductive, <1>1, PTL

(* No segment is ever predicted by the models of another directory.        *)
THEOREM OwnModelHolds == Spec => []OwnModel
<1>1. IInv => OwnModel
  BY DEF IInv
<1> QED
  BY Inductive, <1>1, PTL

(* Whoever loads a task finds it still absent at the insertion.            *)
THEOREM LoadsOnce == Spec => LoadedOnce
<1>1. IInv => \A c \in Callers : At(c, "loading") => cache[seg[c].task] = NoPath
  BY DEF IInv, RoomToLoad
<1>2. IInv => [\A c \in Callers : At(c, "loading") /\ seg'[c].pc = "predicting"
                  => cache[seg[c].task] = NoPath]_chunkVars
  BY <1>1
<1> QED
  BY Inductive, <1>2, PTL DEF LoadedOnce

(* A task loses its models only by expiry or by its own last segment: a    *)
(* full cache and a conflicting segment take nothing away.                 *)
THEOREM KeptUntilDueHolds == Spec => KeptUntilDue
<1> DEFINE Due(t) == \/ TTL > 0 /\ idle[t] > TTL
                     \/ \E c \in Callers :
                           At(c, "releasing") /\ seg[c].task = t /\ seg'[c].pc = "idle"
           Fair == \A t \in Tasks : cache[t] # NoPath /\ cache'[t] = NoPath => Due(t)
<1>1. TypeOK /\ [Next]_chunkVars => [Fair]_chunkVars
  <2> SUFFICES ASSUME TypeOK, Next, NEW t \in Tasks, cache[t] # NoPath, cache'[t] = NoPath
               PROVE  Due(t)
    BY DEF Fair
  <2>1. CASE cache' = Kept
    BY <2>1 DEF Kept, Stale
  <2>2. CASE cache' = cache
    BY <2>2
  <2>3. ASSUME NEW c \in Callers, Load(c) PROVE FALSE
    <3>1. seg[c].task \in Tasks /\ seg[c].path \in Paths
      BY DEF TypeOK, SegmentStates
    <3> QED
      BY <2>3, <3>1, ChunkAssumption DEF Load, TypeOK
  <2>4. ASSUME NEW c \in Callers, Release(c) PROVE Due(t)
    <3>1. seg[c].task = t
      BY <2>4 DEF Release, TypeOK
    <3>2. At(c, "releasing") /\ seg'[c].pc = "idle"
      BY <2>4 DEF Release, Answer, At, TypeOK, SegmentStates
    <3> QED
      BY <3>1, <3>2
  <2> QED
    BY <2>1, <2>2, <2>3, <2>4
       DEF Next, Serve, Tick, Receive, Hit, Refuse, Miss, LoadError, Predict
<1>2. IInv => TypeOK
  BY DEF IInv
<1> QED
  BY Inductive, <1>1, <1>2, PTL DEF Spec, KeptUntilDue

(* What expiry leaves are the entries in use: a segment is refused only    *)
(* for them, never for the sake of an abandoned task.                      *)
THEOREM RefusedOnlyWhenBusyHolds == Spec => RefusedOnlyWhenBusy
<1> DEFINE Busy(c) == \/ seg[c].task \in Used /\ cache[seg[c].task] # seg[c].path
                      \/ Cardinality(Used) >= MaxTasks
           Fair == \A c \in Callers : At(c, "lookup") /\ seg'[c].pc = "idle" => Busy(c)
<1>1. TypeOK /\ [Next]_chunkVars => [Fair]_chunkVars
  <2> SUFFICES ASSUME TypeOK, Next,
                      NEW c \in Callers, At(c, "lookup"), seg'[c].pc = "idle"
               PROVE  Busy(c)
    BY DEF Fair
  <2>1. Cached(Kept) = Used
    BY ChunkAssumption DEF Cached, Kept, Stale, Used, TypeOK
  <2>2. seg[c].task \in Tasks
    BY DEF TypeOK, SegmentStates
  <2>3. CASE Refuse(c)
    <3>1. CASE Kept[seg[c].task] \notin {NoPath, seg[c].path}
      BY <2>1, <2>2, <3>1 DEF Cached, Kept
    <3>2. CASE Full
      BY <2>1, <3>2 DEF Full
    <3> QED
      BY <2>3, <3>1, <3>2 DEF Refuse
  <2>4. seg'[c] # seg[c]
    BY DEF At
  <2>5. CASE Tick
    BY <2>4, <2>5 DEF Tick
  <2>6. ASSUME NEW d \in Callers, Receive(d) \/ Serve(d) PROVE Refuse(c)
    <3>1. d = c
      BY <2>4, <2>6 DEF Receive, Serve, Hit, Refuse, Miss, Load, LoadError, Predict,
                        Release, Answer, TypeOK
    <3>2. ~Receive(c) /\ ~Hit(c) /\ ~Miss(c)
      BY DEF Receive, Idle, Hit, Miss, At, TypeOK, SegmentStates
    <3>3. ~Load(c) /\ ~LoadError(c) /\ ~Predict(c) /\ ~Release(c)
      BY DEF Load, LoadError, Predict, Release, At
    <3> QED
      BY <2>6, <3>1, <3>2, <3>3 DEF Serve
  <2> QED
    BY <2>3, <2>5, <2>6 DEF Next
<1>2. IInv => TypeOK
  BY DEF IInv
<1> QED
  BY Inductive, <1>1, <1>2, PTL DEF Spec, RefusedOnlyWhenBusy

(* The answer to a last segment leaves no entry of its task behind.        *)
THEOREM LastReleasesHolds == Spec => LastReleases
<1> DEFINE Gone(c) == seg[c].last /\ seg[c].pc \in {"predicting", "releasing"}
                        /\ seg'[c].pc = "idle" => cache'[seg[c].task] = NoPath
           AllGone == \A c \in Callers : Gone(c)
<1>1. TypeOK /\ [Next]_chunkVars => [AllGone]_chunkVars
  <2> SUFFICES ASSUME TypeOK, Next, NEW c \in Callers,
                      seg[c].last, seg[c].pc \in {"predicting", "releasing"},
                      seg'[c].pc = "idle"
               PROVE  cache'[seg[c].task] = NoPath
    BY DEF AllGone, Gone
  <2>1. CASE Tick
    BY <2>1 DEF Tick
  <2>2. ASSUME NEW d \in Callers, Receive(d) \/ Serve(d) PROVE Release(c)
    <3>1. d = c
      BY <2>2 DEF Receive, Serve, Hit, Refuse, Miss, Load, LoadError, Predict,
                  Release, Answer, TypeOK
    <3>2. ~Receive(c) /\ ~Hit(c) /\ ~Refuse(c) /\ ~Miss(c) /\ ~Load(c) /\ ~LoadError(c)
      BY DEF Receive, Idle, Hit, Refuse, Miss, Load, LoadError, At
    <3>3. ~Predict(c)
      BY DEF Predict, At, TypeOK, SegmentStates
    <3> QED
      BY <2>2, <3>1, <3>2, <3>3 DEF Serve
  <2>3. CASE Release(c)
    <3>1. seg[c].task \in Tasks
      BY DEF TypeOK, SegmentStates
    <3> QED
      BY <2>3, <3>1 DEF Release, TypeOK
  <2> QED
    BY <2>1, <2>2, <2>3 DEF Next
<1>2. IInv => TypeOK
  BY DEF IInv
<1> QED
  BY Inductive, <1>1, <1>2, PTL DEF Spec, LastReleases

(* The steps a segment still has to take.                                  *)
StepsFrom(p) ==
    CASE p = "lookup" -> 4
      [] p = "loading" -> 3
      [] p = "predicting" -> 2
      [] p = "releasing" -> 1
      [] p = "idle" -> 0
StepsLeft(c) == StepsFrom(seg[c].pc)

(* Serving a segment uses its steps up, and nobody else adds to them.      *)
SegmentsAdvance ==
    [][\A c \in Callers : ~Idle(c) =>
          IF Serve(c) THEN StepsLeft(c)' < StepsLeft(c) ELSE seg'[c] = seg[c]]_chunkVars

(* The only segments that wait wait for the lock, and who has the lock     *)
(* waits for nobody: it is loading models.                                 *)
NobodyStuck ==
    \A c \in Callers :
        \/ Idle(c) \/ At(c, "loading") \/ At(c, "predicting")
        \/ lock = NoCaller
        \/ \E d \in Callers \ {c} : lock = d /\ At(d, "loading")

(* What one caller does with its segment.                                  *)
LEMMA ServeShrinks ==
    ASSUME TypeOK, NEW c \in Callers, Serve(c)
    PROVE  /\ StepsLeft(c)' < StepsLeft(c)
           /\ \A d \in Callers \ {c} : seg'[d] = seg[d]
<1> DEFINE p == seg[c].pc
           q == seg'[c].pc
<1>1. /\ \A d \in Callers \ {c} : seg'[d] = seg[d]
      /\ \/ p = "lookup" /\ q \in {"idle", "loading", "predicting"}
         \/ p = "loading" /\ q \in {"idle", "predicting"}
         \/ p = "predicting" /\ q \in {"idle", "releasing"}
         \/ p = "releasing" /\ q = "idle"
  <2>1. CASE Hit(c) \/ Refuse(c) \/ Miss(c)
    BY <2>1 DEF TypeOK, SegmentStates, Hit, Refuse, Miss, Answer, At
  <2>2. CASE Load(c) \/ LoadError(c)
    BY <2>2 DEF TypeOK, SegmentStates, Load, LoadError, Answer, At
  <2>3. CASE Predict(c) \/ Release(c)
    BY <2>3 DEF TypeOK, SegmentStates, Predict, Release, Answer, At
  <2> QED
    BY <2>1, <2>2, <2>3 DEF Serve
<1>2. StepsLeft(c) = StepsFrom(p) /\ StepsLeft(c)' = StepsFrom(q)
  BY DEF StepsLeft
<1>3. /\ StepsFrom("lookup") = 4 /\ StepsFrom("loading") = 3 /\ StepsFrom("predicting") = 2
      /\ StepsFrom("releasing") = 1 /\ StepsFrom("idle") = 0
  BY DEF StepsFrom
<1> HIDE DEF p, q
<1> QED
  BY <1>1, <1>2, <1>3

(* A segment is answered after at most four steps of its own caller, which *)
(* waits for nothing but a load of another: served, it therefore is unless *)
(* others load again and again (Served).                                   *)
THEOREM SegmentsAdvanceHolds ==
    Spec => SegmentsAdvance /\ []NobodyStuck
<1> DEFINE Advance(c) ==
             ~Idle(c) => IF Serve(c) THEN StepsLeft(c)' < StepsLeft(c) ELSE seg'[c] = seg[c]
           AllAdvance == \A c \in Callers : Advance(c)
<1>1. TypeOK /\ [Next]_chunkVars => [AllAdvance]_chunkVars
  <2> SUFFICES ASSUME TypeOK, Next, NEW c \in Callers, ~Idle(c)
               PROVE  IF Serve(c) THEN StepsLeft(c)' < StepsLeft(c) ELSE seg'[c] = seg[c]
    BY DEF AllAdvance, Advance
  <2>1. CASE Serve(c)
    BY <2>1, ServeShrinks
  <2>2. CASE ~Serve(c)
    <3>1. CASE Tick
      BY <2>2, <3>1 DEF Tick
    <3>2. ASSUME NEW d \in Callers, Serve(d) PROVE seg'[c] = seg[c]
      <4>1. d # c
        BY <2>2, <3>2
      <4> QED
        BY <3>2, <4>1, ServeShrinks
    <3>3. ASSUME NEW d \in Callers, Receive(d) PROVE seg'[c] = seg[c]
      BY <3>3 DEF Receive, Idle, TypeOK
    <3> QED
      BY <2>2, <3>1, <3>2, <3>3 DEF Next
  <2> QED
    BY <2>1, <2>2
<1>2. IInv => TypeOK
  BY DEF IInv
<1>3. IInv => NobodyStuck
  BY DEF IInv, TypeOK, RoomToLoad, NobodyStuck, At
<1> QED
  BY Inductive, <1>1, <1>2, <1>3, PTL DEF Spec, SegmentsAdvance
=============================================================================
