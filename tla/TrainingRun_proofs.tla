------------------------- MODULE TrainingRun_proofs -------------------------
(* Proofs about TrainingRun and JobDetail, for any number of groups, steps *)
(* and faults.                                                             *)
EXTENDS JobDetail, FiniteSetTheorems, TLAPS

(* Where the trainer is at each program point.                             *)
Placed ==
    /\ pc \in {"stepping", "reporting", "progress", "point", "saving"} => group \in Groups
    /\ pc \in {"reporting", "progress", "point"} => step \in Steps
    /\ pc = "saving" => step = NumSteps

(* No loss point is ever attributed to a step its group does not have.     *)
PointsInGroups == points \subseteq Groups \X Steps

(* The point about to be written, and those that should have been.         *)
Due == IF pc \in {"progress", "point"} THEN {<<group, step>>} ELSE {}
Lost == Missing(points) \ Due

(* While the session can be used, each loss without its point has cost a   *)
(* failed call; and only who is done, or about to say so, is completed.    *)
CurveKept ==
    /\ row.status = "completed" => pc \in {"idle", "failing"}
    /\ Exists /\ usable /\ pc \notin {"marking", "cancelling", "failing", "idle"} =>
         /\ Cardinality(Lost) <= faults
         /\ pc = "saving" => row.current = Base + step
         /\ pc \in {"deciding", "completing"} => row.current = Total

(* The row a cancelling handler has read is still there when it writes: no *)
(* other handler deletes it meanwhile; and it has not come to wait again.  *)
ReadHolds ==
    /\ asking # "none" => Exists
    /\ asking = "setFlag" => row.status # "queued"

IInv ==
    /\ TypeOK /\ Placed /\ CurveKept /\ ReadHolds
    /\ PointsInGroups /\ NoOrphanPoints /\ CompletedHasCurve

(* The cap on the overall step and the fallback of the group step never    *)
(* come into play (on_trainer_log, on_step_end).                           *)
LEMMA StepFacts ==
    ASSUME group \in Groups, step \in 0..NumSteps
    PROVE  /\ Base \in Nat
           /\ Overall = Base + step /\ Overall \in 0..Total
           /\ step \in Steps => GroupStep = step
           /\ group = NumGroups => Base + NumSteps = Total
<1> DEFINE g == group - 1
           r == NumGroups - group
<1>1. /\ NumGroups \in Nat /\ NumSteps \in Nat \ {0}
      /\ g \in Nat /\ r \in Nat /\ NumGroups = g + 1 + r
  BY RunAssumption DEF Groups
<1>2. g * NumSteps \in Nat /\ r * NumSteps \in Nat
  BY <1>1
<1>3. NumGroups * NumSteps = g * NumSteps + NumSteps + r * NumSteps
  <2>1. (g + 1 + r) * NumSteps = g * NumSteps + NumSteps + r * NumSteps
    <3> HIDE DEF g, r
    <3> QED
      BY <1>1
  <2> QED
    BY <1>1, <2>1
<1>4. Base = g * NumSteps /\ Total = g * NumSteps + NumSteps + r * NumSteps
  BY <1>3 DEF Base, Total
<1>5. step \in Nat /\ step <= NumSteps
  BY <1>1
<1>6. group = NumGroups => r * NumSteps = 0
  BY <1>1
<1> HIDE DEF g, r
<1>7. Base + step <= Total
  BY <1>1, <1>2, <1>4, <1>5
<1>8. Overall = Base + step
  BY <1>1, <1>2, <1>4, <1>5, <1>7 DEF Overall
<1>9. step \in Steps => GroupStep = step
  BY <1>1, <1>2, <1>4, <1>5, <1>8 DEF GroupStep, Steps
<1> QED
  BY <1>1, <1>2, <1>4, <1>5, <1>6, <1>7, <1>8, <1>9

RowType == [status : Statuses, cancel : BOOLEAN, current : 0..Total]

(* A call that writes the row writes it or leaves it, may fail, and never  *)
(* makes a session usable again.                                           *)
LEMMA CallFacts ==
    ASSUME TypeOK, NEW r \in RowType, Commit(r) \/ Raise(r)
    PROVE  /\ row' \in RowType /\ points' = points
           /\ usable' \in BOOLEAN /\ (usable' => usable)
           /\ faults' \in 0..MaxFaults /\ faults' >= faults
           /\ row' = row \/ (usable /\ Exists /\ row' = r)
<1>1. row \in RowType /\ faults \in 0..MaxFaults /\ usable \in BOOLEAN /\ MaxFaults \in Nat
  BY RunAssumption DEF TypeOK, RowType
<1>2. CASE Commit(r)
  BY <1>1, <1>2 DEF Commit
<1>3. CASE Raise(r)
  <2>1. points' = points /\ (Fault \/ UNCHANGED faults)
    BY <1>3 DEF Raise
  <2>2. row' = row \/ (usable /\ Exists /\ row' = r)
    BY <1>3 DEF Raise
  <2>3. usable' = usable \/ usable' = FALSE \/ (usable /\ usable' \in BOOLEAN)
    BY <1>3 DEF Raise
  <2>4. faults' \in 0..MaxFaults /\ faults' >= faults
    BY <1>1, <2>1 DEF Fault
  <2>5. usable' \in BOOLEAN /\ (usable' => usable)
    <3>1. usable \in BOOLEAN
      BY <1>1
    <3>2. CASE usable' = usable
      BY <3>1, <3>2
    <3>3. CASE usable' = FALSE
      BY <3>3
    <3>4. CASE usable /\ usable' \in BOOLEAN
      BY <3>4
    <3> QED
      BY <2>3, <3>2, <3>3, <3>4
  <2>6. row' \in RowType
    BY <1>1, <2>2
  <2> QED
    BY <2>1, <2>2, <2>4, <2>5, <2>6
<1> QED
  BY <1>2, <1>3

(* A failing check or call of another kind.                                *)
LEMMA FaultFacts ==
    ASSUME TypeOK, Fault \/ UNCHANGED faults
    PROVE  faults' \in 0..MaxFaults /\ faults' >= faults
BY RunAssumption DEF TypeOK, Fault

(* What the worker writes into the row.                                    *)
LEMMA RowsWritten ==
    ASSUME TypeOK
    PROVE  /\ Cancelled \in RowType /\ Cancelled.status = "cancelled" /\ Cancelled.cancel
           /\ Cancelled.current = row.current
           /\ \A s \in Statuses : /\ Set(s) \in RowType /\ Set(s).status = s
                                  /\ Set(s).cancel = row.cancel
                                  /\ Set(s).current = row.current
           /\ Overall \in 0..Total => /\ AtStep \in RowType /\ AtStep.status = row.status
                                      /\ AtStep.cancel = row.cancel /\ AtStep.current = Overall
BY DEF TypeOK, Cancelled, Set, AtStep, RowType, Statuses

(* The losses of L for which the points stored have no namesake.           *)
Lacking(L, stored) ==
    {p \in L : \A h \in Groups : Curve[h] = Curve[p[1]] => <<h, p[2]>> \notin stored}

(* A point that is written is no longer missing, and overwrites another    *)
(* only where it takes its place.                                          *)
LEMMA UpsertFacts ==
    ASSUME NEW L, L \subseteq Groups \X Steps, group \in Groups
    PROVE  Lacking(L, Upsert) \subseteq Lacking(L, points) \ {<<group, GroupStep>>}
<1> SUFFICES ASSUME NEW p \in Lacking(L, Upsert)
             PROVE  p \in Lacking(L, points) /\ p # <<group, GroupStep>>
  OBVIOUS
<1>1. /\ p \in L /\ p \in Groups \X Steps
      /\ \A h \in Groups : Curve[h] = Curve[p[1]] => <<h, p[2]>> \notin Upsert
  BY DEF Lacking
<1>2. <<group, GroupStep>> \in Upsert
  BY DEF Upsert
<1>3. p # <<group, GroupStep>>
  BY <1>1, <1>2
<1>4. ASSUME NEW h \in Groups, Curve[h] = Curve[p[1]], <<h, p[2]>> \in points
      PROVE  FALSE
  <2>1. <<h, p[2]>> \notin Upsert
    BY <1>1, <1>4
  <2>2. PICK k \in Namesakes(group) : <<h, p[2]>> = <<k, GroupStep>>
    BY <1>4, <2>1 DEF Upsert
  <2>3. p[2] = GroupStep /\ Curve[group] = Curve[p[1]]
    BY <1>4, <2>2 DEF Namesakes
  <2> QED
    BY <1>1, <1>2, <2>3
<1> QED
  BY <1>1, <1>3, <1>4 DEF Lacking

(* What is missing, before and after a step.                               *)
LEMMA MissingFacts ==
    /\ \A S : Missing(S) = Lacking(logged, S)
    /\ Missing(points)' = Lacking(logged', points')
BY DEF Missing, Lacking, Namesakes

(* A set with one element more counts at most one more.                    *)
LEMMA OneMore ==
    ASSUME NEW S, NEW T, NEW x, NEW n \in Nat, NEW m \in Nat, IsFiniteSet(S), Cardinality(S) <= n,
           \/ T \subseteq S /\ m >= n
           \/ T \subseteq S \cup {x} /\ m >= n + 1
    PROVE  IsFiniteSet(T) /\ Cardinality(T) <= m
<1>1. Cardinality(S) \in Nat
  BY FS_CardinalityType
<1>2. CASE T \subseteq S /\ m >= n
  <2>1. IsFiniteSet(T) /\ Cardinality(T) <= Cardinality(S) /\ Cardinality(T) \in Nat
    BY <1>2, FS_Subset, FS_CardinalityType
  <2> QED
    BY <1>1, <1>2, <2>1
<1>3. CASE T \subseteq S \cup {x} /\ m >= n + 1
  <2>1. /\ IsFiniteSet(S \cup {x}) /\ Cardinality(S \cup {x}) \in Nat
        /\ Cardinality(S \cup {x}) <= Cardinality(S) + 1
    <3>1. IsFiniteSet(S \cup {x})
      BY FS_AddElement
    <3>2. Cardinality(S \cup {x}) = Cardinality(S) \/ Cardinality(S \cup {x}) = Cardinality(S) + 1
      BY FS_AddElement
    <3> QED
      BY <1>1, <3>1, <3>2
  <2>2. IsFiniteSet(T) /\ Cardinality(T) <= Cardinality(S \cup {x}) /\ Cardinality(T) \in Nat
    BY <1>3, <2>1, FS_Subset, FS_CardinalityType
  <2> QED
    BY <1>1, <1>3, <2>1, <2>2
<1> QED
  BY <1>2, <1>3

(* There are finitely many losses to miss.                                 *)
LEMMA MissingFinite ==
    ASSUME TypeOK
    PROVE  \A S : IsFiniteSet(Missing(S))
<1>1. IsFiniteSet(Groups) /\ IsFiniteSet(Steps)
  BY RunAssumption, FS_Interval DEF Groups, Steps
<1>2. IsFiniteSet(Groups \X Steps)
  BY <1>1, FS_Product
<1>3. \A S : Missing(S) \subseteq Groups \X Steps
  BY DEF TypeOK, Missing
<1> QED
  BY <1>2, <1>3, FS_Subset

(* A call or check that fails may lose one loss more, and no step loses    *)
(* one otherwise.                                                          *)
LEMMA LostKept ==
    ASSUME TypeOK, Cardinality(Lost) <= faults, faults' \in Nat, NEW x,
           \/ Lost' \subseteq Lost /\ faults' >= faults
           \/ Lost' \subseteq Lost \cup {x} /\ faults' >= faults + 1
    PROVE  Cardinality(Lost') <= faults'
<1>1. IsFiniteSet(Lost)
  <2>1. IsFiniteSet(Missing(points)) /\ Lost \subseteq Missing(points)
    BY MissingFinite DEF Lost
  <2> QED
    BY <2>1, FS_Subset
<1>2. faults \in Nat
  BY RunAssumption DEF TypeOK
<1> DEFINE S == Lost
           T == Lost'
           n == faults
           m == faults'
<1>3. n \in Nat /\ m \in Nat /\ IsFiniteSet(S) /\ Cardinality(S) <= n
  BY <1>1, <1>2
<1>4. \/ T \subseteq S /\ m >= n
      \/ T \subseteq S \cup {x} /\ m >= n + 1
  OBVIOUS
<1> HIDE DEF S, T, n, m
<1>5. Cardinality(T) <= m
  BY <1>3, <1>4, OneMore
<1> QED
  BY <1>5 DEF T, m

(* Nothing is lost by a step that leaves points and losses as they are.    *)
LEMMA LostSame ==
    ASSUME UNCHANGED <<points, logged>>
    PROVE  /\ \/ pc \notin {"progress", "point"} /\ pc' \notin {"progress", "point"}
              \/ /\ pc \in {"progress", "point"} /\ pc' \in {"progress", "point"}
                 /\ UNCHANGED <<group, step>>
              \/ UNCHANGED <<pc, group, step>>
              => Lost' = Lost
           /\ Lost' \subseteq Missing(points)
           /\ Missing(points)' = Missing(points)
BY MissingFacts DEF Lost, Due

(* A new job starts in the invariant.                                      *)
LEMMA InitIInv == Init => IInv
<1> SUFFICES ASSUME Init PROVE IInv
  OBVIOUS
<1>1. Total \in Nat
  BY RunAssumption DEF Total
<1>2. Lost = {} /\ Cardinality(Lost) = 0
  BY FS_EmptySet DEF Lost, Missing, Init
<1> QED
  BY <1>1, <1>2, RunAssumption DEF Init, IInv, TypeOK, Placed, CurveKept, PointsInGroups,
       Exists, ReadHolds, NoOrphanPoints, CompletedHasCurve, Statuses, PCs, Writes

(* What a call makes of the row.                                           *)
LEMMA CallRow ==
    ASSUME TypeOK, Placed, Start \/ Progress \/ Summary \/ Complete \/ Mark \/ Cancel \/ Fail
    PROVE  /\ row' \in RowType /\ points' = points
           /\ usable' \in BOOLEAN /\ (usable' => usable)
           /\ faults' \in 0..MaxFaults /\ faults' >= faults
           /\ \/ row' = row
              \/ /\ usable /\ Exists
                 /\ \/ Start /\ row' = Set("running")
                    \/ (Progress \/ Summary) /\ row' = AtStep
                    \/ Complete /\ row' = Set("completed")
                    \/ (Mark \/ Cancel) /\ row' = Cancelled
                    \/ Fail /\ row' = Set("failed")
<1>1. \A t \in {"running", "completed", "failed"} : Set(t) \in RowType
  BY RowsWritten DEF Statuses
<1>2. Progress \/ Summary => AtStep \in RowType
  <2> SUFFICES ASSUME Progress \/ Summary PROVE AtStep \in RowType
    OBVIOUS
  <2>1. group \in Groups /\ step \in 0..NumSteps
    BY DEF Placed, TypeOK, Progress, Summary, At
  <2> QED
    BY <2>1, StepFacts, RowsWritten
<1>3. Cancelled \in RowType
  BY RowsWritten
<1>4. CASE Start
  BY <1>1, <1>4, CallFacts DEF Start
<1>5. CASE Progress \/ Summary
  BY <1>2, <1>5, CallFacts DEF Progress, Summary
<1>6. CASE Complete
  BY <1>1, <1>6, CallFacts DEF Complete
<1>7. CASE Mark \/ Cancel
  BY <1>3, <1>7, CallFacts DEF Mark, Cancel
<1>8. CASE Fail
  BY <1>1, <1>8, CallFacts DEF Fail
<1> QED
  BY <1>4, <1>5, <1>6, <1>7, <1>8

(* No step of the worker or of another handler makes what was read untrue. *)
LEMMA NextReadHolds == TypeOK /\ Placed /\ ReadHolds /\ [Next]_runVars => ReadHolds'
<1> SUFFICES ASSUME TypeOK, Placed, ReadHolds, [Next]_runVars PROVE ReadHolds'
  OBVIOUS
<1> USE DEF Exists
<1>0. row = [status |-> row.status, cancel |-> row.cancel, current |-> row.current]
  BY DEF TypeOK
<1>1. CASE Worker
  <2>1. row'.status # row.status => row'.status \notin {"queued", "absent"}
    <3>1. CASE row' = row
      BY <3>1
    <3>2. CASE Start \/ Progress \/ Summary \/ Complete \/ Mark \/ Cancel \/ Fail
      <4>1. row'.status \in {row.status, "running", "completed", "failed", "cancelled"}
        BY <1>0, <3>2, CallRow DEF Set, AtStep, Cancelled
      <4> QED
        BY <4>1
    <3>3. CASE Load \/ Prepare \/ TrainError \/ TrainStep \/ Report \/ Point \/ Save \/ Decide
      BY <3>3 DEF Load, Prepare, TrainError, TrainStep, Report, Point, Save, Decide
    <3> QED
      BY <1>1, <3>1, <3>2, <3>3 DEF Worker
  <2> QED
    BY <1>1, <2>1 DEF Worker, ReadHolds
<1>2. CASE Handler
  BY <1>0, <1>2 DEF Handler, RequestCancel, MarkCancelled, SetFlag, Delete, Cancelled, ReadHolds
<1>3. CASE Restart \/ UNCHANGED runVars
  BY <1>3 DEF Restart, runVars, ReadHolds
<1> QED
  BY <1>1, <1>2, <1>3 DEF Next

(* Each step keeps the invariant.                                          *)
LEMMA NextIInv == IInv /\ [Next]_runVars => IInv'
<1> SUFFICES ASSUME IInv, [Next]_runVars PROVE IInv'
  OBVIOUS
<1> USE DEF At, Goto, Exists
<1>0. /\ TypeOK /\ Placed /\ CurveKept /\ ReadHolds
      /\ PointsInGroups /\ NoOrphanPoints /\ CompletedHasCurve
      /\ Total \in Nat
      /\ NumGroups \in Nat \ {0} /\ NumSteps \in Nat \ {0}
      /\ MaxFaults \in Nat /\ MaxRestarts \in Nat
  BY RunAssumption DEF IInv, Total
<1>1. /\ row \in RowType /\ points \subseteq Nat \X Nat /\ usable \in BOOLEAN /\ pc \in PCs
      /\ group \in 0..NumGroups /\ step \in 0..NumSteps /\ logged \subseteq Groups \X Steps
      /\ faults \in 0..MaxFaults /\ restarts \in 0..MaxRestarts
  BY <1>0 DEF TypeOK, RowType
<1>2. pc \in {"stepping", "reporting", "progress", "point", "saving"} =>
        /\ Base \in Nat
        /\ Overall = Base + step /\ Overall \in 0..Total
        /\ step \in Steps => GroupStep = step
        /\ group = NumGroups => Base + NumSteps = Total
  BY <1>0, StepFacts DEF Placed, TypeOK
<1>3. asking' \in Writes
  BY <1>0 DEF Next, Worker, Handler, RequestCancel, MarkCancelled, SetFlag, Delete, Restart,
       Writes, TypeOK, runVars
<1>4. ReadHolds'
  BY <1>0, NextReadHolds
<1>5. ASSUME faults' \in 0..MaxFaults, faults' >= faults, Lost' \subseteq Lost,
             Cardinality(Lost) <= faults
      PROVE  Cardinality(Lost') <= faults'
  BY <1>0, <1>5, LostKept
<1>6. CASE Load \/ Prepare \/ TrainError \/ TrainStep \/ Save \/ Decide
  <2>1. /\ UNCHANGED <<row, points, usable, logged, restarts>>
        /\ Fault \/ UNCHANGED faults
    BY <1>6 DEF Load, Prepare, TrainError, TrainStep, Save, Decide, CheckCancel, trainer, counters
  <2>2. /\ pc \notin {"progress", "point", "marking", "cancelling", "failing", "idle"}
        /\ pc' \in PCs \ {"progress", "point", "preparing", "saving"}
    BY <1>6 DEF Load, Prepare, TrainError, TrainStep, Save, Decide, CheckCancel, PCs
  <2>3. faults' \in 0..MaxFaults /\ faults' >= faults
    BY <1>0, <2>1, FaultFacts
  <2>4. group' \in 0..NumGroups /\ step' \in 0..NumSteps
    <3>1. CASE Prepare \/ TrainStep
      BY <1>0, <1>1, <3>1 DEF Prepare, TrainStep
    <3>2. CASE Save
      BY <1>0, <1>1, <3>2 DEF Save, Placed, Groups
    <3>3. CASE Load \/ TrainError \/ Decide
      BY <1>1, <3>3 DEF Load, TrainError, Decide, trainer
    <3> QED
      BY <1>6, <3>1, <3>2, <3>3
  <2>5. TypeOK'
    BY <1>1, <1>3, <2>1, <2>2, <2>3, <2>4 DEF TypeOK, RowType
  <2>6. Placed'
    <3>1. CASE Prepare
      BY <1>0, <3>1 DEF Prepare, CheckCancel, Placed, Groups
    <3>2. CASE TrainStep
      BY <1>0, <1>1, <3>2 DEF TrainStep, CheckCancel, Placed, Steps
    <3>3. CASE Save
      BY <1>0, <3>3 DEF Save, CheckCancel, Placed, Groups
    <3>4. CASE Load \/ TrainError \/ Decide
      BY <3>4 DEF Load, TrainError, Decide, Placed
    <3> QED
      BY <1>6, <3>1, <3>2, <3>3, <3>4
  <2>7. PointsInGroups' /\ NoOrphanPoints'
    BY <1>0, <2>1 DEF PointsInGroups, NoOrphanPoints
  <2>8. CompletedHasCurve'
    BY <1>0, <2>1, <2>2 DEF CurveKept, CompletedHasCurve
  <2>9. CurveKept'
    <3>1. Lost' = Lost
      BY <2>1, <2>2, LostSame
    <3>2. pc' \in {"deciding", "completing"} =>
            \/ pc = "deciding"
            \/ pc = "saving" /\ group = NumGroups
      BY <1>6 DEF Load, Prepare, TrainError, TrainStep, Save, Decide, CheckCancel
    <3>3. row.status # "absent" /\ usable /\ pc' \in {"deciding", "completing"} =>
            row.current = Total
      BY <1>0, <1>2, <2>2, <3>2 DEF CurveKept, Placed
    <3> QED
      BY <1>0, <1>5, <2>1, <2>2, <2>3, <3>1, <3>3 DEF CurveKept
  <2> QED
    BY <1>4, <2>5, <2>6, <2>7, <2>8, <2>9 DEF IInv
<1>7. CASE Report
  <2>1. /\ UNCHANGED <<row, points, usable, group, step, restarts>>
        /\ pc = "reporting" /\ pc' \in {"cancelling", "progress"}
        /\ logged' = logged \cup {<<group, step>>}
        /\ Fault \/ UNCHANGED faults
    BY <1>7 DEF Report, CheckCancel
  <2>2. faults' \in 0..MaxFaults /\ faults' >= faults
    BY <1>0, <2>1, FaultFacts
  <2>3. group \in Groups /\ step \in Steps
    BY <1>0, <2>1 DEF Placed
  <2>4. TypeOK'
    BY <1>1, <1>3, <2>1, <2>2, <2>3 DEF TypeOK, RowType, PCs
  <2>5. Placed' /\ PointsInGroups' /\ NoOrphanPoints' /\ CompletedHasCurve'
    BY <1>0, <2>1, <2>3 DEF Placed, PointsInGroups, NoOrphanPoints, CompletedHasCurve, CurveKept
  <2>6. pc' = "progress" => Lost' \subseteq Lost
    BY <2>1, MissingFacts DEF Lost, Due, Lacking
  <2>7. CurveKept'
    BY <1>0, <1>5, <2>1, <2>2, <2>6 DEF CurveKept
  <2> QED
    BY <1>4, <2>4, <2>5, <2>7 DEF IInv
<1>8. CASE Start \/ Progress \/ Summary \/ Complete \/ Mark \/ Cancel \/ Fail
  <2>1. /\ row' \in RowType /\ points' = points
        /\ usable' \in BOOLEAN /\ (usable' => usable)
        /\ faults' \in 0..MaxFaults /\ faults' >= faults
        /\ \/ row' = row
           \/ /\ usable /\ row.status # "absent"
              /\ \/ Start /\ row' = Set("running")
                 \/ (Progress \/ Summary) /\ row' = AtStep
                 \/ Complete /\ row' = Set("completed")
                 \/ (Mark \/ Cancel) /\ row' = Cancelled
                 \/ Fail /\ row' = Set("failed")
    BY <1>0, <1>8, CallRow
  <2>2. UNCHANGED <<group, step, logged, restarts>>
    BY <1>8 DEF Start, Progress, Summary, Complete, Mark, Cancel, Fail, trainer
  <2>3. /\ pc' \in PCs \ {"loading", "starting", "reporting", "progress", "deciding",
                            "marking", "completing", "cancelling"}
        /\ pc' = "saving" => Summary
        /\ pc' = "preparing" => Start
        /\ pc' = "point" => Progress
        /\ pc' = "stepping" => Progress
        /\ Progress => pc = "progress" /\ pc' \in {"stepping", "point"}
        /\ Summary => pc = "stepping" /\ step = NumSteps
        /\ Start => pc = "starting"
        /\ Complete => pc = "completing" /\ pc' \in {"failing", "idle"}
        /\ Fail => pc = "failing" /\ pc' = "idle"
        /\ Start \/ Progress \/ Summary \/ Complete \/ Mark \/ Cancel =>
             pc \notin {"failing", "idle"}
    BY <1>8 DEF Start, Progress, Summary, Complete, Mark, Cancel, Fail, PCs
  <2>4. /\ Cancelled.status = "cancelled" /\ Set("running").status = "running"
        /\ Set("completed").status = "completed" /\ Set("failed").status = "failed"
        /\ Set("completed").current = row.current
        /\ AtStep.status = row.status
        /\ pc \in {"progress", "stepping"} => AtStep.current = Base + step
    BY <1>0, <1>1, <1>2 DEF Cancelled, Set, AtStep, RowType
  <2>5. row'.status = "absent" <=> row.status = "absent"
    BY <2>1, <2>4
  <2>6. TypeOK'
    BY <1>1, <1>3, <2>1, <2>2, <2>3 DEF TypeOK, RowType
  <2>7. Placed'
    BY <1>0, <2>2, <2>3 DEF Placed
  <2>8. PointsInGroups' /\ NoOrphanPoints'
    BY <1>0, <2>1, <2>5 DEF PointsInGroups, NoOrphanPoints
  <2>9. row'.status = "completed" =>
          \/ row' = row /\ row.status = "completed" /\ Fail
          \/ Complete /\ usable /\ row.status # "absent" /\ row' = Set("completed")
    BY <1>0, <1>8, <2>1, <2>3, <2>4 DEF CurveKept
  <2>10. Missing(points)' = Missing(points) /\ Lost' \subseteq Missing(points)
    BY <2>1, <2>2, LostSame
  <2>11. pc \notin {"progress", "point"} => Lost = Missing(points)
    BY DEF Lost, Due
  <2>12. CompletedHasCurve'
    <3>1. CASE row' = row /\ row.status = "completed"
      <4>1. Cardinality(Missing(points)) <= faults /\ row.current = Total
        BY <1>0, <3>1 DEF CompletedHasCurve
      <4>2. Cardinality(Missing(points)) \in Nat
        BY <1>0, MissingFinite, FS_CardinalityType
      <4>3. Cardinality(Missing(points)) <= faults'
        BY <1>1, <2>1, <4>1, <4>2
      <4> QED
        BY <2>10, <3>1, <4>1, <4>3 DEF CompletedHasCurve
    <3>2. CASE Complete /\ usable /\ row.status # "absent" /\ row' = Set("completed")
      <4>1. Cardinality(Lost) <= faults /\ row.current = Total
        BY <1>0, <2>3, <3>2 DEF CurveKept
      <4>2. Lost = Missing(points) /\ Lost' \subseteq Lost
        BY <2>3, <2>10, <2>11, <3>2
      <4>3. Cardinality(Missing(points)) \in Nat
        BY <1>0, MissingFinite, FS_CardinalityType
      <4>4. Cardinality(Missing(points)) <= faults'
        BY <1>1, <2>1, <4>1, <4>2, <4>3
      <4> QED
        BY <2>4, <2>10, <3>2, <4>1, <4>4 DEF CompletedHasCurve
    <3> QED
      BY <2>9, <3>1, <3>2 DEF CompletedHasCurve
  <2>13. CurveKept'
    <3>1. row'.status = "completed" => pc' \in {"idle", "failing"}
      BY <2>3, <2>9
    <3>2. ASSUME row'.status # "absent", usable',
                 pc' \notin {"marking", "cancelling", "failing", "idle"}
          PROVE  Cardinality(Lost') <= faults' /\ (pc' = "saving" => row'.current = Base' + step')
      <4>0. row.status # "absent" /\ usable /\ (Start \/ Progress \/ Summary)
        BY <1>8, <2>1, <2>3, <2>5, <3>2 DEF Complete, Mark, Cancel, Fail, PCs
      <4>1. Cardinality(Lost) <= faults
        BY <1>0, <2>3, <4>0 DEF CurveKept
      <4>2. CASE pc' # "stepping"
        <5>1. Lost' = Lost
          BY <2>1, <2>2, <2>3, <3>2, <4>0, <4>2, LostSame
        <5>2. Cardinality(Lost') <= faults'
          BY <1>5, <2>1, <4>1, <5>1
        <5>3. pc' = "saving" => row' = AtStep /\ pc = "stepping"
          BY <2>3, <4>0 DEF Summary, Commit
        <5>4. Base' = Base
          BY <2>2 DEF Base
        <5> QED
          BY <2>2, <2>4, <5>2, <5>3, <5>4
      <4>3. CASE pc' = "stepping"
        <5>1. Progress /\ Raise(AtStep) /\ pc = "progress"
          BY <2>3, <4>3 DEF Progress
        <5>2. Fault
          BY <4>0, <5>1 DEF Raise
        <5>3. Lost' \subseteq Lost \cup {<<group, step>>}
          BY <2>10, <5>1 DEF Lost, Due
        <5>4. faults' >= faults + 1 /\ faults' \in Nat
          BY <1>0, <1>1, <2>1, <5>2 DEF Fault
        <5>5. Cardinality(Lost') <= faults'
          BY <1>0, <4>1, <5>3, <5>4, LostKept
        <5> QED
          BY <4>3, <5>5
      <4> QED
        BY <4>2, <4>3
    <3> QED
      BY <2>3, <3>1, <3>2 DEF CurveKept
  <2> QED
    BY <1>4, <2>6, <2>7, <2>8, <2>12, <2>13 DEF IInv
<1>9. CASE Point
  <2>1. /\ UNCHANGED <<row, group, step, logged, restarts>>
        /\ pc = "point" /\ pc' = "stepping"
        /\ Fault \/ UNCHANGED faults
        /\ points' = points \/ (points' = Upsert /\ row.status # "absent")
    <3>1. UNCHANGED <<row, group, step, logged, restarts>> /\ pc = "point" /\ pc' = "stepping"
      BY <1>9 DEF Point, trainer
    <3>2. Fault \/ UNCHANGED faults
      BY <1>9 DEF Point
    <3>3. points' = points \/ (points' = Upsert /\ row.status # "absent")
      BY <1>9 DEF Point
    <3> QED
      BY <3>1, <3>2, <3>3
  <2>2. faults' \in 0..MaxFaults /\ faults' >= faults
    BY <1>0, <2>1, FaultFacts
  <2>3. group \in Groups /\ step \in Steps /\ GroupStep = step
    BY <1>0, <1>2, <2>1 DEF Placed
  <2>4. Upsert \subseteq points \cup {<<group, step>>}
    BY <2>3 DEF Upsert
  <2>5. points' \subseteq Groups \X Steps
    BY <1>0, <2>1, <2>3, <2>4 DEF PointsInGroups
  <2>6. Groups \X Steps \subseteq Nat \X Nat
    BY <1>0 DEF Groups, Steps
  <2>7. usable' \in BOOLEAN
    <3>1. usable' = usable \/ usable' = FALSE \/ usable' \in BOOLEAN
      BY <1>9 DEF Point
    <3> QED
      BY <1>1, <3>1
  <2>8. TypeOK'
    BY <1>1, <1>3, <2>1, <2>2, <2>5, <2>6, <2>7 DEF TypeOK, RowType, PCs
  <2>9. Placed' /\ PointsInGroups' /\ NoOrphanPoints'
    BY <1>0, <2>1, <2>3, <2>5 DEF Placed, PointsInGroups, NoOrphanPoints
  <2>10. CompletedHasCurve'
    BY <1>0, <2>1 DEF CurveKept, CompletedHasCurve
  <2>11. CurveKept'
    <3>1. row.status # "completed"
      BY <1>0, <2>1 DEF CurveKept
    <3>2. ASSUME row.status # "absent", usable'
          PROVE  Cardinality(Lost') <= faults'
      <4>1. usable
        BY <1>9, <3>2 DEF Point
      <4>2. Cardinality(Lost) <= faults
        BY <1>0, <2>1, <3>2, <4>1 DEF CurveKept
      <4>3. points' = Upsert \/ (points' = points /\ Fault)
        BY <1>9, <3>2, <4>1 DEF Point
      <4>4. CASE points' = Upsert
        <5>1. Lacking(logged, Upsert) \subseteq Lacking(logged, points) \ {<<group, GroupStep>>}
          BY <1>1, <2>3, UpsertFacts
        <5>2. Lost' = Lacking(logged, Upsert)
          BY <2>1, <4>4, MissingFacts DEF Lost, Due
        <5>3. Lost = Lacking(logged, points) \ {<<group, GroupStep>>}
          BY <2>1, <2>3, MissingFacts DEF Lost, Due
        <5> QED
          BY <1>5, <2>2, <4>2, <5>1, <5>2, <5>3
      <4>5. CASE points' = points /\ Fault
        <5>1. Lost' \subseteq Missing(points)
          BY <2>1, <4>5, LostSame
        <5>2. Lost' \subseteq Lost \cup {<<group, step>>}
          BY <2>1, <5>1 DEF Lost, Due
        <5>3. faults' >= faults + 1 /\ faults' \in Nat
          BY <1>0, <1>1, <2>2, <4>5 DEF Fault
        <5> QED
          BY <1>0, <4>2, <5>2, <5>3, LostKept
      <4> QED
        BY <4>3, <4>4, <4>5
    <3> QED
      BY <2>1, <3>1, <3>2 DEF CurveKept
  <2> QED
    BY <1>4, <2>8, <2>9, <2>10, <2>11 DEF IInv
<1>10. CASE RequestCancel \/ MarkCancelled \/ SetFlag
  <2>1. /\ UNCHANGED <<points, usable, pc, group, step, logged, faults, restarts>>
        /\ row' \in RowType /\ row'.current = row.current
        /\ row'.status \in {row.status, "cancelled"}
        /\ row'.status = "absent" <=> row.status = "absent"
    <3>1. CASE RequestCancel
      BY <1>1, <3>1 DEF RequestCancel, worker, trainer, counters
    <3>2. CASE MarkCancelled
      <4>1. row.status # "absent"
        BY <1>0, <3>2 DEF MarkCancelled, ReadHolds
      <4> QED
        BY <1>0, <3>2, <4>1, RowsWritten DEF MarkCancelled, worker, trainer, counters
    <3>3. CASE SetFlag
      BY <1>1, <3>3 DEF SetFlag, worker, trainer, counters, RowType
    <3> QED
      BY <1>10, <3>1, <3>2, <3>3
  <2>2. Lost' = Lost /\ Missing(points)' = Missing(points)
    BY <2>1, LostSame
  <2>3. Base' = Base
    BY <2>1 DEF Base
  <2>4. TypeOK'
    BY <1>1, <1>3, <2>1 DEF TypeOK, RowType
  <2>5. Placed' /\ PointsInGroups' /\ NoOrphanPoints'
    BY <1>0, <2>1 DEF Placed, PointsInGroups, NoOrphanPoints
  <2>6. CompletedHasCurve'
    BY <1>0, <2>1, <2>2 DEF CompletedHasCurve
  <2>7. CurveKept'
    BY <1>0, <2>1, <2>2, <2>3 DEF CurveKept
  <2> QED
    BY <1>4, <2>4, <2>5, <2>6, <2>7 DEF IInv
<1>11. CASE Delete
  <2>1. /\ row' = [status |-> "absent", cancel |-> FALSE, current |-> 0] /\ points' = {}
        /\ UNCHANGED <<usable, pc, group, step, logged, faults, restarts>>
    BY <1>11 DEF Delete, worker, trainer, counters
  <2>2. TypeOK'
    BY <1>0, <1>1, <1>3, <2>1 DEF TypeOK, Statuses
  <2>3. /\ Placed' /\ PointsInGroups' /\ NoOrphanPoints' /\ CompletedHasCurve'
        /\ CurveKept'
    BY <1>0, <2>1 DEF Placed, PointsInGroups, NoOrphanPoints, CompletedHasCurve, CurveKept
  <2> QED
    BY <1>4, <2>2, <2>3 DEF IInv
<1>12. CASE Restart
  <2>1. /\ pc' \in {"loading", "idle"}
        /\ pc' = "loading" => row.status \in {"queued", "running"}
        /\ pc' = "idle" => row.status \notin {"queued", "running"}
        /\ UNCHANGED <<row, points, faults>> /\ logged' = {}
        /\ usable' = TRUE /\ group' = 0 /\ step' = 0 /\ restarts' \in 0..MaxRestarts
    BY <1>0, <1>1, <1>12 DEF Restart
  <2>2. TypeOK'
    BY <1>0, <1>1, <1>3, <2>1 DEF TypeOK, RowType, PCs
  <2>3. Placed' /\ PointsInGroups' /\ NoOrphanPoints'
    BY <1>0, <2>1 DEF Placed, PointsInGroups, NoOrphanPoints
  <2>4. Missing(points)' = {} /\ Lost' = {}
    BY <2>1, MissingFacts DEF Lost, Lacking
  <2>5. Cardinality({}) = 0 /\ 0 <= faults'
    BY <1>1, <2>1, FS_EmptySet
  <2>6. CompletedHasCurve'
    BY <1>0, <2>1, <2>4, <2>5 DEF CompletedHasCurve
  <2>7. CurveKept'
    BY <1>0, <2>1, <2>4, <2>5 DEF CurveKept
  <2> QED
    BY <1>4, <2>2, <2>3, <2>6, <2>7 DEF IInv
<1>13. CASE UNCHANGED runVars
  <2>1. Lost' = Lost /\ Missing(points)' = Missing(points)
    BY <1>13, LostSame DEF runVars
  <2> QED
    BY <1>0, <1>4, <1>13, <2>1 DEF runVars, IInv, TypeOK, Placed, CurveKept, PointsInGroups,
         NoOrphanPoints, CompletedHasCurve, Base
<1> QED
  BY <1>6, <1>7, <1>8, <1>9, <1>10, <1>11, <1>12, <1>13 DEF Next, Worker, Handler

(* The inductive invariant holds in every reachable state.                 *)
LEMMA Inductive == Spec => []IInv
  BY InitIInv, NextIInv, PTL DEF Spec

(* The state keeps the shape the code gives it.                            *)
THEOREM RunTypeCorrect == Spec => []TypeOK
<1>1. IInv => TypeOK
  BY DEF IInv
<1> QED
  BY Inductive, <1>1, PTL

(* A deleted job has no loss points, although its training goes on.        *)
THEOREM NoOrphanPointsHolds == Spec => []NoOrphanPoints
<1>1. IInv => NoOrphanPoints
  BY DEF IInv
<1> QED
  BY Inductive, <1>1, PTL

(* Whatever calls fail, at their query, their commit or their refresh, and *)
(* whichever groups share a target, a completed job misses at most one     *)
(* loss for each.                                                          *)
THEOREM CompletedHasCurveHolds == Spec => []CompletedHasCurve
<1>1. IInv => CompletedHasCurve
  BY DEF IInv
<1> QED
  BY Inductive, <1>1, PTL

(* A point that is about to be written has been reported.                  *)
ReportedInv ==
    restarts = 0 =>
        /\ points \subseteq logged
        /\ pc \in {"progress", "point"} => <<group, step>> \in logged

(* Each step keeps what is stored among what was reported.                 *)
LEMMA NextReported == IInv /\ ReportedInv /\ [Next]_runVars => ReportedInv'
<1> SUFFICES ASSUME IInv, ReportedInv, [Next]_runVars PROVE ReportedInv'
  OBVIOUS
<1> USE DEF At, Goto
<1>0. MaxRestarts \in Nat /\ restarts \in Nat
  BY RunAssumption DEF IInv, TypeOK
<1>1. CASE Report
  BY <1>1 DEF Report, ReportedInv
<1>2. CASE Point
  <2>1. group \in Groups /\ step \in Steps /\ step \in 0..NumSteps
    BY <1>2 DEF Point, IInv, Placed, TypeOK
  <2>2. GroupStep = step
    BY <2>1, StepFacts
  <2>3. points' \subseteq points \cup {<<group, step>>}
    <3>1. points' = points \/ points' = Upsert
      BY <1>2 DEF Point
    <3> QED
      BY <2>2, <3>1 DEF Upsert
  <2>4. pc = "point" /\ pc' = "stepping" /\ UNCHANGED <<logged, restarts>>
    BY <1>2 DEF Point, trainer
  <2> QED
    BY <2>3, <2>4 DEF ReportedInv
<1>3. CASE Load \/ Prepare \/ TrainError \/ TrainStep \/ Save \/ Decide
  <2>1. UNCHANGED <<points, logged, restarts>> /\ pc' \notin {"progress", "point"}
    BY <1>3 DEF Load, Prepare, TrainError, TrainStep, Save, Decide, CheckCancel, trainer, counters
  <2> QED
    BY <2>1 DEF ReportedInv
<1>4. CASE Start \/ Progress \/ Summary \/ Complete \/ Mark \/ Cancel \/ Fail
  <2>1. points' = points
    BY <1>4, CallRow DEF IInv
  <2>2. /\ UNCHANGED <<group, step, logged, restarts>>
        /\ pc' \in {"progress", "point"} => pc = "progress"
    BY <1>4 DEF Start, Progress, Summary, Complete, Mark, Cancel, Fail, trainer
  <2> QED
    BY <2>1, <2>2 DEF ReportedInv
<1>5. CASE Handler
  <2>1. points' \in {points, {}} /\ UNCHANGED <<pc, group, step, logged, restarts>>
    BY <1>5 DEF Handler, RequestCancel, MarkCancelled, SetFlag, Delete, worker, trainer, counters
  <2> QED
    BY <2>1 DEF ReportedInv
<1>6. CASE Restart
  BY <1>0, <1>6 DEF Restart, ReportedInv
<1>7. CASE UNCHANGED runVars
  BY <1>7 DEF runVars, ReportedInv
<1> QED
  BY <1>1, <1>2, <1>3, <1>4, <1>5, <1>6, <1>7 DEF Next, Worker, Handler

(* No loss is stored that the trainer did not report, under no other step; *)
(* after a restart, none under a step its group does not have.             *)
THEOREM PointsReportedHolds == Spec => []PointsReported
<1>1. Init => ReportedInv
  BY DEF Init, ReportedInv
<1>2. IInv /\ ReportedInv => PointsReported
  BY DEF IInv, PointsInGroups, ReportedInv, PointsReported
<1> QED
  BY InitIInv, NextIInv, NextReported, <1>1, <1>2, PTL DEF Spec

(* Without a failing call the session serves as long as there is a row.    *)
EndInv == faults = 0 => (usable \/ ~Exists) /\ EndRecorded

(* Each step keeps the end of the job recorded.                            *)
LEMMA NextEnd == IInv /\ EndInv /\ [Next]_runVars => EndInv'
<1> SUFFICES ASSUME IInv, EndInv, [Next]_runVars, faults' = 0
             PROVE (usable' \/ ~Exists') /\ EndRecorded'
  BY DEF EndInv
<1> USE DEF At, Goto, Exists
<1>0. faults \in Nat /\ row \in RowType /\ MaxFaults \in Nat /\ TypeOK /\ Placed
  BY RunAssumption DEF IInv, TypeOK, RowType
<1>a. Fault => faults' # 0
  BY <1>0 DEF Fault
<1>1. faults = 0
  <2>1. CASE Start \/ Progress \/ Summary \/ Complete \/ Mark \/ Cancel \/ Fail
    <3>1. faults' >= faults
      BY <1>0, <2>1, CallRow
    <3> QED
      BY <1>0, <3>1
  <2>2. CASE Load \/ Prepare \/ TrainError \/ TrainStep \/ Report \/ Point \/ Save \/ Decide
    <3>1. faults' = faults
      BY <1>a, <2>2 DEF Load, Prepare, TrainError, TrainStep, Report, Point, Save, Decide,
           CheckCancel, counters
    <3> QED
      BY <3>1
  <2>3. CASE Handler \/ Restart \/ UNCHANGED runVars
    BY <2>3 DEF Handler, RequestCancel, MarkCancelled, SetFlag, Delete, Restart, worker, counters,
         runVars
  <2> QED
    BY <2>1, <2>2, <2>3 DEF Next, Worker
<1>2. (usable \/ row.status = "absent") /\ EndRecorded
  BY <1>1 DEF EndInv
<1>3. ASSUME NEW r \in RowType, Commit(r)
      PROVE  /\ usable' /\ usable
             /\ row.status # "absent" => row' = r
             /\ row.status = "absent" => row' = row
  BY <1>3 DEF Commit
<1>4. \A r : Raise(r) => row.status = "absent" /\ row' = row
  BY <1>a, <1>2 DEF Raise
<1>5. CASE Load \/ Prepare \/ TrainError \/ TrainStep \/ Report \/ Save \/ Decide
  BY <1>a, <1>2, <1>5 DEF Load, Prepare, TrainError, TrainStep, Report, Save, Decide, CheckCancel,
       EndRecorded
<1>6. CASE Start \/ Progress \/ Summary
  <2>1. pc' # "idle"
    BY <1>6 DEF Start, Progress, Summary
  <2>2. usable' \/ row'.status = "absent"
    <3>1. PICK r : Commit(r) \/ Raise(r)
      BY <1>6 DEF Start, Progress, Summary
    <3>2. CASE Commit(r)
      BY <3>2 DEF Commit
    <3>3. CASE Raise(r)
      BY <1>4, <3>3
    <3> QED
      BY <3>1, <3>2, <3>3
  <2> QED
    BY <2>1, <2>2 DEF EndRecorded
<1>7. CASE Point
  <2>1. pc' = "stepping" /\ row' = row
    BY <1>7 DEF Point
  <2>2. usable' \/ row.status = "absent"
    <3>1. CASE row.status = "absent"
      BY <3>1
    <3>2. CASE usable /\ row.status # "absent"
      BY <1>a, <1>7, <3>2 DEF Point
    <3> QED
      BY <1>2, <3>1, <3>2
  <2> QED
    BY <2>1, <2>2 DEF EndRecorded
<1>8. CASE Complete \/ Mark \/ Cancel \/ Fail
  <2>1. /\ Set("completed") \in RowType /\ Set("failed") \in RowType /\ Cancelled \in RowType
        /\ Set("completed").status = "completed" /\ Set("failed").status = "failed"
        /\ Cancelled.status = "cancelled"
    BY <1>0, RowsWritten DEF Statuses
  <2>2. PICK r \in {Set("completed"), Set("failed"), Cancelled} : Commit(r) \/ Raise(r)
    BY <1>8 DEF Complete, Mark, Cancel, Fail
  <2>3. CASE Raise(r)
    BY <1>4, <2>3 DEF EndRecorded
  <2>4. CASE Commit(r)
    <3>1. usable' /\ (row' = r \/ (row' = row /\ row.status = "absent"))
      BY <1>3, <2>1, <2>2, <2>4
    <3>2. row'.status \notin {"queued", "running"}
      BY <2>1, <2>2, <3>1
    <3> QED
      BY <3>1, <3>2 DEF EndRecorded
  <2> QED
    BY <2>2, <2>3, <2>4
<1>9. CASE Handler
  <2>1. CASE RequestCancel
    BY <1>2, <2>1 DEF RequestCancel, EndRecorded, worker
  <2>2. CASE MarkCancelled \/ SetFlag
    <3>1. row'.status \in {row.status, "cancelled"} /\ UNCHANGED <<usable, pc>>
      BY <1>0, <2>2 DEF MarkCancelled, SetFlag, Cancelled, worker, RowType
    <3>2. row.status # "absent"
      BY <2>2 DEF MarkCancelled, SetFlag, IInv, ReadHolds
    <3> QED
      BY <1>2, <3>1, <3>2 DEF EndRecorded
  <2>3. CASE Delete
    BY <2>3 DEF Delete, EndRecorded
  <2> QED
    BY <1>9, <2>1, <2>2, <2>3 DEF Handler
<1>10. CASE Restart
  BY <1>10 DEF Restart, EndRecorded
<1>11. CASE UNCHANGED runVars
  BY <1>2, <1>11 DEF runVars, EndRecorded
<1> QED
  BY <1>5, <1>6, <1>7, <1>8, <1>9, <1>10, <1>11 DEF Next, Worker, Handler

(* As long as no call fails the worker leaves no row behind that says      *)
(* queued or running.                                                      *)
THEOREM EndRecordedHolds == Spec => []EndRecordedUnlessFaulty
<1>1. Init => EndInv
  BY DEF Init, EndInv, EndRecorded, Exists
<1>2. EndInv => EndRecordedUnlessFaulty
  BY DEF EndInv, EndRecordedUnlessFaulty
<1> QED
  BY InitIInv, NextIInv, NextEnd, <1>1, <1>2, PTL DEF Spec

(* How far the row's progress can be before the first restart.             *)
BehindInv ==
    restarts = 0 /\ Exists =>
        /\ pc \in {"loading", "starting", "preparing"} => row.current = 0
        /\ pc \in {"stepping", "reporting", "progress", "point", "saving"} =>
             row.current <= Base + step

(* One step neither loses that bound nor, before a restart, any progress.  *)
LEMMA NextBehind ==
    ASSUME IInv, BehindInv, [Next]_runVars
    PROVE  /\ BehindInv'
           /\ restarts' = restarts /\ restarts = 0 /\ Exists /\ row'.status # "absent"
                => row'.current >= row.current
<1> USE DEF At, Goto, Exists
<1>0. /\ row \in RowType /\ row.current \in Nat
      /\ NumSteps \in Nat /\ step \in Nat /\ restarts \in Nat /\ MaxRestarts \in Nat
  BY RunAssumption DEF IInv, TypeOK, RowType, Total
<1>a. pc \in {"stepping", "reporting", "progress", "point", "saving"} =>
        /\ Base \in Nat /\ group \in Nat
        /\ Overall = Base + step /\ Overall \in 0..Total
  BY StepFacts DEF IInv, TypeOK, Placed, Groups
<1>1. CASE Load \/ Decide
  BY <1>0, <1>1 DEF Load, Decide, BehindInv, trainer, counters
<1>b. Set("running").current = row.current /\ Set("completed").current = row.current
      /\ Set("failed").current = row.current /\ Cancelled.current = row.current
  BY RowsWritten DEF IInv, Statuses
<1>2. CASE Start
  <2>1. row' = row \/ (row.status # "absent" /\ row' = Set("running"))
    <3>1. ~Progress /\ ~Summary /\ ~Complete /\ ~Mark /\ ~Cancel /\ ~Fail
      BY <1>2 DEF Start, Progress, Summary, Complete, Mark, Cancel, Fail
    <3> QED
      BY <1>2, <3>1, CallRow DEF IInv
  <2>2. row'.current = row.current /\ (row'.status # "absent" => row.status # "absent")
    BY <1>b, <2>1
  <2> QED
    BY <1>0, <1>2, <2>1, <2>2 DEF Start, BehindInv, trainer
<1>3. CASE Prepare
  <2>1. Base' = 0
    BY <1>0, <1>3 DEF Prepare, Base
  <2>2. pc' \in {"stepping", "cancelling"} /\ UNCHANGED <<row, restarts>> /\ pc = "preparing"
    BY <1>3 DEF Prepare, CheckCancel
  <2> QED
    BY <1>0, <1>3, <2>1, <2>2 DEF Prepare, BehindInv
<1>4. CASE TrainError
  BY <1>0, <1>4 DEF TrainError, BehindInv, counters
<1>5. CASE TrainStep \/ Report
  <2>1. /\ Base' = Base /\ step' \in {step, step + 1} /\ UNCHANGED <<row, restarts>>
        /\ pc \in {"stepping", "reporting"}
        /\ pc' \in {"stepping", "reporting", "progress", "cancelling"}
    BY <1>5 DEF TrainStep, Report, CheckCancel, Base
  <2>2. row.current <= Base + step => row.current <= Base' + step'
    BY <1>0, <1>a, <2>1
  <2> QED
    BY <1>0, <2>1, <2>2 DEF BehindInv
<1>6. CASE Progress \/ Summary
  <2>1. Base' = Base /\ step' = step /\ restarts' = restarts
    BY <1>6 DEF Progress, Summary, Base, trainer
  <2>2. row' = row \/ (row.status # "absent" /\ row' = AtStep)
    <3>1. ~Start /\ ~Complete /\ ~Mark /\ ~Cancel /\ ~Fail
      BY <1>6 DEF Progress, Summary, Start, Complete, Mark, Cancel, Fail
    <3> QED
      BY <1>6, <3>1, CallRow DEF IInv
  <2>3. row'.status = row.status /\ (row'.current = row.current \/ row'.current = Overall)
    <3>1. pc \in {"progress", "stepping"}
      BY <1>6 DEF Progress, Summary
    <3>2. AtStep.status = row.status /\ AtStep.current = Overall
      BY <1>0, <1>a, <3>1, RowsWritten DEF IInv
    <3> QED
      BY <2>2, <3>2
  <2>4. pc' \notin {"loading", "starting", "preparing"}
    BY <1>6 DEF Progress, Summary
  <2>5. restarts = 0 /\ row.status # "absent" =>
          row'.current <= Base + step /\ row.current <= row'.current
    BY <1>0, <1>a, <1>6, <2>3 DEF Progress, Summary, BehindInv
  <2> QED
    BY <2>1, <2>3, <2>4, <2>5 DEF BehindInv
<1>7. CASE Point
  <2>1. Base' = Base /\ row' = row
    BY <1>7 DEF Point, Base, trainer
  <2> QED
    BY <1>0, <1>7, <2>1 DEF Point, BehindInv, trainer
<1>8. CASE Save
  <2>1. step = NumSteps
    BY <1>8 DEF Save, IInv, Placed
  <2>2. group' = group + 1 => Base' = Base + NumSteps
    BY <1>0, <1>a, <1>8 DEF Save, Base
  <2>3. /\ UNCHANGED <<row, restarts>> /\ pc = "saving"
        /\ \/ pc' \in {"deciding", "cancelling"}
           \/ pc' = "stepping" /\ group' = group + 1 /\ step' = 0
    BY <1>8 DEF Save, CheckCancel
  <2> QED
    BY <1>0, <1>a, <2>1, <2>2, <2>3 DEF BehindInv
<1>9. CASE Complete \/ Mark \/ Cancel \/ Fail
  <2>1. row'.current = row.current
    <3>1. ~Progress /\ ~Summary
      BY <1>9 DEF Complete, Mark, Cancel, Fail, Progress, Summary
    <3> QED
      BY <1>b, <1>9, <3>1, CallRow DEF IInv
  <2>2. pc' \in {"idle", "failing"}
    BY <1>9 DEF Complete, Mark, Cancel, Fail
  <2> QED
    BY <1>0, <2>1, <2>2 DEF BehindInv
<1>10. CASE RequestCancel \/ MarkCancelled \/ SetFlag
  <2>1. row'.current = row.current
    BY <1>0, <1>b, <1>10 DEF RequestCancel, MarkCancelled, SetFlag, RowType
  <2>2. Base' = Base
    BY <1>10 DEF RequestCancel, MarkCancelled, SetFlag, Base, worker, trainer
  <2> QED
    BY <1>0, <1>10, <2>1, <2>2 DEF RequestCancel, MarkCancelled, SetFlag, BehindInv,
         IInv, ReadHolds, worker, trainer, counters
<1>11. CASE Delete
  BY <1>0, <1>11 DEF Delete, BehindInv
<1>12. CASE Restart
  BY <1>0, <1>12 DEF Restart, BehindInv
<1>13. CASE UNCHANGED runVars
  BY <1>0, <1>13 DEF runVars, BehindInv, Base
<1> QED
  BY <1>1, <1>2, <1>3, <1>4, <1>5, <1>6, <1>7, <1>8, <1>9, <1>10, <1>11, <1>12, <1>13
     DEF Next, Worker, Handler

(* Before the first restart the progress of a job never goes back, at the  *)
(* boundary of two groups either.                                          *)
THEOREM ProgressForwardHolds == Spec => ProgressForward
<1>1. Init => BehindInv
  BY DEF Init, BehindInv
<1>2. IInv /\ BehindInv /\ [Next]_runVars =>
        /\ BehindInv'
        /\ restarts' = restarts /\ restarts = 0 /\ Exists /\ row'.status # "absent"
             => row'.current >= row.current
  BY NextBehind
<1> QED
  BY InitIInv, NextIInv, <1>1, <1>2, PTL DEF Spec, ProgressForward

(* What an open or answered poll that read a completed row relies on: the  *)
(* worker has at most to say that the job failed, and the row stays, since *)
(* no other handler runs.                                                  *)
PollInv ==
    poll.status = "completed" =>
        /\ pc \in {"idle", "failing"}
        /\ poll.pc = "row" => Cardinality(Missing(points)) <= faults
        /\ poll.pc = "shown" => Cardinality(Missing(poll.points)) <= faults

(* A polled run is a run.                                                  *)
LEMMA DetailSteps == DetailNext => [Next]_runVars
BY DEF DetailNext, Next, Poll

(* Each step of a polled run keeps what polls rely on.                     *)
LEMMA DetailPollInv == IInv /\ PollInv /\ [DetailNext]_detailVars => PollInv'
<1> SUFFICES ASSUME IInv, PollInv, [DetailNext]_detailVars PROVE PollInv'
  OBVIOUS
<1>0. row.status = "completed" =>
        pc \in {"idle", "failing"} /\ Cardinality(Missing(points)) <= faults
  BY DEF IInv, CurveKept, CompletedHasCurve
<1>1. CASE Poll
  <2>0. UNCHANGED <<pc, row, points, logged, faults>>
    BY <1>1 DEF Poll, runVars
  <2>1. CASE /\ poll.pc = "closed"
             /\ poll' = [pc |-> "row", status |-> Mapped(row.status), points |-> {}]
    <3>1. Mapped(row.status) = "completed" => row.status = "completed"
      BY DEF Mapped
    <3>2. Missing(points)' = Missing(points)
      BY <2>0, MissingFacts
    <3> QED
      BY <1>0, <2>0, <2>1, <3>1, <3>2 DEF PollInv
  <2>2. CASE Open /\ poll' = [poll EXCEPT !.pc = "shown", !.points = points]
    <3>1. poll'.points = points /\ poll'.pc = "shown" /\ poll'.status = poll.status
      BY <2>2
    <3>2. Missing(poll.points)' = Missing(points)
      BY <2>0, <3>1 DEF Missing, Namesakes
    <3> QED
      BY <2>0, <2>2, <3>1, <3>2 DEF PollInv, Open
  <2>3. CASE poll' = NoPoll
    BY <2>3 DEF PollInv, NoPoll
  <2> QED
    BY <1>1, <2>1, <2>2, <2>3 DEF Poll
<1>2. CASE Worker /\ UNCHANGED poll
  <2>1. pc # "idle"
    BY <1>2 DEF Worker, At, Load, Start, Prepare, TrainError, TrainStep, Report, Progress,
         Point, Summary, Save, Decide, Mark, Complete, Cancel, Fail
  <2>2. pc = "failing" => Fail
    BY <1>2 DEF Worker, At, Load, Start, Prepare, TrainError, TrainStep, Report, Progress,
         Point, Summary, Save, Decide, Mark, Complete, Cancel
  <2>3. ASSUME Fail PROVE PollInv'
    <3>1. pc' = "idle" /\ UNCHANGED <<poll, logged>>
      BY <1>2, <2>3 DEF Fail, Goto, trainer
    <3>2. points' = points /\ faults' >= faults /\ faults \in Nat /\ faults' \in Nat
      BY <2>3, CallRow, RunAssumption DEF IInv, TypeOK
    <3>3. Missing(points)' = Missing(points) /\ Missing(poll.points)' = Missing(poll.points)
      BY <3>1, <3>2 DEF Missing, Namesakes
    <3>4. \A S : Cardinality(Missing(S)) \in Nat
      BY MissingFinite, FS_CardinalityType DEF IInv
    <3>5. \A S : Cardinality(Missing(S)) <= faults => Cardinality(Missing(S)) <= faults'
      BY <3>2, <3>4
    <3> QED
      BY <3>1, <3>3, <3>5 DEF PollInv
  <2> QED
    BY <1>2, <2>1, <2>2, <2>3 DEF PollInv
<1>3. CASE ~Open /\ Handler /\ UNCHANGED poll
  <2>1. UNCHANGED <<pc, logged, faults, poll>>
    BY <1>3 DEF Handler, RequestCancel, MarkCancelled, SetFlag, Delete, worker, trainer, counters
  <2>2. Missing(poll.points)' = Missing(poll.points)
    BY <2>1 DEF Missing, Namesakes
  <2> QED
    BY <1>3, <2>1, <2>2 DEF PollInv, Open
<1>4. CASE Restart /\ poll' = NoPoll
  BY <1>4 DEF PollInv, NoPoll
<1>5. CASE UNCHANGED detailVars
  <2>1. UNCHANGED <<pc, logged, points, faults, poll>>
    BY <1>5 DEF detailVars, runVars
  <2>2. Missing(points)' = Missing(points) /\ Missing(poll.points)' = Missing(poll.points)
    BY <2>1 DEF Missing, Namesakes
  <2> QED
    BY <2>1, <2>2 DEF PollInv
<1> QED
  BY <1>1, <1>2, <1>3, <1>4, <1>5 DEF DetailNext

(* A client is never shown a completed job that misses more of its curve   *)
(* than calls failed, however the worker's commits fall between the two    *)
(* queries of get_job_detail.                                              *)
THEOREM PolledWholeHolds == DetailSpec => []PolledWhole
<1>1. DetailInit => IInv /\ PollInv
  BY InitIInv DEF DetailInit, PollInv, NoPoll
<1>2. IInv /\ PollInv /\ [DetailNext]_detailVars => IInv' /\ PollInv'
  <2>1. [DetailNext]_detailVars => [Next]_runVars
    BY DetailSteps DEF detailVars
  <2> QED
    BY <2>1, NextIInv, DetailPollInv
<1>3. PollInv => PolledWhole
  BY DEF PollInv, PolledWhole
<1> QED
  BY <1>1, <1>2, <1>3, PTL DEF DetailSpec

(* What the failures leave of the row: the flag goes with a cancelled job  *)
(* and not with a deleted one, a failed job has an idle worker, and before *)
(* it ends the job the worker has marked it running, or a handler that had *)
(* read it earlier has cancelled it since, unless a call failed.           *)
RowInv ==
    /\ row.status = "cancelled" => row.cancel
    /\ ~Exists => ~row.cancel
    /\ row.status = "completed" => pc \in {"idle", "failing"}
    /\ row.status = "failed" => pc = "idle"
    /\ \/ pc \in {"preparing", "stepping", "reporting", "progress", "point", "saving", "deciding",
                   "completing"}
       \/ pc = "failing" /\ usable /\ faults = 0
       => row.status \in {"running", "cancelled", "absent"}

(* How one step may change what is shown of the row.                       *)
Begins ==
    /\ row.status = "queued" \/ (row.status = "cancelled" /\ row.cancel)
    /\ row'.status = "running" /\ row'.cancel = row.cancel
Finishes ==
    /\ row.status = "running" \/ (row.status = "cancelled" /\ row.cancel)
    /\ row'.status \in {"completed", "failed"} /\ row'.cancel = row.cancel
Asks ==
    /\ row.status \in Statuses \ {"queued", "absent"}
    /\ row'.status = row.status /\ row'.cancel
Cancels == Exists /\ row'.status = "cancelled" /\ row'.cancel
Removes == Exists /\ row'.status = "absent" /\ ~row'.cancel
Resorts ==
    /\ faults > 0 /\ pc = "failing" /\ row.status \in {"queued", "completed"}
    /\ row'.status = "failed" /\ row'.cancel = row.cancel
Kept == row'.status = row.status /\ row'.cancel = row.cancel

(* Each of these is a step of the lifecycle, the last resort or neither.   *)
LEMMA LifecycleStep ==
    ASSUME row \in RowType, row' \in RowType,
           Begins \/ Finishes \/ Asks \/ Cancels \/ Removes \/ Resorts \/ Kept
    PROVE  [Lifecycle!Next \/ LastResort]_(Lifecycle!lifecycleVars)
<1> DEFINE j == "job"
           Is(shown, asked) ==
             /\ Shown' = [Shown EXCEPT ![j] = shown]
             /\ Asked' = [Asked EXCEPT ![j] = asked]
<1>1. /\ j \in TheJob
      /\ Shown[j] = IF Exists THEN Mapped(row.status) ELSE "gone"
      /\ Asked[j] = row.cancel
      /\ row.cancel \in BOOLEAN /\ row'.cancel \in BOOLEAN
      /\ row.status \in Statuses /\ row'.status \in Statuses
  BY DEF Shown, Asked, TheJob, RowType
<1>2. Is(IF Exists' THEN Mapped(row'.status) ELSE "gone", row'.cancel)
  BY DEF Shown, Asked, TheJob
<1>3. ASSUME Lifecycle!Begin(j) \/ Lifecycle!Finish(j) \/ Lifecycle!Ask(j)
               \/ Lifecycle!Cancel(j) \/ Lifecycle!Remove(j)
      PROVE  Lifecycle!Next
  BY <1>1, <1>3 DEF Lifecycle!Next
<1>4. CASE Begins
  <2>1. Is("running", Asked[j])
    BY <1>1, <1>2, <1>4 DEF Begins, Exists, Mapped
  <2>2. Asked' = Asked
    BY <1>1, <2>1 DEF Asked
  <2>3. Shown[j] = "pending" \/ (Shown[j] = "cancelled" /\ Asked[j])
    BY <1>1, <1>4 DEF Begins, Exists, Mapped
  <2> QED
    BY <1>3, <2>1, <2>2, <2>3 DEF Lifecycle!Begin, Lifecycle!Show
<1>5. CASE Finishes
  <2>1. Is(row'.status, Asked[j]) /\ row'.status \in Lifecycle!Ended
    BY <1>1, <1>2, <1>5 DEF Finishes, Exists, Mapped, Lifecycle!Ended
  <2>2. Asked' = Asked
    BY <1>1, <2>1 DEF Asked
  <2>3. Shown[j] = "running" \/ (Shown[j] = "cancelled" /\ Asked[j])
    BY <1>1, <1>5 DEF Finishes, Exists, Mapped
  <2> QED
    BY <1>3, <2>1, <2>2, <2>3 DEF Lifecycle!Finish, Lifecycle!Show
<1>6. CASE Asks
  <2>1. Is(Shown[j], TRUE)
    BY <1>1, <1>2, <1>6 DEF Asks, Exists, Mapped
  <2>2. Shown' = Shown
    BY <1>1, <2>1 DEF Shown
  <2>3. Shown[j] \in Lifecycle!Present \ {"pending"}
    BY <1>1, <1>6 DEF Asks, Exists, Mapped, Statuses, Lifecycle!Present,
         Lifecycle!Ended
  <2> QED
    BY <1>3, <2>1, <2>2, <2>3 DEF Lifecycle!Ask
<1>7. Exists => Shown[j] \in Lifecycle!Present
  BY <1>1 DEF Exists, Mapped, Statuses, Lifecycle!Present, Lifecycle!Ended
<1>8. CASE Cancels
  <2>1. Is("cancelled", TRUE)
    BY <1>1, <1>2, <1>8 DEF Cancels, Exists, Mapped
  <2> QED
    BY <1>3, <1>7, <1>8, <2>1 DEF Cancels, Lifecycle!Cancel, Lifecycle!Show
<1>9. CASE Removes
  <2>1. Is("gone", FALSE)
    BY <1>1, <1>2, <1>9 DEF Removes, Exists
  <2> QED
    BY <1>3, <1>7, <1>9, <2>1 DEF Removes, Lifecycle!Remove, Lifecycle!Show
<1>10. CASE Kept
  BY <1>10 DEF Kept, Shown, Asked, Exists, Lifecycle!lifecycleVars
<1>11. CASE Resorts
  <2>1. Is("failed", Asked[j])
    BY <1>1, <1>2, <1>11 DEF Resorts, Exists, Mapped
  <2>2. Asked' = Asked
    BY <1>1, <2>1 DEF Asked
  <2>3. Shown[j] \in {"pending", "completed"}
    BY <1>1, <1>11 DEF Resorts, Exists, Mapped
  <2> QED
    BY <1>1, <1>11, <2>1, <2>2, <2>3 DEF Resorts, LastResort
<1> QED
  BY <1>4, <1>5, <1>6, <1>8, <1>9, <1>10, <1>11

(* Each step keeps what the failures leave, and shows a client nothing but *)
(* a step of the lifecycle or the last resort.                             *)
LEMMA NextRow ==
    ASSUME TypeOK, Placed, ReadHolds, RowInv, [Next]_runVars
    PROVE  RowInv' /\ (Begins \/ Finishes \/ Asks \/ Cancels \/ Removes \/ Resorts \/ Kept)
<1> USE DEF At, Goto, Exists
<1>0. /\ row.status \in Statuses /\ row.cancel \in BOOLEAN /\ usable \in BOOLEAN
      /\ row = [status |-> row.status, cancel |-> row.cancel, current |-> row.current]
      /\ faults \in Nat
  BY RunAssumption DEF TypeOK
<1>a. /\ Set("running").status = "running" /\ Set("running").cancel = row.cancel
      /\ Set("completed").status = "completed" /\ Set("completed").cancel = row.cancel
      /\ Set("failed").status = "failed" /\ Set("failed").cancel = row.cancel
      /\ Cancelled.status = "cancelled" /\ Cancelled.cancel = TRUE
  BY <1>0 DEF Set, Cancelled
<1>b. /\ Fault => faults' # 0 /\ faults' \in Nat
      /\ UNCHANGED faults => faults' \in Nat
  BY <1>0 DEF Fault
<1>c. ASSUME NEW r, Raise(r)
      PROVE  ~usable' \/ row.status = "absent" \/ faults' # 0
  <2>1. CASE ~usable /\ UNCHANGED usable
    BY <2>1
  <2>2. CASE row.status = "absent"
    BY <2>2
  <2>3. CASE Fault
    BY <1>b, <2>3
  <2> QED
    BY <1>c, <2>1, <2>2, <2>3 DEF Raise
<1>d. ASSUME NEW r, Commit(r) \/ Raise(r)
      PROVE  row' = row \/ (usable /\ row.status # "absent" /\ row' = r)
  BY <1>d DEF Commit, Raise
<1>1. CASE Load
  <2>1. row' = row /\ pc = "loading" /\ pc' \in {"idle", "marking", "starting", "failing"}
    BY <1>1 DEF Load
  <2>2. pc' = "failing" => faults' # 0
    BY <1>1, <1>b DEF Load
  <2> QED
    BY <2>1, <2>2 DEF RowInv, Kept
<1>2. CASE Start
  <2>1. row' = row \/ (row.status # "absent" /\ row' = Set("running"))
    BY <1>2, <1>d DEF Start
  <2>2. pc = "starting" /\ pc' \in {"preparing", "failing"}
    BY <1>2 DEF Start
  <2>3. pc' = "preparing" => row' = Set("running") \/ row'.status = "absent"
    BY <1>2 DEF Start, Commit
  <2>4. pc' = "failing" => ~usable' \/ row.status = "absent" \/ faults' # 0
    BY <1>2, <1>c DEF Start
  <2>5. row.status \in {"queued", "running", "cancelled", "absent"}
    BY <1>0, <2>2 DEF RowInv, Statuses
  <2>6. RowInv'
    <3>1. CASE row' = row
      BY <1>a, <2>2, <2>3, <2>4, <3>1 DEF RowInv
    <3>2. CASE row' = Set("running")
      BY <1>a, <2>2, <3>2 DEF RowInv
    <3> QED
      BY <2>1, <3>1, <3>2
  <2>7. Begins \/ Kept
    BY <1>a, <2>1, <2>5 DEF RowInv, Begins, Kept
  <2> QED
    BY <2>6, <2>7
<1>3. CASE Prepare \/ TrainError \/ TrainStep \/ Report \/ Save \/ Decide
  <2>1. /\ row' = row
        /\ pc \in {"preparing", "stepping", "reporting", "saving", "deciding"}
        /\ pc' \notin {"loading", "starting", "idle"}
    BY <1>3 DEF Prepare, TrainError, TrainStep, Report, Save, Decide, CheckCancel
  <2> QED
    BY <2>1 DEF RowInv, Kept
<1>4. CASE Progress \/ Summary
  <2>1. row'.status = row.status /\ row'.cancel = row.cancel
    BY <1>0, <1>4, <1>d DEF Progress, Summary, AtStep
  <2>2. pc' \notin {"loading", "starting", "idle"} /\ pc \in {"progress", "stepping"}
    BY <1>4 DEF Progress, Summary
  <2> QED
    BY <2>1, <2>2 DEF RowInv, Kept
<1>5. CASE Point
  BY <1>5 DEF Point, RowInv, Kept
<1>6. CASE Complete
  <2>1. row' = row \/ (row.status # "absent" /\ row' = Set("completed"))
    BY <1>6, <1>d DEF Complete
  <2>2. pc = "completing" /\ pc' \in {"idle", "failing"}
    BY <1>6 DEF Complete
  <2>3. pc' = "failing" => ~usable' \/ row.status = "absent" \/ faults' # 0
    BY <1>6, <1>c DEF Complete
  <2>4. row.status \in {"running", "cancelled", "absent"}
    BY <2>2 DEF RowInv
  <2>5. RowInv'
    <3>1. CASE row' = row
      BY <2>2, <2>4, <3>1 DEF RowInv
    <3>2. CASE row.status # "absent" /\ row' = Set("completed")
      BY <1>a, <2>2, <2>3, <3>2 DEF RowInv
    <3> QED
      BY <2>1, <3>1, <3>2
  <2>6. Finishes \/ Kept
    BY <1>a, <2>1, <2>4 DEF RowInv, Finishes, Kept
  <2> QED
    BY <2>5, <2>6
<1>7. CASE Mark \/ Cancel
  <2>1. row' = row \/ (row.status # "absent" /\ row' = Cancelled)
    BY <1>7, <1>d DEF Mark, Cancel
  <2>2. pc \in {"marking", "cancelling"} /\ pc' \in {"idle", "failing"}
    BY <1>7 DEF Mark, Cancel
  <2>3. row.status \notin {"completed", "failed"}
    BY <2>2 DEF RowInv
  <2>4. pc' = "failing" => ~usable' \/ row.status = "absent" \/ faults' # 0
    BY <1>7, <1>c DEF Mark, Cancel
  <2>5. RowInv'
    <3>1. CASE row' = row
      BY <2>2, <2>3, <2>4, <3>1 DEF RowInv
    <3>2. CASE row.status # "absent" /\ row' = Cancelled
      BY <1>a, <2>2, <3>2 DEF RowInv
    <3> QED
      BY <2>1, <3>1, <3>2
  <2>6. Cancels \/ Kept
    BY <1>a, <2>1 DEF Cancels, Kept
  <2> QED
    BY <2>5, <2>6
<1>8. CASE Fail
  <2>1. row' = row \/ (usable /\ row.status # "absent" /\ row' = Set("failed"))
    BY <1>8, <1>d DEF Fail
  <2>2. pc = "failing" /\ pc' = "idle"
    BY <1>8 DEF Fail
  <2>3. RowInv'
    BY <1>a, <2>1, <2>2 DEF RowInv
  <2>4. CASE row' = row
    BY <2>3, <2>4 DEF Kept
  <2>5. CASE usable /\ row.status # "absent" /\ row' = Set("failed")
    <3>1. CASE row.status \in {"running", "cancelled"}
      BY <1>a, <2>3, <2>5, <3>1 DEF RowInv, Finishes
    <3>2. CASE row.status \in {"queued", "completed"}
      <4>1. faults # 0
        BY <2>2, <2>5, <3>2 DEF RowInv
      <4>2. faults > 0
        BY <1>0, <4>1
      <4> QED
        BY <1>a, <2>2, <2>3, <2>5, <3>2, <4>2 DEF Resorts
    <3> QED
      BY <1>0, <2>2, <2>5, <3>1, <3>2 DEF RowInv, Statuses
  <2> QED
    BY <2>1, <2>4, <2>5
<1>9. CASE RequestCancel \/ MarkCancelled \/ SetFlag
  <2>0. UNCHANGED <<pc, usable, faults>>
    BY <1>9 DEF RequestCancel, MarkCancelled, SetFlag, worker, counters
  <2>1. CASE RequestCancel
    BY <2>0, <2>1 DEF RequestCancel, RowInv, Kept
  <2>2. CASE MarkCancelled
    BY <1>a, <2>0, <2>2 DEF MarkCancelled, ReadHolds, RowInv, Cancels
  <2>3. CASE SetFlag
    <3>1. /\ row'.status = row.status /\ row'.cancel
          /\ row.status \in Statuses \ {"queued", "absent"}
      BY <1>0, <2>3 DEF SetFlag, ReadHolds
    <3> QED
      BY <2>0, <3>1 DEF RowInv, Asks
  <2> QED
    BY <1>9, <2>1, <2>2, <2>3
<1>10. CASE Delete
  <2>1. UNCHANGED <<pc, usable, faults>>
    BY <1>10 DEF Delete, worker, counters
  <2> QED
    BY <1>10, <2>1 DEF Delete, RowInv, Removes
<1>11. CASE Restart
  BY <1>0, <1>11 DEF Restart, RowInv, Kept, Statuses
<1>12. CASE UNCHANGED runVars
  BY <1>12 DEF runVars, RowInv, Kept
<1> QED
  BY <1>1, <1>2, <1>3, <1>4, <1>5, <1>6, <1>7, <1>8, <1>9, <1>10, <1>11, <1>12
     DEF Next, Worker, Handler

(* However calls fail, jobs are cancelled or deleted and the process is    *)
(* restarted, a client is shown the steps of the lifecycle and, after a    *)
(* failed call, those of the handler of last resort, but no others: the    *)
(* training of one job implements its part of what the service promises.   *)
THEOREM FollowsLifecycleHolds == DetailSpec => FollowsLifecycle
<1>1. DetailInit => IInv /\ RowInv
  BY InitIInv DEF DetailInit, Init, RowInv, Exists
<1>2. IInv /\ RowInv /\ [DetailNext]_detailVars =>
        IInv' /\ RowInv' /\ [Lifecycle!Next \/ LastResort]_(Lifecycle!lifecycleVars)
  <2> SUFFICES ASSUME IInv, RowInv, [DetailNext]_detailVars
               PROVE  IInv' /\ RowInv' /\ [Lifecycle!Next \/ LastResort]_(Lifecycle!lifecycleVars)
    OBVIOUS
  <2>1. [Next]_runVars
    BY DetailSteps DEF detailVars
  <2>2. IInv'
    BY <2>1, NextIInv
  <2>3. TypeOK /\ Placed /\ ReadHolds /\ row \in RowType /\ row' \in RowType
    BY <2>2 DEF IInv, TypeOK, RowType
  <2> QED
    BY <2>1, <2>2, <2>3, NextRow, LifecycleStep
<1> QED
  BY <1>1, <1>2, PTL DEF DetailSpec, FollowsLifecycle

(* The steps the worker has still to take in this run of the job: four     *)
(* for each step of the trainer that logs, two to end a group, and a few   *)
(* around them.                                                            *)
PerGroup == 4 * NumSteps + 2
LaterGroups == (NumGroups - group) * PerGroup
StepsLeft == 4 * (NumSteps - step)
WorkLeft ==
    CASE pc = "loading" -> NumGroups * PerGroup + 6
      [] pc = "starting" -> NumGroups * PerGroup + 5
      [] pc = "preparing" -> NumGroups * PerGroup + 4
      [] pc = "reporting" -> LaterGroups + StepsLeft + 8
      [] pc = "progress" -> LaterGroups + StepsLeft + 7
      [] pc = "point" -> LaterGroups + StepsLeft + 6
      [] pc = "stepping" -> LaterGroups + StepsLeft + 5
      [] pc = "saving" -> LaterGroups + 4
      [] pc = "deciding" -> 3
      [] pc \in {"marking", "completing"} -> 2
      [] pc \in {"cancelling", "failing"} -> 1
      [] pc = "idle" -> 0

(* Every step of the worker, failing or not, leaves it less to do, and no  *)
(* handler gives it more.                                                  *)
RunAdvances ==
    [][restarts' = restarts =>
          IF Worker THEN WorkLeft' < WorkLeft ELSE WorkLeft' = WorkLeft]_runVars

(* The groups that are left, as numbers, and one of them put aside.        *)
LEMMA GroupFacts ==
    /\ PerGroup \in Nat /\ NumGroups * PerGroup \in Nat
    /\ (NumGroups - 1) * PerGroup + PerGroup = NumGroups * PerGroup
    /\ \A g \in Groups :
         /\ (NumGroups - g) * PerGroup \in Nat
         /\ (NumGroups - g) * PerGroup + PerGroup <= NumGroups * PerGroup
         /\ g # NumGroups =>
              (NumGroups - (g + 1)) * PerGroup + PerGroup = (NumGroups - g) * PerGroup
<1>1. PerGroup \in Nat /\ NumGroups \in Nat \ {0}
  BY RunAssumption DEF PerGroup
<1> HIDE DEF PerGroup
<1>2. \A n \in Nat : n * PerGroup \in Nat /\ (n + 1) * PerGroup = n * PerGroup + PerGroup
  BY <1>1
<1>3. ASSUME NEW g \in Groups
      PROVE  /\ (NumGroups - g) * PerGroup \in Nat
             /\ (NumGroups - g) * PerGroup + PerGroup <= NumGroups * PerGroup
             /\ g # NumGroups =>
                  (NumGroups - (g + 1)) * PerGroup + PerGroup = (NumGroups - g) * PerGroup
  <2> DEFINE r == NumGroups - g
             d == g - 1
  <2>1. r \in Nat /\ d \in Nat /\ NumGroups = (r + 1) + d
    BY <1>1 DEF Groups
  <2>2. g # NumGroups => /\ r - 1 \in Nat /\ (r - 1) + 1 = r
                         /\ NumGroups - (g + 1) = r - 1
    BY <1>1, <2>1 DEF Groups
  <2> HIDE DEF r, d
  <2>3. ((r + 1) + d) * PerGroup = (r + 1) * PerGroup + d * PerGroup
    BY <1>1, <2>1
  <2>4. r * PerGroup \in Nat /\ d * PerGroup \in Nat
        /\ (r + 1) * PerGroup = r * PerGroup + PerGroup
    BY <1>2, <2>1
  <2>5. r * PerGroup + PerGroup <= NumGroups * PerGroup
    <3>1. NumGroups * PerGroup = (r * PerGroup + PerGroup) + d * PerGroup
      BY <2>1, <2>3, <2>4
    <3> QED
      BY <1>1, <2>4, <3>1
  <2>6. g # NumGroups => (r - 1) * PerGroup + PerGroup = r * PerGroup
    <3> SUFFICES ASSUME g # NumGroups PROVE (r - 1) * PerGroup + PerGroup = r * PerGroup
      OBVIOUS
    <3> DEFINE p == r - 1
    <3>1. p \in Nat /\ p + 1 = r
      BY <2>2
    <3> HIDE DEF p
    <3>2. p * PerGroup + PerGroup = r * PerGroup
      BY <1>2, <3>1
    <3> QED
      BY <3>2 DEF p
  <2>7. NumGroups - g = r
    BY DEF r
  <2> QED
    BY <2>2, <2>4, <2>5, <2>6, <2>7
<1>4. 1 \in Groups /\ NumGroups - 1 \in Nat /\ (NumGroups - 1) + 1 = NumGroups
  BY <1>1 DEF Groups
<1> QED
  BY <1>1, <1>2, <1>3, <1>4

(* A step of the worker leaves it less to do.                              *)
LEMMA WorkerShrinks ==
    ASSUME TypeOK, Placed, Worker
    PROVE  WorkLeft' < WorkLeft
<1> USE DEF At, Goto
<1> DEFINE N == NumGroups * PerGroup
<1>0. /\ NumSteps \in Nat \ {0} /\ step \in 0..NumSteps
      /\ N \in Nat /\ PerGroup = 4 * NumSteps + 2
  BY RunAssumption, GroupFacts DEF TypeOK, PerGroup
<1>a. pc \in {"stepping", "reporting", "progress", "point", "saving"} =>
        group \in Groups /\ LaterGroups \in Nat
  BY GroupFacts DEF Placed, LaterGroups
<1>b. StepsLeft \in Nat
  BY <1>0 DEF StepsLeft
<1> HIDE DEF N
<1>1. CASE Load
  <2>1. WorkLeft = N + 6 /\ WorkLeft' \in {0, 1, 2, N + 5}
    BY <1>1 DEF Load, WorkLeft, N
  <2> QED
    BY <1>0, <2>1
<1>2. CASE Start
  <2>1. WorkLeft = N + 5 /\ WorkLeft' \in {1, N + 4}
    BY <1>2 DEF Start, WorkLeft, N
  <2> QED
    BY <1>0, <2>1
<1>3. CASE Prepare
  <2>1. WorkLeft = N + 4
    BY <1>3 DEF Prepare, WorkLeft, N
  <2>2. CASE pc' = "cancelling"
    <3>1. WorkLeft' = 1
      BY <2>2 DEF WorkLeft
    <3> QED
      BY <1>0, <2>1, <3>1
  <2>3. CASE pc' = "stepping" /\ group' = 1 /\ step' = 0
    <3>1. WorkLeft' = LaterGroups' + StepsLeft' + 5
      BY <2>3 DEF WorkLeft
    <3>2. LaterGroups' = (NumGroups - 1) * PerGroup /\ StepsLeft' = 4 * NumSteps
      BY <1>0, <2>3 DEF LaterGroups, StepsLeft
    <3>3. LaterGroups' + PerGroup = N /\ LaterGroups' \in Nat
      <4>1. 1 \in Groups
        BY RunAssumption DEF Groups
      <4> QED
        BY <3>2, <4>1, GroupFacts DEF N
    <3> QED
      BY <1>0, <2>1, <3>1, <3>2, <3>3
  <2> QED
    BY <1>3, <2>2, <2>3 DEF Prepare, CheckCancel
<1>4. CASE TrainError
  <2>1. WorkLeft' = 1
    BY <1>4 DEF TrainError, WorkLeft
  <2>2. \/ WorkLeft = N + 4
        \/ LaterGroups \in Nat /\ WorkLeft = LaterGroups + StepsLeft + 5
        \/ LaterGroups \in Nat /\ WorkLeft = LaterGroups + 4
    BY <1>a, <1>4 DEF TrainError, WorkLeft, N
  <2> QED
    BY <1>0, <1>b, <2>1, <2>2
<1>5. CASE TrainStep
  <2>1. WorkLeft = LaterGroups + StepsLeft + 5 /\ LaterGroups \in Nat
    BY <1>a, <1>5 DEF TrainStep, WorkLeft
  <2>2. LaterGroups' = LaterGroups /\ StepsLeft' = StepsLeft - 4
    BY <1>0, <1>5 DEF TrainStep, LaterGroups, StepsLeft
  <2>3. WorkLeft' \in {1, LaterGroups' + StepsLeft' + 5, LaterGroups' + StepsLeft' + 8}
    BY <1>5 DEF TrainStep, CheckCancel, WorkLeft
  <2> QED
    BY <1>b, <2>1, <2>2, <2>3
<1>6. CASE Progress
  <2>1. WorkLeft = LaterGroups + StepsLeft + 7 /\ LaterGroups \in Nat
    BY <1>a, <1>6 DEF Progress, WorkLeft
  <2>2. LaterGroups' = LaterGroups /\ StepsLeft' = StepsLeft
    BY <1>6 DEF Progress, LaterGroups, StepsLeft, trainer
  <2>3. WorkLeft' \in {1, LaterGroups' + StepsLeft' + 5, LaterGroups' + StepsLeft' + 6}
    BY <1>6 DEF Progress, WorkLeft
  <2> QED
    BY <1>b, <2>1, <2>2, <2>3
<1>7. CASE Point
  <2>1. WorkLeft = LaterGroups + StepsLeft + 6 /\ LaterGroups \in Nat
    BY <1>a, <1>7 DEF Point, WorkLeft
  <2>2. LaterGroups' = LaterGroups /\ StepsLeft' = StepsLeft
    BY <1>7 DEF Point, LaterGroups, StepsLeft, trainer
  <2>3. WorkLeft' = LaterGroups' + StepsLeft' + 5
    BY <1>7 DEF Point, WorkLeft
  <2> QED
    BY <1>b, <2>1, <2>2, <2>3
<1>8. CASE Summary
  <2>1. WorkLeft = LaterGroups + StepsLeft + 5 /\ LaterGroups \in Nat
    BY <1>a, <1>8 DEF Summary, WorkLeft
  <2>2. LaterGroups' = LaterGroups
    BY <1>8 DEF Summary, LaterGroups, trainer
  <2>3. WorkLeft' \in {1, LaterGroups' + 4}
    BY <1>8 DEF Summary, WorkLeft
  <2> QED
    BY <1>b, <2>1, <2>2, <2>3
<1>9. CASE Save
  <2>1. WorkLeft = LaterGroups + 4 /\ LaterGroups \in Nat
    BY <1>a, <1>9 DEF Save, WorkLeft
  <2>0. group \in Groups
    BY <1>a, <1>9 DEF Save
  <2>2. CASE pc' \in {"deciding", "cancelling"}
    <3>1. WorkLeft' \in {1, 3}
      BY <2>2 DEF WorkLeft
    <3> QED
      BY <2>1, <3>1
  <2>3. CASE group # NumGroups /\ group' = group + 1 /\ step' = 0 /\ pc' = "stepping"
    <3>1. WorkLeft' = LaterGroups' + StepsLeft' + 5
      BY <2>3 DEF WorkLeft
    <3>2. LaterGroups' + PerGroup = LaterGroups
      BY <2>0, <2>3, GroupFacts DEF LaterGroups
    <3>3. LaterGroups' \in Nat
      <4>1. group + 1 \in Groups
        BY <2>0, <2>3, RunAssumption DEF Groups
      <4> QED
        BY <2>3, <4>1, GroupFacts DEF LaterGroups
    <3>4. StepsLeft' = 4 * NumSteps
      BY <1>0, <2>3 DEF StepsLeft
    <3>5. NumSteps \in Nat /\ LaterGroups' + (4 * NumSteps + 2) = LaterGroups
      BY <1>0, <3>2
    <3>6. \A a, b, n \in Nat : a + (4 * n + 2) = b => a + 4 * n + 5 < b + 4
      OBVIOUS
    <3>7. LaterGroups' + 4 * NumSteps + 5 < LaterGroups + 4
      BY <2>1, <3>3, <3>5, <3>6
    <3> QED
      BY <2>1, <3>1, <3>4, <3>7
  <2> QED
    BY <1>9, <2>2, <2>3 DEF Save, CheckCancel
<1>10. CASE Decide \/ Mark \/ Complete \/ Cancel \/ Fail
  BY <1>10 DEF Decide, Mark, Complete, Cancel, Fail, WorkLeft
<1>11. CASE Report
  <2>1. WorkLeft = LaterGroups + StepsLeft + 8 /\ LaterGroups \in Nat
    BY <1>a, <1>11 DEF Report, WorkLeft
  <2>2. LaterGroups' = LaterGroups /\ StepsLeft' = StepsLeft
    BY <1>11 DEF Report, LaterGroups, StepsLeft
  <2>3. WorkLeft' \in {1, LaterGroups' + StepsLeft' + 7}
    BY <1>11 DEF Report, CheckCancel, WorkLeft
  <2> QED
    BY <1>b, <2>1, <2>2, <2>3
<1> QED
  BY <1>1, <1>2, <1>3, <1>4, <1>5, <1>6, <1>7, <1>8, <1>9, <1>10, <1>11 DEF Worker

(* The worker is done with a job after a number of its own steps that      *)
(* depends on groups and steps alone, whatever fails and whatever the      *)
(* handlers do; scheduled, it therefore is done (RunEnds).                 *)
THEOREM RunAdvancesHolds ==
    Spec => RunAdvances /\ [](WorkLeft \in 0..(NumGroups * PerGroup + 6))
<1>1. ASSUME [Next]_runVars, restarts' = restarts, ~Worker, IInv
      PROVE  WorkLeft' = WorkLeft
  <2>1. UNCHANGED <<pc, group, step>>
    BY <1>1 DEF Next, Handler, RequestCancel, MarkCancelled, SetFlag, Delete, Restart, worker,
         trainer, counters, runVars, IInv, TypeOK
  <2> QED
    BY <2>1 DEF WorkLeft, LaterGroups, StepsLeft
<1>2. IInv /\ [Next]_runVars =>
        [restarts' = restarts =>
           IF Worker THEN WorkLeft' < WorkLeft ELSE WorkLeft' = WorkLeft]_runVars
  BY <1>1, WorkerShrinks DEF IInv
<1>3. IInv => WorkLeft \in 0..(NumGroups * PerGroup + 6)
  <2> SUFFICES ASSUME IInv PROVE WorkLeft \in 0..(NumGroups * PerGroup + 6)
    OBVIOUS
  <2> DEFINE N == NumGroups * PerGroup
  <2>1. /\ pc \in PCs /\ N \in Nat /\ NumSteps \in Nat \ {0} /\ step \in 0..NumSteps
        /\ PerGroup = 4 * NumSteps + 2
    BY RunAssumption, GroupFacts DEF IInv, TypeOK, PerGroup
  <2>2. pc \in {"stepping", "reporting", "progress", "point", "saving"} =>
          LaterGroups \in Nat /\ LaterGroups + PerGroup <= N
    BY GroupFacts DEF IInv, Placed, LaterGroups
  <2>3. pc \in {"reporting", "progress", "point"} => step \in 1..NumSteps
    BY DEF IInv, Placed, Steps
  <2>4. StepsLeft \in 0..(4 * NumSteps) /\ (step \in 1..NumSteps => StepsLeft <= 4 * NumSteps - 4)
    BY <2>1 DEF StepsLeft
  <2> HIDE DEF N
  <2>5. CASE pc \in {"stepping", "reporting", "progress", "point", "saving"}
    <3>1. WorkLeft \in {LaterGroups + 4, LaterGroups + StepsLeft + 5}
            \/ (pc \in {"reporting", "progress", "point"}
                 /\ WorkLeft \in {LaterGroups + StepsLeft + 6, LaterGroups + StepsLeft + 7,
                                  LaterGroups + StepsLeft + 8})
      BY <2>5 DEF WorkLeft
    <3>2. WorkLeft \in 0..(N + 6)
      BY <2>1, <2>2, <2>3, <2>4, <2>5, <3>1
    <3> QED
      BY <3>2 DEF N
  <2>6. CASE pc \notin {"stepping", "reporting", "progress", "point", "saving"}
    <3>1. WorkLeft \in {0, 1, 2, 3, N + 4, N + 5, N + 6}
      BY <2>1, <2>6 DEF WorkLeft, PCs, N
    <3>2. WorkLeft \in 0..(N + 6)
      BY <2>1, <3>1
    <3> QED
      BY <3>2 DEF N
  <2> QED
    BY <2>5, <2>6
<1> QED
  BY <1>2, <1>3, Inductive, PTL DEF Spec, RunAdvances
=============================================================================
