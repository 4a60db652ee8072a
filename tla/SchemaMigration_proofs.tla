----------------------- MODULE SchemaMigration_proofs -----------------------
(* Proofs about SchemaMigration, for any jobs, requests, steps and number  *)
(* of crashes and failing copies.                                          *)
EXTENDS SchemaMigration, TLAPS

(* How far start-up is tells what the schema is.                           *)
Stages ==
    /\ pc \in {"losses", "rename", "create", "copy", "serving"} => columns = Later
    /\ pc \in {"columns", "losses"} => layout # "absent"
    /\ pc = "rename" => Outdated
    /\ pc = "create" => layout = "absent"
    /\ pc \in {"copy", "serving"} => layout = "new"

(* Where the points of the older version are.                              *)
Whereabouts ==
    /\ Outdated => points = legacy /\ old = {}
    /\ layout = "absent" => points = {}
    /\ pc = "copy" => points = {}
    /\ pc \in {"create", "copy"} => old = legacy

(* The points of a job, and those it has once they are copied.             *)
Of(j) == {q \in points : q.job = j}
Copied(j) == {Converted(p) : p \in {q \in legacy : q.job = j}}

(* The copy is all or nothing, and not skipped unless start-up is cut or   *)
(* two points clash.                                                       *)
CopiedOrNot ==
    /\ ~Outdated => \A j \in Jobs \ interrupted : Of(j) \in {{}, Copied(j)}
    /\ faults = 0 /\ layout = "absent" /\ pc # "create" => legacy = {}
    /\ faults = 0 /\ ~Clash(legacy) /\ layout = "new" /\ pc # "copy" =>
         \A j \in Jobs \ interrupted : Of(j) = Copied(j)

IInv == TypeOK /\ Stages /\ Whereabouts /\ NothingDestroyed /\ CopiedOrNot

(* A copied point keeps everything but its target.                         *)
LEMMA ConvertedFacts ==
    ASSUME NEW p \in Points
    PROVE  /\ Converted(p) \in Points
           /\ Converted(p).job = p.job /\ Converted(p).group = p.group
           /\ Converted(p).step = p.step /\ Converted(p).target = AutoName(p.group)
           /\ AutoName(p.group) \in AutoNames
BY DEF Points, Converted, AutoNames

(* An older table holds what it held, and no table holds nothing.          *)
LEMMA InitInv == Init => IInv
<1> SUFFICES ASSUME Init PROVE IInv
  OBVIOUS
<1>1. TypeOK
  BY MigrationAssumption DEF Init, TypeOK, Later, PCs, Layouts, Older
<1>2. Stages /\ Whereabouts /\ NothingDestroyed
  <2>1. layout = "absent" => legacy = {}
    BY DEF Init, Stored
  <2> QED
    BY <2>1 DEF Init, Stages, Whereabouts, NothingDestroyed, Outdated, Older
<1>3. ~Outdated => legacy = {} /\ points = {}
  BY DEF Init, Outdated, Older, Stored, Layouts
<1>4. CopiedOrNot
  BY <1>3 DEF CopiedOrNot, Of, Copied, Outdated, Older
<1> QED
  BY <1>1, <1>2, <1>4 DEF IInv

(* Each step keeps the types.                                              *)
LEMMA NextTypeOK == TypeOK /\ Next => TypeOK'
<1> SUFFICES ASSUME TypeOK, Next PROVE TypeOK'
  OBVIOUS
<1> USE DEF TypeOK, table, before
<1>0. MaxFaults \in Nat /\ MaxGroups \in Nat \ {0} /\ Requests \subseteq Seq(Targets)
      /\ \A q \in Requests : Len(q) <= MaxGroups
  BY MigrationAssumption
<1>1. CASE Begin \/ CreateTables
  BY <1>1 DEF Begin, CreateTables, Goto, PCs, Layouts, Older
<1>2. CASE AddColumns
  BY <1>2 DEF AddColumns, Goto, PCs, Later
<1>3. CASE InspectLosses \/ Rename \/ Create
  BY <1>3 DEF InspectLosses, Rename, Create, Goto, PCs, Layouts, Older
<1>4. CASE Copy
  <2>1. points' \subseteq Points
    BY <1>4, ConvertedFacts DEF Copy
  <2> QED
    BY <1>4, <2>1 DEF Copy, Goto, PCs
<1>5. CASE CopyFails \/ Crash
  BY <1>0, <1>5 DEF CopyFails, Crash, Goto, PCs
<1>6. CASE LogLoss
  <2>1. PICK j \in interrupted, s \in Steps : \E g \in DOMAIN request[j] :
          points' = points \cup
             {[job |-> j, group |-> g - 1, step |-> s, target |-> request[j][g]]}
    BY <1>6 DEF LogLoss
  <2>2. PICK g \in DOMAIN request[j] :
          points' = points \cup
             {[job |-> j, group |-> g - 1, step |-> s, target |-> request[j][g]]}
    BY <2>1
  <2>3. request[j] \in Seq(Targets) /\ Len(request[j]) <= MaxGroups
    BY <1>0
  <2>4. request[j][g] \in Targets /\ g - 1 \in 0..(MaxGroups - 1)
    BY <1>0, <2>3
  <2>5. [job |-> j, group |-> g - 1, step |-> s, target |-> request[j][g]] \in Points
    BY <2>4 DEF Points
  <2> QED
    BY <1>6, <2>2, <2>5 DEF LogLoss
<1> QED
  BY <1>1, <1>2, <1>3, <1>4, <1>5, <1>6 DEF Next, StartUp

(* Each step keeps the schema in step with the start-up.                   *)
LEMMA NextStages == TypeOK /\ Stages /\ Next => Stages'
BY DEF TypeOK, Stages, Next, StartUp, Begin, CreateTables, AddColumns, InspectLosses, Rename,
   Create, Copy, CopyFails, Crash, LogLoss, At, Goto, Outdated, Layouts, Older, table, before

(* Each step knows where the older points are.                             *)
LEMMA NextWhereabouts == TypeOK /\ Stages /\ Whereabouts /\ Next => Whereabouts'
BY DEF TypeOK, Stages, Whereabouts, Next, StartUp, Begin, CreateTables, AddColumns,
   InspectLosses, Rename, Create, Copy, CopyFails, Crash, LogLoss, At, Goto, Outdated, Layouts,
   Older, table, before

(* Each step leaves every older point in one table or the other.           *)
LEMMA NextNothingDestroyed == IInv /\ Next => NothingDestroyed'
<1> SUFFICES ASSUME IInv, Next, NEW p \in legacy
             PROVE  p \in old' \/ p \in points' \/ Converted(p) \in points'
  BY DEF NothingDestroyed, Next, StartUp, Begin, CreateTables, AddColumns, InspectLosses, Rename,
     Create, Copy, CopyFails, Crash, LogLoss, before
<1>0. p \in old \/ p \in points \/ Converted(p) \in points
  BY DEF IInv, NothingDestroyed
<1>1. CASE CreateTables
  BY <1>0, <1>1 DEF CreateTables, IInv, Whereabouts
<1>2. CASE Rename
  <2>1. points = legacy
    BY <1>2 DEF Rename, At, IInv, Stages, Whereabouts
  <2> QED
    BY <1>2, <2>1 DEF Rename
<1>3. CASE Copy
  BY <1>3 DEF Copy, At, IInv, Whereabouts
<1>4. CASE LogLoss
  BY <1>0, <1>4 DEF LogLoss
<1>5. CASE UNCHANGED <<points, old>>
  BY <1>0, <1>5
<1> QED
  BY <1>1, <1>2, <1>3, <1>4, <1>5 DEF Next, StartUp, Begin, AddColumns, InspectLosses, Create,
     CopyFails, Crash, table

(* Each step copies the points of a job all together or not at all.        *)
LEMMA NextCopiedOrNot == IInv /\ Next => CopiedOrNot'
<1> SUFFICES ASSUME IInv, Next PROVE CopiedOrNot'
  OBVIOUS
<1>0. /\ legacy' = legacy /\ interrupted' = interrupted
      /\ TypeOK /\ Stages /\ Whereabouts /\ CopiedOrNot /\ faults \in Nat
  BY MigrationAssumption DEF IInv, TypeOK, Next, StartUp, Begin, CreateTables, AddColumns,
     InspectLosses, Rename, Create, Copy, CopyFails, Crash, LogLoss, before
<1>a. \A j : Copied(j)' = Copied(j)
  BY <1>0 DEF Copied
<1>1. CASE Begin \/ AddColumns \/ InspectLosses
  <2>1. /\ UNCHANGED <<layout, points, faults>>
        /\ pc \notin {"create", "copy"} /\ pc' \notin {"create", "copy"}
    BY <1>1 DEF Begin, AddColumns, InspectLosses, At, Goto, table
  <2>2. \A j : Of(j)' = Of(j)
    BY <2>1 DEF Of
  <2> QED
    BY <1>0, <1>a, <2>1, <2>2 DEF CopiedOrNot, Outdated, Older
<1>2. CASE CreateTables
  <2>1. pc = "tables" /\ pc' \in {"columns", "down"} /\ faults' = faults
    BY <1>2 DEF CreateTables, At, Goto
  <2>2. CASE layout = "absent"
    <3>1. layout' = "new" /\ points' = {}
      BY <1>2, <2>2 DEF CreateTables
    <3>2. \A j : Of(j)' = {}
      BY <3>1 DEF Of
    <3>3. faults = 0 => legacy = {}
      BY <1>0, <2>1, <2>2 DEF CopiedOrNot
    <3> QED
      BY <1>0, <1>a, <2>1, <3>1, <3>2, <3>3 DEF CopiedOrNot, Copied
  <2>3. CASE layout # "absent"
    <3>1. layout' = layout /\ points' = points
      BY <1>2, <2>3 DEF CreateTables
    <3>2. \A j : Of(j)' = Of(j)
      BY <3>1 DEF Of
    <3> QED
      BY <1>0, <1>a, <2>1, <2>3, <3>1, <3>2 DEF CopiedOrNot, Outdated, Older
  <2> QED
    BY <2>2, <2>3
<1>3. CASE Rename \/ Create
  <2>1. /\ points' = {} /\ faults' = faults
        /\ \/ layout' = "absent" /\ pc' = "create"
           \/ layout' = "new" /\ pc' = "copy"
    BY <1>0, <1>3 DEF Rename, Create, At, Goto, Stages, Whereabouts
  <2>2. \A j : Of(j)' = {}
    BY <2>1 DEF Of
  <2> QED
    BY <2>1, <2>2 DEF CopiedOrNot
<1>4. CASE Copy
  <2>1. /\ points' = {Converted(p) : p \in legacy} /\ layout' = "new" /\ legacy \subseteq Points
    BY <1>0, <1>4 DEF Copy, At, Stages, Whereabouts, TypeOK
  <2>2. \A j : Of(j)' = Copied(j)
    BY <2>1, ConvertedFacts DEF Of, Copied
  <2> QED
    BY <1>a, <2>1, <2>2 DEF CopiedOrNot
<1>5. CASE CopyFails \/ Crash
  <2>1. /\ layout' = layout /\ points' = points
        /\ faults' # 0 \/ (Clash(legacy) /\ layout = "new")
    BY <1>0, <1>5 DEF CopyFails, Crash, At, Stages, Whereabouts, table
  <2>2. \A j : Of(j)' = Of(j)
    BY <2>1 DEF Of
  <2> QED
    BY <1>0, <1>a, <2>1, <2>2 DEF CopiedOrNot, Outdated, Older
<1>6. CASE LogLoss
  <2>1. /\ pc = "serving" /\ layout = "new"
        /\ UNCHANGED <<layout, faults, pc>>
    BY <1>0, <1>6 DEF LogLoss, At, Stages
  <2>2. ASSUME NEW j \in Jobs \ interrupted PROVE Of(j)' = Of(j)
    BY <1>6, <2>2 DEF LogLoss, Of
  <2> QED
    BY <1>0, <1>a, <2>1, <2>2 DEF CopiedOrNot, Outdated, Older
<1> QED
  BY <1>1, <1>2, <1>3, <1>4, <1>5, <1>6 DEF Next, StartUp

(* Steps that change nothing keep everything.                              *)
LEMMA Stutters == IInv /\ UNCHANGED migrationVars => IInv'
BY DEF IInv, TypeOK, Stages, Whereabouts, NothingDestroyed, CopiedOrNot, Of, Copied, Outdated,
   migrationVars, table, before

(* The inductive invariant holds in every reachable state.                 *)
LEMMA Inductive == Spec => []IInv
<1>1. IInv /\ Next => IInv'
  BY NextTypeOK, NextStages, NextWhereabouts, NextNothingDestroyed, NextCopiedOrNot DEF IInv
<1> QED
  BY InitInv, Stutters, <1>1, PTL DEF Spec

(* A copied point of a job is shown as its older self was.                 *)
LEMMA CopiedCurves ==
    ASSUME TypeOK, NEW j \in Jobs, Of(j) = Copied(j)
    PROVE  Curves(j) = LegacyCurves(j)
<1>1. \A p \in legacy : p \in Points
  BY DEF TypeOK
<1>2. \A p \in legacy : Label(Converted(p)) = TargetOf(p.job, p.group)
  BY <1>1, ConvertedFacts DEF Label
<1>3. Curves(j) = {<<Label(c), c.step>> : c \in Copied(j)}
  BY DEF Curves, Of
<1>4. \A p \in legacy : Converted(p).step = p.step
  BY <1>1, ConvertedFacts
<1>5. {<<Label(c), c.step>> : c \in Copied(j)} =
        {<<Label(Converted(p)), Converted(p).step>> : p \in {q \in legacy : q.job = j}}
  BY DEF Copied
<1>6. \A p \in {q \in legacy : q.job = j} :
        <<Label(Converted(p)), Converted(p).step>> = <<TargetOf(j, p.group), p.step>>
  BY <1>2, <1>4
<1> QED
  BY <1>3, <1>5, <1>6 DEF LegacyCurves

(* The state keeps the shape the code gives it.                            *)
THEOREM MigrationTypeCorrect == Spec => []TypeOK
<1>1. IInv => TypeOK
  BY DEF IInv
<1> QED
  BY Inductive, <1>1, PTL

(* The service runs on the new schema only, however often start-up is cut. *)
THEOREM SchemaReadyHolds == Spec => []SchemaReady
<1>1. IInv => SchemaReady
  BY DEF IInv, Stages, SchemaReady
<1> QED
  BY Inductive, <1>1, PTL

(* No loss point of the older version is destroyed, wherever it is cut.    *)
THEOREM NothingDestroyedHolds == Spec => []NothingDestroyed
<1>1. IInv => NothingDestroyed
  BY DEF IInv
<1> QED
  BY Inductive, <1>1, PTL

(* A start-up that is not cut short and whose points do not clash keeps    *)
(* the curves of the older version under the targets their groups stand    *)
(* for; any other shows all of the curves of a job, or none.               *)
THEOREM CurvesKeptHolds == Spec => []CurvesKept
<1>1. ASSUME IInv, pc = "serving", NEW j \in Jobs \ interrupted
      PROVE  \/ Curves(j) = LegacyCurves(j)
             \/ Curves(j) = {} /\ (faults > 0 \/ Clash(legacy))
  <2>1. /\ Of(j) \in {{}, Copied(j)}
        /\ faults = 0 /\ ~Clash(legacy) => Of(j) = Copied(j)
        /\ faults \in Nat
    BY <1>1, MigrationAssumption DEF IInv, TypeOK, Stages, CopiedOrNot, Outdated, Older
  <2>2. CASE Of(j) = {} /\ (faults # 0 \/ Clash(legacy))
    BY <2>1, <2>2 DEF Curves, Of
  <2>3. CASE Of(j) = Copied(j)
    BY <1>1, <2>3, CopiedCurves DEF IInv
  <2> QED
    BY <2>1, <2>2, <2>3
<1>2. IInv => CurvesKept
  BY <1>1 DEF CurvesKept
<1> QED
  BY Inductive, <1>2, PTL

(* The steps start-up has still to take, if nothing else fails; an index   *)
(* that is in the way costs it a start more, and so do points that clash.  *)
ColumnsLeft == IF columns = Later THEN 0 ELSE IF "model_paths" \in columns THEN 1 ELSE 2
InTheWay == layout = "absent" /\ index # "none"
StartMore == IF Clash(legacy) /\ (Outdated \/ pc \in {"create", "copy"}) THEN 9 ELSE 0
StepsLeft == StartMore +
    CASE pc = "down" -> IF InTheWay THEN 11 ELSE 9
      [] pc = "tables" -> IF InTheWay THEN 10 ELSE 8
      [] pc = "columns" -> 5 + ColumnsLeft
      [] pc = "losses" -> 4
      [] pc = "rename" -> 3
      [] pc = "create" -> 2
      [] pc = "copy" -> 1
      [] pc = "serving" -> 0

(* What is left when each fault that is still to come ruins a start.       *)
StartLeft == 19 * (MaxFaults - faults) + StepsLeft

(* Each step of start-up, and each crash, brings the service closer to     *)
(* running, and running does not undo that.                                *)
StartAdvances ==
    [][IF StartUp \/ Crash THEN StartLeft' < StartLeft ELSE StartLeft' = StartLeft]_migrationVars

(* What is left is a number below nineteen.                                *)
LEMMA StepsLeftFacts ==
    /\ TypeOK => StepsLeft \in 0..18
    /\ TypeOK' => StepsLeft' \in 0..18
<1>1. ASSUME TypeOK PROVE StepsLeft \in 0..18
  <2>1. CASE InTheWay /\ pc \notin {"create", "copy"}
    BY <1>1, <2>1 DEF TypeOK, PCs, StepsLeft, StartMore, ColumnsLeft, InTheWay, Outdated, Older
  <2>2. CASE ~(InTheWay /\ pc \notin {"create", "copy"})
    BY <1>1, <2>2 DEF TypeOK, PCs, StepsLeft, StartMore, ColumnsLeft
  <2> QED
    BY <2>1, <2>2
<1>2. ASSUME TypeOK' PROVE StepsLeft' \in 0..18
  <2>1. CASE InTheWay' /\ pc' \notin {"create", "copy"}
    BY <1>2, <2>1 DEF TypeOK, PCs, StepsLeft, StartMore, ColumnsLeft, InTheWay, Outdated, Older
  <2>2. CASE ~(InTheWay' /\ pc' \notin {"create", "copy"})
    BY <1>2, <2>2 DEF TypeOK, PCs, StepsLeft, StartMore, ColumnsLeft
  <2> QED
    BY <2>1, <2>2
<1> QED
  BY <1>1, <1>2

(* A step without a fault leaves less to do, one with a fault less hope.   *)
LEMMA StartStep ==
    ASSUME IInv, IInv', StartUp \/ Crash
    PROVE  \/ faults' = faults /\ StepsLeft' < StepsLeft
           \/ faults' = faults + 1
<1> USE DEF At, Goto
<1>0. /\ TypeOK /\ Stages /\ Whereabouts /\ legacy' = legacy
      /\ StartMore \in {0, 9} /\ StartMore' \in {0, 9}
  BY DEF IInv, StartMore, StartUp, Begin, CreateTables, AddColumns, InspectLosses, Rename, Create,
     Copy, CopyFails, Crash, before
<1>a. UNCHANGED layout /\ pc \notin {"create", "copy"} /\ pc' \notin {"create", "copy"} =>
        StartMore' = StartMore
  BY <1>0 DEF StartMore, Outdated
<1>1. CASE Begin
  <2>1. StartMore' = StartMore /\ faults' = faults
    BY <1>1, <1>a DEF Begin, table
  <2> QED
    BY <1>0, <1>1, <2>1 DEF Begin, StepsLeft, InTheWay, table
<1>2. CASE CreateTables
  <2>1. layout' # "absent" /\ faults' = faults
    BY <1>2 DEF CreateTables
  <2>2. CASE InTheWay
    <3>1. pc = "tables" /\ pc' = "down"
      BY <1>2, <2>2 DEF CreateTables, InTheWay
    <3>2. StartMore = 0 /\ StartMore' = 0
      BY <1>2, <2>2, <3>1 DEF CreateTables, StartMore, InTheWay, Outdated, Older
    <3>3. StepsLeft = 10 /\ StepsLeft' = 9
      BY <2>1, <2>2, <3>1, <3>2 DEF StepsLeft, InTheWay
    <3> QED
      BY <2>1, <3>3
  <2>3. CASE ~InTheWay
    <3>1. pc = "tables" /\ pc' = "columns"
      BY <1>2, <2>3 DEF CreateTables, InTheWay
    <3>2. StartMore' = StartMore
      <4>1. layout' = layout \/ (layout = "absent" /\ layout' = "new")
        BY <1>2 DEF CreateTables
      <4> QED
        BY <1>0, <3>1, <4>1 DEF StartMore, Outdated, Older
    <3>3. StepsLeft = StartMore + 8 /\ StepsLeft' = StartMore + 5 + ColumnsLeft'
      BY <1>0, <2>3, <3>1, <3>2 DEF StepsLeft, ColumnsLeft
    <3>4. ColumnsLeft' \in {0, 1, 2}
      BY DEF ColumnsLeft
    <3>5. \A m \in {0, 9} : \A c \in {0, 1, 2} : m + 5 + c < m + 8
      OBVIOUS
    <3> QED
      BY <1>0, <2>1, <3>3, <3>4, <3>5
  <2> QED
    BY <2>2, <2>3
<1>3. CASE AddColumns
  <2>1. pc = "columns" /\ faults' = faults /\ StartMore' = StartMore
    BY <1>3, <1>a DEF AddColumns, table
  <2>2. StepsLeft = StartMore + (5 + ColumnsLeft)
    BY <2>1 DEF StepsLeft
  <2>3. CASE columns = Later
    BY <1>0, <1>3, <2>1, <2>2, <2>3 DEF AddColumns, StepsLeft, ColumnsLeft
  <2>4. CASE columns # Later
    <3>1. ColumnsLeft' < ColumnsLeft /\ StepsLeft' = StartMore + (5 + ColumnsLeft')
      BY <1>0, <2>1, <1>3, <2>4 DEF AddColumns, StepsLeft, ColumnsLeft, Later, TypeOK
    <3>2. ColumnsLeft \in {0, 1, 2} /\ ColumnsLeft' \in {0, 1, 2}
      BY DEF ColumnsLeft
    <3>3. StepsLeft' < StepsLeft
      <4>1. \A m \in {0, 9} : \A a, b \in {0, 1, 2} : a < b => m + (5 + a) < m + (5 + b)
        OBVIOUS
      <4> QED
        BY <1>0, <2>2, <3>1, <3>2, <4>1
    <3> QED
      BY <2>1, <3>3
  <2> QED
    BY <2>3, <2>4
<1>4. CASE InspectLosses \/ Rename \/ Create
  <2>1. StartMore' = StartMore /\ faults' = faults
    BY <1>0, <1>4 DEF InspectLosses, Rename, Create, StartMore, Stages, Outdated, Older, table
  <2> QED
    BY <1>0, <1>4, <2>1 DEF InspectLosses, Rename, Create, StepsLeft
<1>5. CASE Copy
  <2>1. StartMore = 0 /\ StartMore' = 0
    BY <1>0, <1>5 DEF Copy, StartMore, Whereabouts, Stages, Outdated, Older
  <2> QED
    BY <1>5, <2>1 DEF Copy, StepsLeft
<1>6. CASE CopyFails \/ Crash
  <2>1. CASE faults' = faults + 1
    BY <2>1
  <2>2. CASE CopyFails /\ Clash(old) /\ UNCHANGED faults
    <3>1. pc = "copy" /\ pc' = "down" /\ layout = "new" /\ layout' = "new" /\ Clash(legacy)
      BY <1>0, <2>2 DEF CopyFails, Stages, Whereabouts, table
    <3>2. StartMore = 9 /\ StartMore' = 0
      BY <3>1 DEF StartMore, Outdated, Older
    <3>3. StepsLeft = 10 /\ StepsLeft' = 9
      BY <3>1, <3>2 DEF StepsLeft, InTheWay
    <3> QED
      BY <2>2, <3>3
  <2> QED
    BY <1>6, <2>1, <2>2 DEF CopyFails, Crash
<1> QED
  BY <1>1, <1>2, <1>3, <1>4, <1>5, <1>6 DEF StartUp

(* The service runs after at most eighteen steps of start-up for each      *)
(* fault and eighteen more; started again, it therefore runs (Serves).     *)
THEOREM StartAdvancesHolds ==
    Spec => StartAdvances /\ [](StartLeft \in 0..(19 * MaxFaults + 18))
<1>1. ASSUME IInv, IInv', StartUp \/ Crash PROVE StartLeft' < StartLeft
  <2>0. faults \in Nat /\ faults' \in Nat /\ MaxFaults \in Nat
    BY <1>1, MigrationAssumption DEF IInv, TypeOK
  <2>1. StepsLeft \in 0..18 /\ StepsLeft' \in 0..18
    BY <1>1, StepsLeftFacts DEF IInv
  <2>2. \/ faults' = faults /\ StepsLeft' < StepsLeft
        \/ faults' = faults + 1
    BY <1>1, StartStep
  <2>3. \A m, f, g \in Nat : \A s, t \in 0..18 :
          (g = f /\ t < s) \/ g = f + 1 => 19 * (m - g) + t < 19 * (m - f) + s
    OBVIOUS
  <2>4. 19 * (MaxFaults - faults') + StepsLeft' < 19 * (MaxFaults - faults) + StepsLeft
    BY <2>0, <2>1, <2>2, <2>3
  <2> QED
    BY <2>4 DEF StartLeft
<1>2. ASSUME LogLoss PROVE StartLeft' = StartLeft
  <2>1. UNCHANGED <<pc, layout, legacy, faults>> /\ pc = "serving"
    BY <1>2 DEF LogLoss, At, before
  <2>2. StartMore' = StartMore
    BY <2>1 DEF StartMore, Outdated
  <2> QED
    BY <2>1, <2>2 DEF StartLeft, StepsLeft
<1>3. IInv /\ IInv' /\ [Next]_migrationVars =>
        [IF StartUp \/ Crash THEN StartLeft' < StartLeft ELSE StartLeft' = StartLeft]_migrationVars
  BY <1>1, <1>2 DEF IInv, Next
<1>4. IInv => StartLeft \in 0..(19 * MaxFaults + 18)
  <2> SUFFICES ASSUME IInv PROVE StartLeft \in 0..(19 * MaxFaults + 18)
    OBVIOUS
  <2>1. StepsLeft \in 0..18 /\ faults \in 0..MaxFaults /\ MaxFaults \in Nat
    BY StepsLeftFacts, MigrationAssumption DEF IInv, TypeOK
  <2> QED
    BY <2>1 DEF StartLeft
<1> QED
  BY <1>3, <1>4, Inductive, PTL DEF Spec, StartAdvances
=============================================================================
