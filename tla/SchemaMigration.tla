--------------------------- MODULE SchemaMigration ---------------------------
(***************************************************************************)
(* What start-up does to a database written by an earlier version          *)
(* (db/init_db.py), with the process ending at any point, and how the loss *)
(* curves are read from it afterwards.  An older table of loss points has  *)
(* neither group nor target ("single"), no target ("grouped") or no group  *)
(* ("targeted"); a point without a group is given group 0 here.            *)
(*                                                                         *)
(* External: SQLite behind Python's driver.  A CREATE or ALTER is durable  *)
(* at once; the first INSERT opens a transaction, and what follows takes   *)
(* effect at the commit or not at all.  The index of a renamed table keeps *)
(* its name.                                                               *)
(***************************************************************************)
EXTENDS Naturals, Sequences

CONSTANTS
    Jobs,         \* the jobs of the older version
    Targets,      \* names of target columns
    Requests,     \* the targets of a request_json; << >> if it is unreadable
    MaxGroups,    \* bound: groups of a job
    Steps,        \* the steps at which losses were logged
    MaxFaults     \* bound: crashes and failing copies

ASSUME MigrationAssumption ==
    /\ Requests \subseteq Seq(Targets)
    /\ \A q \in Requests : Len(q) <= MaxGroups
    /\ MaxGroups \in Nat \ {0} /\ MaxFaults \in Nat

VARIABLES
    columns,      \* the columns of finetune_jobs that came later
    layout,       \* of finetune_job_losses, or "absent"
    points,       \* its rows
    old,          \* the rows of finetune_job_losses_old
    index,        \* the table that has ix_finetune_job_losses_job_id
    pc,           \* how far start-up is
    faults,
    request,      \* selected_groups of each job; never changes
    legacy,       \* the points there were before the upgrade; never changes
    interrupted   \* the jobs that were running; never changes

before == <<request, legacy, interrupted>>
table == <<layout, points, old, index>>
migrationVars == <<columns, table, pc, faults, before>>

Later == {"model_paths", "target_model_map"}
Older == {"single", "grouped", "targeted"}
Layouts == Older \cup {"absent", "new"}
PCs == {"down", "tables", "columns", "losses", "rename", "create", "copy", "serving"}

(* The name given to a group without a target. *)
AutoName(g) == <<"group", g + 1>>
NoTarget == <<"group", 0>>
AutoNames == {AutoName(g) : g \in 0..(MaxGroups - 1)} \cup {NoTarget}

Points ==
    [job : Jobs, group : 0..(MaxGroups - 1), step : Steps,
     target : Targets \cup AutoNames]

(* What a table of an older layout may hold. *)
Stored(p) ==
    CASE layout = "single" -> p.group = 0 /\ p.target = NoTarget
      [] layout = "grouped" -> p.target = NoTarget
      [] layout = "targeted" ->
           /\ p.group = 0 /\ p.target \in Targets
           /\ \/ request[p.job] = << >>
              \/ \E g \in DOMAIN request[p.job] : p.target = request[p.job][g]
      [] OTHER -> FALSE

Init ==
    /\ columns \in {{}, {"model_paths"}, Later}
    /\ layout \in Layouts
    /\ request \in [Jobs -> Requests]
    /\ interrupted \in SUBSET Jobs
    /\ legacy \in SUBSET {p \in Points : Stored(p)}
    /\ points = legacy
    /\ old = {}
    /\ index = IF layout = "absent" THEN "none" ELSE "losses"
    /\ pc = "down" /\ faults = 0

(***************************************************************************)
(* Start-up: init_db.                                                      *)
(***************************************************************************)
At(p) == pc = p
Goto(p) == pc' = p

Begin == At("down") /\ Goto("tables") /\ UNCHANGED <<columns, table, faults, before>>

(* As if a table were kept only together with its index. *)
CreateTablesAtOnce ==
    /\ At("tables")
    /\ IF layout # "absent"
       THEN Goto("columns") /\ UNCHANGED <<layout, points, index>>
       ELSE IF index = "none"
            THEN layout' = "new" /\ points' = {} /\ index' = "losses" /\ Goto("columns")
            ELSE Goto("down") /\ UNCHANGED <<layout, points, index>>
    /\ UNCHANGED <<columns, old, faults, before>>

(* create_all: a missing table, then its index, whose name may be taken by *)
(* the renamed table.  That error ends the process and leaves the table.   *)
CreateTables ==
    /\ At("tables")
    /\ IF layout # "absent"
       THEN Goto("columns") /\ UNCHANGED <<layout, points, index>>
       ELSE /\ layout' = "new" /\ points' = {}
            /\ IF index = "none"
               THEN index' = "losses" /\ Goto("columns")
               ELSE Goto("down") /\ UNCHANGED index
    /\ UNCHANGED <<columns, old, faults, before>>

AddColumns ==
    /\ At("columns")
    /\ IF columns = Later
       THEN Goto("losses") /\ UNCHANGED columns
       ELSE /\ columns' = columns \cup
                  {IF "model_paths" \in columns THEN "target_model_map" ELSE "model_paths"}
            /\ UNCHANGED pc
    /\ UNCHANGED <<table, faults, before>>

(* As if only the group were missed. *)
OutdatedBare == layout = "single"

Outdated == layout \in Older

InspectLosses ==
    /\ At("losses")
    /\ Goto(IF Outdated THEN "rename" ELSE "serving")
    /\ UNCHANGED <<columns, table, faults, before>>

Rename ==
    /\ At("rename")
    /\ old' = points /\ points' = {} /\ layout' = "absent"
    /\ index' = "old"
    /\ Goto("create")
    /\ UNCHANGED <<columns, faults, before>>

Create ==
    /\ At("create")
    /\ layout' = "new"
    /\ Goto("copy")
    /\ UNCHANGED <<columns, points, old, index, faults, before>>

(* As if the groups had been numbered from one. *)
ConvertedNext(p) == [p EXCEPT !.target = AutoName(p.group + 1)]

(* The names an INSERT ... SELECT gives, whatever target was stored. *)
Converted(p) == [p EXCEPT !.target = AutoName(p.group)]

(* Two points would become the same one of (job_id, target, step). *)
Clash(stored) == \E p, q \in stored : p # q /\ Converted(p) = Converted(q)

(* INSERT, DROP and CREATE INDEX are one transaction. *)
Copy ==
    /\ At("copy") /\ ~Clash(old)
    /\ points' = {Converted(p) : p \in old}
    /\ old' = {}
    /\ index' = "losses"
    /\ Goto("serving")
    /\ UNCHANGED <<columns, layout, faults, before>>

(* As if the old table were dropped whether the rows were copied or not. *)
CopyFailsDropping ==
    /\ At("copy")
    /\ faults < MaxFaults /\ faults' = faults + 1
    /\ old' = {}
    /\ Goto("down")
    /\ UNCHANGED <<columns, layout, points, index, before>>

(* A statement of the transaction fails, and start-up with it. *)
CopyFails ==
    /\ At("copy")
    /\ \/ faults < MaxFaults /\ faults' = faults + 1
       \/ Clash(old) /\ UNCHANGED faults
    /\ Goto("down")
    /\ UNCHANGED <<columns, table, before>>

StartUp ==
    \/ Begin \/ CreateTables \/ AddColumns \/ InspectLosses
    \/ Rename \/ Create \/ Copy \/ CopyFails

(***************************************************************************)
(* The service afterwards.                                                 *)
(***************************************************************************)
Crash ==
    /\ pc # "down"
    /\ faults < MaxFaults /\ faults' = faults + 1
    /\ Goto("down")
    /\ UNCHANGED <<columns, table, before>>

(* A job that was running is trained again: upsert_job_loss_point. *)
LogLoss ==
    /\ At("serving")
    /\ \E j \in interrupted, s \in Steps : \E g \in DOMAIN request[j] :
         points' = points \cup
             {[job |-> j, group |-> g - 1, step |-> s, target |-> request[j][g]]}
    /\ UNCHANGED <<columns, layout, old, index, pc, faults, before>>

Next == StartUp \/ Crash \/ LogLoss

(* The process is started again and start-up goes on. *)
Spec == Init /\ [][Next]_migrationVars /\ WF_migrationVars(StartUp)

(* The target of the g-th group of a job, from zero. *)
TargetOf(j, g) == IF g < Len(request[j]) THEN request[j][g + 1] ELSE AutoName(g)

(* As if a stored name were shown as it is. *)
LabelStored(p) == p.target

(* _build_loss_metrics: under which name a stored point is shown. *)
Label(p) == IF p.target \in AutoNames THEN TargetOf(p.job, p.group) ELSE p.target

(* The curves of a job that GET .../jobs/{id} shows: target, step. *)
Curves(j) == {<<Label(p), p.step>> : p \in {q \in points : q.job = j}}

LegacyCurves(j) ==
    {<<TargetOf(j, p.group), p.step>> : p \in {q \in legacy : q.job = j}}
-----------------------------------------------------------------------------

(* The state has the shape the code gives it. *)
TypeOK ==
    /\ columns \subseteq Later
    /\ layout \in Layouts
    /\ points \subseteq Points /\ old \subseteq Points /\ legacy \subseteq Points
    /\ index \in {"none", "losses", "old"}
    /\ pc \in PCs
    /\ faults \in 0..MaxFaults
    /\ request \in [Jobs -> Requests]
    /\ interrupted \subseteq Jobs

(* The service never runs on an older schema, whichever start-ups were cut *)
(* short before (init_db runs to its end before the worker starts).        *)
SchemaReady == pc = "serving" => columns = Later /\ layout = "new"

(* Wherever start-up is cut short, every loss point of the older version   *)
(* is still in the database, in one table or the other: what is copied is  *)
(* dropped in the same transaction.  Of a point without a group the copy   *)
(* keeps the step and the loss, not the target.                            *)
NothingDestroyed ==
    \A p \in legacy : p \in old \/ p \in points \/ Converted(p) \in points

(* An upgrade that is not cut short shows the curves of every job that was *)
(* not running under the targets of its request, although the copy cannot  *)
(* know them (init_db, _build_loss_metrics): a point of group g under the  *)
(* g-th, one without a group under the first, whichever it was stored for. *)
(* One that was cut short, or that found two points of a job with the same *)
(* step for two targets but no groups, shows such a job with all of its    *)
(* curves or with none of them, never with a part.                         *)
CurvesKept ==
    pc = "serving" =>
        \A j \in Jobs \ interrupted :
            \/ Curves(j) = LegacyCurves(j)
            \/ Curves(j) = {} /\ (faults > 0 \/ Clash(legacy))

(* Whatever start-up trips over, the service runs in the end: an index     *)
(* that is in the way stops one start-up, not the next, and points that    *)
(* cannot be copied are left behind in the renamed table.                  *)
Serves == pc # "serving" ~> pc = "serving"
=============================================================================
