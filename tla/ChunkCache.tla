----------------------------- MODULE ChunkCache -----------------------------
(***************************************************************************)
(* The per-task model cache of segmented inference,                        *)
(* app/services/chunk_inference_service.py: the first segment of a task    *)
(* loads the models of a released directory, the following ones reuse      *)
(* them, the last one releases them.  Entries also expire, but only when a *)
(* later segment, of any task, looks the cache up.                         *)
(*                                                                         *)
(* The handler of POST /infer/chunk never awaits, so the event loop serves *)
(* one segment at a time; run_chunk_inference is also called by concurrent *)
(* threads (test_inference_chunk_api.py), for which _TASK_CACHE_LOCK is    *)
(* there.  Parallel chooses between the two.                               *)
(***************************************************************************)
EXTENDS Naturals, FiniteSets

CONSTANTS
    Tasks,        \* the task ids clients use
    Paths,        \* the resolved paths of released model directories
    Callers,      \* the segments that can be served at the same time
    TTL,          \* chunk_infer_cache_ttl_seconds, in ticks; 0: never expires
    MaxTasks,     \* chunk_infer_cache_max_tasks, at least 1
    Parallel,     \* do callers run concurrently
    NoPath,       \* no entry
    NoCaller      \* the lock is free

ASSUME ChunkAssumption ==
    /\ IsFiniteSet(Tasks)
    /\ TTL \in Nat
    /\ MaxTasks \in Nat \ {0}
    /\ Parallel \in BOOLEAN
    /\ NoPath \notin Paths
    /\ NoCaller \notin Callers

VARIABLES
    cache,        \* _TASK_CACHE: task -> model_path of its entry, or NoPath
    idle,         \* now - last_access_at of the entry, as far as TTL + 1
    lock,         \* who holds _TASK_CACHE_LOCK while it loads models
    seg           \* the segment each caller is serving

chunkVars == <<cache, idle, lock, seg>>

SegmentStates ==
    [pc : {"idle", "lookup", "loading"},
     task : Tasks, path : Paths, last : BOOLEAN, entry : {NoPath}]
    \cup [pc : {"predicting", "releasing"},
          task : Tasks, path : Paths, last : BOOLEAN, entry : Paths]

Idle(c) == seg[c].pc = "idle"

Init ==
    /\ cache = [t \in Tasks |-> NoPath]
    /\ idle = [t \in Tasks |-> 0]
    /\ lock = NoCaller
    /\ seg \in [Callers -> {s \in SegmentStates :
                              s.pc = "idle" /\ ~s.last}]

At(c, pc) == seg[c].pc = pc
Answer(c) == seg' = [seg EXCEPT ![c].pc = "idle", ![c].entry = NoPath]

(* A segment arrives with its task, its model path and the last flag. *)
Receive(c) ==
    /\ Idle(c)
    /\ Parallel \/ \A d \in Callers : Idle(d)
    /\ \E t \in Tasks, p \in Paths, l \in BOOLEAN :
         seg' = [seg EXCEPT ![c] =
             [pc |-> "lookup", task |-> t, path |-> p, last |-> l, entry |-> NoPath]]
    /\ UNCHANGED <<cache, idle, lock>>

Cached(C) == {t \in Tasks : C[t] # NoPath}

(* As if an entry exactly as old as the limit expired too. *)
StaleAtLimit(t) == TTL > 0 /\ idle[t] >= TTL

Stale(t) == TTL > 0 /\ idle[t] > TTL

(* As if nothing were expired before the cache is looked up. *)
KeptAll == cache

(* What _expire_stale_tasks_unlocked leaves. *)
Kept == [t \in Tasks |-> IF Stale(t) THEN NoPath ELSE cache[t]]

(* _ensure_capacity_unlocked refuses; it evicts nobody. *)
Full == Cardinality(Cached(Kept)) >= MaxTasks

(* As if the path of the entry were not compared. *)
HitAnyPath(c) ==
    /\ At(c, "lookup") /\ lock = NoCaller
    /\ Kept[seg[c].task] # NoPath
    /\ cache' = Kept
    /\ idle' = [idle EXCEPT ![seg[c].task] = 0]
    /\ seg' = [seg EXCEPT ![c].pc = "predicting", ![c].entry = Kept[seg[c].task]]
    /\ UNCHANGED lock

(* As if nobody looked whether there is an entry. *)
HitMissing(c) ==
    /\ At(c, "lookup") /\ lock = NoCaller
    /\ Kept[seg[c].task] \in {NoPath, seg[c].path}
    /\ cache' = Kept
    /\ idle' = [idle EXCEPT ![seg[c].task] = 0]
    /\ seg' = [seg EXCEPT ![c].pc = "predicting", ![c].entry = Kept[seg[c].task]]
    /\ UNCHANGED lock

Hit(c) ==
    /\ At(c, "lookup") /\ lock = NoCaller
    /\ Kept[seg[c].task] = seg[c].path
    /\ cache' = Kept
    /\ idle' = [idle EXCEPT ![seg[c].task] = 0]
    /\ seg' = [seg EXCEPT ![c].pc = "predicting", ![c].entry = Kept[seg[c].task]]
    /\ UNCHANGED lock

(* 409: the id belongs to a task on another model, whose entry stays; 500: *)
(* the id is new and the cache is full.                                    *)
Refuse(c) ==
    /\ At(c, "lookup") /\ lock = NoCaller
    /\ \/ Kept[seg[c].task] \notin {NoPath, seg[c].path}
       \/ Kept[seg[c].task] = NoPath /\ Full
    /\ cache' = Kept
    /\ Answer(c)
    /\ UNCHANGED <<idle, lock>>

(* As if the models were loaded after the lock is let go. *)
MissUnlocked(c) ==
    /\ At(c, "lookup") /\ lock = NoCaller
    /\ Kept[seg[c].task] = NoPath /\ ~Full
    /\ cache' = Kept
    /\ seg' = [seg EXCEPT ![c].pc = "loading"]
    /\ UNCHANGED <<idle, lock>>

(* The lock is kept while the models are loaded. *)
Miss(c) ==
    /\ At(c, "lookup") /\ lock = NoCaller
    /\ Kept[seg[c].task] = NoPath /\ ~Full
    /\ cache' = Kept
    /\ lock' = c
    /\ seg' = [seg EXCEPT ![c].pc = "loading"]
    /\ UNCHANGED idle

Load(c) ==
    /\ At(c, "loading")
    /\ cache' = [cache EXCEPT ![seg[c].task] = seg[c].path]
    /\ idle' = [idle EXCEPT ![seg[c].task] = 0]
    /\ lock' = NoCaller
    /\ seg' = [seg EXCEPT ![c].pc = "predicting", ![c].entry = seg[c].path]

(* As if the lock were let go only after the models are loaded. *)
LoadErrorKeepsLock(c) ==
    /\ At(c, "loading")
    /\ Answer(c)
    /\ UNCHANGED <<cache, idle, lock>>

(* No such directory, no metadata, or a model that does not load. *)
LoadError(c) ==
    /\ At(c, "loading")
    /\ lock' = NoCaller
    /\ Answer(c)
    /\ UNCHANGED <<cache, idle>>

(* As if only a segment that was predicted could end its task. *)
PredictReleaseOnSuccess(c) ==
    /\ At(c, "predicting")
    /\ \/ seg[c].last /\ seg' = [seg EXCEPT ![c].pc = "releasing"]
       \/ Answer(c)
    /\ UNCHANGED <<cache, idle, lock>>

(* Whether the segment is valid and predicted or not, the finally runs. *)
Predict(c) ==
    /\ At(c, "predicting")
    /\ IF seg[c].last THEN seg' = [seg EXCEPT ![c].pc = "releasing"] ELSE Answer(c)
    /\ UNCHANGED <<cache, idle, lock>>

(* release_task_models goes by the id, whichever entry it has by now. *)
Release(c) ==
    /\ At(c, "releasing") /\ lock = NoCaller
    /\ cache' = [cache EXCEPT ![seg[c].task] = NoPath]
    /\ Answer(c)
    /\ UNCHANGED <<idle, lock>>

Tick ==
    /\ \E t \in Cached(cache) : idle[t] <= TTL
    /\ idle' = [t \in Tasks |->
          IF cache[t] # NoPath /\ idle[t] <= TTL THEN idle[t] + 1 ELSE idle[t]]
    /\ UNCHANGED <<cache, lock, seg>>

Serve(c) ==
    \/ Hit(c) \/ Refuse(c) \/ Miss(c) \/ Load(c) \/ LoadError(c)
    \/ Predict(c) \/ Release(c)

Next == Tick \/ \E c \in Callers : Receive(c) \/ Serve(c)

(* Time passes, and a caller that can go on does. *)
Fairness == WF_chunkVars(Tick) /\ \A c \in Callers : WF_chunkVars(Serve(c))

Spec == Init /\ [][Next]_chunkVars /\ Fairness
-----------------------------------------------------------------------------

(* The state has the shape the code gives it. *)
TypeOK ==
    /\ cache \in [Tasks -> Paths \cup {NoPath}]
    /\ idle \in [Tasks -> 0..(TTL + 1)]
    /\ lock \in Callers \cup {NoCaller}
    /\ seg \in [Callers -> SegmentStates]

(* There are never more tasks in memory than the limit allows, although    *)
(* the check (_ensure_capacity_unlocked) and the insertion are as far      *)
(* apart as the loading of the models.                                     *)
WithinCapacity == Cardinality(Cached(cache)) <= MaxTasks

(* Who loads models has the lock, and the room it found is still there:    *)
(* what makes the two properties around it inductive.                      *)
RoomToLoad ==
    \A c \in Callers :
        /\ At(c, "loading") <=> lock = c
        /\ At(c, "loading") => /\ cache[seg[c].task] = NoPath
                              /\ Cardinality(Cached(cache)) < MaxTasks

(* A segment is predicted by the models of the directory it named, never   *)
(* by those another client loaded under the same task id.                  *)
OwnModel == \A c \in Callers : At(c, "predicting") => seg[c].entry = seg[c].path

(* Segments of a new task that arrive together load its models once        *)
(* (test_chunk_service_concurrent_same_task_id_load_once): whoever loads   *)
(* them finds the task still absent when it inserts the entry.             *)
LoadedOnce ==
    [][\A c \in Callers : At(c, "loading") /\ seg'[c].pc = "predicting"
          => cache[seg[c].task] = NoPath]_chunkVars

(* A task loses its models only by its own last segment, or after more     *)
(* than TTL without a segment: a full cache evicts nobody, and neither     *)
(* does a segment refused because its id belongs to another model.         *)
KeptUntilDue ==
    [][\A t \in Tasks : cache[t] # NoPath /\ cache'[t] = NoPath =>
          \/ TTL > 0 /\ idle[t] > TTL
          \/ \E c \in Callers :
                At(c, "releasing") /\ seg[c].task = t /\ seg'[c].pc = "idle"]_chunkVars

Used == {t \in Cached(cache) : TTL = 0 \/ idle[t] <= TTL}

(* A segment is refused only because its id is in use with another model,  *)
(* or because MaxTasks tasks were all used within TTL: abandoned tasks,    *)
(* which no thread clears away, do not keep others out.                    *)
RefusedOnlyWhenBusy ==
    [][\A c \in Callers : At(c, "lookup") /\ seg'[c].pc = "idle" =>
          \/ seg[c].task \in Used /\ cache[seg[c].task] # seg[c].path
          \/ Cardinality(Used) >= MaxTasks]_chunkVars

(* When the last segment of a task has been answered its entry is gone,    *)
(* also when that segment was invalid or failed to be predicted.           *)
LastReleases ==
    [][\A c \in Callers :
          seg[c].last /\ seg[c].pc \in {"predicting", "releasing"}
            /\ seg'[c].pc = "idle" => cache'[seg[c].task] = NoPath]_chunkVars

(* Every segment is answered, unless other segments load models again and  *)
(* again: a failed load does not keep the lock.  The lock is not fair, so  *)
(* with concurrent callers no more than that is promised.                  *)
Served ==
    \A c \in Callers :
        ~Idle(c) ~> Idle(c) \/ \E d \in Callers \ {c} : At(d, "loading")
=============================================================================
