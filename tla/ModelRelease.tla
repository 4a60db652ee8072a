---------------------------- MODULE ModelRelease ----------------------------
(***************************************************************************)
(* One job from its training to its published models, and their readers:   *)
(* the publication that replaces a release file by file                    *)
(* (model_release_service.py, model_metadata_service.py), the deletion     *)
(* that may take the job's own directory away, and inference from the      *)
(* release (inference_service.py) by other processes, the command line and *)
(* the ZMQ server, which nothing keeps from reading meanwhile.             *)
(*                                                                         *)
(* A column name is a base name and whether blanks surround it.  A         *)
(* directory of a model is a prefix and a column name; all those of a job  *)
(* have one prefix, so the name alone stands for it.                       *)
(***************************************************************************)
EXTENDS Naturals, Sequences

CONSTANTS
    Columns,      \* base names of columns
    Blank,        \* the base name that is empty
    Requests,     \* the selected_groups that clients send
    Fixed,        \* the prefix "finetuned-ckpt"
    Prefixes,     \* the values of FINETUNED_CKPT_NAME
    Readers,      \* processes that run inference on the release
    NoName,       \* the absence of a name
    MaxFaults     \* bound: crashes and failures

Names == (Columns \cup {Blank}) \X BOOLEAN

ASSUME ReleaseAssumption ==
    /\ Requests \subseteq Seq([target : Names, covariates : SUBSET Names])
    /\ Fixed \in Prefixes /\ NoName \notin Names /\ MaxFaults \in Nat

VARIABLES
    groups,       \* selected_groups of the job; never changes
    prefix,       \* FINETUNED_CKPT_NAME while it was trained; never changes
    mapped,       \* does its row have a target_model_map; never changes
    status,       \* of its row: "running", "completed" or "gone"
    present,      \* does its output_dir exist
    source,       \* name -> how much of that model is in output_dir
    release,      \* name -> how much of it is in the release
    meta,         \* metadata.json of the release
    handler,      \* the publication or deletion being handled
    answer,       \* what the last publication was answered
    cut,          \* did a deletion ever leave the row without all its files
    reader,
    faults

job == <<groups, prefix, mapped>>
artifacts == <<status, present, source>>
released == <<release, meta>>
releaseVars == <<job, artifacts, released, handler, answer, cut, reader, faults>>

Copies == {"absent", "partial", "whole"}
Strip(n) == <<n[1], FALSE>>
Indices == DOMAIN groups
Targets == {groups[i].target : i \in Indices}

(* Which group's model is saved under a name: the last one's. *)
Trained(n) ==
    CHOOSE i \in Indices : /\ groups[i].target = n
                           /\ \A k \in Indices : groups[k].target = n => k <= i

(* As if targets might repeat. *)
AcceptedTwice(q) ==
    /\ DOMAIN q # {}
    /\ \A i \in DOMAIN q :
         /\ \A n \in q[i].covariates \cup {q[i].target} : n[1] # Blank
         /\ q[i].target \notin q[i].covariates

(* SelectedGroup and CreateFinetuneJobRequest; names are left as they are. *)
Accepted(q) ==
    /\ DOMAIN q # {}
    /\ \A i \in DOMAIN q :
         /\ \A n \in q[i].covariates \cup {q[i].target} : n[1] # Blank
         /\ q[i].target \notin q[i].covariates
         /\ \A k \in DOMAIN q : q[k].target = q[i].target => k = i

IdleHandler == [pc |-> "idle", dir |-> NoName, failed |-> FALSE]
IdleReader == [pc |-> "idle", todo |-> {}, group |-> 0, dir |-> NoName, used |-> {}]

Init ==
    /\ groups \in {q \in Requests : Accepted(q)}
    /\ prefix \in Prefixes /\ mapped \in BOOLEAN
    /\ status = "running" /\ present = TRUE
    /\ source = [n \in Names |-> "absent"]
    /\ release = [n \in Names |-> "absent"]
    /\ meta = "none"
    /\ handler = IdleHandler
    /\ answer = "none"
    /\ cut = FALSE
    /\ reader = [r \in Readers |-> IdleReader]
    /\ faults = 0

(***************************************************************************)
(* Training: one directory per group, then the status.                     *)
(***************************************************************************)
SaveModel(n) ==
    /\ status = "running"
    /\ n \in Targets /\ source[n] # "whole"
    /\ source' = [source EXCEPT ![n] = IF @ = "absent" THEN "partial" ELSE "whole"]
    /\ UNCHANGED <<job, status, present, released, handler, answer, cut, reader, faults>>

Complete ==
    /\ status = "running"
    /\ \A n \in Targets : source[n] = "whole"
    /\ status' = "completed"
    /\ UNCHANGED <<job, present, source, released, handler, answer, cut, reader, faults>>

(***************************************************************************)
(* Publication.                                                            *)
(***************************************************************************)
At(pc) == handler.pc = pc
Goto(pc) == handler' = [IdleHandler EXCEPT !.pc = pc]

(* rmtree takes a file, or the last one, of a model. *)
Less(copy) == IF copy = "whole" THEN "partial" ELSE "absent"

(* POST /jobs/release and /api/model/publish; a refusal changes nothing. *)
Publish ==
    /\ At("idle") /\ status = "completed" /\ present
    /\ Goto("clearing")
    /\ answer' = "none"
    /\ UNCHANGED <<job, artifacts, released, cut, reader, faults>>

ClearModel(n) ==
    /\ At("clearing") /\ release[n] # "absent"
    /\ release' = [release EXCEPT ![n] = Less(@)]
    /\ UNCHANGED <<job, artifacts, meta, handler, answer, cut, reader, faults>>

ClearMetadata ==
    /\ At("clearing") /\ meta # "none"
    /\ meta' = "none"
    /\ UNCHANGED <<job, artifacts, release, handler, answer, cut, reader, faults>>

(* As if what an earlier attempt left were kept and added to. *)
ClearedNever == TRUE

Cleared == meta = "none" /\ \A n \in Names : release[n] = "absent"

BeginCopy ==
    /\ At("clearing") /\ Cleared
    /\ Goto("copying")
    /\ UNCHANGED <<job, artifacts, released, answer, cut, reader, faults>>

CopyModel(n) ==
    /\ At("copying") /\ handler.dir = NoName
    /\ source[n] # "absent" /\ release[n] = "absent"
    /\ release' = [release EXCEPT ![n] = "partial"]
    /\ handler' = [handler EXCEPT !.dir = n]
    /\ UNCHANGED <<job, artifacts, meta, answer, cut, reader, faults>>

(* copytree notes a file it cannot copy and goes on. *)
CopiedModel ==
    /\ At("copying") /\ handler.dir # NoName
    /\ \/ /\ release' = [release EXCEPT ![handler.dir] = source[handler.dir]]
          /\ handler' = [handler EXCEPT !.dir = NoName]
       \/ /\ handler' = [handler EXCEPT !.dir = NoName, !.failed = TRUE]
          /\ UNCHANGED release
    /\ UNCHANGED <<job, artifacts, meta, answer, cut, reader, faults>>

CopyOver ==
    /\ At("copying") /\ handler.dir = NoName
    /\ \A n \in Names : source[n] # "absent" => release[n] # "absent"

(* As if errors of the copy were swallowed. *)
EndCopySwallowing ==
    /\ CopyOver
    /\ Goto("writing") /\ UNCHANGED answer
    /\ UNCHANGED <<job, artifacts, released, cut, reader, faults>>

(* As if a failed copy were tried again. *)
EndCopyRetrying ==
    /\ CopyOver
    /\ Goto(IF handler.failed THEN "clearing" ELSE "writing") /\ UNCHANGED answer
    /\ UNCHANGED <<job, artifacts, released, cut, reader, faults>>

(* Its errors are raised at the end. *)
EndCopy ==
    /\ CopyOver
    /\ \/ handler.failed /\ Goto("idle") /\ answer' = "error"
       \/ ~handler.failed /\ Goto("writing") /\ UNCHANGED answer
    /\ UNCHANGED <<job, artifacts, released, cut, reader, faults>>

(* write_model_metadata: the file is there before its content is. *)
WriteMetadata ==
    /\ At("writing")
    /\ \/ meta = "none" /\ meta' = "torn" /\ UNCHANGED <<handler, answer>>
       \/ meta = "torn" /\ meta' = "whole" /\ Goto("idle") /\ answer' = "success"
    /\ UNCHANGED <<job, artifacts, release, cut, reader, faults>>

ReplaceFails ==
    /\ handler.pc \in {"clearing", "copying", "writing"}
    /\ faults < MaxFaults /\ faults' = faults + 1
    /\ Goto("idle") /\ answer' = "error"
    /\ UNCHANGED <<job, artifacts, released, cut, reader>>

(***************************************************************************)
(* Deletion of the job, and the crash of the service.                      *)
(***************************************************************************)
Delete ==
    /\ At("idle") /\ status = "completed"
    /\ Goto("removing")
    /\ UNCHANGED <<job, artifacts, released, answer, cut, reader, faults>>

RemoveModel(n) ==
    /\ At("removing") /\ source[n] # "absent"
    /\ source' = [source EXCEPT ![n] = Less(@)]
    /\ UNCHANGED <<job, status, present, released, handler, answer, cut, reader, faults>>

(* rmtree ignores what it cannot remove. *)
Removed ==
    /\ At("removing")
    /\ present' = (present /\ \E n \in Names : source[n] # "absent")
    /\ Goto("deleting")
    /\ UNCHANGED <<job, status, source, released, answer, cut, reader, faults>>

(* The log file and the row, or an error on the way: the row stays. *)
DeleteRow ==
    /\ At("deleting")
    /\ \/ status' = "gone" /\ UNCHANGED <<cut, faults>>
       \/ /\ faults < MaxFaults /\ faults' = faults + 1
          /\ cut' = TRUE /\ UNCHANGED status
    /\ Goto("idle")
    /\ UNCHANGED <<job, present, source, released, answer, reader>>

(* The row outlives a deletion that is cut short here too. *)
Crash ==
    /\ ~At("idle")
    /\ faults < MaxFaults /\ faults' = faults + 1
    /\ cut' = (cut \/ handler.pc \in {"removing", "deleting"})
    /\ Goto("idle")
    /\ UNCHANGED <<job, artifacts, released, answer, reader>>

(***************************************************************************)
(* The metadata, and what it leads to.                                     *)
(***************************************************************************)

(* As if the map of the row were not looked at. *)
ModelDirFixed(n) == <<Fixed, n>>

(* build_model_metadata: the directory in the map of the row, or in one    *)
(* rebuilt from paths with the fixed prefix, or else the fixed name.       *)
ModelDir(n) ==
    IF n \in Targets /\ (mapped \/ prefix = Fixed) THEN <<prefix, n>> ELSE <<Fixed, n>>

(* selected_groups of metadata.json. *)
Metadata ==
    [i \in Indices |-> [target |-> Strip(groups[i].target),
                        covariates |-> groups[i].covariates,
                        model_dir |-> ModelDir(Strip(groups[i].target))]]

(* As if what the metadata names were not looked for. *)
FoundUnchecked(dir) == dir[1] = prefix

Found(dir) == dir[1] = prefix /\ release[dir[2]] # "absent"

(* _resolve_target_model_dir, with what the metadata maps n to, if used. *)
Resolved(n, dirs) ==
    IF \E d \in dirs : Found(d) THEN (CHOOSE d \in dirs : Found(d))[2]
    ELSE IF Found(<<Fixed, n>>) THEN n ELSE NoName

(* The group as inference reads it (InferCovGroup). *)
Covariates(i) == {Strip(n) : n \in Metadata[i].covariates}
Valid(i) == Metadata[i].target \notin Covariates(i)

(***************************************************************************)
(* Inference without groups, in another process.                           *)
(***************************************************************************)

(* metadata.json is read and the targets wanted are looked up; an error    *)
(* is answered at once and changes nothing.                                *)
Ask(r) ==
    /\ reader[r].pc = "idle"
    /\ meta = "whole"
    /\ \A i \in Indices : Valid(i)
    /\ \E wanted \in (SUBSET {Metadata[i].target : i \in Indices}) \ {{}} :
         reader' = [reader EXCEPT ![r] =
             [IdleReader EXCEPT !.pc = "resolve",
                                !.todo = {i \in Indices : Metadata[i].target \in wanted}]]
    /\ UNCHANGED <<job, artifacts, released, handler, answer, cut, faults>>

(* What an error ends; the predictions made so far are dropped with it. *)
Stop(r) == [reader EXCEPT ![r] = IdleReader]

Predict(r) ==
    [reader EXCEPT
        ![r].pc = IF reader[r].todo = {reader[r].group} THEN "done" ELSE "resolve",
        ![r].todo = @ \ {reader[r].group},
        ![r].used = @ \cup {<<reader[r].group, Trained(reader[r].dir)>>}]

(* The groups may be taken in any order: none depends on another. *)
Resolve(r) ==
    /\ reader[r].pc = "resolve"
    /\ \E i \in reader[r].todo :
         LET dir == Resolved(Metadata[i].target, {Metadata[i].model_dir})
         IN  reader' = IF dir = NoName
                       THEN Stop(r)
                       ELSE [reader EXCEPT ![r].pc = "load", ![r].group = i, ![r].dir = dir]
    /\ UNCHANGED <<job, artifacts, released, handler, answer, cut, faults>>

(* A model that misses a file may fail to load; one that is gone does. *)
Load(r) ==
    /\ reader[r].pc = "load"
    /\ \/ release[reader[r].dir] # "absent" /\ reader' = Predict(r)
       \/ release[reader[r].dir] # "whole" /\ reader' = Stop(r)
    /\ UNCHANGED <<job, artifacts, released, handler, answer, cut, faults>>

Respond(r) ==
    /\ reader[r].pc = "done"
    /\ reader' = Stop(r)
    /\ UNCHANGED <<job, artifacts, released, handler, answer, cut, faults>>

(***************************************************************************)
(* Inference and model information in the service itself, which handles    *)
(* no publication meanwhile.                                               *)
(***************************************************************************)

(* The directory a group is predicted with: named by the metadata, or by   *)
(* cov_group of the request, for which the metadata is not asked.          *)
ByMetadata(i) == Resolved(Metadata[i].target, {Metadata[i].model_dir})
ByRequest(i) == Resolved(Strip(groups[i].target), {})

Serves(i, dir) == dir # NoName /\ release[dir] = "whole" /\ Trained(dir) = i

(* GET /api/model/info: the targets it lists. *)
Listed == IF meta = "whole" THEN {Metadata[i].target : i \in Indices} ELSE {}

Handle ==
    \/ \E n \in Names : ClearModel(n) \/ CopyModel(n) \/ RemoveModel(n)
    \/ ClearMetadata \/ BeginCopy \/ CopiedModel \/ EndCopy \/ WriteMetadata
    \/ ReplaceFails \/ Removed \/ DeleteRow

Infer(r) == Resolve(r) \/ Load(r) \/ Respond(r)

Next ==
    \/ \E n \in Names : SaveModel(n)
    \/ Complete \/ Publish \/ Delete \/ Handle \/ Crash
    \/ \E r \in Readers : Ask(r) \/ Infer(r)

(* The service and the processes that read are scheduled. *)
Spec ==
    /\ Init /\ [][Next]_releaseVars
    /\ WF_releaseVars(Handle)
    /\ \A r \in Readers : WF_releaseVars(Infer(r))
-----------------------------------------------------------------------------

(* The state has the shape the code gives it. *)
TypeOK ==
    /\ groups \in Requests /\ Accepted(groups)
    /\ prefix \in Prefixes /\ mapped \in BOOLEAN
    /\ status \in {"running", "completed", "gone"}
    /\ present \in BOOLEAN /\ cut \in BOOLEAN
    /\ source \in [Names -> Copies] /\ release \in [Names -> Copies]
    /\ meta \in {"none", "torn", "whole"}
    /\ handler \in [pc : {"idle", "clearing", "copying", "writing", "removing", "deleting"},
                    dir : Names \cup {NoName}, failed : BOOLEAN]
    /\ answer \in {"none", "success", "error"}
    /\ faults \in 0..MaxFaults
    /\ DOMAIN reader = Readers
    /\ \A r \in Readers :
         /\ reader[r].pc \in {"idle", "resolve", "load", "done"}
         /\ reader[r].todo \subseteq Indices
         /\ reader[r].used \subseteq Indices \X Indices
         /\ reader[r].pc = "load" => reader[r].group \in Indices /\ reader[r].dir \in Targets

(* No name is surrounded by blanks, which inference strips and training    *)
(* does not.                                                               *)
Clean == \A i \in Indices : \A n \in groups[i].covariates \cup {groups[i].target} : n = Strip(n)

(* A publication that was answered with success has left every model of    *)
(* the job and the metadata in place, whatever earlier attempts left       *)
(* behind; only after a deletion that a crash or an error cut short does   *)
(* it copy less.                                                           *)
PublishedWhole ==
    answer = "success" /\ ~cut =>
        meta = "whole" /\ \A n \in Targets : release[n] = "whole"

(* The metadata becomes readable when everything else is there: a failure  *)
(* or crash in a copy leaves a release that readers refuse.                *)
MetadataLast ==
    [][meta # "whole" /\ meta' = "whole" => release = source]_releaseVars

(* A prediction for a target is made by the model trained for it, also     *)
(* when the release is replaced or removed between the steps of a reader.  *)
NeverWrongModel ==
    Clean => \A r \in Readers : \A u \in reader[r].used :
        /\ Metadata[u[1]].target = groups[u[2]].target
        /\ Covariates(u[1]) = groups[u[2]].covariates

(* After a successful publication every target that model information      *)
(* lists can be inferred without naming groups, and none is missing from   *)
(* the list, whatever the prefix was; a row of an older version without    *)
(* the map knows no other prefix than the fixed one.                       *)
ServedOncePublished ==
    At("idle") /\ answer = "success" /\ ~cut /\ Clean /\ (mapped \/ prefix = Fixed) =>
        /\ Listed = Targets
        /\ \A i \in Indices : Serves(i, ByMetadata(i))

(* Every publication, deletion and inference that was begun ends, whatever *)
(* fails and whatever happens to the files it is about to read.            *)
EverybodyEnds ==
    /\ ~At("idle") ~> At("idle")
    /\ \A r \in Readers : reader[r].pc # "idle" ~> reader[r].pc = "idle"

(* A model_dir in the metadata is preferred to the name that is built from *)
(* the target (docs, 8.6), also for a request that names its groups.       *)
ModelDirPreferred ==
    At("idle") /\ answer = "success" /\ ~cut /\ Clean /\ mapped =>
        \A i \in Indices : Serves(i, ByRequest(i))
=============================================================================
