------------------------ MODULE ModelRelease_proofs ------------------------
(* Proofs about ModelRelease, for any requests, prefixes, readers and      *)
(* number of failures.                                                     *)
EXTENDS ModelRelease, FiniteSetTheorems, TLAPS

Group == [target : Names, covariates : SUBSET Names]

JobOK ==
    /\ groups \in Requests /\ Accepted(groups)
    /\ prefix \in Prefixes /\ mapped \in BOOLEAN

FilesOK ==
    /\ status \in {"running", "completed", "gone"}
    /\ present \in BOOLEAN /\ cut \in BOOLEAN
    /\ source \in [Names -> Copies] /\ release \in [Names -> Copies]
    /\ meta \in {"none", "torn", "whole"}
    /\ handler \in [pc : {"idle", "clearing", "copying", "writing", "removing", "deleting"},
                    dir : Names \cup {NoName}, failed : BOOLEAN]
    /\ answer \in {"none", "success", "error"}
    /\ faults \in 0..MaxFaults

(* There are directories for targets only.                                 *)
OnlyTargets ==
    \A n \in Names : n \notin Targets => source[n] = "absent" /\ release[n] = "absent"

(* What a completed job has saved stays until it is deleted.               *)
SourceKept ==
    status = "completed" /\ ~cut /\ handler.pc \notin {"removing", "deleting"} =>
        \A n \in Targets : source[n] = "whole"

(* How much of the source is in the release at each stage.                 *)
Stages ==
    /\ handler.pc \in {"clearing", "copying", "writing"} =>
         status = "completed" /\ answer = "none"
    /\ handler.pc \in {"removing", "deleting"} => status = "completed"
    /\ handler.pc = "copying" =>
         /\ meta = "none"
         /\ \A n \in Names : release[n] # "absent" =>
              /\ source[n] # "absent"
              /\ n # handler.dir /\ handler.failed = FALSE => release[n] = source[n]
         /\ handler.dir \in Names => source[handler.dir] # "absent"
    /\ handler.pc = "writing" =>
         /\ meta # "whole"
         /\ \A n \in Names : release[n] = source[n]

FInv == JobOK /\ FilesOK /\ OnlyTargets /\ SourceKept /\ Stages /\ PublishedWhole

ReaderOK(r) ==
    /\ reader[r].pc \in {"idle", "resolve", "load", "done"}
    /\ reader[r].todo \subseteq Indices
    /\ reader[r].used \subseteq Indices \X Indices
    /\ reader[r].pc = "load" => reader[r].group \in Indices /\ reader[r].dir \in Targets

(* A reader goes to the directory of its group, if names are clean.        *)
OwnDirectory(r) ==
    Clean =>
        /\ reader[r].pc = "load" => reader[r].dir = groups[reader[r].group].target
        /\ \A u \in reader[r].used : groups[u[2]].target = groups[u[1]].target

ReadersInv == DOMAIN reader = Readers /\ \A r \in Readers : ReaderOK(r) /\ OwnDirectory(r)

(* A group has a target and covariates that are names.                     *)
LEMMA GroupFacts ==
    ASSUME JobOK
    PROVE  /\ Targets \subseteq Names
           /\ \A i \in Indices : groups[i].target \in Targets /\ groups[i] \in Group
<1>1. groups \in Seq(Group)
  BY ReleaseAssumption DEF JobOK, Group
<1>2. \A i \in Indices : groups[i] \in Group
  BY <1>1 DEF Indices
<1> QED
  BY <1>2 DEF Targets, Group

(* Targets do not repeat, so each name has the model of its one group.     *)
LEMMA TrainedFacts ==
    ASSUME JobOK, NEW i \in Indices
    PROVE  Trained(groups[i].target) = i
<1> DEFINE Last(j) == /\ groups[j].target = groups[i].target
                      /\ \A k \in Indices : groups[k].target = groups[i].target => k <= j
<1>1. i \in Nat
  <2>1. groups \in Seq(Group)
    BY ReleaseAssumption DEF JobOK, Group
  <2> QED
    BY <2>1 DEF Indices
<1>2. \A k \in Indices : groups[k].target = groups[i].target => k = i
  BY DEF JobOK, Accepted, Indices
<1>3. Last(i)
  BY <1>1, <1>2
<1>4. \A j \in Indices : Last(j) => j = i
  BY <1>2
<1>5. Trained(groups[i].target) = CHOOSE j \in Indices : Last(j)
  BY DEF Trained
<1> HIDE DEF Last
<1> QED
  BY <1>3, <1>4, <1>5

LEMMA StripFacts == \A n \in Names : Strip(n) \in Names /\ Strip(n)[2] = FALSE
BY DEF Names, Strip

(* Whatever directory is found, it is the one that bears the target.       *)
LEMMA ResolvedFacts ==
    ASSUME JobOK, FilesOK, OnlyTargets, NEW i \in Indices
    PROVE  LET n == Strip(groups[i].target)
           IN  /\ Metadata[i].target = n
               /\ Metadata[i].covariates = groups[i].covariates
               /\ ByMetadata(i) \in {n, NoName}
               /\ ByMetadata(i) # NoName => n \in Targets
               /\ Found(ModelDir(n)) => ByMetadata(i) = n
<1> DEFINE n == Strip(groups[i].target)
<1>1. n \in Names
  BY GroupFacts, StripFacts
<1>2. /\ Metadata[i].target = n /\ Metadata[i].covariates = groups[i].covariates
      /\ Metadata[i].model_dir = ModelDir(n)
  BY DEF Metadata
<1>3. ModelDir(n)[2] = n
  BY DEF ModelDir
<1>4. \A d : Found(d) /\ d[2] = n => n \in Targets
  BY <1>1 DEF Found, OnlyTargets
<1>5. CASE Found(ModelDir(n))
  <2>1. (CHOOSE d \in {ModelDir(n)} : Found(d)) = ModelDir(n)
    BY <1>5
  <2>2. ByMetadata(i) = n
    BY <1>2, <1>3, <1>5, <2>1 DEF ByMetadata, Resolved
  <2> QED
    BY <1>2, <1>3, <1>4, <1>5, <2>2
<1>6. CASE ~Found(ModelDir(n))
  <2>1. ByMetadata(i) = IF Found(<<Fixed, n>>) THEN n ELSE NoName
    BY <1>2, <1>6 DEF ByMetadata, Resolved
  <2> QED
    BY <1>2, <1>4, <1>6, <2>1
<1> QED
  BY <1>5, <1>6

(* A new job starts in the invariant.                                      *)
LEMMA InitInv == Init => FInv /\ ReadersInv
<1> SUFFICES ASSUME Init PROVE FInv /\ ReadersInv
  OBVIOUS
<1>0. MaxFaults \in Nat
  BY ReleaseAssumption
<1>1. JobOK /\ FilesOK
  <2>1. JobOK
    BY DEF Init, JobOK
  <2>2. faults \in 0..MaxFaults
    BY <1>0 DEF Init
  <2> QED
    BY <2>1, <2>2 DEF Init, FilesOK, IdleHandler, Copies
<1>2. OnlyTargets /\ SourceKept /\ Stages /\ PublishedWhole
  BY DEF Init, OnlyTargets, SourceKept, Stages, PublishedWhole, IdleHandler
<1>3. ReadersInv
  BY DEF Init, ReadersInv, ReaderOK, OwnDirectory, IdleReader
<1> QED
  BY <1>1, <1>2, <1>3 DEF FInv

(* The steps of the service, as opposed to those of the readers.           *)
Serve ==
    \/ \E n \in Names : SaveModel(n)
    \/ Complete \/ Publish \/ Delete \/ Handle \/ Crash

(* Only the service changes files, and it does not touch readers or job.   *)
LEMMA Division ==
    [Next]_releaseVars =>
        /\ UNCHANGED job
        /\ \/ Serve /\ UNCHANGED reader
           \/ /\ UNCHANGED <<artifacts, released, handler, answer, cut, faults>>
              /\ UNCHANGED reader \/ \E r \in Readers : Ask(r) \/ Infer(r)
<1> SUFFICES ASSUME [Next]_releaseVars
             PROVE  /\ UNCHANGED job
                    /\ \/ Serve /\ UNCHANGED reader
                       \/ /\ UNCHANGED <<artifacts, released, handler, answer, cut, faults>>
                          /\ UNCHANGED reader \/ \E r \in Readers : Ask(r) \/ Infer(r)
  OBVIOUS
<1>1. CASE Serve
  BY <1>1 DEF Serve, SaveModel, Complete, Publish, Delete, Handle, Crash, ClearModel, CopyModel,
       RemoveModel, ClearMetadata, BeginCopy, CopiedModel, EndCopy, WriteMetadata, ReplaceFails,
       Removed, DeleteRow
<1>2. CASE \E r \in Readers : Ask(r) \/ Infer(r)
  BY <1>2 DEF Ask, Infer, Resolve, Load, Respond
<1>3. CASE UNCHANGED releaseVars
  BY <1>3 DEF releaseVars, artifacts, released
<1> QED
  BY <1>1, <1>2, <1>3 DEF Next, Serve

(* Where a stage goes next, it starts without a directory in hand.         *)
LEMMA GotoFacts ==
    ASSUME NEW p \in {"idle", "clearing", "copying", "writing", "removing", "deleting"}, Goto(p)
    PROVE  handler'.pc = p /\ handler'.dir = NoName /\ handler'.failed = FALSE
BY DEF Goto, IdleHandler

(* Each step of the service keeps the types.                               *)
LEMMA ServeFilesOK == FInv /\ Serve => FilesOK'
<1> SUFFICES ASSUME FInv, Serve PROVE FilesOK'
  OBVIOUS
<1> USE DEF FilesOK
<1>0. FilesOK /\ MaxFaults \in Nat
  BY ReleaseAssumption DEF FInv
<1>a. \A c \in Copies : Less(c) \in Copies
  BY DEF Less, Copies
<1>1. ASSUME NEW n \in Names, SaveModel(n) PROVE FilesOK'
  BY <1>0, <1>1 DEF SaveModel, Copies, released
<1>2. CASE Complete
  BY <1>0, <1>2 DEF Complete, released
<1>3. CASE Publish \/ Delete
  BY <1>0, <1>3 DEF Publish, Delete, Goto, IdleHandler, released, artifacts
<1>4. ASSUME NEW n \in Names, ClearModel(n) \/ RemoveModel(n) PROVE FilesOK'
  BY <1>0, <1>a, <1>4 DEF ClearModel, RemoveModel, artifacts, released
<1>5. ASSUME NEW n \in Names, CopyModel(n) PROVE FilesOK'
  BY <1>0, <1>5 DEF CopyModel, artifacts, Copies
<1>6. CASE ClearMetadata
  BY <1>0, <1>6 DEF ClearMetadata, artifacts
<1>7. CASE BeginCopy \/ EndCopy \/ WriteMetadata
  BY <1>0, <1>7 DEF BeginCopy, EndCopy, WriteMetadata, Goto, IdleHandler, artifacts, released
<1>8. CASE CopiedModel
  <2>1. handler.dir \in Names
    BY <1>0, <1>8 DEF CopiedModel
  <2> QED
    BY <1>0, <1>8, <2>1 DEF CopiedModel, artifacts
<1>9. CASE ReplaceFails
  <2>1. faults' \in 0..MaxFaults
    BY <1>0, <1>9 DEF ReplaceFails
  <2> QED
    BY <1>0, <1>9, <2>1 DEF ReplaceFails, Goto, IdleHandler, artifacts, released
<1>10. CASE Removed
  BY <1>0, <1>10 DEF Removed, Goto, IdleHandler, released
<1>12. CASE DeleteRow
  <2>1. cut' \in BOOLEAN /\ status' \in {"running", "completed", "gone"}
    BY <1>0, <1>12 DEF DeleteRow
  <2>2. faults' \in 0..MaxFaults
    BY <1>0, <1>12 DEF DeleteRow
  <2> QED
    BY <1>0, <1>12, <2>1, <2>2 DEF DeleteRow, Goto, IdleHandler, released
<1>11. CASE Crash
  <2>1. cut' \in BOOLEAN
    BY <1>11 DEF Crash
  <2>2. faults' \in 0..MaxFaults
    BY <1>0, <1>11 DEF Crash
  <2> QED
    BY <1>0, <1>11, <2>1, <2>2 DEF Crash, Goto, IdleHandler, artifacts, released
<1> QED
  BY <1>1, <1>2, <1>3, <1>4, <1>5, <1>6, <1>7, <1>8, <1>9, <1>10, <1>11, <1>12 DEF Serve, Handle

(* Each step of the service keeps directories to targets.                  *)
LEMMA ServeOnlyTargets == FInv /\ Serve /\ UNCHANGED job => OnlyTargets'
<1> SUFFICES ASSUME FInv, Serve, UNCHANGED job, NEW n \in Names, n \notin Targets
             PROVE  source'[n] = "absent" /\ release'[n] = "absent"
  BY DEF OnlyTargets, Targets, Indices, job
<1>0. /\ source[n] = "absent" /\ release[n] = "absent"
      /\ source \in [Names -> Copies] /\ release \in [Names -> Copies]
  BY DEF FInv, OnlyTargets, FilesOK
<1>1. ASSUME NEW k \in Names, SaveModel(k)
      PROVE  source'[n] = "absent" /\ release'[n] = "absent"
  BY <1>0, <1>1 DEF SaveModel, released
<1>2. ASSUME NEW k \in Names, ClearModel(k) \/ RemoveModel(k) \/ CopyModel(k)
      PROVE  source'[n] = "absent" /\ release'[n] = "absent"
  BY <1>0, <1>2 DEF ClearModel, RemoveModel, CopyModel, artifacts, released
<1>3. CASE CopiedModel
  BY <1>0, <1>3 DEF CopiedModel, artifacts
<1>4. CASE UNCHANGED <<source, release>>
  BY <1>0, <1>4
<1> QED
  BY <1>1, <1>2, <1>3, <1>4 DEF Serve, Handle, Complete, Publish, Delete, Crash, ClearMetadata,
       BeginCopy, EndCopy, WriteMetadata, ReplaceFails, Removed, DeleteRow, artifacts, released


(* Each step of the service keeps the models of a completed job.           *)
LEMMA ServeSourceKept == FInv /\ Serve /\ UNCHANGED job => SourceKept'
<1> SUFFICES ASSUME FInv, Serve, UNCHANGED job,
                    status' = "completed", ~cut', handler'.pc \notin {"removing", "deleting"},
                    NEW n \in Targets
             PROVE  source'[n] = "whole"
  BY DEF SourceKept, Targets, Indices, job
<1>0. /\ status = "completed" /\ ~cut /\ handler.pc \notin {"removing", "deleting"}
           => source[n] = "whole"
      /\ handler.pc \in {"removing", "deleting"} => status = "completed"
      /\ n \in Names
  BY GroupFacts DEF FInv, SourceKept, Stages
<1>1. ASSUME NEW k \in Names, SaveModel(k) PROVE source'[n] = "whole"
  BY <1>1 DEF SaveModel
<1>2. CASE Complete
  BY <1>2 DEF Complete
<1>3. CASE Publish \/ Delete
  BY <1>0, <1>3 DEF Publish, Delete, At, artifacts
<1>4. ASSUME NEW k \in Names, ClearModel(k) \/ CopyModel(k) PROVE source'[n] = "whole"
  <2>1. handler.pc \in {"clearing", "copying"}
    BY <1>4 DEF ClearModel, CopyModel, At
  <2>2. UNCHANGED <<status, cut, source>>
    BY <1>4 DEF ClearModel, CopyModel, artifacts
  <2> QED
    BY <1>0, <2>1, <2>2
<1>5. ASSUME NEW k \in Names, RemoveModel(k) PROVE source'[n] = "whole"
  BY <1>5 DEF RemoveModel, At
<1>6. CASE ClearMetadata \/ BeginCopy \/ CopiedModel \/ EndCopy \/ WriteMetadata \/ ReplaceFails
  <2>1. handler.pc \notin {"removing", "deleting"}
    BY <1>6 DEF ClearMetadata, BeginCopy, CopiedModel, EndCopy, CopyOver, WriteMetadata,
         ReplaceFails, At
  <2>2. UNCHANGED <<status, cut, source>>
    BY <1>6 DEF ClearMetadata, BeginCopy, CopiedModel, EndCopy, WriteMetadata, ReplaceFails,
         artifacts
  <2> QED
    BY <1>0, <2>1, <2>2
<1>7. CASE Removed
  BY <1>7, GotoFacts DEF Removed
<1>8. CASE DeleteRow
  BY <1>8 DEF DeleteRow
<1>9. CASE Crash
  BY <1>0, <1>9 DEF Crash, artifacts
<1> QED
  BY <1>1, <1>2, <1>3, <1>4, <1>5, <1>6, <1>7, <1>8, <1>9 DEF Serve, Handle

(* Each step of the service keeps what a stage has done.                   *)
LEMMA ServeStages == FInv /\ Serve => Stages'
<1> SUFFICES ASSUME FInv, Serve PROVE Stages'
  OBVIOUS
<1> USE DEF At
<1>0. FilesOK /\ Stages
  BY DEF FInv
<1>1. ASSUME NEW n \in Names, SaveModel(n) PROVE Stages'
  BY <1>0, <1>1 DEF SaveModel, Stages, released
<1>2. CASE Complete
  BY <1>0, <1>2 DEF Complete, Stages, released
<1>3. CASE Publish
  <2>1. handler'.pc = "clearing" /\ status' = "completed" /\ answer' = "none"
    BY <1>3, GotoFacts DEF Publish, artifacts
  <2> QED
    BY <2>1 DEF Stages
<1>4. CASE Delete
  <2>1. handler'.pc = "removing" /\ status' = "completed"
    BY <1>4, GotoFacts DEF Delete, artifacts
  <2> QED
    BY <2>1 DEF Stages
<1>5. ASSUME NEW n \in Names, ClearModel(n) \/ RemoveModel(n) PROVE Stages'
  <2>1. handler' = handler /\ status' = status /\ answer' = answer
        /\ handler.pc \in {"clearing", "removing"}
    BY <1>5 DEF ClearModel, RemoveModel, artifacts
  <2> QED
    BY <1>0, <2>1 DEF Stages
<1>6. CASE ClearMetadata
  BY <1>0, <1>6 DEF ClearMetadata, Stages, artifacts
<1>7. CASE BeginCopy
  <2>1. /\ handler'.pc = "copying" /\ handler'.dir = NoName
        /\ UNCHANGED <<status, answer, meta, release>>
    BY <1>7, GotoFacts DEF BeginCopy, artifacts, released
  <2>2. meta = "none" /\ \A n \in Names : release[n] = "absent"
    BY <1>7 DEF BeginCopy, Cleared
  <2>3. NoName \notin Names /\ handler.pc = "clearing"
    BY <1>7, ReleaseAssumption DEF BeginCopy
  <2> QED
    BY <1>0, <2>1, <2>2, <2>3 DEF Stages
<1>8. ASSUME NEW n \in Names, CopyModel(n) PROVE Stages'
  <2>1. /\ handler'.pc = "copying" /\ handler'.dir = n /\ handler.pc = "copying"
        /\ handler'.failed = handler.failed /\ handler.dir = NoName
        /\ release' = [release EXCEPT ![n] = "partial"] /\ source[n] # "absent"
        /\ UNCHANGED <<status, answer, meta, source>>
    BY <1>0, <1>8 DEF CopyModel, artifacts, FilesOK
  <2>2. \A k \in Names : k # n => release'[k] = release[k]
    BY <1>0, <2>1 DEF FilesOK
  <2>3. NoName \notin Names
    BY ReleaseAssumption
  <2> QED
    BY <1>0, <2>1, <2>2, <2>3 DEF Stages
<1>9. CASE CopiedModel
  <2>1. /\ handler'.pc = "copying" /\ handler.pc = "copying" /\ handler'.dir = NoName
        /\ handler.dir \in Names /\ NoName \notin Names
        /\ UNCHANGED <<status, answer, meta, source>>
    BY <1>0, <1>9, ReleaseAssumption DEF CopiedModel, artifacts, FilesOK
  <2>2. \/ /\ release' = [release EXCEPT ![handler.dir] = source[handler.dir]]
           /\ handler'.failed = handler.failed
        \/ release' = release /\ handler'.failed = TRUE
    BY <1>0, <1>9 DEF CopiedModel, FilesOK
  <2>3. ASSUME NEW k \in Names, release'[k] # "absent"
        PROVE  source[k] # "absent" /\ (handler'.failed = FALSE => release'[k] = source[k])
    BY <1>0, <2>1, <2>2, <2>3 DEF Stages, FilesOK
  <2> QED
    BY <1>0, <2>1, <2>3 DEF Stages
<1>10. CASE EndCopy
  <2>1. CASE ~handler.failed /\ Goto("writing")
    <3>1. /\ handler'.pc = "writing" /\ handler.pc = "copying" /\ handler.dir = NoName
          /\ UNCHANGED <<status, meta, source, release>>
      BY <1>10, <2>1, GotoFacts DEF EndCopy, CopyOver, artifacts, released
    <3>2. answer' = answer
      BY <1>10, <2>1 DEF EndCopy
    <3>3. ASSUME NEW n \in Names PROVE release[n] = source[n]
      BY <1>0, <1>10, <2>1, <3>1, ReleaseAssumption DEF EndCopy, CopyOver, Stages, FilesOK, Copies
    <3> QED
      BY <1>0, <3>1, <3>2, <3>3 DEF Stages
  <2>2. CASE Goto("idle")
    BY <2>2, GotoFacts DEF Stages
  <2> QED
    BY <1>10, <2>1, <2>2 DEF EndCopy
<1>11. CASE WriteMetadata
  <2>1. CASE meta' = "torn" /\ UNCHANGED <<handler, answer>>
    BY <1>0, <1>11, <2>1 DEF WriteMetadata, Stages, artifacts
  <2>2. CASE Goto("idle")
    BY <2>2, GotoFacts DEF Stages
  <2> QED
    BY <1>11, <2>1, <2>2 DEF WriteMetadata
<1>12. CASE ReplaceFails \/ DeleteRow \/ Crash
  BY <1>12, GotoFacts DEF ReplaceFails, DeleteRow, Crash, Stages
<1>13. CASE Removed
  BY <1>0, <1>13, GotoFacts DEF Removed, Stages
<1> QED
  BY <1>1, <1>2, <1>3, <1>4, <1>5, <1>6, <1>7, <1>8, <1>9, <1>10, <1>11, <1>12, <1>13
     DEF Serve, Handle

(* Each step of the service keeps a successful publication whole.          *)
LEMMA ServePublishedWhole == FInv /\ Serve /\ UNCHANGED job => PublishedWhole'
<1> SUFFICES ASSUME FInv, Serve, UNCHANGED job, answer' = "success", ~cut'
             PROVE  meta' = "whole" /\ \A n \in Targets : release'[n] = "whole"
  BY DEF PublishedWhole, Targets, Indices, job
<1> USE DEF At
<1>0. /\ answer = "success" /\ ~cut => meta = "whole" /\ \A n \in Targets : release[n] = "whole"
      /\ handler.pc \in {"clearing", "copying", "writing"} =>
           status = "completed" /\ answer = "none"
      /\ Targets \subseteq Names
  BY GroupFacts DEF FInv, Stages, PublishedWhole
<1>1. CASE WriteMetadata
  <2>1. /\ meta' = "whole" /\ release' = release /\ handler.pc = "writing"
        /\ cut' = cut
    BY <1>0, <1>1 DEF WriteMetadata
  <2>2. status = "completed" /\ \A n \in Targets : source[n] = "whole"
    BY <1>0, <2>1 DEF FInv, SourceKept
  <2>3. \A n \in Names : release[n] = source[n]
    BY <2>1 DEF FInv, Stages
  <2> QED
    BY <1>0, <2>1, <2>2, <2>3
<1>2. ASSUME NEW n \in Names, ClearModel(n) \/ CopyModel(n) PROVE FALSE
  BY <1>0, <1>2 DEF ClearModel, CopyModel
<1>3. CASE CopiedModel \/ ClearMetadata \/ BeginCopy \/ EndCopy \/ Publish \/ ReplaceFails
  BY <1>0, <1>3 DEF CopiedModel, ClearMetadata, BeginCopy, EndCopy, CopyOver, Publish, ReplaceFails
<1>4. ASSUME NEW n \in Names, SaveModel(n) \/ RemoveModel(n)
      PROVE  meta' = "whole" /\ \A k \in Targets : release'[k] = "whole"
  BY <1>0, <1>4 DEF SaveModel, RemoveModel, released
<1>5. CASE Complete \/ Delete \/ Removed \/ DeleteRow
  BY <1>0, <1>5 DEF Complete, Delete, Removed, DeleteRow, released
<1>6. CASE Crash
  BY <1>0, <1>6 DEF Crash, released
<1> QED
  BY <1>1, <1>2, <1>3, <1>4, <1>5, <1>6 DEF Serve, Handle


(* Each step keeps the files as they should be.                            *)
LEMMA NextFInv == FInv /\ [Next]_releaseVars => FInv'
<1> SUFFICES ASSUME FInv, [Next]_releaseVars PROVE FInv'
  OBVIOUS
<1>1. JobOK'
  BY Division DEF FInv, JobOK, job, Accepted
<1>2. CASE Serve /\ UNCHANGED reader
  BY <1>1, <1>2, Division, ServeFilesOK, ServeOnlyTargets, ServeSourceKept, ServeStages,
     ServePublishedWhole DEF FInv
<1>3. CASE UNCHANGED <<artifacts, released, handler, answer, cut, faults>>
  BY <1>1, <1>3, Division DEF FInv, artifacts, released, job, FilesOK, OnlyTargets, SourceKept,
     Stages, PublishedWhole, Targets, Indices
<1> QED
  BY <1>2, <1>3, Division

(* A prediction adds the group in hand, with the model of its directory.   *)
LEMMA PredictFacts ==
    ASSUME FInv, NEW r \in Readers, reader[r].pc = "load", ReaderOK(r), OwnDirectory(r),
           DOMAIN reader = Readers, reader' = Predict(r), UNCHANGED job
    PROVE  ReaderOK(r)' /\ OwnDirectory(r)'
<1> DEFINE g == reader[r].group
           t == Trained(reader[r].dir)
<1>1. g \in Indices /\ reader[r].dir \in Targets
  BY DEF ReaderOK
<1>2. PICK i \in Indices : groups[i].target = reader[r].dir
  BY <1>1 DEF Targets
<1>3. t = i
  BY <1>2, TrainedFacts DEF FInv
<1>4. /\ reader'[r].pc \in {"done", "resolve"}
      /\ reader'[r].todo = reader[r].todo \ {g}
      /\ reader'[r].used = reader[r].used \cup {<<g, t>>}
  <2> DEFINE next == IF reader[r].todo = {g} THEN "done" ELSE "resolve"
             left == reader[r].todo \ {g}
             used == reader[r].used \cup {<<g, t>>}
  <2>1. reader' = [reader EXCEPT ![r].pc = next, ![r].todo = left, ![r].used = used]
    BY Zenon DEF Predict
  <2>2. next \in {"done", "resolve"}
    OBVIOUS
  <2> HIDE DEF next, left, used
  <2>3. reader'[r].pc = next /\ reader'[r].todo = left /\ reader'[r].used = used
    BY <2>1
  <2> QED
    BY <2>2, <2>3 DEF left, used
<1>5. groups' = groups /\ Indices' = Indices /\ Targets' = Targets /\ Clean' = Clean
  BY DEF job, Indices, Targets, Clean
<1>6. ReaderOK(r)'
  BY <1>1, <1>3, <1>4, <1>5 DEF ReaderOK
<1>7. Clean => groups[t].target = groups[g].target
  BY <1>2, <1>3 DEF OwnDirectory
<1>8. ASSUME Clean, NEW u \in reader'[r].used
      PROVE  groups[u[2]].target = groups[u[1]].target
  BY <1>4, <1>7, <1>8 DEF OwnDirectory
<1>9. OwnDirectory(r)'
  BY <1>4, <1>5, <1>8 DEF OwnDirectory
<1> QED
  BY <1>6, <1>9

(* A reader that is stopped knows nothing.                                 *)
LEMMA StopFacts ==
    ASSUME NEW r \in Readers, DOMAIN reader = Readers, reader' = Stop(r)
    PROVE  ReaderOK(r)' /\ OwnDirectory(r)'
<1>1. reader'[r] = IdleReader
  BY DEF Stop
<1> QED
  BY <1>1 DEF IdleReader, ReaderOK, OwnDirectory

(* A step of one reader leaves the others alone.                           *)
LEMMA OthersFacts ==
    ASSUME NEW r \in Readers, DOMAIN reader = Readers, Ask(r) \/ Infer(r)
    PROVE  /\ DOMAIN reader' = Readers
           /\ \A q \in Readers : q # r => reader'[q] = reader[q]
BY DEF Ask, Infer, Resolve, Load, Respond, Predict, Stop

(* Each step of a reader keeps it on the way to its own model.             *)
LEMMA ReaderStep ==
    ASSUME FInv, NEW r \in Readers, Ask(r) \/ Infer(r), ReaderOK(r), OwnDirectory(r),
           DOMAIN reader = Readers, UNCHANGED job
    PROVE  ReaderOK(r)' /\ OwnDirectory(r)'
<1>0. groups' = groups /\ Indices' = Indices /\ Targets' = Targets /\ Clean' = Clean
  BY DEF job, Indices, Targets, Clean
<1>1. CASE Ask(r)
  <2>1. PICK wanted : reader' = [reader EXCEPT ![r] =
             [IdleReader EXCEPT !.pc = "resolve",
                                !.todo = {i \in Indices : Metadata[i].target \in wanted}]]
    BY <1>1 DEF Ask
  <2>2. /\ reader'[r].pc = "resolve" /\ reader'[r].todo \subseteq Indices
        /\ reader'[r].used = {}
    BY <2>1 DEF IdleReader
  <2> QED
    BY <1>0, <2>2 DEF ReaderOK, OwnDirectory
<1>2. CASE Resolve(r)
  <2>1. PICK i \in reader[r].todo :
          reader' = IF ByMetadata(i) = NoName
                    THEN Stop(r)
                    ELSE [reader EXCEPT ![r].pc = "load", ![r].group = i, ![r].dir = ByMetadata(i)]
    BY <1>2 DEF Resolve, ByMetadata
  <2>2. CASE ByMetadata(i) = NoName
    BY <2>1, <2>2, StopFacts
  <2>3. CASE ByMetadata(i) # NoName
    <3>1. i \in Indices
      BY <2>1 DEF ReaderOK
    <3>2. ByMetadata(i) = Strip(groups[i].target) /\ ByMetadata(i) \in Targets
      BY <2>3, <3>1, ResolvedFacts DEF FInv
    <3>3. Clean => ByMetadata(i) = groups[i].target
      BY <3>1, <3>2 DEF Clean
    <3>4. /\ reader'[r].pc = "load" /\ reader'[r].group = i /\ reader'[r].dir = ByMetadata(i)
          /\ reader'[r].todo = reader[r].todo /\ reader'[r].used = reader[r].used
      BY <2>1, <2>3
    <3>5. ReaderOK(r)'
      BY <1>0, <3>1, <3>2, <3>4 DEF ReaderOK
    <3>6. OwnDirectory(r)'
      BY <1>0, <3>3, <3>4 DEF OwnDirectory
    <3> QED
      BY <3>5, <3>6
  <2> QED
    BY <2>2, <2>3
<1>3. CASE Load(r)
  BY <1>3, PredictFacts, StopFacts DEF Load
<1>4. CASE Respond(r)
  BY <1>4, StopFacts DEF Respond
<1> QED
  BY <1>1, <1>2, <1>3, <1>4 DEF Infer

(* Each step keeps all readers on their way.                               *)
LEMMA NextReadersInv == FInv /\ ReadersInv /\ [Next]_releaseVars => ReadersInv'
<1> SUFFICES ASSUME FInv, ReadersInv, [Next]_releaseVars PROVE ReadersInv'
  OBVIOUS
<1>0. /\ UNCHANGED job
      /\ groups' = groups /\ Indices' = Indices /\ Targets' = Targets /\ Clean' = Clean
  BY Division DEF job, Indices, Targets, Clean
<1>1. ASSUME NEW q \in Readers, reader'[q] = reader[q] PROVE ReaderOK(q)' /\ OwnDirectory(q)'
  BY <1>0, <1>1 DEF ReadersInv, ReaderOK, OwnDirectory
<1>2. CASE UNCHANGED reader
  BY <1>1, <1>2 DEF ReadersInv
<1>3. ASSUME NEW r \in Readers, Ask(r) \/ Infer(r) PROVE ReadersInv'
  <2>1. ReaderOK(r)' /\ OwnDirectory(r)'
    BY <1>0, <1>3, ReaderStep DEF ReadersInv
  <2>2. DOMAIN reader' = Readers /\ \A q \in Readers : q # r => reader'[q] = reader[q]
    BY <1>3, OthersFacts DEF ReadersInv
  <2> QED
    BY <1>1, <2>1, <2>2 DEF ReadersInv
<1> QED
  BY <1>2, <1>3, Division

(* The inductive invariant holds in every reachable state.                 *)
LEMMA Inductive == Spec => [](FInv /\ ReadersInv)
  BY InitInv, NextFInv, NextReadersInv, PTL DEF Spec

(* The state keeps the shape the code gives it.                            *)
THEOREM ReleaseTypeCorrect == Spec => []TypeOK
<1>1. FInv /\ ReadersInv => TypeOK
  BY DEF FInv, ReadersInv, TypeOK, JobOK, FilesOK, ReaderOK
<1> QED
  BY Inductive, <1>1, PTL

(* A publication answered with success is whole, whatever was cut short,   *)
(* failed or was deleted before or after it.                               *)
THEOREM PublishedWholeHolds == Spec => []PublishedWhole
<1>1. FInv => PublishedWhole
  BY DEF FInv
<1> QED
  BY Inductive, <1>1, PTL

(* No reader predicts a target with the model of another one, although     *)
(* nothing keeps it and the publication apart.                             *)
THEOREM NeverWrongModelHolds == Spec => []NeverWrongModel
<1>1. ASSUME FInv, ReadersInv, Clean, NEW r \in Readers, NEW u \in reader[r].used
      PROVE  /\ Metadata[u[1]].target = groups[u[2]].target
             /\ Covariates(u[1]) = groups[u[2]].covariates
  <2>1. u[1] \in Indices /\ u[2] \in Indices /\ groups[u[2]].target = groups[u[1]].target
    BY <1>1 DEF ReadersInv, ReaderOK, OwnDirectory
  <2>2. u[2] = u[1]
    BY <1>1, <2>1, TrainedFacts DEF FInv
  <2>3. /\ Metadata[u[1]].target = Strip(groups[u[1]].target)
        /\ Metadata[u[1]].covariates = groups[u[1]].covariates
    BY <2>1 DEF Metadata
  <2>4. /\ Strip(groups[u[1]].target) = groups[u[1]].target
        /\ \A n \in groups[u[1]].covariates : Strip(n) = n
    BY <1>1, <2>1 DEF Clean
  <2> QED
    BY <2>2, <2>3, <2>4 DEF Covariates
<1>2. FInv /\ ReadersInv => NeverWrongModel
  BY <1>1 DEF NeverWrongModel
<1> QED
  BY Inductive, <1>2, PTL

(* What a successful publication lists can be inferred, target by target.  *)
THEOREM ServedOncePublishedHolds == Spec => []ServedOncePublished
<1>1. ASSUME FInv, answer = "success", ~cut, Clean, mapped \/ prefix = Fixed
      PROVE  Listed = Targets /\ \A i \in Indices : Serves(i, ByMetadata(i))
  <2>1. meta = "whole" /\ \A n \in Targets : release[n] = "whole"
    BY <1>1 DEF FInv, PublishedWhole
  <2>2. ASSUME NEW i \in Indices
        PROVE  /\ Metadata[i].target = groups[i].target
               /\ Serves(i, ByMetadata(i))
    <3> DEFINE n == groups[i].target
    <3>1. Strip(n) = n /\ n \in Targets /\ n \in Names /\ n # NoName
      BY <1>1, GroupFacts, ReleaseAssumption DEF Clean, FInv
    <3>2. Found(ModelDir(n))
      BY <1>1, <2>1, <3>1 DEF Found, ModelDir
    <3>3. ByMetadata(i) = n /\ Metadata[i].target = n
      BY <1>1, <3>1, <3>2, ResolvedFacts DEF FInv
    <3>4. Trained(n) = i
      BY <1>1, TrainedFacts DEF FInv
    <3> QED
      BY <2>1, <3>1, <3>3, <3>4 DEF Serves
  <2>3. Listed = Targets
    BY <2>1, <2>2 DEF Listed, Targets
  <2> QED
    BY <2>2, <2>3
<1>2. FInv => ServedOncePublished
  BY <1>1 DEF ServedOncePublished
<1> QED
  BY Inductive, <1>2, PTL

(* Readers see the metadata of a release only once all of it is there.     *)
THEOREM MetadataLastHolds == Spec => MetadataLast
<1>1. ASSUME FInv, [Next]_releaseVars, meta # "whole", meta' = "whole"
      PROVE  release = source
  <2>1. WriteMetadata
    BY <1>1 DEF Next, releaseVars, released, SaveModel, Complete, Publish, Delete, Handle, Crash,
         ClearModel, CopyModel, RemoveModel, ClearMetadata, BeginCopy, CopiedModel, EndCopy,
         ReplaceFails, Removed, DeleteRow, Ask, Infer, Resolve, Load, Respond
  <2>2. \A n \in Names : release[n] = source[n]
    BY <1>1, <2>1 DEF WriteMetadata, At, FInv, Stages
  <2> QED
    BY <1>1, <2>2 DEF FInv, FilesOK
<1>2. FInv /\ [Next]_releaseVars => (meta # "whole" /\ meta' = "whole" => release = source)
  BY <1>1
<1> QED
  BY Inductive, <1>2, PTL DEF Spec, MetadataLast

(***************************************************************************)
(* How far everybody is from the end of what was begun.                    *)
(***************************************************************************)

(* A reader that goes on has a group to go on with.                        *)
HasTodo(r) ==
    /\ reader[r].pc = "resolve" => reader[r].todo # {}
    /\ reader[r].pc = "load" => reader[r].group \in reader[r].todo

TodoInv == \A r \in Readers : HasTodo(r)

(* Two steps for each group that is still to be predicted, and the answer. *)
GroupsLeft(r) ==
    CASE reader[r].pc = "resolve" -> 2 * Cardinality(reader[r].todo) + 1
      [] reader[r].pc = "load" -> 2 * Cardinality(reader[r].todo)
      [] reader[r].pc = "done" -> 1
      [] reader[r].pc = "idle" -> 0

(* A reader that goes on has less left, and nobody gives it more.          *)
ReadersAdvance ==
    [][\A r \in Readers : reader[r].pc # "idle" =>
          IF Infer(r) THEN GroupsLeft(r)' < GroupsLeft(r) ELSE reader'[r] = reader[r]]_releaseVars

(* The stages of a publication and of a deletion, counted from their end.  *)
Stage(pc) ==
    CASE pc = "clearing" -> 5 [] pc = "copying" -> 4 [] pc = "writing" -> 3
      [] pc = "removing" -> 2 [] pc = "deleting" -> 1 [] pc = "idle" -> 0

(* What the stage has still to do with one model, and with the metadata.   *)
Rank(copy) == CASE copy = "whole" -> 2 [] copy = "partial" -> 1 [] copy = "absent" -> 0
FileLeft(n) ==
    CASE At("clearing") -> Rank(release[n])
      [] At("removing") -> Rank(source[n])
      [] At("copying") -> IF handler.dir = n THEN 1
                          ELSE IF release[n] = "absent" /\ source[n] # "absent" THEN 2 ELSE 0
      [] handler.pc \notin {"clearing", "removing", "copying"} -> 0
MetaLeft ==
    CASE At("clearing") -> IF meta = "none" THEN 0 ELSE 1
      [] At("writing") -> IF meta = "none" THEN 2 ELSE 1
      [] handler.pc \notin {"clearing", "writing"} -> 0

(* One step takes a file away from what is left, and adds none.            *)
OneFileLess ==
    \/ /\ MetaLeft' < MetaLeft
       /\ \A n \in Names : FileLeft(n)' = FileLeft(n)
    \/ /\ MetaLeft' = MetaLeft
       /\ \E n \in Names : /\ FileLeft(n)' < FileLeft(n)
                           /\ \A m \in Names \ {n} : FileLeft(m)' = FileLeft(m)

(* Each step of a publication or deletion goes on to a later stage, or has *)
(* a file less to handle in this one; nothing else touches the files or    *)
(* the handler meanwhile.                                                  *)
HandlerAdvances ==
    [][~At("idle") =>
          IF Handle \/ Crash
          THEN Stage(handler'.pc) < Stage(handler.pc) \/ (handler'.pc = handler.pc /\ OneFileLess)
          ELSE UNCHANGED <<handler, source, released>>]_releaseVars

(* The groups of a job are finitely many.                                  *)
LEMMA IndicesFinite ==
    ASSUME JobOK
    PROVE  /\ Len(groups) \in Nat
           /\ IsFiniteSet(Indices) /\ Cardinality(Indices) = Len(groups)
           /\ \A S \in SUBSET Indices :
                IsFiniteSet(S) /\ Cardinality(S) \in 0..Len(groups)
<1>1. groups \in Seq([target : Names, covariates : SUBSET Names])
  BY ReleaseAssumption DEF JobOK
<1>2. Len(groups) \in Nat /\ Indices = 1..Len(groups)
  BY <1>1 DEF Indices
<1>3. IsFiniteSet(Indices) /\ Cardinality(Indices) = Len(groups)
  <2>1. /\ IsFiniteSet(1..Len(groups))
        /\ Cardinality(1..Len(groups)) = IF 1 > Len(groups) THEN 0 ELSE Len(groups) - 1 + 1
    BY <1>2, FS_Interval
  <2> QED
    BY <1>2, <2>1
<1>4. ASSUME NEW S \in SUBSET Indices
      PROVE  IsFiniteSet(S) /\ Cardinality(S) \in 0..Len(groups)
  <2>1. IsFiniteSet(S) /\ Cardinality(S) <= Len(groups)
    BY <1>3, FS_Subset
  <2>2. Cardinality(S) \in Nat
    BY <2>1, FS_CardinalityType
  <2> QED
    BY <1>2, <2>1, <2>2
<1> QED
  BY <1>2, <1>3, <1>4

(* A reader's steps, and what each does with the groups it has to predict. *)
LEMMA InferSteps ==
    ASSUME NEW r \in Readers, DOMAIN reader = Readers, HasTodo(r), Infer(r)
    PROVE  \/ reader[r].pc # "idle" /\ reader'[r].pc = "idle"
           \/ /\ reader[r].pc = "resolve" /\ reader'[r].pc = "load"
              /\ reader'[r].todo = reader[r].todo /\ reader'[r].group \in reader[r].todo
           \/ /\ reader[r].pc = "load" /\ reader[r].group \in reader[r].todo
              /\ reader'[r].todo = reader[r].todo \ {reader[r].group}
              /\ reader'[r].pc = IF reader[r].todo = {reader[r].group} THEN "done" ELSE "resolve"
<1>1. ASSUME reader' = Stop(r) PROVE reader'[r].pc = "idle"
  BY <1>1 DEF Stop, IdleReader
<1>2. CASE Resolve(r)
  <2>1. PICK i \in reader[r].todo :
          reader' = IF ByMetadata(i) = NoName
                    THEN Stop(r)
                    ELSE [reader EXCEPT ![r].pc = "load", ![r].group = i, ![r].dir = ByMetadata(i)]
    BY <1>2 DEF Resolve, ByMetadata
  <2>2. reader[r].pc = "resolve"
    BY <1>2 DEF Resolve
  <2> QED
    BY <1>1, <2>1, <2>2
<1>3. CASE Load(r)
  <2>1. reader[r].pc = "load" /\ reader[r].group \in reader[r].todo
    BY <1>3 DEF Load, HasTodo
  <2>2. CASE reader' = Predict(r)
    <3> DEFINE next == IF reader[r].todo = {reader[r].group} THEN "done" ELSE "resolve"
               left == reader[r].todo \ {reader[r].group}
               used == reader[r].used \cup {<<reader[r].group, Trained(reader[r].dir)>>}
    <3>1. reader' = [reader EXCEPT ![r].pc = next, ![r].todo = left, ![r].used = used]
      BY <2>2, Zenon DEF Predict
    <3> HIDE DEF next, left, used
    <3>2. reader'[r].pc = next /\ reader'[r].todo = left
      BY <3>1
    <3> QED
      BY <2>1, <3>2 DEF next, left
  <2>3. CASE reader' = Stop(r)
    BY <1>1, <2>1, <2>3
  <2> QED
    BY <1>3, <2>2, <2>3 DEF Load
<1>4. CASE Respond(r)
  BY <1>1, <1>4 DEF Respond
<1> QED
  BY <1>2, <1>3, <1>4 DEF Infer

(* Who takes groups up takes at least one, and keeps one until the end.    *)
LEMMA NextTodo == ReadersInv /\ TodoInv /\ [Next]_releaseVars => TodoInv'
<1> SUFFICES ASSUME ReadersInv, TodoInv, [Next]_releaseVars PROVE TodoInv'
  OBVIOUS
<1>1. ASSUME NEW q \in Readers, reader'[q] = reader[q] PROVE HasTodo(q)'
  BY <1>1 DEF TodoInv, HasTodo
<1>2. ASSUME NEW r \in Readers, Ask(r) PROVE HasTodo(r)'
  <2>1. PICK wanted \in (SUBSET {Metadata[i].target : i \in Indices}) \ {{}} :
          reader' = [reader EXCEPT ![r] =
             [IdleReader EXCEPT !.pc = "resolve",
                                !.todo = {i \in Indices : Metadata[i].target \in wanted}]]
    BY <1>2 DEF Ask
  <2>2. reader'[r].pc = "resolve"
        /\ reader'[r].todo = {i \in Indices : Metadata[i].target \in wanted}
    BY <2>1 DEF ReadersInv, IdleReader
  <2>3. PICK w \in wanted : w \in {Metadata[i].target : i \in Indices}
    BY <2>1
  <2>4. {i \in Indices : Metadata[i].target \in wanted} # {}
    BY <2>3
  <2> QED
    BY <2>2, <2>4 DEF HasTodo
<1>3. ASSUME NEW r \in Readers, Infer(r) PROVE HasTodo(r)'
  <2>1. HasTodo(r) /\ DOMAIN reader = Readers
    BY DEF TodoInv, ReadersInv
  <2> QED
    BY <1>3, <2>1, InferSteps DEF HasTodo
<1>4. ASSUME NEW r \in Readers, Ask(r) \/ Infer(r) PROVE TodoInv'
  <2>1. \A q \in Readers : q # r => reader'[q] = reader[q]
    BY <1>4, OthersFacts DEF ReadersInv
  <2> QED
    BY <1>1, <1>2, <1>3, <1>4, <2>1 DEF TodoInv
<1> QED
  BY <1>1, <1>4, Division DEF TodoInv

(* A step of inference leaves the reader less to do.                       *)
LEMMA InferShrinks ==
    ASSUME JobOK, ReadersInv, TodoInv, NEW r \in Readers, Infer(r), UNCHANGED job
    PROVE  GroupsLeft(r)' < GroupsLeft(r)
<1> DEFINE T == reader[r].todo
           c == Cardinality(T)
<1>1. IsFiniteSet(T) /\ c \in Nat
  BY IndicesFinite DEF ReadersInv, ReaderOK
<1>2. T # {} => c > 0
  BY <1>1, FS_EmptySet
<1>3. \A x \in T : Cardinality(T \ {x}) = c - 1
  BY <1>1, FS_RemoveElement
<1>4. HasTodo(r) /\ DOMAIN reader = Readers /\ reader[r].pc \in {"idle", "resolve", "load", "done"}
  BY DEF ReadersInv, ReaderOK, TodoInv
<1>5. \/ reader[r].pc # "idle" /\ reader'[r].pc = "idle"
      \/ reader[r].pc = "resolve" /\ reader'[r].pc = "load" /\ reader'[r].todo = T
      \/ /\ reader[r].pc = "load" /\ reader[r].group \in T
         /\ reader'[r].todo = T \ {reader[r].group}
         /\ reader'[r].pc = IF T = {reader[r].group} THEN "done" ELSE "resolve"
  BY <1>4, InferSteps
<1>6. CASE reader[r].pc # "idle" /\ reader'[r].pc = "idle"
  <2>1. GroupsLeft(r)' = 0
    BY <1>6 DEF GroupsLeft
  <2>2. GroupsLeft(r) \in {1, 2 * c, 2 * c + 1} /\ (reader[r].pc \in {"resolve", "load"} => c > 0)
    BY <1>2, <1>4, <1>6 DEF GroupsLeft, HasTodo
  <2>3. GroupsLeft(r) = 1 \/ (c > 0 /\ GroupsLeft(r) \in {2 * c, 2 * c + 1})
    BY <1>4, <1>6, <2>2 DEF GroupsLeft
  <2> QED
    BY <1>1, <2>1, <2>3
<1>7. CASE reader[r].pc = "resolve" /\ reader'[r].pc = "load" /\ reader'[r].todo = T
  <2>1. GroupsLeft(r) = 2 * c + 1 /\ GroupsLeft(r)' = 2 * c
    BY <1>7 DEF GroupsLeft
  <2> QED
    BY <1>1, <2>1
<1>8. CASE /\ reader[r].pc = "load" /\ reader[r].group \in T
           /\ reader'[r].todo = T \ {reader[r].group}
           /\ reader'[r].pc = IF T = {reader[r].group} THEN "done" ELSE "resolve"
  <2>1. GroupsLeft(r) = 2 * c /\ c > 0
    BY <1>2, <1>8 DEF GroupsLeft
  <2>2. GroupsLeft(r)' = 1 \/ GroupsLeft(r)' = 2 * Cardinality(T \ {reader[r].group}) + 1
    BY <1>8 DEF GroupsLeft
  <2>3. Cardinality(T \ {reader[r].group}) = c - 1
    BY <1>3, <1>8
  <2> QED
    BY <1>1, <2>1, <2>2, <2>3
<1> QED
  BY <1>5, <1>6, <1>7, <1>8

(* An inference ends after at most two steps for each group and one more,  *)
(* whatever happens to the release meanwhile (EverybodyEnds, readers).     *)
THEOREM ReadersAdvanceHolds ==
    Spec => /\ ReadersAdvance
            /\ [](\A r \in Readers : GroupsLeft(r) \in 0..(2 * Len(groups) + 1))
<1> DEFINE Advances(r) ==
             reader[r].pc # "idle" =>
               IF Infer(r) THEN GroupsLeft(r)' < GroupsLeft(r) ELSE reader'[r] = reader[r]
           AllAdvance == \A r \in Readers : Advances(r)
           Bounded == \A r \in Readers : GroupsLeft(r) \in 0..(2 * Len(groups) + 1)
<1>1. FInv /\ ReadersInv /\ TodoInv /\ [Next]_releaseVars => [AllAdvance]_releaseVars
  <2> SUFFICES ASSUME FInv, ReadersInv, TodoInv, [Next]_releaseVars,
                      NEW r \in Readers, reader[r].pc # "idle"
               PROVE  IF Infer(r) THEN GroupsLeft(r)' < GroupsLeft(r) ELSE reader'[r] = reader[r]
    BY DEF AllAdvance, Advances
  <2>1. CASE Infer(r)
    BY <2>1, InferShrinks, Division DEF FInv
  <2>2. CASE ~Infer(r)
    <3>1. ~Ask(r)
      BY DEF Ask
    <3>2. ASSUME NEW q \in Readers, Ask(q) \/ Infer(q) PROVE reader'[r] = reader[r]
      BY <2>2, <3>1, <3>2, OthersFacts DEF ReadersInv
    <3> QED
      BY <2>2, <3>2, Division
  <2> QED
    BY <2>1, <2>2
<1>2. FInv /\ ReadersInv => Bounded
  <2> SUFFICES ASSUME FInv, ReadersInv, NEW r \in Readers
               PROVE  GroupsLeft(r) \in 0..(2 * Len(groups) + 1)
    BY DEF Bounded
  <2> DEFINE c == Cardinality(reader[r].todo)
  <2>1. c \in 0..Len(groups) /\ Len(groups) \in Nat
    BY IndicesFinite DEF FInv, ReadersInv, ReaderOK
  <2>2. GroupsLeft(r) \in {0, 1, 2 * c, 2 * c + 1}
    BY DEF ReadersInv, ReaderOK, GroupsLeft
  <2> HIDE DEF c
  <2> QED
    BY <2>1, <2>2
<1>3. Init => TodoInv
  BY DEF Init, TodoInv, HasTodo, IdleReader
<1> HIDE DEF AllAdvance, Bounded
<1>4. Spec => [](FInv /\ ReadersInv /\ TodoInv)
  BY <1>3, InitInv, NextFInv, NextReadersInv, NextTodo, PTL DEF Spec
<1>5. Spec => [][AllAdvance]_releaseVars /\ []Bounded
  BY <1>1, <1>2, <1>4, PTL DEF Spec
<1> QED
  BY <1>5 DEF AllAdvance, Advances, Bounded, ReadersAdvance

(* A directory that is being copied has been made.                         *)
CopyMade == At("copying") /\ handler.dir \in Names => release[handler.dir] # "absent"

(* Each step makes a directory before it fills it.                         *)
LEMMA NextCopyMade == FInv /\ CopyMade /\ [Next]_releaseVars => CopyMade'
<1> SUFFICES ASSUME FInv, CopyMade, [Next]_releaseVars PROVE CopyMade'
  OBVIOUS
<1> USE DEF At
<1>0. NoName \notin Names
  BY ReleaseAssumption
<1>1. ASSUME handler' = handler, release' = release PROVE CopyMade'
  BY <1>1 DEF CopyMade
<1>2. ASSUME NEW n \in Names, SaveModel(n) \/ RemoveModel(n) \/ ClearModel(n) PROVE CopyMade'
  BY <1>2 DEF SaveModel, RemoveModel, ClearModel, CopyMade, released
<1>3. ASSUME NEW n \in Names, CopyModel(n) PROVE CopyMade'
  BY <1>3 DEF CopyModel, CopyMade, FInv, FilesOK
<1>4. ASSUME NEW p \in {"idle", "clearing", "copying", "writing", "removing", "deleting"},
             Goto(p)
      PROVE  CopyMade'
  BY <1>0, <1>4, GotoFacts DEF CopyMade
<1>5. CASE Publish \/ Delete \/ BeginCopy \/ EndCopy \/ ReplaceFails \/ Removed \/ DeleteRow
            \/ Crash
  BY <1>4, <1>5 DEF Publish, Delete, BeginCopy, EndCopy, ReplaceFails, Removed, DeleteRow, Crash
<1>6. CASE CopiedModel
  BY <1>0, <1>6 DEF CopiedModel, CopyMade, FInv, FilesOK
<1>7. CASE WriteMetadata
  BY <1>1, <1>4, <1>7 DEF WriteMetadata
<1>8. CASE Complete \/ ClearMetadata
  BY <1>1, <1>8 DEF Complete, ClearMetadata, released
<1>9. CASE Serve
  BY <1>2, <1>3, <1>5, <1>6, <1>7, <1>8, <1>9 DEF Serve, Handle
<1>10. CASE UNCHANGED <<artifacts, released, handler, answer, cut, faults>>
  BY <1>1, <1>10 DEF released
<1> QED
  BY <1>9, <1>10, Division

(* The stages in their order.                                              *)
LEMMA StageFacts ==
    /\ Stage("clearing") = 5 /\ Stage("copying") = 4 /\ Stage("writing") = 3
    /\ Stage("removing") = 2 /\ Stage("deleting") = 1 /\ Stage("idle") = 0
BY DEF Stage

(* Less of a copy is less.                                                 *)
LEMMA LessFacts ==
    \A copy \in Copies : copy # "absent" => /\ Less(copy) \in Copies
                                            /\ Rank(Less(copy)) < Rank(copy)
BY DEF Copies, Less, Rank

(* A step of a publication or deletion leaves less of it.                  *)
LEMMA HandlerStep ==
    ASSUME FInv, CopyMade, ~At("idle"), Handle \/ Crash
    PROVE  Stage(handler'.pc) < Stage(handler.pc) \/ (handler'.pc = handler.pc /\ OneFileLess)
<1> USE DEF At
<1>0. /\ NoName \notin Names
      /\ handler.pc \in {"clearing", "copying", "writing", "removing", "deleting"}
      /\ source \in [Names -> Copies] /\ release \in [Names -> Copies]
      /\ meta \in {"none", "torn", "whole"}
      /\ handler \in [pc : {"idle", "clearing", "copying", "writing", "removing", "deleting"},
                      dir : Names \cup {NoName}, failed : BOOLEAN]
  BY ReleaseAssumption DEF FInv, FilesOK
<1>1. ASSUME Goto("idle") PROVE Stage(handler'.pc) < Stage(handler.pc)
  <2>1. handler'.pc = "idle"
    BY <1>1, GotoFacts
  <2> QED
    BY <1>0, <2>1, StageFacts
<1>2. CASE ReplaceFails \/ Crash \/ DeleteRow
  BY <1>1, <1>2 DEF ReplaceFails, Crash, DeleteRow
<1>3. CASE BeginCopy
  BY <1>3, GotoFacts, StageFacts DEF BeginCopy
<1>4. CASE EndCopy
  <2>1. handler.pc = "copying" /\ (Goto("idle") \/ Goto("writing"))
    BY <1>4 DEF EndCopy, CopyOver
  <2>2. handler'.pc \in {"idle", "writing"}
    BY <2>1, GotoFacts
  <2> QED
    BY <2>1, <2>2, StageFacts
<1>5. CASE Removed
  BY <1>5, GotoFacts, StageFacts DEF Removed
<1>6. CASE WriteMetadata
  <2>1. CASE meta = "none" /\ meta' = "torn" /\ UNCHANGED <<handler, answer>>
    <3>1. handler.pc = "writing" /\ handler' = handler
      BY <1>6, <2>1 DEF WriteMetadata
    <3>2. MetaLeft = 2 /\ MetaLeft' = 1
      BY <2>1, <3>1 DEF MetaLeft
    <3>3. \A n \in Names : FileLeft(n) = 0 /\ FileLeft(n)' = 0
      BY <3>1 DEF FileLeft
    <3> QED
      BY <3>1, <3>2, <3>3 DEF OneFileLess
  <2>2. CASE Goto("idle")
    BY <1>1, <2>2
  <2> QED
    BY <1>6, <2>1, <2>2 DEF WriteMetadata
<1>7. CASE ClearMetadata
  <2>1. /\ handler.pc = "clearing" /\ handler' = handler /\ release' = release
        /\ meta # "none" /\ meta' = "none"
    BY <1>7 DEF ClearMetadata
  <2>2. MetaLeft = 1 /\ MetaLeft' = 0
    BY <2>1 DEF MetaLeft
  <2>3. \A n \in Names : FileLeft(n) = Rank(release[n]) /\ FileLeft(n)' = Rank(release'[n])
    BY <2>1 DEF FileLeft
  <2> QED
    BY <2>1, <2>2, <2>3 DEF OneFileLess
<1>8. ASSUME NEW n \in Names, ClearModel(n)
      PROVE  handler'.pc = handler.pc /\ OneFileLess
  <2>1. /\ handler.pc = "clearing" /\ handler' = handler /\ meta' = meta
        /\ release[n] # "absent" /\ release' = [release EXCEPT ![n] = Less(release[n])]
    BY <1>8 DEF ClearModel
  <2>2. MetaLeft' = MetaLeft
    BY <2>1 DEF MetaLeft
  <2>3. \A m \in Names : FileLeft(m) = Rank(release[m]) /\ FileLeft(m)' = Rank(release'[m])
    BY <2>1 DEF FileLeft
  <2>4. Rank(release'[n]) < Rank(release[n])
    BY <1>0, <2>1, LessFacts
  <2>5. \A m \in Names \ {n} : release'[m] = release[m]
    BY <1>0, <2>1
  <2> QED
    BY <2>1, <2>2, <2>3, <2>4, <2>5 DEF OneFileLess
<1>9. ASSUME NEW n \in Names, RemoveModel(n)
      PROVE  handler'.pc = handler.pc /\ OneFileLess
  <2>1. /\ handler.pc = "removing" /\ handler' = handler /\ meta' = meta
        /\ source[n] # "absent" /\ source' = [source EXCEPT ![n] = Less(source[n])]
    BY <1>9 DEF RemoveModel, released
  <2>2. MetaLeft' = MetaLeft
    BY <2>1 DEF MetaLeft
  <2>3. \A m \in Names : FileLeft(m) = Rank(source[m]) /\ FileLeft(m)' = Rank(source'[m])
    BY <2>1 DEF FileLeft
  <2>4. Rank(source'[n]) < Rank(source[n])
    BY <1>0, <2>1, LessFacts
  <2>5. \A m \in Names \ {n} : source'[m] = source[m]
    BY <1>0, <2>1
  <2> QED
    BY <2>1, <2>2, <2>3, <2>4, <2>5 DEF OneFileLess
<1>c. handler.pc = "copying" =>
        \A m \in Names : FileLeft(m) =
          IF handler.dir = m THEN 1
          ELSE IF release[m] = "absent" /\ source[m] # "absent" THEN 2 ELSE 0
  BY DEF FileLeft
<1>d. handler'.pc = "copying" =>
        \A m \in Names : FileLeft(m)' =
          IF handler'.dir = m THEN 1
          ELSE IF release'[m] = "absent" /\ source'[m] # "absent" THEN 2 ELSE 0
  BY DEF FileLeft
<1>10. ASSUME NEW n \in Names, CopyModel(n)
       PROVE  handler'.pc = handler.pc /\ OneFileLess
  <2>1. /\ handler.pc = "copying" /\ handler.dir = NoName /\ meta' = meta /\ source' = source
        /\ source[n] # "absent" /\ release[n] = "absent"
        /\ release' = [release EXCEPT ![n] = "partial"]
        /\ handler'.pc = "copying" /\ handler'.dir = n
    BY <1>0, <1>10 DEF CopyModel, artifacts
  <2>2. MetaLeft = 0 /\ MetaLeft' = 0
    BY <2>1 DEF MetaLeft
  <2>3. FileLeft(n) = 2 /\ FileLeft(n)' = 1
    BY <1>0, <1>c, <1>d, <2>1
  <2>4. \A m \in Names \ {n} : FileLeft(m)' = FileLeft(m)
    BY <1>0, <1>c, <1>d, <2>1
  <2> QED
    BY <2>1, <2>2, <2>3, <2>4 DEF OneFileLess
<1>11. CASE CopiedModel
  <2>0. PICK d \in Names : handler.dir = d
    BY <1>0, <1>11 DEF CopiedModel
  <2>1. /\ handler.pc = "copying" /\ meta' = meta /\ source' = source
        /\ release' = [release EXCEPT ![d] = source[d]] \/ release' = release
        /\ handler'.pc = "copying" /\ handler'.dir = NoName
    BY <1>0, <1>11, <2>0 DEF CopiedModel, artifacts
  <2>2. release[d] # "absent" /\ source[d] # "absent"
    BY <2>0, <2>1 DEF CopyMade, FInv, Stages
  <2>3. MetaLeft = 0 /\ MetaLeft' = 0
    BY <2>1 DEF MetaLeft
  <2>4. release'[d] # "absent" /\ \A m \in Names \ {d} : release'[m] = release[m]
    BY <1>0, <2>1, <2>2
  <2>5. /\ \A m \in Names \ {d} : handler.dir # m /\ handler'.dir # m
        /\ handler.dir = d /\ handler'.dir # d
    BY <1>0, <2>0, <2>1
  <2>6. FileLeft(d) = 1
    BY <1>c, <2>1, <2>5
  <2>7. FileLeft(d)' = 0
    BY <1>d, <2>1, <2>4, <2>5
  <2>8. ASSUME NEW m \in Names \ {d} PROVE FileLeft(m)' = FileLeft(m)
    <3>1. /\ FileLeft(m) =
               IF release[m] = "absent" /\ source[m] # "absent" THEN 2 ELSE 0
          /\ FileLeft(m)' =
               IF release'[m] = "absent" /\ source'[m] # "absent" THEN 2 ELSE 0
      BY <1>c, <1>d, <2>1, <2>5
    <3> QED
      BY <2>1, <2>4, <3>1
  <2>9. FileLeft(d)' < FileLeft(d)
    BY <2>6, <2>7
  <2> QED
    BY <2>1, <2>3, <2>8, <2>9 DEF OneFileLess
<1> QED
  BY <1>2, <1>3, <1>4, <1>5, <1>6, <1>7, <1>8, <1>9, <1>10, <1>11 DEF Handle

(* A publication or deletion works off the files of the stages before it,  *)
(* those of the job's targets and no others, each in one direction, and    *)
(* has them to itself; going on, it therefore ends (EverybodyEnds).        *)
THEOREM PublicationAdvances ==
    Spec => HandlerAdvances /\ [](\A n \in Names \ Targets : FileLeft(n) = 0)
<1> DEFINE Advances ==
             ~At("idle") =>
               IF Handle \/ Crash
               THEN Stage(handler'.pc) < Stage(handler.pc)
                      \/ (handler'.pc = handler.pc /\ OneFileLess)
               ELSE UNCHANGED <<handler, source, released>>
           NoneElsewhere == \A n \in Names \ Targets : FileLeft(n) = 0
<1>1. FInv /\ CopyMade /\ [Next]_releaseVars => [Advances]_releaseVars
  <2> SUFFICES ASSUME FInv, CopyMade, [Next]_releaseVars, ~At("idle"), ~(Handle \/ Crash)
               PROVE  UNCHANGED <<handler, source, released>>
    BY HandlerStep DEF Advances
  <2>1. status = "completed"
    BY DEF FInv, FilesOK, Stages, At
  <2>2. ~Serve
    BY <2>1 DEF Serve, SaveModel, Complete, Publish, Delete
  <2> QED
    BY <2>2, Division DEF artifacts, released
<1>2. FInv => NoneElsewhere
  <2> SUFFICES ASSUME FInv, NEW n \in Names \ Targets PROVE FileLeft(n) = 0
    BY DEF NoneElsewhere
  <2>1. source[n] = "absent" /\ release[n] = "absent" /\ Rank("absent") = 0
    BY DEF FInv, OnlyTargets, Rank
  <2>2. handler.pc = "copying" => handler.dir # n
    BY <2>1 DEF FInv, Stages
  <2> QED
    BY <2>1, <2>2 DEF FileLeft, At
<1>3. Init => CopyMade
  BY DEF Init, CopyMade, At, IdleHandler
<1> HIDE DEF Advances, NoneElsewhere
<1>4. Spec => [](FInv /\ CopyMade)
  BY <1>3, Inductive, InitInv, NextFInv, NextCopyMade, PTL DEF Spec
<1>5. Spec => [][Advances]_releaseVars /\ []NoneElsewhere
  BY <1>1, <1>2, <1>4, PTL DEF Spec
<1> QED
  BY <1>5 DEF Advances, NoneElsewhere, HandlerAdvances
=============================================================================
