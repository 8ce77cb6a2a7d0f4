---------------------------- MODULE VectorRebuild ----------------------------
(***************************************************************************)
(* The vector index of the service process: its files                      *)
(* (storage/vector_index.py), the background rebuild with its checkpoint   *)
(* and file swap (core/rebuild_coordinator.py), the periodic               *)
(* reconciliation with SQLite (core/vector_embed.py) and what startup does *)
(* with the files it finds (app/dependencies.py, app/main.py).             *)
(*                                                                         *)
(* A handler that writes files leaves a plan, the atomic file operations   *)
(* it performs in order; one step performs one of them, and the thread     *)
(* goes on when its plan is done.  A crash or an exception may therefore   *)
(* fall between any two file operations.                                   *)
(*                                                                         *)
(* Two threads write the live files with no lock between them: the one     *)
(* that rebuilds and then reconciles, and a request that adds the vector   *)
(* of its source item (core/service.py).  A save writes each file from     *)
(* what the index in memory holds at that moment.                          *)
(*                                                                         *)
(* Row ids are random: a new row may sort before rows that were already    *)
(* paged through, and the id of a deleted row never returns.               *)
(*                                                                         *)
(* Simplifications.                                                        *)
(*  - Every row has a text to embed.                                       *)
(*  - Keys inside the native index are left out; where files of two        *)
(*    indexes mix, or two threads add at once, nothing is claimed of them. *)
(*  - A vector is its entry: with which embedding model it was computed,   *)
(*    and so which model an index is of, is left out.                      *)
(*  - As in the production bootstrap, reconciliation starts once the       *)
(*    rebuild thread has ended.  Requests do not wait for it.              *)
(*  - One request at a time writes the index.                              *)
(*                                                                         *)
(* Operators named X_Y are faulty variants of X, used to show that a       *)
(* property can fail.                                                      *)
(***************************************************************************)
EXTENDS Naturals, Sequences, FiniteSets

CONSTANTS
    Ids,            \* ids of vector rows, in the order SQLite pages them
    BatchSize,      \* rows in a rebuild batch
    SaveInterval,   \* rows between two saves of the shadow index
    ReconcileBatch, \* rows in a reconciliation batch
    MaxChanges,     \* bound: rows added or deleted
    MaxFaults,      \* bound: crashes of the service, and exceptions
    MaxRequests,    \* bound: requests that write the index
    Absent          \* no file, no index

ASSUME VectorAssumption ==
    /\ Ids \subseteq Nat \ {0} /\ IsFiniteSet(Ids)
    /\ BatchSize \in Nat \ {0}
    /\ SaveInterval \in Nat \ {0}
    /\ ReconcileBatch \in Nat \ {0}

VARIABLES
    entries,    \* vector rows in SQLite
    deleted,    \* history: ids of rows that were deleted
    files,      \* the index files: live, old (backup) and shadow (rebuild)
    state,      \* the file <index>.rebuild_state.json
    phase,      \* what the service is doing
    plan,       \* file operations the running thread has yet to perform
    served,     \* the index in the holder, Absent when vectors are disabled
    shadow,     \* the coordinator's shadow index
    checkpoint, \* the coordinator's checkpoint
    after,      \* _reconcile_after_id, 0 for None
    staleAfter, \* _reconcile_stale_after_id, 0 for None
    embedding,  \* the row a request computes a vector for, 0 for none
    saving,     \* file operations the request has yet to perform
    replaced,   \* the index it is saving, once the rebuild has replaced that one
    changes, faults, requests,
    raced,      \* history: a request changed or saved the index while it was
                \* swapped, or while the reconciliation changed or saved it
    leftover,   \* history: the shadow files are of a rebuild that was given up
    hollow      \* history: an index was loaded whose metadata counts nothing
                \* although its id map does, or from leftover files

rows == <<entries, deleted>>
cursors == <<after, staleAfter>>
rebuild == <<shadow, checkpoint>>
disk == <<files, state>>
request == <<embedding, saving, replaced>>
bounds == <<changes, faults, requests>>
history == <<raced, leftover, hollow>>
vars == <<rows, disk, phase, plan, served, rebuild, cursors, request, bounds, history>>

-----------------------------------------------------------------------------
(* Indexes and files. *)

Index == [ids : SUBSET Ids, vecs : SUBSET Ids]
Checkpoint == [status : {"in_progress", "failed"}, last : Ids \cup {0},
               total : Nat, processed : Nat]
Empty == [ids |-> {}, vecs |-> {}]

\* What stands for a missing file or index is none of their values.
ASSUME AbsentAssumption ==
    /\ \A S \in SUBSET Ids : S # Absent
    /\ Absent \notin Nat /\ Absent \notin Checkpoint /\ Absent \notin Index

Names == {"bin", "idmap", "meta"}
Paths == {"live", "old", "shadow"}

Add(x, new) == [x EXCEPT !.ids = @ \cup new, !.vecs = @ \cup new]
Remove(x, gone) == [x EXCEPT !.ids = @ \ gone, !.vecs = @ \ gone]

\* VectorIndex.load: which entries there are is read from the id map; the
\* native index is read only when the metadata counted entries.
Loaded(f) ==
    [ids |-> f.idmap,
     vecs |-> IF f.meta > 0 /\ f.bin # Absent THEN f.bin \cap f.idmap ELSE {}]

\* Loading these files forgets vectors that are in the native index.
Hollow(f) == f.meta # Absent /\ f.meta = 0 /\ f.idmap \notin {Absent, {}}

\* The files an index is saved as; of the metadata, how many entries it counts.
Saved(x) == [bin |-> x.vecs, idmap |-> x.ids, meta |-> Cardinality(x.ids)]
NoFiles == [bin |-> Absent, idmap |-> Absent, meta |-> Absent]

Put(p, n, x) == [op |-> "put", path |-> p, name |-> n, value |-> Saved(x)[n]]
Move(p, q, n) == [op |-> "move", path |-> p, to |-> q, name |-> n]
Unlink(p, n) == [op |-> "unlink", path |-> p, name |-> n]
PutState(c) == [op |-> "state", value |-> c]
Save(n) == [op |-> "save", name |-> n]

SaveLive_IdMapFirst == <<Save("idmap"), Save("bin"), Save("meta")>>

\* VectorIndex.save of the served index: native index, id map, metadata.
SaveLive == <<Save("bin"), Save("idmap"), Save("meta")>>

\* The shadow index stands still while it is saved, unlike the served one.
SavePlan(p, x) == <<Put(p, "bin", x), Put(p, "idmap", x), Put(p, "meta", x)>>
MovePlan(p, q) == <<Move(p, q, "bin"), Move(p, q, "meta"), Move(p, q, "idmap")>>
UnlinkPlan(p) == <<Unlink(p, "bin"), Unlink(p, "meta"), Unlink(p, "idmap")>>

\* A file operation; a save is of the index x.
FileStep(o, x) ==
    /\ CASE o.op = "put" -> files' = [files EXCEPT ![o.path][o.name] = o.value]
         [] o.op = "save" -> files' = [files EXCEPT !["live"][o.name] = Saved(x)[o.name]]
         [] o.op = "move" ->
                files' = IF files[o.path][o.name] = Absent THEN files
                         ELSE [files EXCEPT ![o.to][o.name] = files[o.path][o.name],
                                            ![o.path][o.name] = Absent]
         [] o.op = "unlink" -> files' = [files EXCEPT ![o.path][o.name] = Absent]
         [] o.op = "state" -> UNCHANGED files
    /\ state' = IF o.op = "state" THEN o.value ELSE state

\* The metadata is saved last: from then on the files are of one rebuild.
EndsShadowSave(o) == o.op = "put" /\ o.path = "shadow" /\ o.name = "meta"

\* The running thread performs its next file operation.
Perform ==
    /\ plan # <<>>
    /\ FileStep(Head(plan), served)
    /\ plan' = Tail(plan)
    /\ leftover' = (leftover /\ ~EndsShadowSave(Head(plan)))
    /\ UNCHANGED <<rows, phase, served, rebuild, cursors, request, bounds, raced, hollow>>

Ready(p) == phase = p /\ plan = <<>>

\* The running thread is saving the served index.
SavesLive == plan # <<>> /\ Head(plan).op = "save"

Last_PastEnd(S) == 1 + CHOOSE i \in S : \A j \in S : j <= i

\* list_index_entries_by_type_page, and a batch of the sorted known ids.
Page(S, from, n) ==
    {i \in S : i > from /\ Cardinality({j \in S : from < j /\ j <= i}) <= n}
Last(S) == CHOOSE i \in S : \A j \in S : j <= i

-----------------------------------------------------------------------------
(* Startup. *)

\* _load_or_create_vector_index: without the native index or the metadata an
\* empty index is created in place; without the id map loading fails.
Complete(f) == f.bin # Absent /\ f.meta # Absent
StartIndex ==
    IF ~Complete(files.live) THEN Empty
    ELSE IF files.live.idmap = Absent THEN Absent
    ELSE Loaded(files.live)

\* A rebuild is needed for an index that is out of date, because it is of another
\* model or raw sources have no vector row, or to resume.
InProgress(c) == c # Absent /\ c.status = "in_progress"
RebuildNeeded(outdated) == (StartIndex # Absent /\ outdated) \/ InProgress(state)

Start(outdated) ==
    /\ Ready("down")
    /\ plan' = IF Complete(files.live) THEN <<>> ELSE SaveLive
    /\ served' = StartIndex
    /\ phase' = IF RebuildNeeded(outdated) THEN "recover" ELSE "opening"
    /\ hollow' = (hollow \/ Hollow(files.live))
    /\ UNCHANGED <<rows, disk, rebuild, cursors, request, bounds, raced, leftover>>

\* The startup gate lets requests in once the application is built; a rebuild
\* is started before.
Open ==
    /\ Ready("opening")
    /\ phase' = "serving"
    /\ UNCHANGED <<rows, disk, plan, served, rebuild, cursors, request, bounds, history>>

\* _recover_interrupted_swap and cleanup_orphaned_rebuild.
Recover ==
    /\ Ready("recover")
    /\ plan' = (IF files.old.meta = Absent THEN <<>>
                ELSE IF files.live.meta = Absent THEN MovePlan("old", "live")
                ELSE UnlinkPlan("old"))
               \o (IF state = Absent THEN UnlinkPlan("shadow") ELSE <<>>)
    /\ phase' = "begin"
    /\ UNCHANGED <<rows, disk, served, rebuild, cursors, request, bounds, history>>

-----------------------------------------------------------------------------
(* The rebuild thread. *)

NewCheckpoint ==
    [status |-> "in_progress", last |-> 0, total |-> Cardinality(entries'), processed |-> 0]

\* A checkpoint is resumed when no row was added, the number of rows is the
\* same and a shadow index was saved, be it by an earlier rebuild: starting
\* afresh leaves the shadow files where they are.  The model is not compared.
Resumes(added) ==
    /\ InProgress(state)
    /\ added = {} /\ state.total = Cardinality(entries)
    /\ Complete(files.shadow)

\* _start_or_resume, with the rows _inventory_raw_source_vectors adds.
StartOrResume(added) ==
    /\ Ready("begin")
    /\ changes + Cardinality(added) <= MaxChanges
    /\ changes' = changes + Cardinality(added)
    /\ entries' = entries \cup added
    /\ phase' = "rebuild"
    /\ checkpoint' = IF Resumes(added) THEN state ELSE NewCheckpoint
    /\ shadow' = IF Resumes(added) THEN Loaded(files.shadow) ELSE Empty
    /\ plan' = IF InProgress(state) THEN <<>> ELSE <<PutState(checkpoint')>>
    /\ leftover' = IF Resumes(added) THEN leftover ELSE files.shadow.meta # Absent
    /\ hollow' = (hollow \/ (Resumes(added) /\ (leftover \/ Hollow(files.shadow))))
    /\ UNCHANGED <<deleted, disk, served, cursors, request,
                   faults, requests, raced>>

BatchRows == Page(entries, checkpoint.last, BatchSize)

\* _process_one_batch: the checkpoint is saved after every batch, the shadow
\* index after about SaveInterval rows.
Batch ==
    /\ Ready("rebuild")
    /\ BatchRows # {}
    /\ shadow' = Add(shadow, BatchRows)
    /\ checkpoint' = [checkpoint EXCEPT !.last = Last(BatchRows),
                                        !.processed = @ + Cardinality(BatchRows)]
    /\ plan' = <<PutState(checkpoint')>> \o
               (IF checkpoint'.processed % SaveInterval < BatchSize
                THEN SavePlan("shadow", shadow') ELSE <<>>)
    /\ UNCHANGED <<rows, disk, phase, served, cursors, request, bounds, history>>

\* What the thread holds is not read again once it has ended.
DropRebuild == shadow' = Absent /\ checkpoint' = Absent

\* _finalize up to _atomic_swap_files.
Invalid == shadow.ids = {} /\ checkpoint.total > 0

SwapPlan_StateFirst == <<PutState(Absent)>> \o MovePlan("live", "old")
                          \o MovePlan("shadow", "live") \o UnlinkPlan("old")

SwapPlan == MovePlan("live", "old") \o MovePlan("shadow", "live") \o UnlinkPlan("old")

Finalize ==
    /\ Ready("rebuild")
    /\ BatchRows = {}
    /\ plan' = SavePlan("shadow", shadow) \o
               (IF Invalid THEN <<PutState([checkpoint EXCEPT !.status = "failed"])>>
                ELSE SwapPlan)
    /\ phase' = IF Invalid THEN "serving" ELSE "swap"
    /\ IF Invalid THEN DropRebuild ELSE UNCHANGED rebuild
    /\ raced' = (raced \/ (~Invalid /\ saving # <<>>))
    /\ UNCHANGED <<rows, disk, served, cursors, request, bounds, leftover, hollow>>

\* The rest of _finalize.  The holder is the one retrieval reads, unless the
\* index could not be loaded at startup.  A request that has begun to save the
\* old index goes on saving that one.
Adopt ==
    /\ Ready("swap")
    /\ served' = IF served = Absent THEN Absent ELSE Loaded(files.live)
    /\ replaced' = IF saving \in {<<>>, SaveLive} THEN replaced ELSE served
    /\ after' = 0 /\ staleAfter' = 0
    /\ plan' = UnlinkPlan("shadow") \o <<PutState(Absent)>>
    /\ phase' = "serving"
    /\ DropRebuild
    /\ UNCHANGED <<rows, disk, embedding, saving, bounds, history>>

\* _run_safe: an exception in embedding, paging or moving files ends the
\* thread; the checkpoint, once there is one, is marked failed.
Fail ==
    /\ phase \in {"begin", "rebuild", "swap"}
    /\ phase = "begin" => plan = <<>>
    /\ faults < MaxFaults
    /\ faults' = faults + 1
    /\ plan' = IF phase = "begin" THEN <<>>
               ELSE <<PutState([checkpoint EXCEPT !.status = "failed"])>>
    /\ phase' = "serving"
    /\ DropRebuild
    /\ UNCHANGED <<rows, disk, served, cursors, request,
                   changes, requests, history>>

-----------------------------------------------------------------------------
(* Reconciliation: VectorEmbedder.reconcile. *)

StalePage == IF Page(served.ids, staleAfter, ReconcileBatch) # {}
             THEN Page(served.ids, staleAfter, ReconcileBatch)
             ELSE Page(served.ids, 0, ReconcileBatch)
ForwardPage == Page(entries, after, ReconcileBatch)
Reconciled ==
    LET kept == Remove(served, StalePage \ entries)
    IN  Add(kept, ForwardPage \ kept.ids)
InStep == Cardinality(entries) = Cardinality(served.ids)

NextAfter_Stuck == IF ForwardPage # {} THEN Last(ForwardPage) ELSE after

\* The cursor over the rows starts again after the last page.
NextAfter == IF ForwardPage # {} THEN Last(ForwardPage) ELSE 0

\* Requests do not wait for the end of the rebuild thread; the loop does.
ReconcileDue == Ready("serving") /\ served # Absent

Reconcile ==
    /\ ReconcileDue
    /\ IF InStep
       THEN after' = 0 /\ staleAfter' = 0 /\ UNCHANGED <<served, plan, raced>>
       ELSE /\ served' = Reconciled
            /\ plan' = IF Reconciled = served THEN <<>> ELSE SaveLive
            /\ raced' = (raced \/ (Reconciled # served /\ saving # <<>>))
            /\ staleAfter' = IF \E i \in served.ids : \A j \in StalePage : i > j
                             THEN Last(StalePage) ELSE 0
            /\ after' = NextAfter
    /\ UNCHANGED <<rows, disk, phase, rebuild, request, bounds, leftover, hollow>>

\* An exception in the save ends this reconciliation; its changes stay in memory.
ReconcileFails ==
    /\ phase = "serving" /\ SavesLive
    /\ faults < MaxFaults
    /\ faults' = faults + 1
    /\ plan' = <<>>
    /\ UNCHANGED <<rows, disk, phase, served, rebuild, cursors, request,
                   changes, requests, history>>

-----------------------------------------------------------------------------
(* Requests: embed_and_persist_vector_entry and save_vector_index.  Each reads *)
(* the index from the holder afresh.                                           *)

Answering == phase \in {"begin", "rebuild", "swap", "serving"} /\ served # Absent
Free == embedding = 0 /\ saving = <<>>

\* A source item has its row, and a vector is computed for it.
Embed(i) ==
    /\ Answering /\ Free
    /\ requests < MaxRequests
    /\ i \in entries \ served.ids
    /\ requests' = requests + 1
    /\ embedding' = i
    /\ UNCHANGED <<rows, disk, phase, plan, served, rebuild, cursors, saving,
                   replaced, changes, faults, history>>

\* From here to the end of its save the request writes the index.
Writes == saving' = SaveLive /\ raced' = (raced \/ phase = "swap" \/ SavesLive)

AddVector ==
    /\ embedding # 0
    /\ served' = Add(served, {embedding})
    /\ embedding' = 0
    /\ Writes
    /\ UNCHANGED <<rows, disk, phase, plan, rebuild, cursors, replaced,
                   bounds, leftover, hollow>>

\* correct_memory drops the vector of a row it has deleted.
DropVector(i) ==
    /\ Answering /\ Free
    /\ requests < MaxRequests
    /\ i \in served.ids \ entries
    /\ requests' = requests + 1
    /\ served' = Remove(served, {i})
    /\ Writes
    /\ UNCHANGED <<rows, disk, phase, plan, rebuild, cursors, embedding, replaced,
                   changes, faults, leftover, hollow>>

\* One step of its save, be the index still the served one or not.
Persist ==
    /\ saving # <<>>
    /\ FileStep(Head(saving), IF replaced = Absent THEN served ELSE replaced)
    /\ saving' = Tail(saving)
    /\ replaced' = IF saving' = <<>> THEN Absent ELSE replaced
    /\ UNCHANGED <<rows, phase, plan, served, rebuild, cursors, embedding,
                   bounds, history>>

\* Exceptions in embedding and in saving are logged and swallowed.
RequestFails ==
    /\ ~Free
    /\ faults < MaxFaults
    /\ faults' = faults + 1
    /\ embedding' = 0 /\ saving' = <<>> /\ replaced' = Absent
    /\ UNCHANGED <<rows, disk, phase, plan, served, rebuild, cursors,
                   changes, requests, history>>

-----------------------------------------------------------------------------
(* The environment. *)

\* A request or a processor adds a row; retention or a correction deletes one.
ChangeRow(i) ==
    /\ changes < MaxChanges
    /\ i \notin deleted
    /\ changes' = changes + 1
    /\ entries' = IF i \in entries THEN entries \ {i} ELSE entries \cup {i}
    /\ deleted' = deleted \cup (entries \ entries')
    /\ UNCHANGED <<disk, phase, plan, served, rebuild, cursors, request,
                   faults, requests, history>>

\* The service dies or is stopped.
Crash ==
    /\ phase # "down"
    /\ faults < MaxFaults
    /\ faults' = faults + 1
    /\ phase' = "down" /\ plan' = <<>>
    /\ served' = Absent /\ shadow' = Absent /\ checkpoint' = Absent
    /\ after' = 0 /\ staleAfter' = 0
    /\ embedding' = 0 /\ saving' = <<>> /\ replaced' = Absent
    /\ UNCHANGED <<rows, disk, changes, requests, history>>

Init ==
    /\ entries \in SUBSET Ids /\ deleted = {}
    /\ \E S \in SUBSET entries :
        files = [p \in Paths |-> IF p = "live" THEN Saved(Add(Empty, S))
                                 ELSE NoFiles]
    /\ state = Absent
    /\ phase = "down" /\ plan = <<>>
    /\ served = Absent /\ shadow = Absent /\ checkpoint = Absent
    /\ after = 0 /\ staleAfter = 0
    /\ embedding = 0 /\ saving = <<>> /\ replaced = Absent
    /\ changes = 0 /\ faults = 0 /\ requests = 0
    /\ raced = FALSE /\ leftover = FALSE /\ hollow = FALSE

Next ==
    \/ Perform
    \/ \E outdated \in BOOLEAN : Start(outdated)
    \/ Open
    \/ Recover
    \/ \E added \in SUBSET (Ids \ (entries \cup deleted)) : StartOrResume(added)
    \/ Batch
    \/ Finalize
    \/ Adopt
    \/ Fail
    \/ Reconcile
    \/ ReconcileFails
    \/ \E i \in Ids : Embed(i) \/ DropVector(i)
    \/ AddVector
    \/ Persist
    \/ RequestFails
    \/ \E i \in Ids : ChangeRow(i)
    \/ Crash

Spec == Init /\ [][Next]_vars

\* A stopped service is started again; its threads run to their end and the
\* reconciliation loop runs for ever.
Fairness ==
    /\ WF_vars(Perform)
    /\ WF_vars(\E outdated \in BOOLEAN : Start(outdated))
    /\ WF_vars(Open)
    /\ WF_vars(Recover)
    /\ WF_vars(\E added \in SUBSET (Ids \ (entries \cup deleted)) : StartOrResume(added))
    /\ WF_vars(Batch) /\ WF_vars(Finalize) /\ WF_vars(Adopt)
    /\ WF_vars(Reconcile)

FairSpec == Spec /\ Fairness

-----------------------------------------------------------------------------
(* Properties. *)

\* The files, the checkpoint and the indexes have the shapes the code gives them.
TypeOK ==
    /\ entries \subseteq Ids /\ deleted \subseteq Ids
    /\ \A p \in Paths :
        /\ files[p].bin = Absent \/ files[p].bin \subseteq Ids
        /\ files[p].idmap = Absent \/ files[p].idmap \subseteq Ids
        /\ files[p].meta = Absent \/ files[p].meta \in Nat
    /\ state = Absent \/ state \in Checkpoint
    /\ phase \in {"down", "opening", "recover", "begin", "rebuild", "swap", "serving"}
    /\ served = Absent \/ served \in Index
    /\ phase \in {"rebuild", "swap"} => shadow \in Index /\ checkpoint \in Checkpoint
    /\ embedding \in Ids \cup {0}
    /\ replaced = Absent \/ replaced \in Index

\* Whenever a file of the live index is missing, between any two renames of
\* the swap or of its recovery, the rebuild's state file is still there: no
\* crash leaves a broken index that the next start takes for a healthy one.
SwapGuarded ==
    (\E n \in Names : files.live[n] = Absent) => state # Absent

\* Outside a rebuild, every row the saved id map knows has its vector in the
\* saved native index: a crash between the files of a save, by a request or by
\* the reconciliation, loses no vector that reconciliation, which counts what
\* the id map holds, would take for present.  Three windows are exempt.  Two
\* threads that write the index at once mix their files, or save an id map that
\* is newer than the native index beside it (raced).  Metadata that counts
\* nothing keeps load from reading the native index: the first save of an index
\* that was empty has such a window, and so has a rebuild that starts afresh
\* over the shadow files of another (hollow).
Backed ==
    state = Absent /\ ~raced /\ ~hollow /\ files.live.meta > 0 =>
        files.live.idmap \cap entries \subseteq files.live.bin

\* Rows and served index come into step and stay there once rows and processes
\* are left alone, whatever checkpoint, shadow or backup a crash left behind.
\* (Reconciliation compares counts only; vectors may be off until a restart.)
Converges ==
    <>[](served = Absent \/ Cardinality(served.ids) = Cardinality(entries))

\* The rollback that _recover_interrupted_swap documents: a backup is given up
\* never for a live index without entries.
BackupKept ==
    [][files.old.idmap \notin {Absent, {}} /\ files'.old.idmap = Absent
        => files'.live.idmap # {}]_vars
=============================================================================
