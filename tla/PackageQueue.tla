---------------------------- MODULE PackageQueue ----------------------------
(***************************************************************************)
(* The processing queue of ingested items (storage/sqlite_queue.py) and    *)
(* the processor that works it off (core/processing.py).                   *)
(*                                                                         *)
(* An item has one row in source_items and, unless it predates package     *)
(* tracking, one row in package_processing_status for each package that    *)
(* processes it.  Workers claim package rows under a lease; items without  *)
(* package rows are claimed from source_items ("legacy path").  Both kinds *)
(* of row carry the same bookkeeping and are records of one shape.         *)
(*                                                                         *)
(* A storage call is one BEGIN IMMEDIATE transaction and one action, with  *)
(* two exceptions that run under _with_retry (storage/sqlite.py): the retry *)
(* of failed items and update_source_item_metadata read without a lock and *)
(* later write what they have read by primary key, so each is two actions. *)
(* Time is abstracted: a lease lapses and a backoff ends at any moment     *)
(* after it was set, which covers every clock reading a call can use.      *)
(* processing_attempts of an item with package rows is the sum over its    *)
(* rows; only the legacy claim reads it, as an upper limit, so it is kept  *)
(* at 0 here, which lets that claim do more.  Operators named X_Y are      *)
(* faulty variants of X.                                                   *)
(***************************************************************************)
EXTENDS Naturals

CONSTANTS
    Items,        \* item ids, numbered in the order of (created_at, id)
    Packages,     \* package names, numbered in their order
    Legacy,       \* the items that were stored before package tracking
    UseCase,      \* requested package of each item
    Workers,      \* worker ids: host:pid, one thread each
    Retries,      \* calls of retry_failed_source_items that may overlap
    MaxAttempts,  \* max_attempts
    MaxReopened,  \* bound: calls start until one has overwritten so many completions of a row
    Nobody        \* SQL NULL

ASSUME PackageQueueAssumption ==
    /\ Items \subseteq Nat /\ Packages \subseteq Nat
    /\ Legacy \subseteq Items
    /\ UseCase \in [Items -> Packages]
    /\ MaxAttempts \in Nat \ {0} /\ MaxReopened \in Nat
    /\ Nobody \notin Workers /\ Nobody \notin Packages /\ Nobody \notin Items

VARIABLES
    source,    \* source_items, by item
    task,      \* package_processing_status, by item and package
    category,  \* whether the item's metadata names a failure_category
    run,       \* what each worker is doing
    retry,     \* what each retry call has read
    results,   \* history: persisted results of each package row and legacy item
    reopened   \* history: how often each of them was completed and then overwritten

vars == <<source, task, category, run, retry, results, reopened>>

Tasks == Items \X Packages
Units == Items \X (Packages \cup {Nobody})
Finished == {"completed", "failed", "skipped"}

Rows ==
    [status : {"none", "pending", "processing"} \cup Finished,
     attempts : 0 .. MaxAttempts,
     by : Workers \cup {Nobody},
     lease : {"none", "live", "lapsed"},
     next : {"none", "later", "due"}]

Row(status, attempts, next) ==
    [status |-> status, attempts |-> attempts, by |-> Nobody, lease |-> "none", next |-> next]

NoRow == Row("none", 0, "none")

Idle == [at |-> "idle", item |-> Nobody, package |-> Nobody, attempts |-> 0, seen |-> FALSE]

Runs ==
    [at : {"idle", "polled", "claimed", "working", "committed", "noting", "failed", "recording", "next"},
     item : Items \cup {Nobody}, package : Packages \cup {Nobody}, attempts : 0 .. MaxAttempts,
     seen : BOOLEAN]

\* A retry call: the items it selected and, once it has read the package rows
\* of one of them, that item and its failed rows; settled is history.
NoRetry == [chosen |-> {}, item |-> Nobody, failed |-> {}, settled |-> {}]

Calls ==
    [chosen : SUBSET Items, item : Items \cup {Nobody},
     failed : SUBSET Packages, settled : SUBSET Packages]

Init ==
    /\ source = [i \in Items |-> IF i \in Legacy THEN Row("pending", 0, "none") ELSE NoRow]
    /\ task = [t \in Tasks |-> NoRow]
    /\ category = [i \in Items |-> FALSE]
    /\ run = [w \in Workers |-> Idle]
    /\ retry = [c \in Retries |-> NoRetry]
    /\ results = [t \in Units |-> 0]
    /\ reopened = [t \in Units |-> 0]

-----------------------------------------------------------------------------
(* The rows. *)

Tracked(i) == \E p \in Packages : task[<<i, p>>].status # "none"

\* source_items.use_case is stored only when the requested package is enabled.
HasUseCase(i) == i \in Legacy \/ task[<<i, UseCase[i]>>].status # "none"

\* _sync_source_item_if_all_packages_terminal: the row of item i after its
\* package rows have become f.
Synced_Never(f, i) == source[i]

Synced(f, i) ==
    IF \A p \in Packages : f[<<i, p>>].status \in Finished \cup {"none"}
    THEN Row(IF \E p \in Packages : f[<<i, p>>].status = "failed" THEN "failed" ELSE "completed",
             0, "none")
    ELSE source[i]

\* The package rows become f.  The code synchronizes the items it may have
\* finished; for an item with an unfinished row that would change nothing.
Store(f) ==
    /\ task' = f
    /\ source' = [i \in Items |->
          IF \E p \in Packages : f[<<i, p>>] # task[<<i, p>>] THEN Synced(f, i) ELSE source[i]]

Eligible_AnyAttempts(r) ==
    \/ r.status = "pending" /\ r.next # "later"
    \/ r.status = "failed" /\ r.next = "due"
    \/ r.status = "processing" /\ r.lease = "lapsed"

Eligible(r) ==
    /\ r.attempts < MaxAttempts
    /\ \/ r.status = "pending" /\ r.next # "later"
       \/ r.status = "failed" /\ r.next = "due"
       \/ r.status = "processing" /\ r.lease = "lapsed"

Before(t, u) == t[1] < u[1] \/ (t[1] = u[1] /\ t[2] <= u[2])

\* The rows after _finalize_expired_package_leases_at_attempt_limit.
Finalized_Never == task

Finalized ==
    [t \in Tasks |->
        IF task[t].status = "processing" /\ task[t].attempts >= MaxAttempts /\ task[t].lease = "lapsed"
        THEN Row("failed", task[t].attempts, "none")
        ELSE task[t]]

Claimed(r, w) ==
    [status |-> "processing", attempts |-> r.attempts + 1, by |-> w, lease |-> "live", next |-> "none"]

LegacyEligible_AnyRows(i) == Eligible(source[i]) /\ HasUseCase(i)

LegacyEligible(i) ==
    /\ Eligible(source[i])
    /\ HasUseCase(i)
    /\ \A p \in Packages : task[<<i, p>>].status \notin {"pending", "processing"}

-----------------------------------------------------------------------------
(* Ingest: one transaction stores the item and a row for each of the active *)
(* packages; skip are those that lack the visibility they require.          *)

Ingest(i, active, skip) ==
    /\ source[i].status = "none"
    /\ task' = [t \in Tasks |->
          IF t[1] = i /\ t[2] \in active
          THEN Row(IF t[2] \in skip THEN "skipped" ELSE "pending", 0, "none")
          ELSE task[t]]
    /\ source' = [source EXCEPT ![i] =
          Row(IF active = {} THEN "completed" ELSE IF active \subseteq skip THEN "skipped" ELSE "pending",
              0, "none")]
    /\ UNCHANGED <<category, run, retry, results, reopened>>

-----------------------------------------------------------------------------
(* A worker: _process_next_source_item and _process_source_item. *)

Working(w, at) == run' = [run EXCEPT ![w] = [run[w] EXCEPT !.at = at]]
Took(w, i, p, n) ==
    [at |-> "claimed", item |-> i, package |-> p, attempts |-> n, seen |-> FALSE]

\* The end of _process_source_item: the package loop goes on with the item.
Done(w) ==
    run' = [run EXCEPT ![w] =
        IF run[w].package = Nobody THEN Idle
        ELSE [run[w] EXCEPT !.at = "next", !.attempts = 0, !.seen = FALSE]]

\* A claim among candidates, after expired final attempts have been settled.
ClaimTask(w, candidates, t) ==
    /\ t \in candidates /\ Eligible(Finalized[t])
    /\ \A u \in candidates : Eligible(Finalized[u]) => Before(t, u)
    /\ Store([Finalized EXCEPT ![t] = Claimed(Finalized[t], w)])
    /\ run' = [run EXCEPT ![w] = Took(w, t[1], t[2], Finalized[t].attempts + 1)]

ClaimNone(candidates) ==
    /\ \A u \in candidates : ~Eligible(Finalized[u])
    /\ Store(Finalized)

\* claim_next_package_task
Poll(w) ==
    /\ run[w].at = "idle"
    /\ \/ \E t \in Tasks : ClaimTask(w, Tasks, t)
       \/ ClaimNone(Tasks) /\ Working(w, "polled")
    /\ UNCHANGED <<category, retry, results, reopened>>

\* claim_next_package_task_for_item
More(w) ==
    /\ run[w].at = "next"
    /\ \/ \E p \in Packages : ClaimTask(w, {run[w].item} \X Packages, <<run[w].item, p>>)
       \/ ClaimNone({run[w].item} \X Packages) /\ run' = [run EXCEPT ![w] = Idle]
    /\ UNCHANGED <<category, retry, results, reopened>>

\* claim_next_source_item, when no package row could be claimed.
PollLegacy(w) ==
    /\ run[w].at = "polled"
    /\ \/ \E i \in Items :
             /\ LegacyEligible(i)
             /\ \A j \in Items : LegacyEligible(j) => i <= j
             /\ source' = [source EXCEPT ![i] = Claimed(source[i], w)]
             /\ run' = [run EXCEPT ![w] = Took(w, i, Nobody, source[i].attempts + 1)]
       \/ /\ \A i \in Items : ~LegacyEligible(i)
          /\ run' = [run EXCEPT ![w] = Idle]
          /\ UNCHANGED source
    /\ UNCHANGED <<task, category, retry, results, reopened>>

\* The row a worker has claimed, and the compare of every compare-and-swap.
ClaimedRow(w) ==
    IF run[w].package = Nobody THEN source[run[w].item] ELSE task[<<run[w].item, run[w].package>>]

Current_Always(w) == TRUE

Current(w) ==
    /\ ClaimedRow(w).status = "processing"
    /\ ClaimedRow(w).by = w
    /\ ClaimedRow(w).attempts = run[w].attempts

StoreClaimed(w, row) ==
    IF run[w].package = Nobody
    THEN source' = [source EXCEPT ![run[w].item] = row] /\ UNCHANGED task
    ELSE Store([task EXCEPT ![<<run[w].item, run[w].package>>] = row])

\* The package is unknown to this worker, or lacks its visibility context:
\* final at once, and for a package without a failure category.
Reject(w) ==
    /\ run[w].at = "claimed"
    /\ Current(w)
    /\ StoreClaimed(w, Row("failed", run[w].attempts, "none"))
    /\ category' = IF run[w].package = Nobody THEN [category EXCEPT ![run[w].item] = TRUE] ELSE category
    /\ Done(w)
    /\ UNCHANGED <<retry, results, reopened>>

StartWork(w) ==
    /\ run[w].at = "claimed"
    /\ Current(w)
    /\ Working(w, "working")
    /\ UNCHANGED <<source, task, category, retry, results, reopened>>

\* A claim that is no longer the worker's, or that it has committed: every
\* compare-and-swap returns False or None, and the step ends.
Superseded(w) ==
    /\ run[w].at \in {"claimed", "working", "committed", "noting"}
    /\ ~Current(w)
    /\ Done(w)
    /\ UNCHANGED <<source, task, category, retry, results, reopened>>

\* commit_package_process_result, commit_processed_source_item
Commit(w) ==
    /\ run[w].at = "working"
    /\ Current(w)
    /\ StoreClaimed(w, Row("completed", run[w].attempts, "none"))
    /\ results' = [results EXCEPT ![<<run[w].item, run[w].package>>] = @ + 1]
    /\ category' = IF run[w].package = Nobody THEN [category EXCEPT ![run[w].item] = FALSE] ELSE category
    /\ Working(w, "committed")
    /\ UNCHANGED <<retry, reopened>>

\* The except branch, also for an error after the commit.  The category of a
\* package failure is written later.
Fail(w) ==
    /\ run[w].at \in {"working", "committed", "noting"}
    /\ Current(w)
    /\ StoreClaimed(w, IF run[w].attempts >= MaxAttempts
                       THEN Row("failed", run[w].attempts, "none")
                       ELSE Row("pending", run[w].attempts, "later"))
    /\ IF run[w].package = Nobody
       THEN category' = [category EXCEPT ![run[w].item] = TRUE] /\ Done(w)
       ELSE UNCHANGED category /\ Working(w, "failed")
    /\ UNCHANGED <<retry, results, reopened>>

\* update_source_item_metadata, after a commit (provenance of the result) and
\* after the failure of a package (its category): the metadata is read, and the
\* whole of it written back with the patch.
ReadMetadata(w) ==
    /\ run[w].at \in {"committed", "failed"}
    /\ run' = [run EXCEPT ![w] =
          [@ EXCEPT !.at = IF run[w].at = "committed" THEN "noting" ELSE "recording",
                    !.seen = category[run[w].item]]]
    /\ UNCHANGED <<source, task, category, retry, results, reopened>>

\* A patch that changes nothing in what was read is not written.
WriteMetadata(w) ==
    /\ run[w].at \in {"noting", "recording"}
    /\ \/ category' = [category EXCEPT ![run[w].item] = run[w].seen \/ run[w].at = "recording"]
       \/ (run[w].at = "recording" => run[w].seen) /\ UNCHANGED category
    /\ Done(w)
    /\ UNCHANGED <<source, task, retry, results, reopened>>

\* The process dies, or a storage error ends its turn.
Crash(w) ==
    /\ run[w].at # "idle"
    /\ run' = [run EXCEPT ![w] = Idle]
    /\ UNCHANGED <<source, task, category, retry, results, reopened>>

-----------------------------------------------------------------------------
(* Time and operators. *)

Lapse(r) == [r EXCEPT !.lease = IF r.lease = "live" THEN "lapsed" ELSE r.lease]
End(r) == [r EXCEPT !.next = IF r.next = "later" THEN "due" ELSE r.next]

LeaseLapses(t) ==
    /\ task[t].lease = "live"
    /\ task' = [task EXCEPT ![t] = Lapse(task[t])]
    /\ UNCHANGED <<source, category, run, retry, results, reopened>>

BackoffEnds(t) ==
    /\ task[t].next = "later"
    /\ task' = [task EXCEPT ![t] = End(task[t])]
    /\ UNCHANGED <<source, category, run, retry, results, reopened>>

LegacyTime(i) ==
    /\ \/ source[i].lease = "live" /\ source' = [source EXCEPT ![i] = Lapse(source[i])]
       \/ source[i].next = "later" /\ source' = [source EXCEPT ![i] = End(source[i])]
    /\ UNCHANGED <<task, category, run, retry, results, reopened>>

\* cancel_disabled_package_work, when a service starts without some packages.
Cancel(disabled) ==
    LET cancelled == [t \in Tasks |->
            IF t[2] \in disabled /\ task[t].status \in {"pending", "failed", "processing"}
            THEN Row("skipped", task[t].attempts, "none")
            ELSE task[t]]
    IN  /\ task' = cancelled
        /\ source' = [i \in Items |->
              IF \E p \in Packages : cancelled[<<i, p>>] # task[<<i, p>>] THEN Synced(cancelled, i)
              ELSE IF /\ ~Tracked(i) /\ HasUseCase(i) /\ UseCase[i] \in disabled
                      /\ source[i].status \in {"pending", "failed", "processing"}
                   THEN Row("skipped", source[i].attempts, "none")
              ELSE source[i]]
        /\ UNCHANGED <<category, run, retry, results, reopened>>

\* retry_failed_source_items selects items by status and category, up to a limit.
Retriable(i) == source[i].status = "failed" /\ category[i]

FailedRows_All(i) == {p \in Packages : task[<<i, p>>].status # "none"}
FailedRows(i) == {p \in Packages : task[<<i, p>>].status = "failed"}

RetrySelect(c, chosen) ==
    /\ retry[c] = NoRetry
    /\ \A i \in chosen : Retriable(i)
    /\ \A t \in Units : reopened[t] < MaxReopened
    /\ retry' = [retry EXCEPT ![c].chosen = chosen]
    /\ UNCHANGED <<source, task, category, run, results, reopened>>

\* A tracked item none of whose rows is still failed is passed over.
PassedOver(i) == Tracked(i) /\ FailedRows(i) = {}

\* The package rows of a selected item are read, still without a lock.
RetryRead(c, i) ==
    /\ retry[c].item = Nobody /\ i \in retry[c].chosen
    /\ retry' = [retry EXCEPT ![c] =
          IF PassedOver(i) THEN [@ EXCEPT !.chosen = retry[c].chosen \ {i}]
          ELSE [@ EXCEPT !.item = i, !.failed = FailedRows(i),
                         !.settled = {p \in Packages : task[<<i, p>>].status \in {"completed", "skipped"}}]]
    /\ UNCHANGED <<source, task, category, run, results, reopened>>

\* What the call resets: the item it has read about, as it read it, and the
\* others it selected, whose rows it reads after its first write has taken the
\* lock.  The row of each item was read when it was selected.
ResetItems(c) ==
    {retry[c].item} \cup {i \in retry[c].chosen : i # retry[c].item /\ ~PassedOver(i)}

ResetTasks(c) ==
    {t \in Tasks : t[1] \in ResetItems(c)
        /\ t[2] \in IF t[1] = retry[c].item THEN retry[c].failed ELSE FailedRows(t[1])}

\* Only columns that differ from what was read are written, so a retry time set
\* since then stays; so would the columns of a claim, which nobody reads of a
\* pending row.
Reset(r) == Row("pending", 0, r.next)

\* The completed rows that the call overwrites.
Overwritten(c) ==
    {t \in ResetTasks(c) : task[t].status = "completed"}
        \cup {<<i, Nobody>> : i \in {j \in ResetItems(c) : ~Tracked(j) /\ source[j].status = "completed"}}

RetryWrite(c) ==
    /\ retry[c].item # Nobody
    /\ task' = [t \in Tasks |-> IF t \in ResetTasks(c) THEN Reset(task[t]) ELSE task[t]]
    /\ source' = [i \in Items |-> IF i \in ResetItems(c) THEN Reset(source[i]) ELSE source[i]]
    /\ category' = [i \in Items |-> category[i] /\ i \notin ResetItems(c)]
    /\ retry' = [retry EXCEPT ![c] = NoRetry]
    /\ reopened' = [t \in Units |-> IF t \in Overwritten(c) THEN reopened[t] + 1 ELSE reopened[t]]
    /\ UNCHANGED <<run, results>>

\* The call fails, or its process dies.
RetryLost(c) ==
    /\ retry[c] # NoRetry
    /\ retry' = [retry EXCEPT ![c] = NoRetry]
    /\ UNCHANGED <<source, task, category, run, results, reopened>>

RetryNext(c) ==
    \/ \E chosen \in SUBSET Items \ {{}} : RetrySelect(c, chosen)
    \/ \E i \in Items : RetryRead(c, i)
    \/ RetryWrite(c) \/ RetryLost(c)

-----------------------------------------------------------------------------

WorkerNext(w) ==
    \/ Poll(w) \/ PollLegacy(w) \/ More(w)
    \/ Reject(w) \/ StartWork(w) \/ Superseded(w)
    \/ Commit(w) \/ Fail(w) \/ ReadMetadata(w) \/ WriteMetadata(w)

Next ==
    \/ \E i \in Items, active, skip \in SUBSET Packages : skip \subseteq active /\ Ingest(i, active, skip)
    \/ \E w \in Workers : WorkerNext(w) \/ Crash(w)
    \/ \E t \in Tasks : LeaseLapses(t) \/ BackoffEnds(t)
    \/ \E i \in Items : LegacyTime(i)
    \/ \E disabled \in SUBSET Packages \ {{}} : Cancel(disabled)
    \/ \E c \in Retries : RetryNext(c)

Spec == Init /\ [][Next]_vars

\* A worker polls again after whatever happened to it, leases and backoffs are
\* finite.  No fairness for crashes, cancellation, retries or new items.
Fairness ==
    /\ \A w \in Workers : WF_vars(WorkerNext(w))
    /\ \A t \in Tasks : WF_vars(LeaseLapses(t)) /\ WF_vars(BackoffEnds(t))

LiveSpec == Spec /\ Fairness

-----------------------------------------------------------------------------
(* Properties. *)

\* Rows and workers have their types; above all, no row is claimed more often
\* than max_attempts allows, whatever lapses, crashes and fails in between.
TypeOK ==
    /\ source \in [Items -> Rows]
    /\ task \in [Tasks -> Rows]
    /\ category \in [Items -> BOOLEAN]
    /\ run \in [Workers -> Runs]
    /\ retry \in [Retries -> Calls]
    /\ results \in [Units -> Nat] /\ reopened \in [Units -> Nat]

\* A result is persisted once for every time its row is completed: a worker whose
\* lease lapsed, or whose package was cancelled while the model was answering,
\* does not write a second or an unwanted one.  A row that is not completed has a
\* result only if a retry call has overwritten its completion.
Completed(status) == IF status = "completed" THEN 1 ELSE 0

ResultsMatch ==
    /\ \A t \in Tasks : results[t] = reopened[t] + Completed(task[t].status)
    /\ \A i \in Legacy :
          results[<<i, Nobody>>] = reopened[<<i, Nobody>>] + Completed(source[i].status)

\* source_items, which the API reports from and retries select on, agrees with
\* the package rows although each of five operations updates it by hand: it is
\* finished exactly when all packages are, and failed exactly when one of them is.
AllFinished(i) == \A p \in Packages : task[<<i, p>>].status \in Finished \cup {"none"}

SourceAgrees ==
    \A i \in Items : Tracked(i) =>
        /\ source[i].status \in {"pending"} \cup Finished
        /\ source[i].status \in Finished <=> AllFinished(i)
        /\ source[i].status = "failed" <=>
              AllFinished(i) /\ \E p \in Packages : task[<<i, p>>].status = "failed"

\* The legacy path never processes an item that has package rows, not even one
\* that was ingested after the worker found no package to work on.
PathsSeparate ==
    \A w \in Workers :
        run[w].item # Nobody /\ run[w].package = Nobody => ~Tracked(run[w].item)

\* What is completed or skipped stays so, in spite of errors after the commit, late
\* workers and retries of failed packages.  The one exception is a retry call that
\* writes what it has read before the row was settled.
ReadBefore(c, t) ==
    /\ retry[c].item = t[1] /\ t[2] \notin retry[c].settled
    /\ retry'[c] = NoRetry

SettledStays ==
    [][\A t \in Tasks :
         task[t].status \in {"completed", "skipped"} =>
            task'[t].status = task[t].status \/ \E c \in Retries : ReadBefore(c, t)]_vars

\* Unless somebody keeps retrying failed items for ever, every item with
\* package rows ends, although workers may crash again and again: a crash costs
\* an attempt, and an expired final attempt is settled by the next poll.  (With
\* endless retries of an older item, which is always served first, it may not.)
RetriesStop == <>[][\A c \in Retries : ~RetryWrite(c)]_vars

ItemsEnd ==
    RetriesStop => \A i \in Items :
        (Tracked(i) /\ source[i].status = "pending") ~> source[i].status \in Finished
=============================================================================
