------------------------- MODULE PackageQueueProofs -------------------------
(***************************************************************************)
(* The safety of PackageQueue for any number of items, packages, workers   *)
(* and attempts.  SourceAgrees is not inductive alone: a claim could take  *)
(* a failed row out of a finished item, and the legacy path could take a   *)
(* finished item.  RowShape excludes both; RunShape says what a worker     *)
(* holds, and RetryShape what a retry call has read and later writes: the  *)
(* statuses it read may have changed, but the item is still there, and the *)
(* call resets a row of it exactly if it has package rows.                 *)
(***************************************************************************)
EXTENDS PackageQueue, TLAPS

RowShape ==
    /\ \A i \in Items : source[i].status = "none" \/ i \in Legacy => ~Tracked(i)
    /\ \A i \in Legacy : source[i].status # "none"
    /\ \A i \in Items : Tracked(i) => source[i].next = "none"
    /\ \A t \in Tasks : task[t].status = "failed" => task[t].next = "none"

\* What a worker's record r says it holds.
Shaped(r) ==
    /\ r.at \in {"idle", "polled"} => r.item = Nobody /\ r.package = Nobody
    /\ r.at \notin {"idle", "polled"} => r.item \in Items
    /\ r.at \notin {"idle", "polled"} /\ r.package = Nobody => r.item \in Legacy
    /\ r.at \in {"failed", "recording", "next"} => r.package \in Packages

RunShape == \A w \in Workers : Shaped(run[w])

\* The invariant without the retry calls.
IInv == TypeOK /\ RowShape /\ RunShape /\ SourceAgrees /\ ResultsMatch

\* What a retry call's record r holds.
Fits(r) ==
    /\ \A i \in r.chosen : source[i].status # "none"
    /\ r.failed \cap r.settled = {}
    /\ r.item # Nobody =>
          source[r.item].status # "none" /\ (Tracked(r.item) <=> r.failed # {})

RetryShape == \A c \in Retries : Fits(retry[c])

QInv == IInv /\ RetryShape

\* What a step other than the write of a retry call does: what is settled stays
\* so, and a stored item keeps having, or not having, package rows.
Settles ==
    \A t \in Tasks : task[t].status \in {"completed", "skipped"} => task'[t].status = task[t].status

Stays ==
    \A i \in Items : source[i].status # "none" =>
        source'[i].status # "none" /\ (Tracked(i)' <=> Tracked(i))

Steady == Settles /\ Stays

\* What any step may do; SettledStays is [][SettlesOr]_vars.
SettlesOr ==
    \A t \in Tasks : task[t].status \in {"completed", "skipped"} =>
        task'[t].status = task[t].status \/ \E c \in Retries : ReadBefore(c, t)

\* f is a state of the package rows that a worker may store: it changes only
\* unfinished rows, and none disappears.
Advances(f) ==
    /\ f \in [Tasks -> Rows]
    /\ \A t \in Tasks : f[t] # task[t] =>
          /\ task[t].status \in {"pending", "processing"}
          /\ f[t].status # "none"
          /\ f[t].status = "failed" => f[t].next = "none"

-----------------------------------------------------------------------------

\* The row constructors build rows.
LEMMA RowType ==
    ASSUME NEW s \in {"none", "pending", "processing"} \cup Finished,
           NEW n \in 0 .. MaxAttempts, NEW x \in {"none", "later", "due"}
    PROVE  /\ Row(s, n, x) \in Rows
           /\ Row(s, n, x).status = s /\ Row(s, n, x).attempts = n
           /\ Row(s, n, x).next = x
BY DEF Row, Rows

\* A row that is claimed below max_attempts is well typed.
LEMMA ClaimedType ==
    ASSUME NEW r \in Rows, NEW w \in Workers, Eligible(r)
    PROVE  /\ Claimed(r, w) \in Rows
           /\ Claimed(r, w).status = "processing"
           /\ r.attempts + 1 \in 0 .. MaxAttempts
BY PackageQueueAssumption DEF Claimed, Rows, Eligible

\* Storing an advance keeps the item rows in agreement with the package rows.
LEMMA StoreKeeps ==
    ASSUME TypeOK, RowShape, SourceAgrees, NEW f, Advances(f), Store(f)
    PROVE  /\ source' \in [Items -> Rows] /\ task' \in [Tasks -> Rows]
           /\ RowShape' /\ SourceAgrees' /\ Steady
           /\ \A i \in Items : ~Tracked(i) => source'[i] = source[i]
<1> USE DEF Store, Tasks
<1>1. task' = f /\ f \in [Tasks -> Rows]
  BY DEF Advances
<1>2. \A t \in Tasks : f[t].status = "none" <=> task[t].status = "none"
  BY DEF Advances
<1>3. \A i \in Items : Tracked(i)' <=> Tracked(i)
  BY <1>1, <1>2 DEF Tracked
<1>4. \A i \in Items : ~Tracked(i) => source'[i] = source[i]
  <2>1. SUFFICES ASSUME NEW i \in Items, ~Tracked(i) PROVE source'[i] = source[i]
    OBVIOUS
  <2>2. \A p \in Packages : f[<<i, p>>] = task[<<i, p>>]
    BY <2>1 DEF Advances, Tracked
  <2> QED BY <2>2
<1>5. \A i \in Items : Synced(f, i) \in Rows
  <2>1. TAKE i \in Items
  <2>2. source[i] \in Rows
    BY DEF TypeOK
  <2>3. 0 \in 0 .. MaxAttempts
    BY PackageQueueAssumption
  <2>4. Row("failed", 0, "none") \in Rows /\ Row("completed", 0, "none") \in Rows
    BY <2>3, RowType DEF Finished
  <2> QED BY <2>2, <2>4 DEF Synced
<1>6. source' \in [Items -> Rows]
  BY <1>5 DEF TypeOK
<1>7. Settles
  BY <1>1 DEF Settles, Advances, Finished
<1>8. \A i \in Items : Tracked(i) =>
        \/ /\ source'[i] = source[i]
           /\ \A p \in Packages : f[<<i, p>>] = task[<<i, p>>]
        \/ source'[i] = Synced(f, i) /\ ~AllFinished(i)
  <2>1. SUFFICES ASSUME NEW i \in Items, Tracked(i), NEW p \in Packages, f[<<i, p>>] # task[<<i, p>>]
                 PROVE  source'[i] = Synced(f, i) /\ ~AllFinished(i)
    OBVIOUS
  <2>2. task[<<i, p>>].status \in {"pending", "processing"}
    BY <2>1 DEF Advances
  <2> QED BY <2>1, <2>2 DEF AllFinished, Finished
<1>9. SourceAgrees'
  <2>1. SUFFICES ASSUME NEW i \in Items, Tracked(i)'
                 PROVE  /\ source'[i].status \in {"pending"} \cup Finished
                        /\ source'[i].status \in Finished <=> AllFinished(i)'
                        /\ source'[i].status = "failed" <=>
                              AllFinished(i)' /\ \E p \in Packages : task'[<<i, p>>].status = "failed"
    BY DEF SourceAgrees
  <2>2. Tracked(i)
    BY <1>3, <2>1
  <2>3. CASE source'[i] = source[i] /\ \A p \in Packages : f[<<i, p>>] = task[<<i, p>>]
    <3>1. \A p \in Packages : task'[<<i, p>>].status = task[<<i, p>>].status
      BY <1>1, <2>3
    <3>2. AllFinished(i)' <=> AllFinished(i)
      BY <3>1 DEF AllFinished
    <3>3. source'[i].status = source[i].status
      BY <2>3
    <3> QED BY <2>2, <3>1, <3>2, <3>3 DEF SourceAgrees
  <2>4. CASE source'[i] = Synced(f, i) /\ ~AllFinished(i)
    <3>1. source[i].status = "pending"
      BY <2>2, <2>4 DEF SourceAgrees
    <3>2. CASE AllFinished(i)'
      <4>1. CASE \E p \in Packages : f[<<i, p>>].status = "failed"
        <5>1. source'[i] = Row("failed", 0, "none")
          BY <1>1, <2>4, <3>2, <4>1 DEF Synced, AllFinished
        <5>2. source'[i].status = "failed"
          BY <5>1 DEF Row
        <5> QED BY <1>1, <3>2, <4>1, <5>2 DEF Finished
      <4>2. CASE ~ \E p \in Packages : f[<<i, p>>].status = "failed"
        <5>1. source'[i] = Row("completed", 0, "none")
          BY <1>1, <2>4, <3>2, <4>2 DEF Synced, AllFinished
        <5>2. source'[i].status = "completed"
          BY <5>1 DEF Row
        <5> QED BY <1>1, <3>2, <4>2, <5>2 DEF Finished
      <4> QED BY <4>1, <4>2
    <3>3. CASE ~AllFinished(i)'
      <4>1. source'[i] = source[i]
        BY <1>1, <2>4, <3>3 DEF Synced, AllFinished
      <4> QED BY <3>1, <3>3, <4>1 DEF Finished
    <3> QED BY <3>2, <3>3
  <2> QED BY <1>8, <2>2, <2>3, <2>4
<1>10. RowShape'
  <2>1. \A i \in Items : source'[i].status = "none" \/ i \in Legacy => ~Tracked(i)'
    BY <1>3, <1>4, <1>9 DEF RowShape, SourceAgrees, Finished
  <2>2. \A i \in Legacy : source'[i].status # "none"
    <3>1. \A i \in Legacy : i \in Items
      BY PackageQueueAssumption
    <3> QED BY <1>4, <3>1 DEF RowShape
  <2>3. \A i \in Items : Tracked(i)' => source'[i].next = "none"
    <3>1. \A i \in Items : Synced(f, i).next = "none" \/ Synced(f, i) = source[i]
      BY DEF Synced, Row
    <3> QED BY <1>3, <3>1 DEF RowShape
  <2>4. \A t \in Tasks : task'[t].status = "failed" => task'[t].next = "none"
    BY <1>1 DEF RowShape, Advances
  <2> QED BY <2>1, <2>2, <2>3, <2>4 DEF RowShape
<1>11. Stays
  BY <1>3, <1>4, <1>9 DEF Stays, SourceAgrees, Finished
<1> QED BY <1>1, <1>4, <1>6, <1>7, <1>9, <1>10, <1>11 DEF Steady

\* Settling expired final attempts, and a claim after it, are advances.
LEMMA FinalizedAdvances ==
    ASSUME TypeOK
    PROVE  /\ Advances(Finalized)
           /\ \A t \in Tasks : Finalized[t].status = "completed" <=> task[t].status = "completed"
<1>1. \A t \in Tasks : task[t] \in Rows /\ Row("failed", task[t].attempts, "none") \in Rows
  <2>1. TAKE t \in Tasks
  <2>2. task[t] \in Rows /\ task[t].attempts \in 0 .. MaxAttempts
    BY DEF TypeOK, Rows
  <2> QED BY <2>2, RowType DEF Finished
<1>2. Finalized \in [Tasks -> Rows]
  BY <1>1 DEF Finalized
<1>3. \A t \in Tasks : Finalized[t] # task[t] =>
         task[t].status = "processing" /\ Finalized[t].status = "failed" /\ Finalized[t].next = "none"
  BY DEF Finalized, Row
<1> QED BY <1>2, <1>3 DEF Advances

\* A claim after the settling is an advance of the rows.
LEMMA ClaimAdvances ==
    ASSUME TypeOK, RowShape, NEW w \in Workers, NEW t \in Tasks, Eligible(Finalized[t])
    PROVE  LET f == [Finalized EXCEPT ![t] = Claimed(Finalized[t], w)]
           IN  /\ Advances(f)
               /\ \A u \in Tasks : f[u].status = "completed" <=> task[u].status = "completed"
               /\ Finalized[t].attempts + 1 \in 0 .. MaxAttempts
<1> DEFINE f == [Finalized EXCEPT ![t] = Claimed(Finalized[t], w)]
<1>1. Advances(Finalized)
  BY FinalizedAdvances
<1>2. Finalized \in [Tasks -> Rows]
  BY <1>1 DEF Advances
<1>3. /\ Claimed(Finalized[t], w) \in Rows
      /\ Claimed(Finalized[t], w).status = "processing"
      /\ Finalized[t].attempts + 1 \in 0 .. MaxAttempts
  BY <1>2, ClaimedType
<1>4. f \in [Tasks -> Rows]
  BY <1>2, <1>3
<1>5. \A u \in Tasks : u # t => f[u] = Finalized[u]
  BY <1>2
<1>6. f[t] = Claimed(Finalized[t], w)
  BY <1>2
<1>7. task[t].status \in {"pending", "processing"}
  <2>1. Finalized[t].status \in {"pending", "processing"} \/ Finalized[t].next = "due"
    BY DEF Eligible
  <2>2. CASE Finalized[t] = task[t]
    <3>1. task[t].status \in {"pending", "processing"} \/ (task[t].status = "failed" /\ task[t].next = "due")
      BY <2>2 DEF Eligible
    <3> QED BY <3>1 DEF RowShape
  <2>3. CASE Finalized[t] # task[t]
    BY <1>1, <2>3 DEF Advances
  <2> QED BY <2>2, <2>3
<1>8. Advances(f)
  BY <1>1, <1>3, <1>4, <1>5, <1>6, <1>7 DEF Advances
<1>9. \A u \in Tasks : f[u].status = "completed" <=> task[u].status = "completed"
  BY <1>3, <1>5, <1>6, <1>7, FinalizedAdvances
<1> QED BY <1>3, <1>8, <1>9

-----------------------------------------------------------------------------

\* A worker's next record keeps RunShape when it has the shape itself.
LEMMA RunKeeps ==
    ASSUME TypeOK, RunShape, NEW w \in Workers, NEW r \in Runs, Shaped(r),
           run' = [run EXCEPT ![w] = r]
    PROVE  run' \in [Workers -> Runs] /\ RunShape'
<1>1. run' \in [Workers -> Runs]
  BY DEF TypeOK
<1>2. \A v \in Workers : run'[v] = IF v = w THEN r ELSE run[v]
  BY DEF TypeOK
<1>3. RunShape'
  BY <1>2 DEF RunShape, Shaped
<1> QED BY <1>1, <1>3

\* A worker that becomes idle keeps RunShape.
LEMMA IdleKeeps ==
    ASSUME TypeOK, RunShape, NEW w \in Workers, run' = [run EXCEPT ![w] = Idle]
    PROVE  run' \in [Workers -> Runs] /\ RunShape'
<1>1. Idle \in Runs /\ Shaped(Idle)
  BY PackageQueueAssumption DEF Idle, Runs, Shaped
<1> QED BY <1>1, RunKeeps

\* Moving on with the same claim, and the end of _process_source_item.
LEMMA WorkingKeeps ==
    ASSUME TypeOK, RunShape, NEW w \in Workers, NEW at, Working(w, at),
           \/ run[w].at = "idle" /\ at = "polled"
           \/ /\ run[w].at \notin {"idle", "polled"}
              /\ at \in {"working", "committed"} \/ (at = "failed" /\ run[w].package # Nobody)
    PROVE  run' \in [Workers -> Runs] /\ RunShape'
<1> DEFINE r == [run[w] EXCEPT !.at = at]
<1>1. run[w] \in Runs /\ Shaped(run[w])
  BY DEF TypeOK, RunShape
<1>2. /\ r \in Runs /\ r.at = at /\ r.item = run[w].item /\ r.package = run[w].package
  BY <1>1 DEF Runs
<1>3. run[w].package \in Packages \cup {Nobody}
  BY <1>1 DEF Runs
<1>4. Shaped(r)
  BY <1>1, <1>2, <1>3 DEF Shaped
<1> HIDE DEF r
<1>5. run' = [run EXCEPT ![w] = r]
  BY DEF Working, r
<1> QED BY <1>2, <1>4, <1>5, RunKeeps

\* So does the end of _process_source_item.
LEMMA DoneKeeps ==
    ASSUME TypeOK, RunShape, NEW w \in Workers, run[w].at \notin {"idle", "polled"}, Done(w)
    PROVE  run' \in [Workers -> Runs] /\ RunShape'
<1>1. CASE run[w].package = Nobody
  <2>1. run' = [run EXCEPT ![w] = Idle]
    BY <1>1 DEF Done
  <2> QED BY <2>1, IdleKeeps
<1>2. CASE run[w].package # Nobody
  <2> DEFINE r == [run[w] EXCEPT !.at = "next", !.attempts = 0, !.seen = FALSE]
  <2>1. run[w] \in Runs /\ Shaped(run[w])
    BY DEF TypeOK, RunShape
  <2>2. r \in Runs /\ r.at = "next" /\ r.item = run[w].item /\ r.package = run[w].package
    <3>1. 0 \in 0 .. MaxAttempts
      BY PackageQueueAssumption
    <3>2. PICK q \in Runs : q = [run[w] EXCEPT !.at = "next", !.attempts = 0]
      BY <2>1, <3>1 DEF Runs
    <3>3. r = [q EXCEPT !.seen = FALSE]
      BY <2>1, <3>2 DEF Runs
    <3> QED BY <2>1, <3>2, <3>3 DEF Runs
  <2>3. Shaped(r)
    BY <1>2, <2>1, <2>2 DEF Shaped, Runs
  <2> HIDE DEF r
  <2>4. run' = [run EXCEPT ![w] = r]
    BY <1>2 DEF Done, r
  <2> QED BY <2>2, <2>3, <2>4, RunKeeps
<1> QED BY <1>1, <1>2

\* ResultsMatch only depends on which rows are completed.
LEMMA ResultsKeep ==
    ASSUME ResultsMatch, results' = results, reopened' = reopened,
           \A t \in Tasks : task'[t].status = "completed" <=> task[t].status = "completed",
           \A i \in Legacy : source'[i].status = "completed" <=> source[i].status = "completed"
    PROVE  ResultsMatch'
BY DEF ResultsMatch, Completed

\* Storing an advance that completes nothing.
LEMMA StoreStep ==
    ASSUME IInv, NEW f, Advances(f), Store(f),
           \A t \in Tasks : f[t].status = "completed" <=> task[t].status = "completed",
           UNCHANGED <<retry, results, reopened>>, category' \in [Items -> BOOLEAN],
           run' \in [Workers -> Runs], RunShape'
    PROVE  IInv' /\ Steady
<1>1. /\ source' \in [Items -> Rows] /\ task' \in [Tasks -> Rows]
      /\ RowShape' /\ SourceAgrees' /\ Steady
      /\ \A i \in Items : ~Tracked(i) => source'[i] = source[i]
  BY StoreKeeps DEF IInv
<1>2. \A i \in Legacy : source'[i] = source[i]
  BY <1>1, PackageQueueAssumption DEF IInv, RowShape
<1>3. ResultsMatch'
  BY <1>2, ResultsKeep DEF IInv, Store
<1>4. TypeOK'
  BY <1>1 DEF IInv, TypeOK
<1> QED BY <1>1, <1>3, <1>4 DEF IInv

\* Steps that leave the rows alone.
LEMMA RunStep ==
    ASSUME IInv, UNCHANGED <<source, task, results, reopened>>, category' \in [Items -> BOOLEAN],
           run' \in [Workers -> Runs], RunShape', retry' \in [Retries -> Calls]
    PROVE  IInv' /\ Steady
<1>1. TypeOK'
  BY DEF IInv, TypeOK
<1>2. \A i \in Items : (Tracked(i)' <=> Tracked(i)) /\ (AllFinished(i)' <=> AllFinished(i))
  BY DEF Tracked, AllFinished
<1>4. RowShape'
  BY <1>2 DEF IInv, RowShape
<1>5. SourceAgrees'
  BY <1>2 DEF IInv, SourceAgrees
<1>6. ResultsMatch'
  BY DEF IInv, ResultsMatch
<1>3. Steady
  BY <1>2 DEF Settles, Stays, Steady
<1> QED BY <1>1, <1>3, <1>4, <1>5, <1>6 DEF IInv

\* A claim keeps the invariant: it opens no finished row.
LEMMA ClaimTaskStep ==
    ASSUME IInv, NEW w \in Workers, NEW candidates, NEW t \in Tasks,
           ClaimTask(w, candidates, t), UNCHANGED <<category, retry, results, reopened>>
    PROVE  IInv' /\ Steady
<1> DEFINE f == [Finalized EXCEPT ![t] = Claimed(Finalized[t], w)]
           r == Took(w, t[1], t[2], Finalized[t].attempts + 1)
<1>1. Eligible(Finalized[t]) /\ Store(f) /\ run' = [run EXCEPT ![w] = r]
  BY DEF ClaimTask
<1>2. /\ Advances(f)
      /\ \A u \in Tasks : f[u].status = "completed" <=> task[u].status = "completed"
      /\ Finalized[t].attempts + 1 \in 0 .. MaxAttempts
  BY <1>1, ClaimAdvances DEF IInv
<1>3. t[1] \in Items /\ t[2] \in Packages
  BY DEF Tasks
<1>4. r \in Runs /\ Shaped(r)
  BY <1>2, <1>3, PackageQueueAssumption DEF Took, Runs, Shaped
<1> HIDE DEF f, r
<1>5. run' \in [Workers -> Runs] /\ RunShape'
  BY <1>1, <1>4, RunKeeps DEF IInv
<1>6. category' \in [Items -> BOOLEAN]
  BY DEF IInv, TypeOK
<1> QED BY <1>1, <1>2, <1>5, <1>6, StoreStep

\* So does a claim that finds nothing.
LEMMA ClaimNoneStep ==
    ASSUME IInv, NEW candidates, ClaimNone(candidates), UNCHANGED <<category, retry, results, reopened>>,
           run' \in [Workers -> Runs], RunShape'
    PROVE  IInv' /\ Steady
<1>1. Store(Finalized)
  BY DEF ClaimNone
<1>2. /\ Advances(Finalized)
      /\ \A t \in Tasks : Finalized[t].status = "completed" <=> task[t].status = "completed"
  BY FinalizedAdvances DEF IInv
<1>3. category' \in [Items -> BOOLEAN]
  BY DEF IInv, TypeOK
<1> QED BY <1>1, <1>2, <1>3, StoreStep

\* claim_next_package_task and claim_next_package_task_for_item
LEMMA PollStep ==
    ASSUME IInv, NEW w \in Workers, Poll(w) PROVE IInv' /\ Steady
<1>1. CASE \E t \in Tasks : ClaimTask(w, Tasks, t)
  BY <1>1, ClaimTaskStep DEF Poll
<1>2. CASE ClaimNone(Tasks) /\ Working(w, "polled")
  <2>1. run' \in [Workers -> Runs] /\ RunShape'
    BY <1>2, WorkingKeeps DEF IInv, Poll
  <2> QED BY <1>2, <2>1, ClaimNoneStep DEF Poll
<1> QED BY <1>1, <1>2 DEF Poll

\* claim_next_package_task_for_item
LEMMA MoreStep ==
    ASSUME IInv, NEW w \in Workers, More(w) PROVE IInv' /\ Steady
<1>1. CASE \E p \in Packages : ClaimTask(w, {run[w].item} \X Packages, <<run[w].item, p>>)
  <2>1. PICK p \in Packages : ClaimTask(w, {run[w].item} \X Packages, <<run[w].item, p>>)
    BY <1>1
  <2>2. run[w].item \in Items
    BY DEF IInv, RunShape, Shaped, More
  <2>3. <<run[w].item, p>> \in Tasks
    BY <2>2 DEF Tasks
  <2> QED BY <2>1, <2>3, ClaimTaskStep DEF More
<1>2. CASE ClaimNone({run[w].item} \X Packages) /\ run' = [run EXCEPT ![w] = Idle]
  <2>1. run' \in [Workers -> Runs] /\ RunShape'
    BY <1>2, IdleKeeps DEF IInv
  <2> QED BY <1>2, <2>1, ClaimNoneStep DEF More
<1> QED BY <1>1, <1>2 DEF More

\* Steps that change the row of one legacy item only.
LEMMA LegacyStep ==
    ASSUME IInv, NEW i \in Legacy, NEW row \in Rows, row.status # "none",
           source' = [source EXCEPT ![i] = row], task' = task,
           results' \in [Units -> Nat], ResultsMatch', UNCHANGED <<retry, reopened>>,
           category' \in [Items -> BOOLEAN], run' \in [Workers -> Runs], RunShape'
    PROVE  IInv' /\ Steady
<1>1. i \in Items /\ ~Tracked(i)
  BY PackageQueueAssumption DEF IInv, RowShape
<1>2. source' \in [Items -> Rows] /\ \A j \in Items : source'[j] = IF j = i THEN row ELSE source[j]
  BY <1>1 DEF IInv, TypeOK
<1>3. \A j \in Items : (Tracked(j)' <=> Tracked(j)) /\ (AllFinished(j)' <=> AllFinished(j))
  BY DEF Tracked, AllFinished
<1>4. TypeOK'
  BY <1>2 DEF IInv, TypeOK
<1>5. RowShape'
  <2>1. \A j \in Items : source'[j].status = "none" \/ j \in Legacy => ~Tracked(j)'
    BY <1>1, <1>2, <1>3 DEF IInv, RowShape
  <2>2. \A j \in Legacy : source'[j].status # "none"
    BY <1>2, PackageQueueAssumption DEF IInv, RowShape
  <2>3. \A j \in Items : Tracked(j)' => source'[j].next = "none"
    BY <1>1, <1>2, <1>3 DEF IInv, RowShape
  <2> QED BY <2>1, <2>2, <2>3 DEF IInv, RowShape
<1>6. SourceAgrees'
  <2>1. \A j \in Items : Tracked(j)' => source'[j] = source[j]
    BY <1>1, <1>2, <1>3
  <2> QED BY <1>3, <2>1 DEF IInv, SourceAgrees
<1>7. Steady
  BY <1>2, <1>3 DEF Settles, Stays, Steady
<1> QED BY <1>4, <1>5, <1>6, <1>7 DEF IInv

\* A legacy row changes without being completed.
LEMMA LegacyOpenStep ==
    ASSUME IInv, NEW i \in Legacy, NEW row \in Rows, row.status \notin {"none", "completed"},
           source[i].status # "completed",
           source' = [source EXCEPT ![i] = row], task' = task, UNCHANGED <<retry, results, reopened>>,
           category' \in [Items -> BOOLEAN], run' \in [Workers -> Runs], RunShape'
    PROVE  IInv' /\ Steady
<1>1. \A j \in Legacy : source'[j] = IF j = i THEN row ELSE source[j]
  BY PackageQueueAssumption DEF IInv, TypeOK
<1>2. ResultsMatch'
  BY <1>1 DEF IInv, ResultsMatch, Completed
<1>3. results' \in [Units -> Nat]
  BY DEF IInv, TypeOK
<1> QED BY <1>2, <1>3, LegacyStep

\* The legacy path only finds items without package rows: of a tracked one, the
\* source row is finished once no package row is open, and waits for no retry.
LEMMA LegacyEligibleIsLegacy ==
    ASSUME IInv, NEW i \in Items, LegacyEligible(i)
    PROVE  i \in Legacy /\ ~Tracked(i) /\ source[i].status \notin {"none", "completed"}
<1>1. source[i].status \notin {"none", "completed"}
  BY DEF LegacyEligible, Eligible
<1>2. ASSUME Tracked(i) PROVE FALSE
  <2>1. \A p \in Packages : task[<<i, p>>] \in Rows /\ task[<<i, p>>].status \notin {"pending", "processing"}
    BY DEF LegacyEligible, IInv, TypeOK, Tasks
  <2>2. AllFinished(i)
    BY <2>1 DEF AllFinished, Rows
  <2>3. source[i].status \in Finished /\ source[i].next = "none"
    BY <1>2, <2>2 DEF IInv, SourceAgrees, RowShape
  <2> QED BY <2>3 DEF LegacyEligible, Eligible, Finished
<1>3. i \in Legacy
  BY <1>2, PackageQueueAssumption DEF LegacyEligible, HasUseCase, Tracked
<1> QED BY <1>1, <1>2, <1>3

\* claim_next_source_item
LEMMA PollLegacyStep ==
    ASSUME IInv, NEW w \in Workers, PollLegacy(w) PROVE IInv' /\ Steady
<1>0. /\ category' \in [Items -> BOOLEAN] /\ task' = task /\ UNCHANGED <<retry, results, reopened>>
      /\ retry' \in [Retries -> Calls]
  BY DEF IInv, TypeOK, PollLegacy
<1>1. ASSUME NEW i \in Items, LegacyEligible(i),
             source' = [source EXCEPT ![i] = Claimed(source[i], w)],
             run' = [run EXCEPT ![w] = Took(w, i, Nobody, source[i].attempts + 1)]
      PROVE  IInv' /\ Steady
  <2> DEFINE r == Took(w, i, Nobody, source[i].attempts + 1)
             row == Claimed(source[i], w)
  <2>1. i \in Legacy /\ source[i].status # "completed"
    BY <1>1, LegacyEligibleIsLegacy
  <2>2. source[i] \in Rows /\ Eligible(source[i])
    BY <1>1 DEF IInv, TypeOK, LegacyEligible
  <2>3. row \in Rows /\ row.status = "processing" /\ source[i].attempts + 1 \in 0 .. MaxAttempts
    BY <2>2, ClaimedType
  <2>4. r \in Runs /\ Shaped(r)
    BY <2>1, <2>3 DEF Took, Runs, Shaped
  <2>5. source' = [source EXCEPT ![i] = row] /\ run' = [run EXCEPT ![w] = r]
    BY <1>1
  <2> HIDE DEF r, row
  <2>6. run' \in [Workers -> Runs] /\ RunShape'
    BY <2>4, <2>5, RunKeeps DEF IInv
  <2> QED BY <1>0, <2>1, <2>3, <2>5, <2>6, LegacyOpenStep
<1>2. CASE run' = [run EXCEPT ![w] = Idle] /\ UNCHANGED source
  <2>1. run' \in [Workers -> Runs] /\ RunShape'
    BY <1>2, IdleKeeps DEF IInv
  <2> QED BY <1>0, <1>2, <2>1, RunStep
<1> QED BY <1>1, <1>2 DEF PollLegacy

\* A worker that holds a claim: the legacy item or the package row it is on.
LEMMA Holds ==
    ASSUME IInv, NEW w \in Workers, run[w].at \notin {"idle", "polled"}
    PROVE  /\ run[w].attempts \in 0 .. MaxAttempts
           /\ run[w].item \in Items
           /\ run[w].package = Nobody => run[w].item \in Legacy
           /\ run[w].package # Nobody =>
                 run[w].package \in Packages /\ <<run[w].item, run[w].package>> \in Tasks
BY DEF IInv, RunShape, Shaped, TypeOK, Runs, Tasks

\* A compare-and-swap on the claim that does not complete it.
LEMMA StoreClaimedStep ==
    ASSUME IInv, NEW w \in Workers, run[w].at \notin {"idle", "polled"}, Current(w),
           NEW row \in Rows, row.status \in {"pending", "failed"},
           row.status = "failed" => row.next = "none", StoreClaimed(w, row),
           UNCHANGED <<retry, results, reopened>>, category' \in [Items -> BOOLEAN],
           run' \in [Workers -> Runs], RunShape'
    PROVE  IInv' /\ Steady
<1>1. CASE run[w].package = Nobody
  <2>1. source' = [source EXCEPT ![run[w].item] = row] /\ task' = task
    BY <1>1 DEF StoreClaimed
  <2>2. run[w].item \in Legacy /\ source[run[w].item].status = "processing"
    BY <1>1, Holds DEF Current, ClaimedRow
  <2> QED BY <2>1, <2>2, LegacyOpenStep
<1>2. CASE run[w].package # Nobody
  <2> DEFINE t == <<run[w].item, run[w].package>>
             f == [task EXCEPT ![t] = row]
  <2>1. t \in Tasks /\ task[t].status = "processing"
    BY <1>2, Holds DEF Current, ClaimedRow
  <2>2. Store(f)
    BY <1>2 DEF StoreClaimed
  <2> HIDE DEF t
  <2>3. f \in [Tasks -> Rows] /\ f[t] = row /\ \A u \in Tasks : u # t => f[u] = task[u]
    BY <2>1 DEF IInv, TypeOK
  <2> HIDE DEF f
  <2>4. Advances(f)
    BY <2>1, <2>3 DEF Advances
  <2>5. \A u \in Tasks : f[u].status = "completed" <=> task[u].status = "completed"
    BY <2>1, <2>3
  <2> QED BY <2>2, <2>4, <2>5, StoreStep
<1> QED BY <1>1, <1>2

\* A package that this worker cannot run.
LEMMA RejectStep ==
    ASSUME IInv, NEW w \in Workers, Reject(w) PROVE IInv' /\ Steady
<1>1. run[w].at \notin {"idle", "polled"}
  BY DEF Reject
<1>2. run[w].attempts \in 0 .. MaxAttempts /\ run[w].item \in Items
  BY <1>1, Holds
<1>3. /\ Row("failed", run[w].attempts, "none") \in Rows
      /\ Row("failed", run[w].attempts, "none").status = "failed"
      /\ Row("failed", run[w].attempts, "none").next = "none"
  BY <1>2, RowType DEF Finished
<1>4. category' \in [Items -> BOOLEAN]
  BY <1>2 DEF Reject, IInv, TypeOK
<1>5. run' \in [Workers -> Runs] /\ RunShape'
  BY <1>1, DoneKeeps DEF IInv, Reject
<1> QED BY <1>1, <1>3, <1>4, <1>5, StoreClaimedStep DEF Reject

\* claim_is_current before the model call
LEMMA StartWorkStep ==
    ASSUME IInv, NEW w \in Workers, StartWork(w) PROVE IInv' /\ Steady
<1>1. run' \in [Workers -> Runs] /\ RunShape'
  BY WorkingKeeps DEF IInv, StartWork
<1>2. category' \in [Items -> BOOLEAN] /\ retry' \in [Retries -> Calls]
  BY DEF IInv, TypeOK, StartWork
<1> QED BY <1>1, <1>2, RunStep DEF StartWork

\* A compare-and-swap that returns False or None.
LEMMA SupersededStep ==
    ASSUME IInv, NEW w \in Workers, Superseded(w) PROVE IInv' /\ Steady
<1>1. run' \in [Workers -> Runs] /\ RunShape'
  BY DoneKeeps DEF IInv, Superseded
<1>2. category' \in [Items -> BOOLEAN] /\ retry' \in [Retries -> Calls]
  BY DEF IInv, TypeOK, Superseded
<1> QED BY <1>1, <1>2, RunStep DEF Superseded

\* commit_package_process_result and commit_processed_source_item
LEMMA CommitStep ==
    ASSUME IInv, NEW w \in Workers, Commit(w) PROVE IInv' /\ Steady
<1> DEFINE i == run[w].item
           t == <<run[w].item, run[w].package>>
           row == Row("completed", run[w].attempts, "none")
<1>1. run[w].at \notin {"idle", "polled"}
  BY DEF Commit
<1>2. run[w].attempts \in 0 .. MaxAttempts /\ i \in Items
  BY <1>1, Holds
<1>3. row \in Rows /\ row.status = "completed"
  BY <1>2, RowType DEF Finished
<1>4. category' \in [Items -> BOOLEAN]
  BY <1>2 DEF Commit, IInv, TypeOK
<1>5. run' \in [Workers -> Runs] /\ RunShape'
  BY WorkingKeeps DEF IInv, Commit
<1>6. t \in Units
  BY <1>1, Holds DEF Units
<1>7. /\ StoreClaimed(w, row) /\ results' = [results EXCEPT ![t] = results[t] + 1]
      /\ UNCHANGED <<retry, reopened>>
  BY DEF Commit
<1>8. run[w].package = Nobody => t = <<i, Nobody>>
  OBVIOUS
<1> HIDE DEF t, row
<1>9. /\ results' \in [Units -> Nat]
      /\ results'[t] = results[t] + 1
      /\ \A u \in Units : u # t => results'[u] = results[u]
  BY <1>6, <1>7 DEF IInv, TypeOK
<1>10. \A u \in Tasks : u \in Units
  BY DEF Tasks, Units
<1>11. CASE run[w].package = Nobody
  <2>1. source' = [source EXCEPT ![i] = row] /\ task' = task
    BY <1>7, <1>11 DEF StoreClaimed
  <2>2. i \in Legacy /\ source[i].status = "processing"
    BY <1>1, <1>11, Holds DEF Commit, Current, ClaimedRow
  <2>3. \A j \in Legacy : source'[j] = IF j = i THEN row ELSE source[j]
    BY <2>1, PackageQueueAssumption DEF IInv, TypeOK
  <2>4. \A u \in Tasks : u # t
    BY <1>8, <1>11, PackageQueueAssumption DEF Tasks
  <2>5. \A u \in Tasks : results'[u] = results[u]
    BY <1>9, <1>10, <2>4
  <2>6. \A j \in Legacy : <<j, Nobody>> \in Units
    BY PackageQueueAssumption DEF Units
  <2>7. \A j \in Legacy : results'[<<j, Nobody>>] = reopened[<<j, Nobody>>] + Completed(source'[j].status)
    <3>1. TAKE j \in Legacy
    <3>2. CASE j = i
      <4>1. results[<<i, Nobody>>] = reopened[<<i, Nobody>>] /\ reopened[<<i, Nobody>>] \in Nat
        BY <2>2, <2>6 DEF IInv, TypeOK, ResultsMatch, Completed
      <4> QED BY <1>3, <1>8, <1>9, <1>11, <2>3, <3>2, <4>1 DEF Completed
    <3>3. CASE j # i
      <4>1. <<j, Nobody>> # t
        BY <1>8, <1>11, <3>3
      <4>2. results'[<<j, Nobody>>] = results[<<j, Nobody>>]
        BY <1>9, <2>6, <4>1
      <4> QED BY <2>3, <3>3, <4>2 DEF IInv, ResultsMatch
    <3> QED BY <3>2, <3>3
  <2>8. ResultsMatch'
    BY <1>7, <2>1, <2>5, <2>7 DEF IInv, ResultsMatch
  <2> QED BY <1>3, <1>4, <1>5, <1>7, <1>9, <2>1, <2>2, <2>8, LegacyStep
<1>12. CASE run[w].package # Nobody
  <2> DEFINE f == [task EXCEPT ![t] = row]
  <2>1. t \in Tasks /\ task[t].status = "processing"
    BY <1>1, <1>12, Holds DEF Commit, Current, ClaimedRow, t
  <2>2. Store(f)
    BY <1>7, <1>12 DEF StoreClaimed, t
  <2>3. f \in [Tasks -> Rows] /\ f[t] = row /\ \A u \in Tasks : u # t => f[u] = task[u]
    BY <1>3, <2>1 DEF IInv, TypeOK
  <2> HIDE DEF f
  <2>4. Advances(f)
    BY <1>3, <2>1, <2>3 DEF Advances
  <2>5. /\ source' \in [Items -> Rows] /\ task' \in [Tasks -> Rows]
        /\ RowShape' /\ SourceAgrees' /\ Steady
        /\ \A j \in Items : ~Tracked(j) => source'[j] = source[j]
    BY <2>2, <2>4, StoreKeeps DEF IInv
  <2>6. task' = f
    BY <2>2 DEF Store
  <2>7. \A j \in Legacy : source'[j] = source[j] /\ <<j, Nobody>> \in Units
    BY <2>5, PackageQueueAssumption DEF IInv, RowShape, Units
  <2>8. \A j \in Legacy : <<j, Nobody>> # t
    BY <1>12 DEF t
  <2>9. \A j \in Legacy : results'[<<j, Nobody>>] = reopened[<<j, Nobody>>] + Completed(source'[j].status)
    BY <1>9, <2>7, <2>8 DEF IInv, ResultsMatch
  <2>10. \A u \in Tasks : results'[u] = reopened[u] + Completed(task'[u].status)
    <3>1. TAKE u \in Tasks
    <3>2. CASE u = t
      <4>1. results[t] = reopened[t] /\ reopened[t] \in Nat
        BY <1>6, <2>1 DEF IInv, TypeOK, ResultsMatch, Completed
      <4> QED BY <1>3, <1>9, <2>3, <2>6, <3>2, <4>1 DEF Completed
    <3>3. CASE u # t
      <4>1. results'[u] = results[u] /\ task'[u] = task[u]
        BY <1>9, <1>10, <2>3, <2>6, <3>3
      <4> QED BY <4>1 DEF IInv, ResultsMatch
    <3> QED BY <3>2, <3>3
  <2>11. ResultsMatch'
    BY <1>7, <2>9, <2>10 DEF ResultsMatch
  <2>12. TypeOK'
    BY <1>4, <1>5, <1>7, <1>9, <2>5 DEF IInv, TypeOK
  <2> QED BY <1>5, <2>5, <2>11, <2>12 DEF IInv
<1> QED BY <1>11, <1>12

\* fail_package_task and fail_source_item_processing
LEMMA FailStep ==
    ASSUME IInv, NEW w \in Workers, Fail(w) PROVE IInv' /\ Steady
<1>1. run[w].at \notin {"idle", "polled"} /\ Current(w) /\ UNCHANGED <<retry, results, reopened>>
  BY DEF Fail
<1>2. run[w].attempts \in 0 .. MaxAttempts /\ run[w].item \in Items
  BY <1>1, Holds
<1>3. PICK row : /\ StoreClaimed(w, row)
                 /\ \/ row = Row("failed", run[w].attempts, "none")
                    \/ row = Row("pending", run[w].attempts, "later")
  BY DEF Fail
<1>4. row \in Rows /\ row.status \in {"pending", "failed"} /\ (row.status = "failed" => row.next = "none")
  BY <1>2, <1>3, RowType DEF Finished
<1>5. category' \in [Items -> BOOLEAN] /\ run' \in [Workers -> Runs] /\ RunShape'
  <2>1. CASE run[w].package = Nobody
    <3>1. category' = [category EXCEPT ![run[w].item] = TRUE] /\ Done(w)
      BY <2>1 DEF Fail
    <3>2. category' \in [Items -> BOOLEAN]
      BY <3>1 DEF IInv, TypeOK
    <3> QED BY <1>1, <3>1, <3>2, DoneKeeps DEF IInv
  <2>2. CASE run[w].package # Nobody
    <3>1. category' = category /\ Working(w, "failed")
      BY <2>2 DEF Fail
    <3>2. category' \in [Items -> BOOLEAN]
      BY <3>1 DEF IInv, TypeOK
    <3> QED BY <1>1, <2>2, <3>1, <3>2, WorkingKeeps DEF IInv
  <2> QED BY <2>1, <2>2
<1> QED BY <1>1, <1>3, <1>4, <1>5, StoreClaimedStep

\* update_source_item_metadata reads the metadata.
LEMMA ReadMetadataStep ==
    ASSUME IInv, NEW w \in Workers, ReadMetadata(w) PROVE IInv' /\ Steady
<1> DEFINE at == IF run[w].at = "committed" THEN "noting" ELSE "recording"
           r == [run[w] EXCEPT !.at = at, !.seen = category[run[w].item]]
<1>1. run[w].at \in {"committed", "failed"} /\ run[w] \in Runs /\ Shaped(run[w])
  BY DEF IInv, TypeOK, RunShape, ReadMetadata
<1>2. run[w].item \in Items /\ category[run[w].item] \in BOOLEAN
  BY <1>1 DEF IInv, TypeOK, Shaped
<1>3. r \in Runs /\ r.at = at /\ r.item = run[w].item /\ r.package = run[w].package
  BY <1>1, <1>2 DEF Runs
<1>4. Shaped(r)
  BY <1>1, <1>3 DEF Shaped
<1>5. run' = [run EXCEPT ![w] = r]
  BY DEF IInv, TypeOK, ReadMetadata
<1> HIDE DEF r, at
<1>6. run' \in [Workers -> Runs] /\ RunShape'
  BY <1>3, <1>4, <1>5, RunKeeps DEF IInv
<1>7. category' \in [Items -> BOOLEAN] /\ retry' \in [Retries -> Calls]
  BY DEF IInv, TypeOK, ReadMetadata
<1> QED BY <1>6, <1>7, RunStep DEF ReadMetadata

\* It writes back what it has read.
LEMMA WriteMetadataStep ==
    ASSUME IInv, NEW w \in Workers, WriteMetadata(w) PROVE IInv' /\ Steady
<1>1. run[w].at \in {"noting", "recording"} /\ run[w].seen \in BOOLEAN
  BY DEF IInv, TypeOK, Runs, WriteMetadata
<1>2. run' \in [Workers -> Runs] /\ RunShape'
  BY <1>1, DoneKeeps DEF IInv, WriteMetadata
<1>3. category' \in [Items -> BOOLEAN] /\ retry' \in [Retries -> Calls]
  BY <1>1 DEF IInv, TypeOK, WriteMetadata
<1> QED BY <1>2, <1>3, RunStep DEF WriteMetadata

\* The death of a worker changes no row.
LEMMA CrashStep ==
    ASSUME IInv, NEW w \in Workers, Crash(w) PROVE IInv' /\ Steady
<1>1. run' \in [Workers -> Runs] /\ RunShape'
  BY IdleKeeps DEF IInv, Crash
<1>2. category' \in [Items -> BOOLEAN] /\ retry' \in [Retries -> Calls]
  BY DEF IInv, TypeOK, Crash
<1> QED BY <1>1, <1>2, RunStep DEF Crash

\* Steps that keep every status: time passes.
LEMMA TimeStep ==
    ASSUME IInv, source' \in [Items -> Rows], task' \in [Tasks -> Rows],
           \A t \in Tasks : /\ task'[t].status = task[t].status
                            /\ task[t].status = "failed" => task'[t].next = task[t].next,
           \A i \in Items : /\ source'[i].status = source[i].status
                            /\ source[i].next = "none" => source'[i].next = "none",
           UNCHANGED <<category, run, retry, results, reopened>>
    PROVE  IInv' /\ Steady
<1>1. \A i \in Items : (Tracked(i)' <=> Tracked(i)) /\ (AllFinished(i)' <=> AllFinished(i))
  BY DEF Tracked, AllFinished, Tasks
<1>2. TypeOK'
  BY DEF IInv, TypeOK
<1>3. RowShape'
  BY <1>1, PackageQueueAssumption DEF IInv, RowShape
<1>4. RunShape'
  BY DEF IInv, RunShape, Shaped
<1>5. SourceAgrees'
  <2>1. \A i \in Items, p \in Packages : task'[<<i, p>>].status = task[<<i, p>>].status
    BY DEF Tasks
  <2>2. SUFFICES ASSUME NEW i \in Items, Tracked(i)'
                 PROVE  /\ source'[i].status \in {"pending"} \cup Finished
                        /\ source'[i].status \in Finished <=> AllFinished(i)'
                        /\ source'[i].status = "failed" <=>
                              AllFinished(i)' /\ \E p \in Packages : task'[<<i, p>>].status = "failed"
    BY DEF SourceAgrees
  <2>3. Tracked(i) /\ source'[i].status = source[i].status
    BY <1>1, <2>2
  <2>4. (\E p \in Packages : task'[<<i, p>>].status = "failed")
           <=> \E p \in Packages : task[<<i, p>>].status = "failed"
    BY <2>1
  <2>5. /\ source[i].status \in {"pending"} \cup Finished
        /\ source[i].status \in Finished <=> AllFinished(i)
        /\ source[i].status = "failed" <=>
              AllFinished(i) /\ \E p \in Packages : task[<<i, p>>].status = "failed"
    BY <2>3 DEF IInv, SourceAgrees
  <2>6. AllFinished(i)' <=> AllFinished(i)
    BY <1>1
  <2> QED BY <2>3, <2>4, <2>5, <2>6
<1>6. ResultsMatch'
  BY PackageQueueAssumption DEF IInv, ResultsMatch
<1>7. Steady
  BY <1>1 DEF Settles, Stays, Steady
<1> QED BY <1>2, <1>3, <1>4, <1>5, <1>6, <1>7 DEF IInv

\* A lapsed lease and an ended backoff keep the type of a row.
LEMMA TimeType ==
    ASSUME NEW r \in Rows
    PROVE  /\ Lapse(r) \in Rows /\ Lapse(r).status = r.status /\ Lapse(r).next = r.next
           /\ End(r) \in Rows /\ End(r).status = r.status
           /\ r.next # "later" => End(r).next = r.next
BY DEF Lapse, End, Rows

\* A lease of a package row lapses.
LEMMA LeaseLapsesStep ==
    ASSUME IInv, NEW t \in Tasks, LeaseLapses(t) \/ BackoffEnds(t) PROVE IInv' /\ Steady
<1>1. task[t] \in Rows /\ (task[t].status = "failed" => task[t].next = "none")
  BY DEF IInv, TypeOK, RowShape
<1>2. PICK row \in Rows : /\ task' = [task EXCEPT ![t] = row]
                          /\ row.status = task[t].status
                          /\ task[t].status = "failed" => row.next = task[t].next
  <2>1. CASE LeaseLapses(t)
    BY <1>1, <2>1, TimeType DEF LeaseLapses
  <2>2. CASE BackoffEnds(t)
    BY <1>1, <2>2, TimeType DEF BackoffEnds
  <2> QED BY <2>1, <2>2
<1>3. task' \in [Tasks -> Rows] /\ \A u \in Tasks : task'[u] = IF u = t THEN row ELSE task[u]
  BY <1>2 DEF IInv, TypeOK
<1>4. UNCHANGED <<source, category, run, retry, results, reopened>>
  BY DEF LeaseLapses, BackoffEnds
<1>5. source' \in [Items -> Rows]
  BY <1>4 DEF IInv, TypeOK
<1> QED BY <1>2, <1>3, <1>4, <1>5, TimeStep

\* A lease of a legacy item lapses or its backoff ends.
LEMMA LegacyTimeStep ==
    ASSUME IInv, NEW i \in Items, LegacyTime(i) PROVE IInv' /\ Steady
<1>1. source[i] \in Rows
  BY DEF IInv, TypeOK
<1>2. PICK row \in Rows : /\ source' = [source EXCEPT ![i] = row]
                          /\ row.status = source[i].status
                          /\ source[i].next = "none" => row.next = "none"
  BY <1>1, TimeType DEF LegacyTime
<1>3. source' \in [Items -> Rows] /\ \A j \in Items : source'[j] = IF j = i THEN row ELSE source[j]
  BY <1>2 DEF IInv, TypeOK
<1>4. UNCHANGED <<task, category, run, retry, results, reopened>>
  BY DEF LegacyTime
<1>5. task' \in [Tasks -> Rows]
  BY <1>4 DEF IInv, TypeOK
<1> QED BY <1>2, <1>3, <1>4, <1>5, TimeStep

\* create_source_item_with_packages
LEMMA IngestStep ==
    ASSUME IInv, NEW i \in Items, NEW active \in SUBSET Packages, NEW skip \in SUBSET Packages,
           skip \subseteq active, Ingest(i, active, skip)
    PROVE  IInv' /\ Steady
<1> DEFINE status == IF active = {} THEN "completed" ELSE IF active \subseteq skip THEN "skipped" ELSE "pending"
<1>1. source[i].status = "none" /\ ~Tracked(i) /\ i \notin Legacy
  BY DEF Ingest, IInv, RowShape
<1>2. 0 \in 0 .. MaxAttempts
  BY PackageQueueAssumption
<1>3. /\ Row("skipped", 0, "none") \in Rows /\ Row("skipped", 0, "none").status = "skipped"
      /\ Row("pending", 0, "none") \in Rows /\ Row("pending", 0, "none").status = "pending"
  BY <1>2, RowType DEF Finished
<1>4. PICK row \in Rows : /\ source' = [source EXCEPT ![i] = row]
                          /\ row.status = status /\ row.next = "none"
  <2>1. status \in {"completed", "skipped", "pending"}
    OBVIOUS
  <2>2. source' = [source EXCEPT ![i] = Row(status, 0, "none")]
    BY DEF Ingest
  <2> HIDE DEF status
  <2>3. /\ Row(status, 0, "none") \in Rows
        /\ Row(status, 0, "none").status = status /\ Row(status, 0, "none").next = "none"
    BY <1>2, <2>1, RowType DEF Finished
  <2> QED BY <2>2, <2>3
<1>5. source' \in [Items -> Rows] /\ \A j \in Items : source'[j] = IF j = i THEN row ELSE source[j]
  BY <1>4 DEF IInv, TypeOK
<1>6. task' \in [Tasks -> Rows]
  <2>1. \A t \in Tasks : task[t] \in Rows
    BY DEF IInv, TypeOK
  <2> QED BY <1>3, <2>1 DEF Ingest
<1>7. \A p \in Packages : task'[<<i, p>>].status =
         IF p \in active THEN (IF p \in skip THEN "skipped" ELSE "pending") ELSE "none"
  <2>1. TAKE p \in Packages
  <2>2. <<i, p>> \in Tasks
    BY DEF Tasks
  <2>3. task[<<i, p>>].status = "none"
    BY <1>1 DEF Tracked
  <2>4. CASE p \in active
    BY <1>3, <2>2, <2>4 DEF Ingest
  <2>5. CASE p \notin active
    BY <2>2, <2>3, <2>5 DEF Ingest
  <2> QED BY <2>4, <2>5
<1>8. \A t \in Tasks : t[1] # i => task'[t] = task[t]
  BY DEF Ingest
<1>9. \A j \in Items : j # i => \A p \in Packages : <<j, p>> \in Tasks /\ task'[<<j, p>>] = task[<<j, p>>]
  BY <1>8 DEF Tasks
<1>10. \A j \in Items : j # i => (Tracked(j)' <=> Tracked(j)) /\ (AllFinished(j)' <=> AllFinished(j))
  BY <1>9 DEF Tracked, AllFinished
<1>11. \A t \in Tasks : t[1] = i =>
          task[t].status = "none" /\ task'[t].status \in {"none", "pending", "skipped"}
  <2>1. TAKE t \in Tasks
  <2>2. HAVE t[1] = i
  <2>3. t = <<i, t[2]>> /\ t[2] \in Packages
    BY <2>2 DEF Tasks
  <2> QED BY <1>1, <1>7, <2>3 DEF Tracked
<1>12. Steady
  BY <1>1, <1>5, <1>8, <1>10, <1>11 DEF Settles, Stays, Steady
<1>13. SourceAgrees'
  <2>1. SUFFICES ASSUME NEW j \in Items, Tracked(j)'
                 PROVE  /\ source'[j].status \in {"pending"} \cup Finished
                        /\ source'[j].status \in Finished <=> AllFinished(j)'
                        /\ source'[j].status = "failed" <=>
                              AllFinished(j)' /\ \E p \in Packages : task'[<<j, p>>].status = "failed"
    BY DEF SourceAgrees
  <2>2. CASE j # i
    <3>1. Tracked(j) /\ source'[j] = source[j]
      BY <1>5, <1>10, <2>1, <2>2
    <3> QED BY <1>9, <1>10, <2>2, <3>1 DEF IInv, SourceAgrees
  <2>3. CASE j = i
    <3>1. active # {}
      BY <1>7, <2>1, <2>3 DEF Tracked
    <3>2. \A p \in Packages : task'[<<i, p>>].status # "failed"
      BY <1>7
    <3>3. AllFinished(i)' <=> active \subseteq skip
      BY <1>7 DEF AllFinished, Finished
    <3>4. source'[i].status = IF active \subseteq skip THEN "skipped" ELSE "pending"
      BY <1>4, <1>5, <3>1
    <3> QED BY <2>3, <3>2, <3>3, <3>4 DEF Finished
  <2> QED BY <2>2, <2>3
<1>14. RowShape'
  <2>1. source'[i].status # "none" /\ source'[i].next = "none"
    BY <1>4, <1>5
  <2>2. \A j \in Items : source'[j].status = "none" \/ j \in Legacy => ~Tracked(j)'
    BY <1>1, <1>5, <1>10, <2>1 DEF IInv, RowShape
  <2>3. \A j \in Legacy : source'[j].status # "none"
    BY <1>5, <2>1, PackageQueueAssumption DEF IInv, RowShape
  <2>4. \A j \in Items : Tracked(j)' => source'[j].next = "none"
    BY <1>5, <1>10, <2>1 DEF IInv, RowShape
  <2>5. \A t \in Tasks : task'[t].status = "failed" => task'[t].next = "none"
    BY <1>8, <1>11 DEF IInv, RowShape
  <2> QED BY <2>2, <2>3, <2>4, <2>5 DEF RowShape
<1>15. UNCHANGED <<category, run, retry, results, reopened>>
  BY DEF Ingest
<1>16. ResultsMatch'
  <2>1. \A t \in Tasks : task'[t].status = "completed" <=> task[t].status = "completed"
    BY <1>8, <1>11
  <2>2. \A j \in Legacy : source'[j] = source[j]
    BY <1>1, <1>5, PackageQueueAssumption
  <2> QED BY <1>15, <2>1, <2>2, ResultsKeep DEF IInv
<1>17. TypeOK' /\ RunShape'
  BY <1>5, <1>6, <1>15 DEF IInv, TypeOK, RunShape, Shaped
<1> QED BY <1>12, <1>13, <1>14, <1>16, <1>17 DEF IInv

\* cancel_disabled_package_work
LEMMA CancelStep ==
    ASSUME IInv, NEW disabled \in SUBSET Packages, Cancel(disabled)
    PROVE  IInv' /\ Steady
<1>1. \A t \in Tasks : task[t] \in Rows /\ Row("skipped", task[t].attempts, "none") \in Rows
  <2>1. TAKE t \in Tasks
  <2>2. task[t] \in Rows /\ task[t].attempts \in 0 .. MaxAttempts
    BY DEF IInv, TypeOK, Rows
  <2> QED BY <2>2, RowType DEF Finished
<1>2. \A i \in Items : source[i] \in Rows /\ Row("skipped", source[i].attempts, "none") \in Rows
  <2>1. TAKE i \in Items
  <2>2. source[i] \in Rows /\ source[i].attempts \in 0 .. MaxAttempts
    BY DEF IInv, TypeOK, Rows
  <2> QED BY <2>2, RowType DEF Finished
<1>3. task' \in [Tasks -> Rows]
  BY <1>1 DEF Cancel
<1>4. \A t \in Tasks : \/ task'[t] = task[t]
                       \/ /\ task[t].status \in {"pending", "failed", "processing"}
                          /\ task'[t].status = "skipped"
  BY DEF Cancel, Row
<1>5. \A i \in Items, p \in Packages : <<i, p>> \in Tasks
  BY DEF Tasks
<1>6. \A i \in Items : Tracked(i)' <=> Tracked(i)
  BY <1>4, <1>5 DEF Tracked
<1>7. \A i \in Items :
        source'[i] = IF \E p \in Packages : task'[<<i, p>>] # task[<<i, p>>] THEN Synced(task', i)
                     ELSE IF /\ ~Tracked(i) /\ HasUseCase(i) /\ UseCase[i] \in disabled
                             /\ source[i].status \in {"pending", "failed", "processing"}
                          THEN Row("skipped", source[i].attempts, "none")
                     ELSE source[i]
  BY DEF Cancel
<1>8. \A i \in Items : Synced(task', i) \in Rows /\ (Synced(task', i).next = "none" \/ Synced(task', i) = source[i])
  <2>1. TAKE i \in Items
  <2>2. 0 \in 0 .. MaxAttempts
    BY PackageQueueAssumption
  <2>3. /\ Row("failed", 0, "none") \in Rows /\ Row("failed", 0, "none").next = "none"
        /\ Row("completed", 0, "none") \in Rows /\ Row("completed", 0, "none").next = "none"
    BY <2>2, RowType DEF Finished
  <2> QED BY <1>2, <2>3 DEF Synced
<1>9. source' \in [Items -> Rows]
  <2>1. \A i \in Items : source'[i] \in Rows
    BY <1>2, <1>7, <1>8
  <2>2. source' = [i \in Items |-> source'[i]]
    BY DEF Cancel
  <2> QED BY <2>1, <2>2
<1>10. \A i \in Items : ~Tracked(i) => \/ source'[i] = source[i]
                                       \/ /\ source[i].status \in {"pending", "failed", "processing"}
                                          /\ source'[i].status = "skipped"
  <2>1. SUFFICES ASSUME NEW i \in Items, ~Tracked(i)
                 PROVE  \/ source'[i] = source[i]
                        \/ /\ source[i].status \in {"pending", "failed", "processing"}
                           /\ source'[i].status = "skipped"
    OBVIOUS
  <2>2. \A p \in Packages : task'[<<i, p>>] = task[<<i, p>>]
    BY <1>4, <1>5, <2>1 DEF Tracked
  <2>3. Row("skipped", source[i].attempts, "none").status = "skipped"
    BY DEF Row
  <2>4. source'[i] = IF /\ ~Tracked(i) /\ HasUseCase(i) /\ UseCase[i] \in disabled
                        /\ source[i].status \in {"pending", "failed", "processing"}
                     THEN Row("skipped", source[i].attempts, "none")
                     ELSE source[i]
    BY <1>7, <2>2
  <2> QED BY <2>3, <2>4
<1>11. Settles
  BY <1>4 DEF Settles
<1>12. SourceAgrees'
  <2>1. SUFFICES ASSUME NEW i \in Items, Tracked(i)'
                 PROVE  /\ source'[i].status \in {"pending"} \cup Finished
                        /\ source'[i].status \in Finished <=> AllFinished(i)'
                        /\ source'[i].status = "failed" <=>
                              AllFinished(i)' /\ \E p \in Packages : task'[<<i, p>>].status = "failed"
    BY DEF SourceAgrees
  <2>2. Tracked(i)
    BY <1>6, <2>1
  <2>3. /\ source[i].status \in {"pending"} \cup Finished
        /\ source[i].status \in Finished <=> AllFinished(i)
        /\ source[i].status = "failed" <=>
              AllFinished(i) /\ \E p \in Packages : task[<<i, p>>].status = "failed"
    BY <2>2 DEF IInv, SourceAgrees
  <2>4. CASE \A p \in Packages : task'[<<i, p>>] = task[<<i, p>>]
    <3>1. source'[i] = source[i]
      BY <1>7, <2>2, <2>4
    <3>2. AllFinished(i)' <=> AllFinished(i)
      BY <2>4 DEF AllFinished
    <3> QED BY <2>3, <2>4, <3>1, <3>2
  <2>5. CASE ~ \A p \in Packages : task'[<<i, p>>] = task[<<i, p>>]
    <3>1. source'[i] = Synced(task', i)
      BY <1>7, <2>5
    <3>2. CASE AllFinished(i)'
      <4>1. CASE \E p \in Packages : task'[<<i, p>>].status = "failed"
        <5>1. source'[i] = Row("failed", 0, "none")
          BY <3>1, <3>2, <4>1 DEF Synced, AllFinished
        <5>2. source'[i].status = "failed"
          BY <5>1 DEF Row
        <5> QED BY <3>2, <4>1, <5>2 DEF Finished
      <4>2. CASE ~ \E p \in Packages : task'[<<i, p>>].status = "failed"
        <5>1. source'[i] = Row("completed", 0, "none")
          BY <3>1, <3>2, <4>2 DEF Synced, AllFinished
        <5>2. source'[i].status = "completed"
          BY <5>1 DEF Row
        <5> QED BY <3>2, <4>2, <5>2 DEF Finished
      <4> QED BY <4>1, <4>2
    <3>3. CASE ~AllFinished(i)'
      <4>1. source'[i] = source[i]
        BY <3>1, <3>3 DEF Synced, AllFinished
      <4>2. ~AllFinished(i)
        BY <1>4, <1>5, <3>3 DEF AllFinished, Finished
      <4> QED BY <2>3, <3>3, <4>1, <4>2 DEF Finished
    <3> QED BY <3>2, <3>3
  <2> QED BY <2>4, <2>5
<1>13. RowShape'
  <2>1. \A i \in Items : source'[i].status = "none" \/ i \in Legacy => ~Tracked(i)'
    BY <1>6, <1>12 DEF IInv, RowShape, SourceAgrees, Finished
  <2>2. \A i \in Legacy : source'[i].status # "none"
    BY <1>10, PackageQueueAssumption DEF IInv, RowShape
  <2>3. \A i \in Items : Tracked(i)' => source'[i].next = "none"
    BY <1>6, <1>7, <1>8 DEF IInv, RowShape
  <2>4. \A t \in Tasks : task'[t].status = "failed" => task'[t].next = "none"
    BY <1>4 DEF IInv, RowShape
  <2> QED BY <2>1, <2>2, <2>3, <2>4 DEF RowShape
<1>14. UNCHANGED <<category, run, retry, results, reopened>>
  BY DEF Cancel
<1>15. ResultsMatch'
  <2>1. \A t \in Tasks : task'[t].status = "completed" <=> task[t].status = "completed"
    BY <1>4
  <2>2. \A i \in Legacy : source'[i].status = "completed" <=> source[i].status = "completed"
    BY <1>10, PackageQueueAssumption DEF IInv, RowShape
  <2> QED BY <1>14, <2>1, <2>2, ResultsKeep DEF IInv
<1>16. TypeOK' /\ RunShape'
  BY <1>3, <1>9, <1>14 DEF IInv, TypeOK, RunShape, Shaped
<1>17. Stays
  BY <1>6, <1>10, <1>12 DEF Stays, SourceAgrees, Finished
<1> QED BY <1>11, <1>12, <1>13, <1>15, <1>16, <1>17 DEF IInv, Steady

-----------------------------------------------------------------------------

\* While rows come and go in other ways, what a retry call has read still fits.
LEMMA RetryShapeKept ==
    ASSUME QInv, Stays, retry' = retry
    PROVE  RetryShape'
<1> SUFFICES ASSUME NEW c \in Retries PROVE Fits(retry[c])'
  BY DEF RetryShape
<1>1. Fits(retry[c]) /\ retry[c] \in Calls /\ retry'[c] = retry[c]
  BY DEF QInv, IInv, TypeOK, RetryShape
<1>2. retry[c].chosen \subseteq Items /\ retry[c].item \in Items \cup {Nobody}
  BY <1>1 DEF Calls
<1> QED BY <1>1, <1>2 DEF Fits, Stays

\* A retry call reads, or is lost: its record becomes r.
LEMMA CallStep ==
    ASSUME QInv, UNCHANGED <<source, task, category, run, results, reopened>>,
           NEW c \in Retries, NEW r \in Calls, Fits(r), retry' = [retry EXCEPT ![c] = r]
    PROVE  QInv' /\ Steady
<1>1. retry' \in [Retries -> Calls] /\ \A d \in Retries : retry'[d] = IF d = c THEN r ELSE retry[d]
  BY DEF QInv, IInv, TypeOK
<1>2. category' \in [Items -> BOOLEAN] /\ run' \in [Workers -> Runs] /\ RunShape'
  BY DEF QInv, IInv, TypeOK, RunShape, Shaped
<1>3. IInv' /\ Steady
  BY <1>1, <1>2, RunStep DEF QInv
<1>4. \A i \in Items : Tracked(i)' <=> Tracked(i)
  BY DEF Tracked
<1>5. ASSUME NEW d \in Retries PROVE Fits(retry[d])'
  <2>1. PICK q \in Calls : retry'[d] = q /\ Fits(q)
    BY <1>1 DEF QInv, IInv, TypeOK, RetryShape
  <2>2. q.chosen \subseteq Items /\ q.item \in Items \cup {Nobody}
    BY DEF Calls
  <2> QED BY <1>4, <2>1, <2>2 DEF Fits
<1> QED BY <1>3, <1>5 DEF QInv, RetryShape

\* The reads of retry_failed_source_items, and its failure.
LEMMA RetryReadStep ==
    ASSUME QInv, NEW c \in Retries,
           \/ \E chosen \in SUBSET Items : RetrySelect(c, chosen)
           \/ \E i \in Items : RetryRead(c, i)
           \/ RetryLost(c)
    PROVE  QInv' /\ Steady
<1>1. UNCHANGED <<source, task, category, run, results, reopened>>
  BY DEF RetrySelect, RetryRead, RetryLost
<1>2. retry[c] \in Calls /\ Fits(retry[c])
  BY DEF QInv, IInv, TypeOK, RetryShape
<1>3. ASSUME NEW chosen \in SUBSET Items, RetrySelect(c, chosen) PROVE QInv' /\ Steady
  <2> DEFINE r == [NoRetry EXCEPT !.chosen = chosen]
  <2>1. r \in Calls /\ r.chosen = chosen /\ r.failed = {} /\ r.item = Nobody
    BY DEF NoRetry, Calls
  <2>2. \A i \in chosen : source[i].status # "none"
    BY <1>3 DEF RetrySelect, Retriable
  <2>3. retry' = [retry EXCEPT ![c] = r]
    BY <1>3 DEF RetrySelect, QInv, IInv, TypeOK
  <2> HIDE DEF r
  <2>4. Fits(r)
    BY <2>1, <2>2 DEF Fits
  <2> QED BY <1>1, <2>1, <2>3, <2>4, CallStep
<1>4. ASSUME NEW i \in Items, RetryRead(c, i) PROVE QInv' /\ Steady
  <2>1. i \in retry[c].chosen
    BY <1>4 DEF RetryRead
  <2>2. CASE PassedOver(i)
    <3> DEFINE r == [retry[c] EXCEPT !.chosen = retry[c].chosen \ {i}]
    <3>1. r \in Calls
      BY <1>2 DEF Calls
    <3>2. Fits(r)
      BY <1>2 DEF Fits, Calls
    <3>3. retry' = [retry EXCEPT ![c] = r]
      BY <1>4, <2>2 DEF RetryRead
    <3> HIDE DEF r
    <3> QED BY <1>1, <3>1, <3>2, <3>3, CallStep
  <2>3. CASE ~PassedOver(i)
    <3> DEFINE settled == {p \in Packages : task[<<i, p>>].status \in {"completed", "skipped"}}
               r == [retry[c] EXCEPT !.item = i, !.failed = FailedRows(i), !.settled = settled]
    <3>1. /\ r \in Calls /\ r.chosen = retry[c].chosen /\ r.item = i
          /\ r.failed = FailedRows(i) /\ r.settled = settled
      BY <1>2 DEF Calls, FailedRows
    <3>2. FailedRows(i) \cap settled = {}
      BY DEF FailedRows
    <3>3. Tracked(i) <=> FailedRows(i) # {}
      BY <2>3 DEF PassedOver, FailedRows, Tracked
    <3>4. source[i].status # "none"
      BY <1>2, <2>1 DEF Fits
    <3>5. retry' = [retry EXCEPT ![c] = r]
      BY <1>4, <2>3 DEF RetryRead
    <3> HIDE DEF r, settled
    <3>6. Fits(r)
      BY <1>2, <3>1, <3>2, <3>3, <3>4 DEF Fits
    <3> QED BY <1>1, <3>1, <3>5, <3>6, CallStep
  <2> QED BY <2>2, <2>3
<1>5. CASE RetryLost(c)
  <2>1. NoRetry \in Calls /\ NoRetry.chosen = {} /\ NoRetry.failed = {} /\ NoRetry.item = Nobody
    BY DEF NoRetry, Calls
  <2>2. Fits(NoRetry)
    BY <2>1 DEF Fits
  <2> QED BY <1>1, <1>5, <2>1, <2>2, CallStep DEF RetryLost
<1> QED BY <1>3, <1>4, <1>5

\* Its write.  The rows it has read before are written whatever they are now, so
\* a settled one may be reopened; the item's own row is reopened with them.
LEMMA RetryWriteStep ==
    ASSUME QInv, NEW c \in Retries, RetryWrite(c)
    PROVE  QInv' /\ SettlesOr
<1> DEFINE I == ResetItems(c)
           T == ResetTasks(c)
<1>1. /\ retry[c] \in Calls /\ Fits(retry[c]) /\ retry[c].item \in Items
      /\ I \subseteq Items /\ T \subseteq Tasks
  <2>1. retry[c] \in Calls /\ Fits(retry[c]) /\ retry[c].item # Nobody
    BY DEF QInv, IInv, TypeOK, RetryShape, RetryWrite
  <2>2. retry[c].item \in Items /\ retry[c].chosen \subseteq Items
    BY <2>1 DEF Calls
  <2> QED BY <2>1, <2>2 DEF ResetItems, ResetTasks
<1>2. \A r \in Rows : Reset(r) \in Rows /\ Reset(r).status = "pending" /\ Reset(r).next = r.next
  BY PackageQueueAssumption DEF Reset, Row, Rows
<1>3. /\ \A t \in Tasks : task[t] \in Rows /\ task'[t] = IF t \in T THEN Reset(task[t]) ELSE task[t]
      /\ task' \in [Tasks -> Rows]
  BY <1>2 DEF RetryWrite, QInv, IInv, TypeOK
<1>4. /\ \A i \in Items : source[i] \in Rows /\ source'[i] = IF i \in I THEN Reset(source[i]) ELSE source[i]
      /\ source' \in [Items -> Rows]
  BY <1>2 DEF RetryWrite, QInv, IInv, TypeOK
<1>5. \A i \in I : Tracked(i) => \E p \in Packages : <<i, p>> \in T
  <2> SUFFICES ASSUME NEW i \in I, Tracked(i) PROVE \E p \in Packages : <<i, p>> \in T
    OBVIOUS
  <2>1. CASE i = retry[c].item
    <3>1. PICK p \in Packages : p \in retry[c].failed
      BY <1>1, <2>1, PackageQueueAssumption DEF Fits, Calls
    <3>2. <<i, p>> \in T
      BY <1>1, <2>1, <3>1 DEF ResetTasks, Tasks
    <3> QED BY <3>2
  <2>2. CASE i # retry[c].item
    <3>1. ~PassedOver(i)
      BY <2>2 DEF ResetItems
    <3>2. PICK p \in Packages : p \in FailedRows(i)
      BY <3>1 DEF PassedOver, FailedRows
    <3>3. <<i, p>> \in T
      BY <1>1, <2>2, <3>2 DEF ResetTasks, Tasks
    <3> QED BY <3>3
  <2> QED BY <2>1, <2>2
<1>6. \A t \in T : t[1] \in I /\ t[1] \in Items /\ t[2] \in Packages /\ t = <<t[1], t[2]>> /\ Tracked(t[1])
  <2> SUFFICES ASSUME NEW t \in T PROVE t[1] \in I /\ Tracked(t[1])
    BY <1>1 DEF Tasks
  <2>1. t[1] \in I /\ t[1] \in Items /\ t[2] \in Packages /\ t = <<t[1], t[2]>>
    BY <1>1 DEF ResetTasks, Tasks
  <2>2. CASE t[1] = retry[c].item
    BY <1>1, <2>2, PackageQueueAssumption DEF ResetTasks, Fits
  <2>3. CASE t[1] # retry[c].item
    BY <2>1, <2>3 DEF ResetTasks, FailedRows, Tracked
  <2> QED BY <2>1, <2>2, <2>3
<1> HIDE DEF I, T
<1>7. \A i \in Items, p \in Packages : <<i, p>> \in Tasks
  BY DEF Tasks
<1>8. \A i \in Items : Tracked(i)' <=> Tracked(i)
  <2> SUFFICES ASSUME NEW i \in Items PROVE Tracked(i)' <=> Tracked(i)
    OBVIOUS
  <2>1. CASE \E p \in Packages : <<i, p>> \in T
    BY <1>2, <1>3, <1>6, <1>7, <2>1 DEF Tracked
  <2>2. CASE \A p \in Packages : <<i, p>> \notin T
    BY <1>3, <1>7, <2>2 DEF Tracked
  <2> QED BY <2>1, <2>2
<1>9. SourceAgrees'
  <2>1. SUFFICES ASSUME NEW i \in Items, Tracked(i)'
                 PROVE  /\ source'[i].status \in {"pending"} \cup Finished
                        /\ source'[i].status \in Finished <=> AllFinished(i)'
                        /\ source'[i].status = "failed" <=>
                              AllFinished(i)' /\ \E p \in Packages : task'[<<i, p>>].status = "failed"
    BY DEF SourceAgrees
  <2>2. Tracked(i)
    BY <1>8, <2>1
  <2>3. CASE i \in I
    <3>1. source'[i].status = "pending"
      BY <1>2, <1>4, <2>3
    <3>2. PICK p \in Packages : task'[<<i, p>>].status = "pending"
      BY <1>2, <1>3, <1>5, <1>7, <2>2, <2>3
    <3>3. ~AllFinished(i)'
      BY <3>2 DEF AllFinished, Finished
    <3> QED BY <3>1, <3>3 DEF Finished
  <2>4. CASE i \notin I
    <3>1. \A p \in Packages : <<i, p>> \notin T
      BY <1>6, <2>4
    <3>2. \A p \in Packages : task'[<<i, p>>] = task[<<i, p>>]
      BY <1>3, <1>7, <3>1
    <3>3. source'[i] = source[i] /\ (AllFinished(i)' <=> AllFinished(i))
      BY <1>4, <2>4, <3>2 DEF AllFinished
    <3> QED BY <2>2, <3>2, <3>3 DEF QInv, IInv, SourceAgrees
  <2> QED BY <2>3, <2>4
<1>10. RowShape'
  <2>1. \A i \in Items : source'[i].status = "none" \/ i \in Legacy => ~Tracked(i)'
    BY <1>2, <1>4, <1>8 DEF QInv, IInv, RowShape, SourceAgrees, Finished
  <2>2. \A i \in Legacy : source'[i].status # "none"
    BY <1>2, <1>4, PackageQueueAssumption DEF QInv, IInv, RowShape
  <2>3. \A i \in Items : Tracked(i)' => source'[i].next = "none"
    BY <1>2, <1>4, <1>8 DEF QInv, IInv, RowShape
  <2>4. \A t \in Tasks : task'[t].status = "failed" => task'[t].next = "none"
    BY <1>2, <1>3 DEF QInv, IInv, RowShape
  <2> QED BY <2>1, <2>2, <2>3, <2>4 DEF RowShape
<1>11. ResultsMatch'
  <2>1. /\ results' = results /\ Tasks \subseteq Units
        /\ \A i \in Legacy : i \in Items /\ <<i, Nobody>> \in Units /\ <<i, Nobody>> \notin Tasks
    BY PackageQueueAssumption DEF RetryWrite, Tasks, Units
  <2>2. \A t \in Units : reopened[t] \in Nat
            /\ reopened'[t] = IF t \in Overwritten(c) THEN reopened[t] + 1 ELSE reopened[t]
    BY DEF RetryWrite, QInv, IInv, TypeOK
  <2>3. \A t \in Tasks : t \in Overwritten(c) <=> t \in T /\ task[t].status = "completed"
    BY PackageQueueAssumption DEF Overwritten, T, Tasks
  <2>4. \A i \in Legacy : <<i, Nobody>> \in Overwritten(c) <=> i \in I /\ source[i].status = "completed"
    <3> SUFFICES ASSUME NEW i \in Legacy
                 PROVE  <<i, Nobody>> \in Overwritten(c) <=> i \in I /\ source[i].status = "completed"
      OBVIOUS
    <3>1. <<i, Nobody>> \notin T /\ ~Tracked(i)
      BY <1>1, <2>1 DEF QInv, IInv, RowShape
    <3> QED BY <3>1 DEF Overwritten, T, I
  <2>5. \A t \in Tasks : results'[t] = reopened'[t] + Completed(task'[t].status)
    <3> SUFFICES ASSUME NEW t \in Tasks PROVE results'[t] = reopened'[t] + Completed(task'[t].status)
      OBVIOUS
    <3>1. results[t] = reopened[t] + Completed(task[t].status) /\ reopened[t] \in Nat
      BY <2>1, <2>2 DEF QInv, IInv, ResultsMatch
    <3> QED BY <1>2, <1>3, <2>1, <2>2, <2>3, <3>1 DEF Completed
  <2>6. \A i \in Legacy :
            results'[<<i, Nobody>>] = reopened'[<<i, Nobody>>] + Completed(source'[i].status)
    <3> SUFFICES ASSUME NEW i \in Legacy
                 PROVE  results'[<<i, Nobody>>] = reopened'[<<i, Nobody>>] + Completed(source'[i].status)
      OBVIOUS
    <3>1. results[<<i, Nobody>>] = reopened[<<i, Nobody>>] + Completed(source[i].status)
      BY DEF QInv, IInv, ResultsMatch
    <3>2. reopened'[<<i, Nobody>>] = IF i \in I /\ source[i].status = "completed"
                                     THEN reopened[<<i, Nobody>>] + 1 ELSE reopened[<<i, Nobody>>]
      BY <2>1, <2>2, <2>4
    <3>3. source'[i] = IF i \in I THEN Reset(source[i]) ELSE source[i]
      BY <1>4, <2>1
    <3>4. Completed("pending") = 0 /\ Completed("completed") = 1
      BY DEF Completed
    <3>5. reopened[<<i, Nobody>>] \in Nat /\ results'[<<i, Nobody>>] = results[<<i, Nobody>>]
      BY <2>1, <2>2
    <3>6. Reset(source[i]).status = "pending"
      BY <1>2, <1>4, <2>1
    <3>7. source[i].status # "completed" => Completed(source[i].status) = 0
      BY DEF Completed
    <3> QED BY <3>1, <3>2, <3>3, <3>4, <3>5, <3>6, <3>7
  <2> QED BY <2>5, <2>6 DEF ResultsMatch
<1>12. /\ retry' = [retry EXCEPT ![c] = NoRetry] /\ retry' \in [Retries -> Calls]
       /\ \A d \in Retries : retry'[d] = IF d = c THEN NoRetry ELSE retry[d]
  <2>1. NoRetry \in Calls
    BY DEF NoRetry, Calls
  <2> QED BY <2>1 DEF RetryWrite, QInv, IInv, TypeOK
<1>13. TypeOK' /\ RunShape'
  <2>1. category' \in [Items -> BOOLEAN] /\ reopened' \in [Units -> Nat]
    BY DEF RetryWrite, QInv, IInv, TypeOK
  <2>2. UNCHANGED <<run, results>>
    BY DEF RetryWrite
  <2> QED BY <1>3, <1>4, <1>12, <2>1, <2>2 DEF QInv, IInv, TypeOK, RunShape, Shaped
<1>14. RetryShape'
  <2> SUFFICES ASSUME NEW d \in Retries PROVE Fits(retry[d])'
    BY DEF RetryShape
  <2>1. CASE d = c
    BY <1>12, <2>1 DEF NoRetry, Fits
  <2>2. CASE d # c
    <3>1. retry'[d] = retry[d] /\ Fits(retry[d]) /\ retry[d] \in Calls
      BY <1>12, <2>2 DEF QInv, IInv, TypeOK, RetryShape
    <3>2. \A i \in Items : source[i].status # "none" => source'[i].status # "none"
      BY <1>2, <1>4
    <3>3. retry[d].chosen \subseteq Items /\ retry[d].item \in Items \cup {Nobody}
      BY <3>1 DEF Calls
    <3> QED BY <1>8, <3>1, <3>2, <3>3 DEF Fits
  <2> QED BY <2>1, <2>2
<1>15. SettlesOr
  <2> SUFFICES ASSUME NEW t \in Tasks, task[t].status \in {"completed", "skipped"}, task'[t] # task[t]
               PROVE  ReadBefore(c, t)
    BY DEF SettlesOr
  <2>1. t \in T
    BY <1>3
  <2>2. t[1] = retry[c].item
    BY <2>1 DEF T, ResetTasks, FailedRows, Tasks
  <2>3. t[2] \in retry[c].failed
    BY <2>1, <2>2 DEF T, ResetTasks
  <2> QED BY <1>1, <1>12, <2>2, <2>3 DEF ReadBefore, Fits
<1> QED BY <1>9, <1>10, <1>11, <1>13, <1>14, <1>15 DEF QInv, IInv

\* Init: nothing is tracked and every worker is idle.
LEMMA InitHolds == Init => QInv
<1> SUFFICES ASSUME Init PROVE QInv
  OBVIOUS
<1> USE DEF Init
<1>1. NoRow \in Rows /\ NoRow.status = "none" /\ NoRow.next = "none"
  BY PackageQueueAssumption DEF NoRow, Row, Rows
<1>2. Row("pending", 0, "none") \in Rows /\ Row("pending", 0, "none").status = "pending"
  BY PackageQueueAssumption DEF Row, Rows
<1>3. \A i \in Items : ~Tracked(i)
  BY <1>1 DEF Tracked, Tasks
<1>4. TypeOK
  <2>1. Idle \in Runs
    BY PackageQueueAssumption DEF Idle, Runs
  <2>2. NoRetry \in Calls
    BY DEF NoRetry, Calls
  <2> QED BY <1>1, <1>2, <2>1, <2>2 DEF TypeOK
<1>5. RowShape
  BY <1>1, <1>2, <1>3, PackageQueueAssumption DEF RowShape
<1>6. RunShape
  BY DEF RunShape, Idle, Shaped
<1>7. SourceAgrees
  BY <1>3 DEF SourceAgrees
<1>8. ResultsMatch
  BY <1>1, <1>2, PackageQueueAssumption DEF ResultsMatch, Completed, Tasks, Units
<1>9. RetryShape
  BY DEF RetryShape, Fits, NoRetry
<1> QED BY <1>4, <1>5, <1>6, <1>7, <1>8, <1>9 DEF QInv, IInv

\* The steps of everything but the retry calls.
LEMMA OtherStep ==
    ASSUME IInv,
           \/ \E i \in Items, active, skip \in SUBSET Packages :
                 skip \subseteq active /\ Ingest(i, active, skip)
           \/ \E w \in Workers : WorkerNext(w) \/ Crash(w)
           \/ \E t \in Tasks : LeaseLapses(t) \/ BackoffEnds(t)
           \/ \E i \in Items : LegacyTime(i)
           \/ \E disabled \in SUBSET Packages : Cancel(disabled)
    PROVE  IInv' /\ Steady /\ retry' = retry
<1>1. ASSUME NEW i \in Items, NEW active \in SUBSET Packages, NEW skip \in SUBSET Packages,
             skip \subseteq active, Ingest(i, active, skip)
      PROVE  IInv' /\ Steady /\ retry' = retry
  BY <1>1, IngestStep DEF Ingest
<1>2. ASSUME NEW w \in Workers, WorkerNext(w) PROVE IInv' /\ Steady /\ retry' = retry
  <2>1. IInv' /\ Steady
    BY <1>2, PollStep, PollLegacyStep, MoreStep, RejectStep, StartWorkStep, SupersededStep,
       CommitStep, FailStep, ReadMetadataStep, WriteMetadataStep DEF WorkerNext
  <2>2. retry' = retry
    BY <1>2 DEF WorkerNext, Poll, PollLegacy, More, Reject, StartWork, Superseded, Commit, Fail,
                ReadMetadata, WriteMetadata
  <2> QED BY <2>1, <2>2
<1>3. ASSUME NEW w \in Workers, Crash(w) PROVE IInv' /\ Steady /\ retry' = retry
  BY <1>3, CrashStep DEF Crash
<1>4. ASSUME NEW t \in Tasks, LeaseLapses(t) \/ BackoffEnds(t) PROVE IInv' /\ Steady /\ retry' = retry
  BY <1>4, LeaseLapsesStep DEF LeaseLapses, BackoffEnds
<1>5. ASSUME NEW i \in Items, LegacyTime(i) PROVE IInv' /\ Steady /\ retry' = retry
  BY <1>5, LegacyTimeStep DEF LegacyTime
<1>6. ASSUME NEW disabled \in SUBSET Packages, Cancel(disabled) PROVE IInv' /\ Steady /\ retry' = retry
  BY <1>6, CancelStep DEF Cancel
<1> QED BY <1>1, <1>2, <1>3, <1>4, <1>5, <1>6

\* Every step keeps the invariant, and reopens what is settled only in a retry
\* call that has read it before.
LEMMA StepHolds == QInv /\ [Next]_vars => QInv' /\ [SettlesOr]_vars
<1> SUFFICES ASSUME QInv, [Next]_vars PROVE QInv' /\ [SettlesOr]_vars
  OBVIOUS
<1>1. Steady => SettlesOr
  BY DEF Steady, Settles, SettlesOr
<1>2. ASSUME NEW c \in Retries, RetryNext(c) PROVE QInv' /\ SettlesOr
  BY <1>1, <1>2, RetryReadStep, RetryWriteStep DEF RetryNext
<1>3. CASE UNCHANGED vars
  <2>1. UNCHANGED <<source, task, retry, results, reopened>> /\ category' \in [Items -> BOOLEAN]
    BY <1>3 DEF vars, QInv, IInv, TypeOK
  <2>2. run' \in [Workers -> Runs] /\ RunShape' /\ retry' \in [Retries -> Calls]
    BY <1>3 DEF vars, QInv, IInv, TypeOK, RunShape, Shaped
  <2>3. IInv' /\ Steady
    BY <2>1, <2>2, RunStep DEF QInv
  <2> QED BY <1>1, <2>1, <2>3, RetryShapeKept DEF QInv, Steady
<1>4. ASSUME IInv' /\ Steady /\ retry' = retry PROVE QInv' /\ SettlesOr
  BY <1>1, <1>4, RetryShapeKept DEF QInv, Steady
<1> QED BY <1>2, <1>3, <1>4, OtherStep DEF Next, QInv

\* The invariant holds in every behaviour of the queue.
LEMMA Inductive == Spec => []QInv
<1>1. QInv /\ [Next]_vars => QInv'
  BY StepHolds
<1> QED BY <1>1, InitHolds, PTL DEF Spec

-----------------------------------------------------------------------------

\* Types hold and no row is claimed more than max_attempts times.
THEOREM QueueTypeCorrect == Spec => []TypeOK
<1>1. QInv => TypeOK
  BY DEF QInv, IInv
<1> QED BY <1>1, Inductive, PTL

\* A result is persisted exactly once for every completion of a row: late, crashed
\* and superseded workers never write one.  A row that is not completed has as many
\* results as retry calls have overwritten completions of it.
THEOREM ResultsPersistOnce == Spec => []ResultsMatch
<1>1. QInv => ResultsMatch
  BY DEF QInv, IInv
<1> QED BY <1>1, Inductive, PTL

\* source_items and package_processing_status agree.
THEOREM SourcesAgree == Spec => []SourceAgrees
<1>1. QInv => SourceAgrees
  BY DEF QInv, IInv
<1> QED BY <1>1, Inductive, PTL

\* The legacy path and the package path never process the same item.
THEOREM PathsStaySeparate == Spec => []PathsSeparate
<1>1. QInv => PathsSeparate
  <2>1. SUFFICES ASSUME QInv, NEW w \in Workers, run[w].item # Nobody, run[w].package = Nobody
                 PROVE  ~Tracked(run[w].item)
    BY DEF PathsSeparate
  <2>2. Shaped(run[w])
    BY <2>1 DEF QInv, IInv, RunShape
  <2>3. run[w].item \in Legacy /\ run[w].item \in Items
    BY <2>1, <2>2 DEF Shaped
  <2> QED BY <2>1, <2>3 DEF QInv, IInv, RowShape
<1> QED BY <1>1, Inductive, PTL

\* No step reopens a completed or skipped package but the write of a retry call
\* that had read the package as failed before it was settled.
THEOREM SettledForGood == Spec => SettledStays
<1>1. QInv /\ [Next]_vars => [SettlesOr]_vars
  BY StepHolds
<1>2. Spec => [][SettlesOr]_vars
  BY <1>1, Inductive, PTL DEF Spec
<1> QED BY <1>2 DEF SettledStays, SettlesOr
=============================================================================
