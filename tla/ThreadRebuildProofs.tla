------------------------ MODULE ThreadRebuildProofs ------------------------
(***************************************************************************)
(* RequestsSurvive and RebuildsAdvance of ThreadRebuildQueue for any       *)
(* scopes, messages, workers, leases and clocks.  The induction needs to   *)
(* know what a rebuild that still holds its claim has seen: everything     *)
(* the last committed one had, and every message except those that raced   *)
(* with it or that will keep the scope requested.                          *)
(***************************************************************************)
EXTENDS ThreadRebuildQueue, TLAPS

Rows == [requested : 0 .. clock,
         claim : [by : Workers \cup {Nobody}, claimed : 0 .. clock, lease : 0 .. clock + Lease]]
MessageRows == [at : {"new", "finished", "committed"}, time : 0 .. clock]
WorkerRows == [at : {"idle", "poll", "claimed", "built", "again", "reclaim"},
               scope : Scopes \cup {Nobody}, time : 0 .. clock,
               read : SUBSET Messages, iteration : 0 .. MaxIterations]

\* A worker beyond its poll has a scope; a processed message has a time.
Shape ==
    /\ \A w \in Workers : worker[w].at \notin {"idle", "poll"} => worker[w].scope \in Scopes
    /\ \A m \in Messages : message[m].at # "new" => message[m].time > 0
    /\ \A s \in Scopes : content[s] \subseteq Committed(s)

\* The request of a scope is at least as late as every message it must cover.
RequestCovers ==
    \A s \in Scopes : \A m \in Unanswered(s) \ raced[s] : scope[s].requested >= message[m].time

\* What a worker that may still complete has read.
Rebuilding(w, s) ==
    /\ worker[w].at = "built" /\ worker[w].scope = s
    /\ scope[s].claim.by = w /\ scope[s].claim.claimed = worker[w].time

Covers(w, s) ==
    /\ content[s] \subseteq worker[w].read /\ worker[w].read \subseteq Committed(s)
    /\ \A m \in Committed(s) : m \in worker[w].read \/ m \in raced[s] \/ message[m].time > worker[w].time

ReadCovers == \A w \in Workers, s \in Scopes : Rebuilding(w, s) => Covers(w, s)

IInv == TypeOK /\ Shape /\ RequestCovers /\ ReadCovers

Advances == \A s \in Scopes : content[s] \subseteq content'[s]

-----------------------------------------------------------------------------
(* The queue starts in the invariant. *)

LEMMA InitHolds == Init => IInv
<1> SUFFICES ASSUME Init PROVE IInv
  OBVIOUS
<1> USE ThreadRebuildAssumption DEF Init
<1>1. TypeOK
  <2>1. Idle \in WorkerRows
    BY DEF Idle, WorkerRows
  <2>2. [requested |-> 0, claim |-> NoClaim] \in Rows
    BY DEF NoClaim, Rows
  <2>3. [at |-> "new", time |-> 0] \in MessageRows
    BY DEF MessageRows
  <2> QED BY <2>1, <2>2, <2>3 DEF TypeOK, WorkerRows, Rows, MessageRows
<1>2. Shape
  BY DEF Shape, Idle
<1>3. RequestCovers
  BY DEF RequestCovers, Unanswered, Committed
<1>4. ReadCovers
  BY DEF ReadCovers, Rebuilding, Idle
<1> QED BY <1>1, <1>2, <1>3, <1>4 DEF IInv

\* An idle worker, and a scope without claim, are well typed.
LEMMA IdleRows ==
    ASSUME IInv
    PROVE  Idle \in WorkerRows /\ Idle.at = "idle" /\ NoClaim.by = Nobody
           /\ [requested |-> 0, claim |-> NoClaim] \in Rows
<1>1. clock \in Nat /\ 0 \in 0 .. clock /\ 0 \in 0 .. clock + Lease
  BY ThreadRebuildAssumption DEF IInv, TypeOK
<1> QED BY <1>1, ThreadRebuildAssumption DEF Idle, WorkerRows, NoClaim, Rows

-----------------------------------------------------------------------------
(* The steps of the workers.  In a step of w that leaves messages and          *)
(* histories alone, what another worker has read stays enough when the scope   *)
(* keeps its content; a worker whose claim has been taken has nothing to prove. *)

LEMMA OthersKept ==
    ASSUME IInv, NEW v \in Workers, NEW s \in Scopes, Rebuilding(v, s)',
           worker'[v] = worker[v], scope'[s].claim = scope[s].claim,
           content'[s] = content[s], UNCHANGED <<message, raced>>
    PROVE  Covers(v, s)'
<1>1. Rebuilding(v, s)
  BY DEF Rebuilding
<1>2. Covers(v, s)
  BY <1>1 DEF IInv, ReadCovers
<1> QED BY <1>2 DEF Covers, Committed

\* Steps that change workers only, and let none arrive at a finished reading.
LEMMA WorkerStep ==
    ASSUME IInv, NEW w \in Workers, NEW r \in WorkerRows, worker' = [worker EXCEPT ![w] = r],
           UNCHANGED <<clock, scope, message, content, waived, raced>>,
           r.at \notin {"idle", "poll"} => r.scope \in Scopes,
           r.at # "built"
    PROVE  IInv' /\ Advances
<1>1. \A v \in Workers : worker'[v] = IF v = w THEN r ELSE worker[v]
  BY DEF IInv, TypeOK
<1>2. TypeOK'
  <2>1. worker' \in [Workers -> WorkerRows]
    BY DEF IInv, TypeOK, WorkerRows
  <2> QED BY <2>1 DEF IInv, TypeOK, WorkerRows
<1>3. \A s \in Scopes : Committed(s)' = Committed(s) /\ Unanswered(s)' = Unanswered(s)
  BY DEF Committed, Unanswered
<1>4. Shape'
  BY <1>1, <1>3 DEF IInv, Shape
<1>5. RequestCovers'
  BY <1>3 DEF IInv, RequestCovers
<1>6. ReadCovers'
  <2>1. SUFFICES ASSUME NEW v \in Workers, NEW s \in Scopes, Rebuilding(v, s)' PROVE Covers(v, s)'
    BY DEF ReadCovers
  <2>2. worker'[v] = worker[v]
    BY <1>1, <2>1 DEF Rebuilding
  <2> QED BY <2>1, <2>2, OthersKept
<1>7. Advances
  BY DEF Advances
<1> QED BY <1>2, <1>4, <1>5, <1>6, <1>7 DEF IInv

\* The reading of the clock before a claim.
LEMMA ReadClockStep ==
    ASSUME IInv, NEW w \in Workers, ReadClock(w) PROVE IInv' /\ Advances
<1>1. worker[w] \in WorkerRows /\ (worker[w].at = "again" => worker[w].scope \in Scopes)
  BY DEF IInv, TypeOK, Shape, WorkerRows
<1>2. clock \in 0 .. clock
  BY DEF IInv, TypeOK
<1>3. PICK at \in {"poll", "reclaim"} :
        /\ at = "reclaim" => worker[w].at = "again"
        /\ worker' = [worker EXCEPT ![w] =
              [at |-> at, scope |-> worker[w].scope, time |-> clock, read |-> {},
               iteration |-> worker[w].iteration]]
  BY DEF ReadClock
<1> DEFINE r == [at |-> at, scope |-> worker[w].scope, time |-> clock, read |-> {},
                 iteration |-> worker[w].iteration]
<1>4. r \in WorkerRows /\ r.at = at /\ r.scope = worker[w].scope
  BY <1>1, <1>2 DEF WorkerRows
<1>5. worker' = [worker EXCEPT ![w] = r] /\ UNCHANGED <<clock, scope, message, content, waived, raced>>
  BY <1>3 DEF ReadClock
<1> HIDE DEF r
<1> QED BY <1>1, <1>3, <1>4, <1>5, WorkerStep

\* A worker that stops, crashes or finds nothing to do.
LEMMA IdleStep ==
    ASSUME IInv, NEW w \in Workers, worker' = [worker EXCEPT ![w] = Idle],
           UNCHANGED <<clock, scope, message, content, waived, raced>>
    PROVE  IInv' /\ Advances
BY IdleRows, WorkerStep

\* A rebuild reads the thread: all that is committed.
LEMMA ReadStep ==
    ASSUME IInv, NEW w \in Workers, Read(w) PROVE IInv' /\ Advances
<1> DEFINE r == [at |-> "built", scope |-> worker[w].scope, time |-> worker[w].time,
                 read |-> Committed(worker[w].scope), iteration |-> worker[w].iteration]
<1>1. worker[w] \in WorkerRows /\ worker[w].scope \in Scopes
  BY DEF IInv, TypeOK, Shape, WorkerRows, Read
<1>2. r \in WorkerRows
  BY <1>1 DEF WorkerRows, Committed
<1>3. r.at = "built" /\ r.scope = worker[w].scope /\ r.read = Committed(worker[w].scope) /\ r.time = worker[w].time
  OBVIOUS
<1>4. worker' = [worker EXCEPT ![w] = r] /\ UNCHANGED <<clock, scope, message, content, waived, raced>>
  BY DEF Read
<1> HIDE DEF r
<1>5. \A v \in Workers : worker'[v] = IF v = w THEN r ELSE worker[v]
  BY <1>4 DEF IInv, TypeOK
<1>6. TypeOK'
  <2>1. worker' \in [Workers -> WorkerRows]
    BY <1>2, <1>4 DEF IInv, TypeOK, WorkerRows
  <2> QED BY <1>4, <2>1 DEF IInv, TypeOK, WorkerRows
<1>7. \A s \in Scopes : Committed(s)' = Committed(s) /\ Unanswered(s)' = Unanswered(s)
  BY <1>4 DEF Committed, Unanswered
<1>8. Shape'
  BY <1>1, <1>3, <1>4, <1>5, <1>7 DEF IInv, Shape
<1>9. RequestCovers'
  BY <1>4, <1>7 DEF IInv, RequestCovers
<1>10. ReadCovers'
  <2>1. SUFFICES ASSUME NEW v \in Workers, NEW s \in Scopes, Rebuilding(v, s)' PROVE Covers(v, s)'
    BY DEF ReadCovers
  <2>2. CASE v = w
    <3>1. worker'[v] = r /\ s = worker[w].scope
      BY <1>3, <1>5, <2>1, <2>2 DEF Rebuilding
    <3> QED BY <1>3, <1>4, <1>7, <3>1 DEF IInv, Shape, Covers
  <2>3. CASE v # w
    BY <1>4, <1>5, <2>1, <2>3, OthersKept
  <2> QED BY <2>2, <2>3
<1>11. Advances
  BY <1>4 DEF Advances
<1> QED BY <1>6, <1>8, <1>9, <1>10, <1>11 DEF IInv

-----------------------------------------------------------------------------
(* Steps of a worker that change the row of one scope. *)

\* A claim: the former holder's is no longer current.
LEMMA TakeStep ==
    ASSUME IInv, NEW w \in Workers, NEW s \in Scopes, NEW r \in WorkerRows, Take(w, s, r),
           r.at \notin {"idle", "poll"} => r.scope \in Scopes,
           r.at # "built"
    PROVE  IInv' /\ Advances
<1> USE ThreadRebuildAssumption
<1>1. /\ scope' = [scope EXCEPT ![s] = Claim(w, s)] /\ worker' = [worker EXCEPT ![w] = r]
      /\ UNCHANGED <<clock, message, content, waived, raced>>
  BY DEF Take
<1>2. /\ \A v \in Workers : worker'[v] = IF v = w THEN r ELSE worker[v]
      /\ \A u \in Scopes : scope'[u] = IF u = s THEN Claim(w, s) ELSE scope[u]
  BY <1>1 DEF IInv, TypeOK
<1>3. Claim(w, s).requested = scope[s].requested /\ Claim(w, s).claim.by = w
  BY DEF Claim
<1>4. Claim(w, s) \in Rows
  <2>1. worker[w].time \in 0 .. clock /\ scope[s].requested \in 0 .. clock
    BY DEF IInv, TypeOK
  <2>2. worker[w].time + Lease \in 0 .. clock + Lease
    BY <2>1 DEF IInv, TypeOK
  <2> QED BY <2>1, <2>2 DEF Claim, Rows
<1>5. TypeOK'
  <2>1. worker' \in [Workers -> WorkerRows] /\ scope' \in [Scopes -> Rows]
    BY <1>1, <1>4 DEF IInv, TypeOK, WorkerRows, Rows
  <2> QED BY <1>1, <2>1 DEF IInv, TypeOK, WorkerRows, Rows
<1>6. \A u \in Scopes : Committed(u)' = Committed(u) /\ Unanswered(u)' = Unanswered(u)
  BY <1>1 DEF Committed, Unanswered
<1>7. Shape'
  BY <1>1, <1>2, <1>6 DEF IInv, Shape
<1>8. RequestCovers'
  BY <1>1, <1>2, <1>3, <1>6 DEF IInv, RequestCovers
<1>9. ReadCovers'
  <2>1. SUFFICES ASSUME NEW v \in Workers, NEW u \in Scopes, Rebuilding(v, u)' PROVE Covers(v, u)'
    BY DEF ReadCovers
  <2>2. v # w
    BY <1>2, <2>1 DEF Rebuilding
  <2>3. u # s
    BY <1>2, <1>3, <2>1, <2>2 DEF Rebuilding
  <2> QED BY <1>1, <1>2, <2>1, <2>2, <2>3, OthersKept
<1>10. Advances
  BY <1>1 DEF Advances
<1> QED BY <1>5, <1>7, <1>8, <1>9, <1>10 DEF IInv

\* claim_next_thread_processing_scope
LEMMA PollStep ==
    ASSUME IInv, NEW w \in Workers, Poll(w) PROVE IInv' /\ Advances
<1>1. CASE worker' = [worker EXCEPT ![w] = Idle] /\ UNCHANGED <<clock, scope, message, content, waived, raced>>
  BY <1>1, IdleStep
<1>2. ASSUME NEW s \in Scopes,
             Take(w, s, [at |-> "claimed", scope |-> s, time |-> worker[w].time, read |-> {}, iteration |-> 1])
      PROVE  IInv' /\ Advances
  <2> DEFINE r == [at |-> "claimed", scope |-> s, time |-> worker[w].time, read |-> {}, iteration |-> 1]
  <2>1. worker[w].time \in 0 .. clock /\ 1 \in 0 .. MaxIterations
    BY ThreadRebuildAssumption DEF IInv, TypeOK
  <2>2. r \in WorkerRows /\ r.at = "claimed" /\ r.scope = s
    BY <2>1 DEF WorkerRows
  <2>3. Take(w, s, r)
    BY <1>2
  <2> HIDE DEF r
  <2> QED BY <2>2, <2>3, TakeStep
<1> QED BY <1>1, <1>2 DEF Poll

\* claim_thread_processing_scope in the loop of _process_thread_rebuild_lease
LEMMA ReclaimStep ==
    ASSUME IInv, NEW w \in Workers, Reclaim(w) PROVE IInv' /\ Advances
<1>1. CASE worker' = [worker EXCEPT ![w] = Idle] /\ UNCHANGED <<clock, scope, message, content, waived, raced>>
  BY <1>1, IdleStep
<1>2. CASE Take(w, worker[w].scope, Again(w))
  <2>1. worker[w] \in WorkerRows /\ worker[w].scope \in Scopes
    BY DEF Reclaim, IInv, TypeOK, Shape, WorkerRows
  <2>2. Again(w) \in WorkerRows /\ Again(w).at # "built" /\ (Again(w).at # "idle" => Again(w).scope \in Scopes)
    <3>1. CASE worker[w].iteration < MaxIterations
      <4>1. worker[w].iteration + 1 \in 0 .. MaxIterations
        BY <2>1, <3>1, ThreadRebuildAssumption DEF WorkerRows
      <4> QED BY <2>1, <3>1, <4>1 DEF Again, WorkerRows
    <3>2. CASE ~(worker[w].iteration < MaxIterations)
      BY <3>2, IdleRows DEF Again
    <3> QED BY <3>1, <3>2
  <2> QED BY <1>2, <2>1, <2>2, TakeStep
<1> QED BY <1>1, <1>2 DEF Reclaim
\* The release of a scope: both ways of ending a claim keep a request that is
\* later than the claim.
LEMMA ReleasedRow ==
    ASSUME IInv, NEW w \in Workers, worker[w].scope \in Scopes
    PROVE  /\ Released(w) \in Rows /\ Released(w).claim.by = Nobody
           /\ PendingAfter(w) => Released(w).requested = scope[worker[w].scope].requested
<1> DEFINE s == worker[w].scope
<1>1. scope[s].requested \in 0 .. clock
  BY DEF IInv, TypeOK
<1>2. PICK q \in 0 .. clock : /\ Released(w) = [requested |-> q, claim |-> NoClaim]
                              /\ PendingAfter(w) => q = scope[s].requested
  <2>1. 0 \in 0 .. clock
    BY DEF IInv, TypeOK
  <2> QED BY <1>1, <2>1 DEF Released
<1>3. 0 \in 0 .. clock /\ 0 \in 0 .. clock + Lease
  BY ThreadRebuildAssumption DEF IInv, TypeOK
<1> QED BY <1>2, <1>3 DEF NoClaim, Rows

\* commit_process_result_and_complete_scope
LEMMA CompleteStep ==
    ASSUME IInv, NEW w \in Workers, Complete(w) PROVE IInv' /\ Advances
<1> USE ThreadRebuildAssumption
<1> DEFINE s == worker[w].scope
<1>1. worker[w] \in WorkerRows /\ s \in Scopes
  BY DEF Complete, IInv, TypeOK, Shape, WorkerRows
<1>2. PICK r \in WorkerRows : /\ worker' = [worker EXCEPT ![w] = r]
                              /\ r.at # "built" /\ (r.at # "idle" => r.scope = s)
  <2> DEFINE again == [at |-> "again", scope |-> s, time |-> worker[w].time,
                       read |-> {}, iteration |-> worker[w].iteration]
  <2>1. again \in WorkerRows /\ again.at = "again" /\ again.scope = s
    BY <1>1 DEF WorkerRows
  <2>2. worker' = [worker EXCEPT ![w] = again] \/ worker' = [worker EXCEPT ![w] = Idle]
    BY DEF Complete
  <2> HIDE DEF again
  <2> QED BY <2>1, <2>2, IdleRows
<1>3. /\ scope' = [scope EXCEPT ![s] = Released(w)] /\ content' = [content EXCEPT ![s] = worker[w].read]
      /\ UNCHANGED <<clock, message, waived, raced>>
  BY DEF Complete
<1>4. Rebuilding(w, s)
  BY DEF Complete, Current, Rebuilding
<1>5. Covers(w, s)
  BY <1>1, <1>4 DEF IInv, ReadCovers
<1> HIDE DEF s
<1>6. /\ \A v \in Workers : worker'[v] = IF v = w THEN r ELSE worker[v]
      /\ \A u \in Scopes : scope'[u] = IF u = s THEN Released(w) ELSE scope[u]
      /\ \A u \in Scopes : content'[u] = IF u = s THEN worker[w].read ELSE content[u]
  BY <1>2, <1>3 DEF IInv, TypeOK
<1>7. Released(w) \in Rows /\ Released(w).claim.by = Nobody /\ (PendingAfter(w) => Released(w).requested = scope[s].requested)
  BY <1>1, ReleasedRow DEF s
<1>8. TypeOK'
  <2>1. worker' \in [Workers -> WorkerRows] /\ scope' \in [Scopes -> Rows]
    BY <1>2, <1>3, <1>7 DEF IInv, TypeOK, WorkerRows, Rows
  <2>2. content' \in [Scopes -> SUBSET Messages]
    BY <1>1, <1>3 DEF IInv, TypeOK, WorkerRows
  <2> QED BY <1>3, <2>1, <2>2 DEF IInv, TypeOK, WorkerRows, Rows
<1>9. \A u \in Scopes : Committed(u)' = Committed(u)
  BY <1>3 DEF Committed
<1>10. Shape'
  BY <1>1, <1>2, <1>3, <1>5, <1>6, <1>9 DEF IInv, Shape, Covers
<1>11. RequestCovers'
  <2>1. SUFFICES ASSUME NEW u \in Scopes, NEW m \in Unanswered(u)', m \notin raced'[u]
                 PROVE  scope'[u].requested >= message'[m].time
    BY DEF RequestCovers
  <2>2. m \in Committed(u) /\ m \notin content'[u] /\ m \notin waived[u] /\ m \notin raced[u]
    BY <1>3, <1>9, <2>1 DEF Unanswered
  <2>3. CASE u # s
    BY <1>3, <1>6, <2>2, <2>3 DEF IInv, RequestCovers, Unanswered
  <2>4. CASE u = s
    <3>1. m \notin worker[w].read /\ m \notin content[s]
      BY <1>5, <1>6, <2>2, <2>4 DEF Covers
    <3>2. message[m].time > worker[w].time
      BY <1>5, <2>2, <2>4, <3>1 DEF Covers
    <3>3. scope[s].requested >= message[m].time
      BY <2>2, <2>4, <3>1 DEF IInv, RequestCovers, Unanswered
    <3>4. message[m].time \in Nat /\ worker[w].time \in Nat /\ scope[s].requested \in Nat
      BY <1>1, <2>2 DEF IInv, TypeOK, Committed
    <3>5. PendingAfter(w)
      BY <3>2, <3>3, <3>4 DEF PendingAfter, s
    <3> QED BY <1>1, <1>3, <1>6, <1>7, <2>4, <3>3, <3>5
  <2> QED BY <2>3, <2>4
<1>12. ReadCovers'
  <2>1. SUFFICES ASSUME NEW v \in Workers, NEW u \in Scopes, Rebuilding(v, u)' PROVE Covers(v, u)'
    BY DEF ReadCovers
  <2>2. v # w
    BY <1>2, <1>6, <2>1 DEF Rebuilding
  <2>3. u # s
    BY <1>6, <1>7, <2>1 DEF Rebuilding
  <2> QED BY <1>3, <1>6, <2>1, <2>2, <2>3, OthersKept
<1>13. Advances
  BY <1>5, <1>6 DEF Advances, Covers
<1> QED BY <1>8, <1>10, <1>11, <1>12, <1>13 DEF IInv

\* The end of a claim that waives what is committed: complete_thread_processing_scope
\* for a missing package, and cancel_disabled_package_work.
LEMMA WaiveStep ==
    ASSUME IInv, NEW s \in Scopes, NEW row \in Rows, row.claim.by = Nobody,
           scope' = [scope EXCEPT ![s] = row],
           waived' = [waived EXCEPT ![s] = @ \cup Committed(s)],
           worker' \in [Workers -> WorkerRows],
           \A v \in Workers : worker'[v] = worker[v] \/ worker'[v] = Idle,
           UNCHANGED <<clock, message, content, raced>>
    PROVE  IInv' /\ Advances
<1>1. /\ \A u \in Scopes : scope'[u] = IF u = s THEN row ELSE scope[u]
      /\ \A u \in Scopes : waived'[u] = IF u = s THEN waived[s] \cup Committed(s) ELSE waived[u]
  BY DEF IInv, TypeOK
<1>2. TypeOK'
  <2>1. scope' \in [Scopes -> Rows]
    BY DEF IInv, TypeOK, Rows
  <2>2. Committed(s) \subseteq Messages /\ waived' \in [Scopes -> SUBSET Messages]
    BY DEF IInv, TypeOK, Committed
  <2> QED BY <2>1, <2>2 DEF IInv, TypeOK, WorkerRows, Rows
<1>3. \A u \in Scopes : Committed(u)' = Committed(u)
  BY DEF Committed
<1>4. Shape'
  BY <1>3, IdleRows DEF IInv, Shape
<1>5. RequestCovers'
  <2>1. SUFFICES ASSUME NEW u \in Scopes, NEW m \in Unanswered(u)', m \notin raced'[u]
                 PROVE  scope'[u].requested >= message'[m].time
    BY DEF RequestCovers
  <2>2. m \in Committed(u) /\ m \notin content[u] /\ m \notin waived'[u] /\ m \notin raced[u]
    BY <1>3, <2>1 DEF Unanswered
  <2>3. u # s /\ m \notin waived[u]
    BY <1>1, <2>2
  <2> QED BY <1>1, <2>2, <2>3 DEF IInv, RequestCovers, Unanswered
<1>6. ReadCovers'
  <2>1. SUFFICES ASSUME NEW v \in Workers, NEW u \in Scopes, Rebuilding(v, u)' PROVE Covers(v, u)'
    BY DEF ReadCovers
  <2>2. worker'[v] = worker[v]
    BY <2>1, IdleRows DEF Rebuilding
  <2>3. u # s
    BY <1>1, <2>1, ThreadRebuildAssumption DEF Rebuilding
  <2> QED BY <1>1, <2>1, <2>2, <2>3, OthersKept
<1>7. Advances
  BY DEF Advances
<1> QED BY <1>2, <1>4, <1>5, <1>6, <1>7 DEF IInv

\* complete_thread_processing_scope for a package that the worker does not have
LEMMA DropStep ==
    ASSUME IInv, NEW w \in Workers, Drop(w) PROVE IInv' /\ Advances
<1> DEFINE s == worker[w].scope
<1>1. s \in Scopes
  BY DEF Drop, IInv, Shape
<1>2. Released(w) \in Rows /\ Released(w).claim.by = Nobody
  BY <1>1, ReleasedRow
<1>3. worker' \in [Workers -> WorkerRows] /\ \A v \in Workers : worker'[v] = worker[v] \/ worker'[v] = Idle
  BY IdleRows DEF Drop, IInv, TypeOK, WorkerRows
<1>4. /\ scope' = [scope EXCEPT ![s] = Released(w)] /\ waived' = [waived EXCEPT ![s] = @ \cup Committed(s)]
      /\ UNCHANGED <<clock, message, content, raced>>
  BY DEF Drop
<1> HIDE DEF s
<1> QED BY <1>1, <1>2, <1>3, <1>4, WaiveStep

\* cancel_disabled_package_work
LEMMA CancelStep ==
    ASSUME IInv, NEW s \in Scopes, Cancel(s) PROVE IInv' /\ Advances
<1> DEFINE row == [requested |-> 0, claim |-> NoClaim]
<1>1. row \in Rows /\ row.claim.by = Nobody
  BY IdleRows
<1>2. /\ scope' = [scope EXCEPT ![s] = row] /\ waived' = [waived EXCEPT ![s] = @ \cup Committed(s)]
      /\ UNCHANGED <<clock, message, content, raced>>
  BY DEF Cancel
<1>3. worker' \in [Workers -> WorkerRows] /\ \A v \in Workers : worker'[v] = worker[v] \/ worker'[v] = Idle
  BY DEF Cancel, IInv, TypeOK, WorkerRows
<1> HIDE DEF row
<1> QED BY <1>1, <1>2, <1>3, WaiveStep
-----------------------------------------------------------------------------
(* Messages and the clock. *)

\* The reading of the clock before a result is committed.
LEMMA FinishStep ==
    ASSUME IInv, NEW m \in Messages, FinishMessage(m) PROVE IInv' /\ Advances
<1> DEFINE r == [at |-> "finished", time |-> clock]
<1>1. clock \in Nat /\ clock > 0 /\ clock \in 0 .. clock
  BY DEF IInv, TypeOK
<1>2. /\ r \in MessageRows /\ r.at = "finished" /\ r.time = clock
      /\ message' = [message EXCEPT ![m] = r] /\ UNCHANGED <<clock, scope, worker, content, waived, raced>>
  BY <1>1 DEF FinishMessage, MessageRows
<1> HIDE DEF r
<1>3. \A n \in Messages : message'[n] = IF n = m THEN r ELSE message[n]
  BY <1>2 DEF IInv, TypeOK
<1>4. TypeOK'
  <2>1. message' \in [Messages -> MessageRows]
    BY <1>2 DEF IInv, TypeOK, MessageRows
  <2> QED BY <1>2, <2>1 DEF IInv, TypeOK, MessageRows
<1>5. \A s \in Scopes : Committed(s)' = Committed(s) /\ m \notin Committed(s)
  BY <1>2, <1>3 DEF Committed, FinishMessage
<1>6. \A s \in Scopes : Unanswered(s)' = Unanswered(s) /\ m \notin Unanswered(s)
  BY <1>2, <1>5 DEF Unanswered
<1>7. Shape'
  <2>1. \A w \in Workers : worker'[w].at \notin {"idle", "poll"} => worker'[w].scope \in Scopes
    BY <1>2 DEF IInv, Shape
  <2>2. \A n \in Messages : message'[n].at # "new" => message'[n].time > 0
    BY <1>1, <1>2, <1>3 DEF IInv, Shape
  <2> QED BY <1>2, <1>5, <2>1, <2>2 DEF IInv, Shape
<1>8. RequestCovers'
  <2>1. \A s \in Scopes : Unanswered(s) \subseteq Messages
    BY DEF Unanswered, Committed
  <2> QED BY <1>2, <1>3, <1>6, <2>1 DEF IInv, RequestCovers
<1>9. ReadCovers'
  <2>1. SUFFICES ASSUME NEW v \in Workers, NEW s \in Scopes, Rebuilding(v, s)' PROVE Covers(v, s)'
    BY DEF ReadCovers
  <2>2. Covers(v, s)
    BY <1>2, <2>1 DEF Rebuilding, IInv, ReadCovers
  <2>3. Committed(s) \subseteq Messages
    BY DEF Committed
  <2> QED BY <1>2, <1>3, <1>5, <2>2, <2>3 DEF Covers
<1>10. Advances
  BY <1>2 DEF Advances
<1> QED BY <1>4, <1>7, <1>8, <1>9, <1>10 DEF IInv

\* commit_package_process_result: the request of each scope of the message is
\* at least as late as the message, and a rebuild that claimed later and has read
\* already makes the message a raced one.
LEMMA CommitStep ==
    ASSUME IInv, NEW m \in Messages, CommitMessage(m) PROVE IInv' /\ Advances
<1> USE ThreadRebuildAssumption
<1> DEFINE r == [at |-> "committed", time |-> message[m].time]
<1>1. message[m].time \in 0 .. clock /\ message[m].time > 0 /\ clock \in Nat
  BY DEF CommitMessage, IInv, TypeOK, Shape
<1>2. /\ r \in MessageRows /\ r.at = "committed" /\ r.time = message[m].time
      /\ message' = [message EXCEPT ![m] = r] /\ UNCHANGED <<clock, worker, content, waived>>
  BY <1>1 DEF CommitMessage, MessageRows
<1> HIDE DEF r
<1>3. \A n \in Messages : message'[n] = IF n = m THEN r ELSE message[n]
  BY <1>2 DEF IInv, TypeOK
<1>4. ASSUME NEW s \in Scopes
      PROVE  /\ scope'[s] \in Rows /\ scope'[s].claim = scope[s].claim
             /\ scope'[s].requested >= scope[s].requested
             /\ s \in Target[m] => scope'[s].requested >= message[m].time
  <2>1. scope[s] \in Rows /\ scope[s].requested \in 0 .. clock
    BY DEF IInv, TypeOK, Rows
  <2>2. CASE s \notin Target[m]
    BY <1>1, <2>1, <2>2 DEF CommitMessage
  <2>3. CASE s \in Target[m]
    <3>1. PICK q \in 0 .. clock : /\ q >= scope[s].requested /\ q >= message[m].time
                                  /\ Upserted(scope[s].requested, message[m].time) = q
      BY <1>1, <2>1 DEF Upserted
    <3>2. scope'[s] = [scope[s] EXCEPT !.requested = q]
      BY <2>3, <3>1 DEF CommitMessage
    <3>3. scope'[s] \in Rows /\ scope'[s].claim = scope[s].claim /\ scope'[s].requested = q
      BY <2>1, <3>2 DEF Rows
    <3> QED BY <3>1, <3>3
  <2> QED BY <2>2, <2>3
<1>5. ASSUME NEW s \in Scopes
      PROVE  /\ raced[s] \subseteq raced'[s] /\ raced'[s] \subseteq Messages
             /\ (s \in Target[m] /\ Overtaken(s, message[m].time)) => m \in raced'[s]
  BY DEF CommitMessage, IInv, TypeOK
<1>6. TypeOK'
  <2>1. message' \in [Messages -> MessageRows]
    BY <1>2 DEF IInv, TypeOK, MessageRows
  <2>2. scope' \in [Scopes -> Rows]
    BY <1>4 DEF CommitMessage
  <2>3. raced' \in [Scopes -> SUBSET Messages]
    BY <1>5 DEF CommitMessage
  <2> QED BY <1>2, <2>1, <2>2, <2>3 DEF IInv, TypeOK, MessageRows, Rows
<1>7. \A s \in Scopes : /\ Committed(s) \subseteq Committed(s)' /\ Committed(s)' \subseteq Committed(s) \cup {m}
                        /\ m \notin Committed(s) /\ (m \in Committed(s)' => s \in Target[m])
  BY <1>2, <1>3 DEF Committed, CommitMessage
<1>8. Shape'
  <2>1. \A w \in Workers : worker'[w].at \notin {"idle", "poll"} => worker'[w].scope \in Scopes
    BY <1>2 DEF IInv, Shape
  <2>2. \A n \in Messages : message'[n].at # "new" => message'[n].time > 0
    BY <1>1, <1>2, <1>3 DEF IInv, Shape
  <2>3. \A s \in Scopes : content'[s] \subseteq Committed(s)'
    BY <1>2, <1>7 DEF IInv, Shape
  <2> QED BY <2>1, <2>2, <2>3 DEF Shape
<1>9. RequestCovers'
  <2>1. SUFFICES ASSUME NEW s \in Scopes, NEW n \in Unanswered(s)', n \notin raced'[s]
                 PROVE  scope'[s].requested >= message'[n].time
    BY DEF RequestCovers
  <2>2. n \in Committed(s)' /\ n \notin content[s] /\ n \notin waived[s] /\ n \notin raced[s] /\ n \in Messages
    BY <1>2, <1>5, <2>1 DEF Unanswered, Committed
  <2>3. CASE n = m
    BY <1>2, <1>3, <1>4, <1>7, <2>2, <2>3
  <2>4. CASE n # m
    <3>1. n \in Unanswered(s) \ raced[s]
      BY <1>7, <2>2, <2>4 DEF Unanswered
    <3>2. scope[s].requested >= message[n].time
      BY <3>1 DEF IInv, RequestCovers
    <3>3. /\ scope[s].requested \in Nat /\ message[n].time \in Nat /\ scope'[s].requested \in Nat
          /\ message'[n] = message[n]
      BY <1>1, <1>3, <1>4, <2>2, <2>4 DEF IInv, TypeOK, Rows
    <3> QED BY <1>4, <3>2, <3>3
  <2> QED BY <2>3, <2>4
<1>10. ReadCovers'
  <2>1. SUFFICES ASSUME NEW v \in Workers, NEW s \in Scopes, Rebuilding(v, s)' PROVE Covers(v, s)'
    BY DEF ReadCovers
  <2>2. Rebuilding(v, s)
    BY <1>2, <1>4, <2>1 DEF Rebuilding
  <2>3. Covers(v, s)
    BY <2>2 DEF IInv, ReadCovers
  <2>4. ASSUME NEW n \in Committed(s)'
        PROVE  n \in worker[v].read \/ n \in raced'[s] \/ message'[n].time > worker[v].time
    <3>1. CASE n = m
      <4>1. message[m].time \in Nat /\ worker[v].time \in Nat
        BY <1>1 DEF IInv, TypeOK
      <4>2. CASE message[m].time <= worker[v].time
        <5>1. Overtaken(s, message[m].time)
          BY <2>2, <4>2 DEF Rebuilding, Overtaken, Current
        <5> QED BY <1>5, <1>7, <2>4, <3>1, <5>1
      <4>3. CASE message[m].time > worker[v].time
        BY <1>2, <1>3, <3>1, <4>3
      <4> QED BY <4>1, <4>2, <4>3
    <3>2. CASE n # m
      <4>1. n \in Committed(s) /\ n \in Messages
        BY <1>7, <2>4, <3>2 DEF Committed
      <4> QED BY <1>3, <1>5, <2>3, <3>2, <4>1 DEF Covers
    <3> QED BY <3>1, <3>2
  <2>5. content'[s] \subseteq worker'[v].read /\ worker'[v].read \subseteq Committed(s)'
    BY <1>2, <1>7, <2>3 DEF Covers
  <2> QED BY <1>2, <2>4, <2>5 DEF Covers
<1>11. Advances
  BY <1>2 DEF Advances
<1> QED BY <1>6, <1>8, <1>9, <1>10, <1>11 DEF IInv

\* The clock moves: every time that has been read is still no later.
LEMMA TickStep ==
    ASSUME IInv, Tick PROVE IInv' /\ Advances
<1>1. clock \in Nat /\ clock' = clock + 1 /\ clock' \in 1 .. MaxClock
  BY ThreadRebuildAssumption DEF Tick, IInv, TypeOK
<1>2. 0 .. clock \subseteq 0 .. clock' /\ 0 .. clock + Lease \subseteq 0 .. clock' + Lease
  BY <1>1, ThreadRebuildAssumption
<1>3. UNCHANGED <<scope, message, worker, content, waived, raced>>
  BY DEF Tick
<1>4. TypeOK'
  <2>1. scope \in [Scopes -> Rows] /\ message \in [Messages -> MessageRows] /\ worker \in [Workers -> WorkerRows]
    BY DEF IInv, TypeOK, Rows, MessageRows, WorkerRows
  <2>2. Rows \subseteq Rows'
    BY <1>2 DEF Rows
  <2>3. MessageRows \subseteq MessageRows' /\ WorkerRows \subseteq WorkerRows'
    BY <1>2 DEF MessageRows, WorkerRows
  <2>4. scope' \in [Scopes -> Rows'] /\ message' \in [Messages -> MessageRows'] /\ worker' \in [Workers -> WorkerRows']
    BY <1>3, <2>1, <2>2, <2>3
  <2> QED BY <1>1, <1>3, <2>4 DEF IInv, TypeOK, Rows, MessageRows, WorkerRows
<1>5. \A s \in Scopes : Committed(s)' = Committed(s) /\ Unanswered(s)' = Unanswered(s)
  BY <1>3 DEF Committed, Unanswered
<1>6. Shape' /\ RequestCovers'
  BY <1>3, <1>5 DEF IInv, Shape, RequestCovers
<1>7. ReadCovers'
  <2>1. SUFFICES ASSUME NEW v \in Workers, NEW s \in Scopes, Rebuilding(v, s)' PROVE Covers(v, s)'
    BY DEF ReadCovers
  <2> QED BY <1>3, <2>1, OthersKept
<1>8. Advances
  BY <1>3 DEF Advances
<1> QED BY <1>4, <1>6, <1>7, <1>8 DEF IInv

-----------------------------------------------------------------------------
(* The theorems. *)

\* Every step keeps the invariant and takes no message out of a summary.
LEMMA StepHolds == IInv /\ [Next]_vars => IInv' /\ (Advances \/ UNCHANGED vars)
<1> SUFFICES ASSUME IInv, [Next]_vars PROVE IInv' /\ (Advances \/ UNCHANGED vars)
  OBVIOUS
<1>1. CASE UNCHANGED vars
  <2>1. \A s \in Scopes : Committed(s)' = Committed(s) /\ Unanswered(s)' = Unanswered(s)
    BY <1>1 DEF vars, Committed, Unanswered
  <2>2. TypeOK'
    BY <1>1 DEF IInv, TypeOK, vars
  <2>3. Shape' /\ RequestCovers'
    BY <1>1, <2>1 DEF IInv, Shape, RequestCovers, vars
  <2>4. ReadCovers'
    <3>1. SUFFICES ASSUME NEW v \in Workers, NEW s \in Scopes, Rebuilding(v, s)' PROVE Covers(v, s)'
      BY DEF ReadCovers
    <3> QED BY <1>1, <3>1, OthersKept DEF vars
  <2> QED BY <1>1, <2>2, <2>3, <2>4 DEF IInv
<1>2. ASSUME NEW m \in Messages, FinishMessage(m) \/ CommitMessage(m) PROVE IInv' /\ Advances
  BY <1>2, FinishStep, CommitStep
<1>3. ASSUME NEW w \in Workers, WorkerNext(w) PROVE IInv' /\ Advances
  <2>1. CASE GiveUp(w)
    BY <2>1, IdleStep DEF GiveUp
  <2> QED BY <1>3, <2>1, ReadClockStep, PollStep, ReclaimStep, ReadStep, CompleteStep, DropStep DEF WorkerNext
<1>4. ASSUME NEW s \in Scopes, Cancel(s) PROVE IInv' /\ Advances
  BY <1>4, CancelStep
<1>5. CASE Tick
  BY <1>5, TickStep
<1> QED BY <1>1, <1>2, <1>3, <1>4, <1>5 DEF Next

\* The invariant holds in every behaviour of the queue.
LEMMA Inductive == Spec => []IInv
<1>1. IInv /\ [Next]_vars => IInv'
  BY StepHolds
<1> QED BY <1>1, InitHolds, PTL DEF Spec

\* Types: rows and workers keep times that a clock has shown, and no worker
\* exceeds the iterations of _process_thread_rebuild_lease.
THEOREM RebuildTypeCorrect == Spec => []TypeOK
<1>1. IInv => TypeOK
  BY DEF IInv
<1> QED BY <1>1, Inductive, PTL

\* A scope stays requested until a rebuild has read every message that asked
\* for it, apart from the raced ones.
THEOREM RequestsKept == Spec => []RequestsSurvive
<1>1. IInv => RequestsSurvive
  <2> SUFFICES ASSUME IInv, NEW s \in Scopes, NEW m \in Unanswered(s) \ raced[s]
               PROVE  scope[s].requested # 0
    BY DEF RequestsSurvive
  <2>1. scope[s].requested >= message[m].time
    BY DEF IInv, RequestCovers
  <2>2. message[m].time > 0 /\ message[m].time \in Nat
    BY DEF IInv, Shape, TypeOK, Unanswered, Committed
  <2> QED BY <2>1, <2>2
<1> QED BY <1>1, Inductive, PTL

\* A rebuild never replaces the summary of a scope by one that has read less.
THEOREM SummariesAdvance == Spec => RebuildsAdvance
<1>1. IInv /\ [Next]_vars => [Advances]_vars
  BY StepHolds
<1>2. [Advances]_vars <=> [\A s \in Scopes : content[s] \subseteq content'[s]]_vars
  BY DEF Advances
<1> QED BY <1>1, <1>2, Inductive, PTL DEF Spec, RebuildsAdvance
=============================================================================
