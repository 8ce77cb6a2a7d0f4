------------------------- MODULE ThreadRebuildQueue -------------------------
(***************************************************************************)
(* Rebuilds of thread and container summaries: the request and the lease   *)
(* that a scope carries in thread_processing_leases, and the workers that  *)
(* rebuild scopes (core/thread_rebuild.py).                                *)
(*                                                                         *)
(* A processed message asks for the rebuild of its scopes in the           *)
(* transaction that commits its result; requests of one scope collapse     *)
(* into its requested_at.  Every caller reads the clock first and then     *)
(* waits for the write lock, so its reading may be old when its            *)
(* transaction runs: reading and transaction are separate actions.  What a *)
(* rebuild sees of a thread is the set of messages committed when it       *)
(* reads.  Operators named X_Y are faulty variants of X.                   *)
(***************************************************************************)
EXTENDS Naturals

CONSTANTS
    Scopes,         \* scope keys
    Messages,       \* processed messages
    Target,         \* the scopes that each message asks to rebuild
    Workers,        \* workers, by worker id
    Lease,          \* lease_seconds
    MaxIterations,  \* _MAX_THREAD_REBUILD_ITERATIONS
    MaxClock,       \* bound on the clock
    Nobody          \* SQL NULL

ASSUME ThreadRebuildAssumption ==
    /\ Target \in [Messages -> SUBSET Scopes]
    /\ Lease \in Nat \ {0} /\ MaxIterations \in Nat \ {0} /\ MaxClock \in Nat \ {0}
    /\ Nobody \notin Workers \cup Scopes

VARIABLES
    clock,    \* the time, from 1 (0 is NULL)
    scope,    \* thread_processing_leases
    message,  \* processing of each message: clock reading and commit
    worker,   \* _process_thread_rebuild_lease of each worker
    content,  \* the messages that the last committed rebuild of a scope has read
    waived,   \* history: messages whose request a missing package has dropped
    raced     \* history: messages committed too late for a running rebuild that was
              \* claimed no earlier than they read the clock

vars == <<clock, scope, message, worker, content, waived, raced>>

NoClaim == [by |-> Nobody, claimed |-> 0, lease |-> 0]
Idle == [at |-> "idle", scope |-> Nobody, time |-> 0, read |-> {}, iteration |-> 0]

Init ==
    /\ clock = 1
    /\ scope = [s \in Scopes |-> [requested |-> 0, claim |-> NoClaim]]
    /\ message = [m \in Messages |-> [at |-> "new", time |-> 0]]
    /\ worker = [w \in Workers |-> Idle]
    /\ content = [s \in Scopes |-> {}]
    /\ waived = [s \in Scopes |-> {}]
    /\ raced = [s \in Scopes |-> {}]

Committed(s) == {m \in Messages : message[m].at = "committed" /\ s \in Target[m]}

Current_Always(w) == TRUE

\* _claim_is_current, and the compare of both completions.
Current(w) ==
    /\ scope[worker[w].scope].claim.by = w
    /\ scope[worker[w].scope].claim.claimed = worker[w].time

-----------------------------------------------------------------------------
(* commit_package_process_result of a message that asks for rebuilds. *)

FinishMessage(m) ==
    /\ message[m].at = "new"
    /\ message' = [message EXCEPT ![m] = [at |-> "finished", time |-> clock]]
    /\ UNCHANGED <<clock, scope, worker, content, waived, raced>>

\* _upsert_thread_processing_scope_in_session
Upserted(requested, time) == IF requested = 0 \/ time > requested THEN time ELSE requested

\* A running rebuild of s has read its thread, under a claim not before time.
Overtaken(s, time) ==
    \E w \in Workers :
        worker[w].at = "built" /\ worker[w].scope = s /\ Current(w) /\ time <= worker[w].time

CommitMessage(m) ==
    /\ message[m].at = "finished"
    /\ message' = [message EXCEPT ![m] = [at |-> "committed", time |-> message[m].time]]
    /\ scope' = [s \in Scopes |->
          IF s \in Target[m]
          THEN [scope[s] EXCEPT !.requested = Upserted(scope[s].requested, message[m].time)]
          ELSE scope[s]]
    /\ raced' = [s \in Scopes |->
          IF s \in Target[m] /\ Overtaken(s, message[m].time) THEN raced[s] \cup {m} ELSE raced[s]]
    /\ UNCHANGED <<clock, worker, content, waived>>

-----------------------------------------------------------------------------
(* The workers. *)

\* claim_next_thread_processing_scope and, for a scope that has become pending
\* again, claim_thread_processing_scope read the clock.
ReadClock(w) ==
    /\ worker[w].at \in {"idle", "again"}
    /\ worker' = [worker EXCEPT ![w] =
          [at |-> IF worker[w].at = "idle" THEN "poll" ELSE "reclaim", scope |-> worker[w].scope,
           time |-> clock, read |-> {}, iteration |-> worker[w].iteration]]
    /\ UNCHANGED <<clock, scope, message, content, waived, raced>>

Claimable(s, time) == scope[s].requested # 0 /\ scope[s].claim.lease <= time

Claim(w, s) ==
    [requested |-> scope[s].requested,
     claim |-> [by |-> w, claimed |-> worker[w].time, lease |-> worker[w].time + Lease]]

Take(w, s, next) ==
    /\ Claimable(s, worker[w].time)
    /\ scope' = [scope EXCEPT ![s] = Claim(w, s)]
    /\ worker' = [worker EXCEPT ![w] = next]
    /\ UNCHANGED <<clock, message, content, waived, raced>>

\* Scopes with the same requested_at are served in the order they were created.
Poll(w) ==
    /\ worker[w].at = "poll"
    /\ \/ \E s \in Scopes :
             /\ \A u \in Scopes : Claimable(u, worker[w].time) => scope[s].requested <= scope[u].requested
             /\ Take(w, s, [at |-> "claimed", scope |-> s, time |-> worker[w].time, read |-> {}, iteration |-> 1])
       \/ /\ \A s \in Scopes : ~Claimable(s, worker[w].time)
          /\ worker' = [worker EXCEPT ![w] = Idle]
          /\ UNCHANGED <<clock, scope, message, content, waived, raced>>

\* The claim for the next iteration; after the last one the loop ends, with the
\* scope claimed until its lease runs out.
Again_OneMore(w) ==
    IF worker[w].iteration <= MaxIterations
    THEN [at |-> "claimed", scope |-> worker[w].scope, time |-> worker[w].time,
          read |-> {}, iteration |-> worker[w].iteration + 1]
    ELSE Idle

Again(w) ==
    IF worker[w].iteration < MaxIterations
    THEN [at |-> "claimed", scope |-> worker[w].scope, time |-> worker[w].time,
          read |-> {}, iteration |-> worker[w].iteration + 1]
    ELSE Idle

Reclaim(w) ==
    /\ worker[w].at = "reclaim"
    /\ \/ Take(w, worker[w].scope, Again(w))
       \/ /\ ~Claimable(worker[w].scope, worker[w].time)
          /\ worker' = [worker EXCEPT ![w] = Idle]
          /\ UNCHANGED <<clock, scope, message, content, waived, raced>>

\* _maybe_rebuild_thread_summary reads the thread.
Read(w) ==
    /\ worker[w].at = "claimed"
    /\ Current(w)
    /\ worker' = [worker EXCEPT ![w] =
          [at |-> "built", scope |-> worker[w].scope, time |-> worker[w].time,
           read |-> Committed(worker[w].scope), iteration |-> worker[w].iteration]]
    /\ UNCHANGED <<clock, scope, message, content, waived, raced>>

\* requested_at > claimed_at: the scope was requested again during the rebuild.
PendingAfter_Never(w) == FALSE
PendingAfter(w) == scope[worker[w].scope].requested > worker[w].time

Released(w) ==
    [requested |-> IF PendingAfter(w) THEN scope[worker[w].scope].requested ELSE 0, claim |-> NoClaim]

\* commit_process_result_and_complete_scope, or complete_thread_processing_scope
\* when the thread is too short for a summary.
Complete(w) ==
    /\ worker[w].at = "built"
    /\ Current(w)
    /\ scope' = [scope EXCEPT ![worker[w].scope] = Released(w)]
    /\ content' = [content EXCEPT ![worker[w].scope] = worker[w].read]
    /\ worker' = [worker EXCEPT ![w] =
          IF PendingAfter(w)
          THEN [at |-> "again", scope |-> worker[w].scope, time |-> worker[w].time,
                read |-> {}, iteration |-> worker[w].iteration]
          ELSE Idle]
    /\ UNCHANGED <<clock, message, waived, raced>>

\* The worker does not have the scope's package: the request is dropped.
Drop(w) ==
    /\ worker[w].at = "claimed"
    /\ Current(w)
    /\ scope' = [scope EXCEPT ![worker[w].scope] = Released(w)]
    /\ waived' = [waived EXCEPT ![worker[w].scope] = @ \cup Committed(worker[w].scope)]
    /\ worker' = [worker EXCEPT ![w] = Idle]
    /\ UNCHANGED <<clock, message, content, raced>>

\* A claim that was lost, a rebuild or a commit that raised, or the end of the
\* process.  The lease stays.
GiveUp(w) ==
    /\ worker[w].at # "idle"
    /\ worker' = [worker EXCEPT ![w] = Idle]
    /\ UNCHANGED <<clock, scope, message, content, waived, raced>>

\* cancel_disabled_package_work
Cancel(s) ==
    /\ scope[s].requested # 0 \/ scope[s].claim.by # Nobody
    /\ scope' = [scope EXCEPT ![s] = [requested |-> 0, claim |-> NoClaim]]
    /\ waived' = [waived EXCEPT ![s] = @ \cup Committed(s)]
    /\ UNCHANGED <<clock, message, worker, content, raced>>

Tick ==
    /\ clock < MaxClock
    /\ clock' = clock + 1
    /\ UNCHANGED <<scope, message, worker, content, waived, raced>>

-----------------------------------------------------------------------------

WorkerNext(w) ==
    ReadClock(w) \/ Poll(w) \/ Reclaim(w) \/ Read(w) \/ Complete(w) \/ Drop(w) \/ GiveUp(w)

Next ==
    \/ \E m \in Messages : FinishMessage(m) \/ CommitMessage(m)
    \/ \E w \in Workers : WorkerNext(w)
    \/ \E s \in Scopes : Cancel(s)
    \/ Tick

Spec == Init /\ [][Next]_vars

-----------------------------------------------------------------------------
(* Properties. *)

\* Types: every time in a row is one that a clock has shown, and no worker
\* stays with one scope for more than the allowed iterations.
TypeOK ==
    /\ clock \in 1 .. MaxClock
    /\ scope \in [Scopes -> [requested : 0 .. clock,
                             claim : [by : Workers \cup {Nobody}, claimed : 0 .. clock, lease : 0 .. clock + Lease]]]
    /\ message \in [Messages -> [at : {"new", "finished", "committed"}, time : 0 .. clock]]
    /\ worker \in [Workers -> [at : {"idle", "poll", "claimed", "built", "again", "reclaim"},
                               scope : Scopes \cup {Nobody}, time : 0 .. clock,
                               read : SUBSET Messages, iteration : 0 .. MaxIterations]]
    /\ content \in [Scopes -> SUBSET Messages]
    /\ waived \in [Scopes -> SUBSET Messages]
    /\ raced \in [Scopes -> SUBSET Messages]

Unanswered(s) == Committed(s) \ (content[s] \cup waived[s])

\* The summary of a thread never goes back: a worker that read the thread,
\* stalled until its lease ran out and comes back after another worker has
\* rebuilt the scope does not overwrite the newer result.
RebuildsAdvance == [][\A s \in Scopes : content[s] \subseteq content'[s]]_vars

\* A scope stays requested until a rebuild has read every message that asked
\* for it, whatever leases, crashes and further requests do; except for a
\* message that had read the clock when a rebuild claimed the scope and committed
\* only after that rebuild had read the thread.
RequestsSurvive ==
    \A s \in Scopes : Unanswered(s) \ raced[s] # {} => scope[s].requested # 0

\* docs/specs/2026-04-05-fact-extraction-design.md: messages that arrive while a
\* rebuild is running "collapse into a single pending request - the rebuild runs
\* once more after the current one completes".
RunsOnceMore ==
    \A s \in Scopes : Unanswered(s) # {} => scope[s].requested # 0
=============================================================================
