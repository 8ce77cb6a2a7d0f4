------------------------------ MODULE CodexWake ------------------------------
(***************************************************************************)
(* Native wakes of idle Codex sessions: the durable reservations ("fences")*)
(* of relay_codex_wake_transition, the CodexWakeRegistry in front of them, *)
(* the in-memory schedule and worker threads of app/codex_wake.py, the     *)
(* retained dispatch of app/codex_bridge_pipe.py, and the hook turn that   *)
(* claims the delivery a wake was sent for.                                *)
(*                                                                         *)
(* A transition is one BEGIN IMMEDIATE transaction and is one action.      *)
(* Registry operations also hold the registry's lock; the only one that    *)
(* keeps it across two steps is run_if_current, from the transaction that  *)
(* spends the generation to the native write (phase "begun").  Relay's own *)
(* operations, the clock and a crash of the service do not wait for it.    *)
(*                                                                         *)
(* The relay rows are cut down to what wakes read; RelayStore specifies    *)
(* them in full.  State "expired" means past expires_at, swept or not.  A  *)
(* delivery is pending only while it was never claimed                     *)
(* (RelayStore!ClaimBookkeeping), which _wake_retry_pending checks again.  *)
(* Persistent registries never correlate a claim by attempt number, so     *)
(* correlated_claim_attempts is NULL and left out; so are legacy imports.  *)
(* Operators named X_Y are faulty variants of X.                           *)
(***************************************************************************)
EXTENDS Naturals, FiniteSets

CONSTANTS
    Endpoints,      \* Codex endpoints (relay_sessions.id)
    RefOf,          \* session_ref of each endpoint
    Containers,     \* container_ref values
    Deliveries,     \* deliveries to Codex endpoints
    Workers,        \* wake threads that exist at a time (a bound)
    Retained,       \* retained_wake_enabled(), and a retained service runs
    Cooldown,       \* WAKE_RETRY_COOLDOWN_SECONDS
    Lease,          \* RELAY_CLAIM_LEASE_SECONDS
    MaxFences,      \* MAX_RESERVATIONS
    MaxGeneration,  \* 2^63 - 1
    MaxClock,       \* bound on the clock
    Rollbacks,      \* TRUE: the wall clock may be set back
    MaxRestarts,    \* bound on crashes and restarts of the service
    Nobody          \* SQL NULL

ASSUME CodexWakeAssumption ==
    /\ Cooldown \in Nat \ {0} /\ Lease \in Nat \ {0}
    /\ MaxFences \in Nat /\ MaxGeneration \in Nat /\ MaxClock \in Nat /\ MaxRestarts \in Nat
    /\ Retained \in BOOLEAN /\ Rollbacks \in BOOLEAN
    /\ Nobody \notin Endpoints \cup Containers \cup Deliveries

VARIABLES
    clock,      \* wall clock, from 1 (0 is a NULL deadline)
    session,    \* relay_sessions: active or not, and container
    delivery,   \* relay_deliveries
    marker,     \* relay_codex_wake_state.generation
    fence,      \* relay_codex_wake_reservations, by recipient_endpoint_id
    scheduled,  \* _scheduled_session_generations and _delivery_ids, by wake key
    worker,     \* _wake_after_debounce threads
    hook,       \* exact turn requests between snapshot and claim, by delivery
    restarts,   \* crashes so far
    submitted,  \* history: native submissions of each generation
    spentAt     \* history: when d was last spent on a wake no claim has followed; 0: never

durable == <<session, delivery>>
memory == <<scheduled, worker, hook, restarts>>
vars == <<clock, session, delivery, marker, fence, scheduled, worker, hook,
          restarts, submitted, spentAt>>

Generations == 1 .. MaxGeneration
Spent == {"accepted", "uncertain"}
Keys == {RefOf[e] : e \in Endpoints} \X Containers

Reservations ==
    [endpoint : Endpoints, delivery : Deliveries, container : Containers,
     generation : Generations, outcome : {"prepared"} \cup Spent, deadline : Nat]

NoFence == [endpoint |-> Nobody, delivery |-> Nobody, container |-> Nobody,
            generation |-> 0, outcome |-> "none", deadline |-> 0]
NoSchedule == [generation |-> 0, delivery |-> Nobody]
Idle == [at |-> "idle", item |-> NoFence, was |-> NoFence, target |-> Nobody]
NoHook == [container |-> Nobody, generation |-> 0]
NoDelivery == [state |-> "none", to |-> Nobody, container |-> Nobody, lease |-> 0, generation |-> 0]

Init ==
    /\ clock = 1
    /\ session \in [Endpoints -> [active : {TRUE}, container : Containers]]
    /\ \A e, f \in Endpoints :
          RefOf[e] = RefOf[f] /\ session[e].container = session[f].container => e = f
    /\ delivery = [d \in Deliveries |-> NoDelivery]
    /\ marker = 0
    /\ fence = [e \in Endpoints |-> NoFence]
    /\ scheduled = [k \in Keys |-> NoSchedule]
    /\ worker = [w \in Workers |-> Idle]
    /\ hook = [d \in Deliveries |-> NoHook]
    /\ restarts = 0
    /\ submitted = [g \in Generations |-> 0]
    /\ spentAt = [d \in Deliveries |-> 0]

-----------------------------------------------------------------------------
(* What _relay_codex_wake_reservation_state reports of a delivery. *)

State(d) ==
    IF delivery[d].state = "claimed" /\ delivery[d].lease <= clock THEN "pending"
    ELSE delivery[d].state

WakeTarget(d) ==
    IF session[delivery[d].to].active THEN session[delivery[d].to].container ELSE Nobody

Terminal(d) == delivery[d].state \in {"delivered", "expired"}
LiveClaim(d) == State(d) = "claimed"

\* The hook of generation g itself holds, or held, the delivery.
ClaimedBy(d, g) == delivery[d].state = "claimed" /\ delivery[d].generation = g

CooldownElapsed_Always(deadline) == TRUE

CooldownElapsed(deadline) == deadline = 0 \/ deadline <= clock

LockFree == \A w \in Workers : worker[w].at # "begun"

-----------------------------------------------------------------------------
(* The schedule and the worker threads. *)

Key(r) == <<RefOf[r.endpoint], r.container>>

Clear_Kept(sched, r) == sched

\* _clear_schedule: the key is freed unless a newer generation has taken it over.
Clear(sched, r) ==
    IF r = NoFence \/ sched[Key(r)].generation # r.generation THEN sched
    ELSE [sched EXCEPT ![Key(r)] = NoSchedule]

Entry(r) == [generation |-> r.generation, delivery |-> r.delivery]
Take(sched, r) == [sched EXCEPT ![Key(r)] = Entry(r)]

Thread(at, r) == [at |-> at, item |-> r, was |-> NoFence, target |-> Nobody]

\* A transaction has made `table` the fences and hands reservation r on.
Start(at, r, table, sched) ==
    /\ \E w \in Workers :
          /\ worker[w] = Idle
          /\ worker' = [worker EXCEPT ![w] = Thread(at, r)]
    /\ fence' = table
    /\ scheduled' = sched

\* _schedule_reserved_codex_relay_wake after a sweep, which does not hold the
\* registry's lock any more: a duplicate of what is scheduled is dropped, else
\* the key is taken and the thread started.
WorkerDuplicate(w) ==
    /\ worker[w].at = "starting"
    /\ scheduled[Key(worker[w].item)] = Entry(worker[w].item)
    /\ worker' = [worker EXCEPT ![w] = Idle]
    /\ UNCHANGED <<clock, durable, marker, fence, scheduled, hook, restarts, submitted, spentAt>>

WorkerLaunch(w) ==
    LET r == worker[w].item IN
    /\ worker[w].at = "starting"
    /\ scheduled[Key(r)] # Entry(r)
    /\ scheduled' = Take(scheduled, r)
    /\ worker' = [worker EXCEPT ![w] = Thread("waiting", r)]
    /\ UNCHANGED <<clock, durable, marker, fence, hook, restarts, submitted, spentAt>>

-----------------------------------------------------------------------------
(* Reservations. *)

Prepared_SkipsOne(d) ==
    [endpoint |-> delivery[d].to, delivery |-> d, container |-> WakeTarget(d),
     generation |-> marker + 2, outcome |-> "prepared", deadline |-> 0]

Prepared(d) ==
    [endpoint |-> delivery[d].to, delivery |-> d, container |-> WakeTarget(d),
     generation |-> marker + 1, outcome |-> "prepared", deadline |-> 0]

\* dispatch_relay_wake, after a send, an ACK or in the recovery sweep; it holds the
\* registry's lock until the thread is scheduled.  A fence of the endpoint whose
\* delivery is finished is released first.
Dispatch(d) ==
    LET e == delivery[d].to IN
    /\ LockFree
    /\ State(d) = "pending" /\ WakeTarget(d) # Nobody
    /\ fence[e] # NoFence => Terminal(fence[e].delivery)
    /\ \A f \in Endpoints \ {e} : fence[f].delivery # d
    /\ Cardinality({f \in Endpoints \ {e} : fence[f] # NoFence}) < MaxFences
    /\ marker < MaxGeneration
    /\ marker' = marker + 1
    /\ Start("waiting", Prepared(d), [fence EXCEPT ![e] = Prepared(d)],
             Take(Clear(scheduled, fence[e]), Prepared(d)))
    /\ UNCHANGED <<clock, durable, hook, restarts, submitted, spentAt>>

\* The sweep of reconcile_codex_relay_wake_reservations over the fence of e.
ReconcileReleased(e) ==
    /\ Terminal(fence[e].delivery)
    /\ fence' = [fence EXCEPT ![e] = NoFence]
    /\ scheduled' = Clear(scheduled, fence[e])
    /\ UNCHANGED <<marker, worker>>

\* The claim that this generation's own hook made has lapsed.
ClaimLapsed(r) ==
    /\ State(r.delivery) = "pending"
    /\ ClaimedBy(r.delivery, r.generation)
    /\ WakeTarget(r.delivery) # Nobody

ReconcileReplaced(e) ==
    LET r == fence[e] IN
    /\ ClaimLapsed(r)
    /\ marker < MaxGeneration
    /\ marker' = marker + 1
    /\ Start("starting", Prepared(r.delivery),
             [fence EXCEPT ![e] = Prepared(r.delivery)], Clear(scheduled, r))

ReconcileResume(e) ==
    LET r == fence[e] IN
    /\ r.outcome = "prepared"
    /\ ~ClaimLapsed(r)
    /\ State(r.delivery) = "pending" /\ WakeTarget(r.delivery) = r.container
    /\ Start("starting", r, fence, scheduled)
    /\ UNCHANGED marker

\* The wall clock was set back by a lot: the deadline is clamped.
ClampDue_Never(r) == FALSE

ClampDue(r) == r.deadline > clock + 2 * Cooldown

ReconcileClamped(e) ==
    LET r == fence[e] IN
    /\ r.outcome \in Spent
    /\ ~ClaimLapsed(r)
    /\ State(r.delivery) = "pending" /\ ClampDue(r)
    /\ fence' = [fence EXCEPT ![e].deadline = clock + Cooldown]
    /\ scheduled' = Clear(scheduled, r)
    /\ UNCHANGED <<marker, worker>>

ReconcileRetry(e) ==
    LET r == fence[e] IN
    /\ Retained
    /\ r.outcome \in Spent
    /\ ~ClaimLapsed(r)
    /\ State(r.delivery) = "pending" /\ WakeTarget(r.delivery) # Nobody
    /\ CooldownElapsed(r.deadline)
    /\ Start("starting", r, fence, scheduled)
    /\ UNCHANGED marker

Reconcile(e) ==
    /\ LockFree /\ fence[e] # NoFence
    /\ \/ ReconcileReleased(e)
       \/ ReconcileReplaced(e)
       \/ ReconcileResume(e)
       \/ ReconcileClamped(e)
       \/ ReconcileRetry(e)
    /\ UNCHANGED <<clock, durable, hook, restarts, submitted, spentAt>>

\* _relay_ack_release, which every successful ACK or reply runs, repeated ones too.
AckRelease(d) ==
    /\ LockFree
    /\ delivery[d].state = "delivered"
    /\ \E e \in Endpoints :
          /\ fence[e].delivery = d
          /\ fence' = [fence EXCEPT ![e] = NoFence]
          /\ scheduled' = Clear(scheduled, fence[e])
    /\ UNCHANGED <<clock, durable, marker, worker, hook, restarts, submitted, spentAt>>

-----------------------------------------------------------------------------
(* _wake_after_debounce and the retained dispatch. *)

\* begin_native_attempt: what the transaction that spends r checks.
BeginAllowed_AnyOutcome(r) ==
    /\ fence[r.endpoint].generation = r.generation
    /\ State(r.delivery) = "pending"
    /\ WakeTarget(r.delivery) = r.container

BeginAllowed(r) ==
    /\ r.outcome = "prepared" /\ fence[r.endpoint] = r
    /\ CooldownElapsed(r.deadline)
    /\ State(r.delivery) = "pending"
    /\ WakeTarget(r.delivery) = r.container
    /\ ~ClaimedBy(r.delivery, r.generation)

SpentItem_StaysPrepared(r) == [r EXCEPT !.deadline = clock + Cooldown]

SpentItem(r) ==
    [endpoint |-> r.endpoint, delivery |-> r.delivery, container |-> r.container,
     generation |-> r.generation, outcome |-> "uncertain", deadline |-> clock + Cooldown]

Cleared(w) == Clear(Clear(scheduled, worker[w].was), worker[w].item)

\* The thread ends and leaves these fences and this schedule.
Stop(w, table, sched) ==
    /\ worker' = [worker EXCEPT ![w] = Idle]
    /\ scheduled' = sched
    /\ fence' = table
    /\ UNCHANGED <<clock, durable, marker, hook, restarts, submitted>>

Released_AnyGeneration(r) == [fence EXCEPT ![r.endpoint] = NoFence]

\* release_generation: only the exact reservation is removed.
Released(r) == IF fence[r.endpoint] = r THEN [fence EXCEPT ![r.endpoint] = NoFence] ELSE fence

\* The generation is spent durably before anything is written.  The lock is
\* held until the write.
WorkerBegin(w) ==
    LET r == worker[w].item IN
    /\ worker[w].at \in {"waiting", "ready"} /\ LockFree
    /\ BeginAllowed(r)
    /\ fence' = [fence EXCEPT ![r.endpoint] = SpentItem(r)]
    /\ worker' = [worker EXCEPT ![w] = [at |-> "begun", item |-> SpentItem(r),
                                       was |-> worker[w].was, target |-> Nobody]]
    /\ spentAt' = [spentAt EXCEPT ![r.delivery] = clock]
    /\ UNCHANGED <<clock, durable, marker, scheduled, hook, restarts, submitted>>

\* The commit went through but its answer was lost: never launch.
WorkerAmbiguous(w) ==
    LET r == worker[w].item IN
    /\ worker[w].at \in {"waiting", "ready"} /\ LockFree
    /\ BeginAllowed(r)
    /\ Stop(w, [fence EXCEPT ![r.endpoint] = SpentItem(r)], Cleared(w))
    /\ spentAt' = [spentAt EXCEPT ![r.delivery] = clock]

\* The spending transaction is refused or fails.  The retained path then releases
\* a reservation on its first attempt; a rearmed one has a deadline and is kept.
WorkerRefused(w) ==
    LET r == worker[w].item IN
    /\ worker[w].at \in {"waiting", "ready"} /\ LockFree
    /\ r.outcome = "prepared"
    /\ Stop(w, IF Retained /\ worker[w].at = "waiting" /\ r.deadline = 0
               THEN Released(r) ELSE fence, Cleared(w))
    /\ UNCHANGED spentAt

\* With a retained service, the native target is not idle, archived or out of
\* reach: a prepared reservation is released, a rearmed one that recovery has
\* resumed too.
WorkerBusy(w) ==
    LET r == worker[w].item IN
    /\ Retained
    /\ worker[w].at = "waiting" /\ LockFree
    /\ r.outcome = "prepared"
    /\ Stop(w, Released(r), Cleared(w))
    /\ UNCHANGED spentAt

\* The thread could not be started, or the service began to close meanwhile: a
\* reservation that was never written is released.
WorkerNotRun(w) ==
    LET r == worker[w].item IN
    /\ worker[w].at \in {"starting", "waiting"} /\ LockFree
    /\ Stop(w, IF r.outcome = "prepared" THEN Released(r) ELSE fence,
            IF worker[w].at = "waiting" THEN Cleared(w) ELSE scheduled)
    /\ UNCHANGED spentAt

\* A reservation that was spent: retry_target, then the native state is read.
RetryAllowed(r) ==
    /\ r.outcome \in Spent /\ fence[r.endpoint] = r
    /\ CooldownElapsed(r.deadline)
    /\ State(r.delivery) = "pending"
    /\ WakeTarget(r.delivery) # Nobody
    /\ ~ClaimedBy(r.delivery, r.generation)

WorkerAsk(w) ==
    LET r == worker[w].item IN
    /\ worker[w].at = "waiting" /\ LockFree
    /\ RetryAllowed(r)
    /\ worker' = [worker EXCEPT ![w] = [at |-> "asked", item |-> r, was |-> worker[w].was,
                                       target |-> WakeTarget(r.delivery)]]
    /\ UNCHANGED <<clock, durable, marker, fence, scheduled, hook, restarts, submitted, spentAt>>

\* rearm_for_retry: a new prepared generation for the target that was read.
Rearmed(r, target) ==
    [endpoint |-> r.endpoint, delivery |-> r.delivery, container |-> target,
     generation |-> marker + 1, outcome |-> "prepared",
     deadline |-> IF r.deadline # 0 /\ r.deadline < clock THEN r.deadline ELSE clock]

WorkerRearm(w) ==
    LET r == worker[w].item
        n == Rearmed(r, worker[w].target)
    IN
    /\ worker[w].at = "asked" /\ LockFree
    /\ RetryAllowed(r) /\ WakeTarget(r.delivery) = worker[w].target
    /\ marker < MaxGeneration
    /\ marker' = marker + 1
    /\ fence' = [fence EXCEPT ![r.endpoint] = n]
    /\ worker' = [worker EXCEPT ![w] = [at |-> "ready", item |-> n, was |-> r, target |-> Nobody]]
    /\ UNCHANGED <<clock, durable, scheduled, hook, restarts, submitted, spentAt>>

\* The retry is not due, the target is busy, or the compare-and-swap is lost.
WorkerRetryDeferred(w) ==
    /\ worker[w].at \in {"waiting", "asked"} /\ LockFree
    /\ worker[w].item.outcome \in Spent
    /\ Stop(w, fence, Cleared(w))
    /\ UNCHANGED spentAt

\* The native write, still under the lock.
WorkerSubmit(w) ==
    /\ worker[w].at = "begun"
    /\ worker' = [worker EXCEPT ![w].at = "sent"]
    /\ submitted' = [submitted EXCEPT ![worker[w].item.generation] = @ + 1]
    /\ UNCHANGED <<clock, durable, marker, fence, scheduled, hook, restarts, spentAt>>

\* The process could not be started: nothing was written.
WorkerNotStarted(w) ==
    /\ worker[w].at = "begun"
    /\ worker' = [worker EXCEPT ![w].at = "failed"]
    /\ UNCHANGED <<clock, durable, marker, fence, scheduled, hook, restarts, submitted, spentAt>>

\* Only the queue path takes the spent reservation back, if it is still there;
\* with a retained service it stays spent.
WorkerFailed(w) ==
    LET r == worker[w].item
        back == ~Retained /\ fence[r.endpoint] = r
    IN
    /\ worker[w].at = "failed" /\ LockFree
    /\ Stop(w, IF Retained THEN fence ELSE Released(r),
            IF Retained \/ back THEN Cleared(w) ELSE scheduled)
    /\ spentAt' = IF back THEN [spentAt EXCEPT ![r.delivery] = 0] ELSE spentAt

\* The result of the write: accepted is recorded on a fence that is still the
\* same uncertain generation; anything else leaves the fence alone.  The queue
\* path keeps the schedule entry until the delivery is released.
WorkerFinish(w) ==
    LET r == worker[w].item
        f == fence[r.endpoint]
    IN
    /\ worker[w].at = "sent" /\ LockFree
    /\ \E accepted \in BOOLEAN :
          Stop(w, IF /\ accepted /\ f.outcome = "uncertain"
                     /\ f.generation = r.generation /\ f.delivery = r.delivery
                  THEN [fence EXCEPT ![r.endpoint].outcome = "accepted"] ELSE fence,
               IF Retained THEN Cleared(w) ELSE scheduled)
    /\ UNCHANGED spentAt

-----------------------------------------------------------------------------
(* The relay side. *)

Send(d, e) ==
    /\ delivery[d].state = "none" /\ session[e].active
    /\ delivery' = [delivery EXCEPT ![d] =
            [state |-> "pending", to |-> e, container |-> session[e].container,
             lease |-> 0, generation |-> 0]]
    /\ UNCHANGED <<clock, session, marker, fence, memory, submitted, spentAt>>

\* A claim by generation g of the hook, or by an ordinary turn (0).
Claim(d, g) ==
    /\ session[delivery[d].to].active
    /\ State(d) = "pending"
    /\ delivery' = [delivery EXCEPT ![d] =
            [state |-> "claimed", to |-> delivery[d].to, container |-> delivery[d].container,
             lease |-> clock + Lease, generation |-> g]]
    /\ spentAt' = [spentAt EXCEPT ![d] = 0]

OrdinaryTurn(d) ==
    /\ delivery[d].state # "none"
    /\ Claim(d, 0)
    /\ UNCHANGED <<clock, session, marker, fence, memory, submitted>>

\* The woken hook asks for exactly the delivery it was woken for: the route
\* first reads the fence, without the lock, ...
HookSnapshot(d) ==
    /\ hook[d] = NoHook
    /\ \E g \in Generations : submitted[g] > 0
    /\ delivery[d].state # "none" /\ session[delivery[d].to].active
    /\ LET e == delivery[d].to
           captured == fence[e].delivery = d /\ fence[e].container = session[e].container
       IN hook' = [hook EXCEPT ![d] =
              [container |-> session[e].container,
               generation |-> IF captured THEN fence[e].generation ELSE 0]]
    /\ UNCHANGED <<clock, durable, marker, fence, scheduled, worker, restarts, submitted, spentAt>>

\* ... and then claims, in another transaction.  The generation is stored with
\* the claim only for the scope the message was sent to.
HookClaim(d) ==
    /\ hook[d] # NoHook
    /\ session[delivery[d].to].container = hook[d].container
    /\ Claim(d, IF delivery[d].container = hook[d].container THEN hook[d].generation ELSE 0)
    /\ hook' = [hook EXCEPT ![d] = NoHook]
    /\ UNCHANGED <<clock, session, marker, fence, scheduled, worker, restarts, submitted>>

HookGivesUp(d) ==
    /\ hook[d] # NoHook
    /\ hook' = [hook EXCEPT ![d] = NoHook]
    /\ UNCHANGED <<clock, durable, marker, fence, scheduled, worker, restarts, submitted, spentAt>>

\* ACK or reply by the holder of the live claim.
Deliver(d) ==
    /\ LiveClaim(d)
    /\ delivery' = [delivery EXCEPT ![d].state = "delivered"]
    /\ UNCHANGED <<clock, session, marker, fence, memory, submitted, spentAt>>

Expire(d) ==
    /\ delivery[d].state \in {"pending", "claimed"}
    /\ delivery' = [delivery EXCEPT ![d].state = "expired"]
    /\ UNCHANGED <<clock, session, marker, fence, memory, submitted, spentAt>>

\* Close or unreachable, and the turn that brings the session back.
Toggle(e) ==
    /\ session' = [session EXCEPT ![e].active = ~@]
    /\ UNCHANGED <<clock, delivery, marker, fence, memory, submitted, spentAt>>

Move(e, c) ==
    /\ session[e].active /\ session[e].container # c
    /\ \A f \in Endpoints : RefOf[f] = RefOf[e] => session[f].container # c
    /\ session' = [session EXCEPT ![e].container = c]
    /\ UNCHANGED <<clock, delivery, marker, fence, memory, submitted, spentAt>>

SetClock ==
    /\ \E t \in 1 .. MaxClock :
          /\ t = clock + 1 \/ (Rollbacks /\ t < clock)
          /\ clock' = t
    /\ UNCHANGED <<durable, marker, fence, memory, submitted, spentAt>>

\* The service process dies, or is stopped, and starts again: threads, schedule
\* and requests are gone, the database is as it was.
Restart ==
    /\ restarts < MaxRestarts
    /\ restarts' = restarts + 1
    /\ scheduled' = [k \in Keys |-> NoSchedule]
    /\ worker' = [w \in Workers |-> Idle]
    /\ hook' = [d \in Deliveries |-> NoHook]
    /\ UNCHANGED <<clock, durable, marker, fence, submitted, spentAt>>

-----------------------------------------------------------------------------
WorkerNext(w) ==
    \/ WorkerDuplicate(w) \/ WorkerLaunch(w) \/ WorkerNotRun(w) \/ WorkerBegin(w)
    \/ WorkerAmbiguous(w) \/ WorkerRefused(w) \/ WorkerBusy(w)
    \/ WorkerAsk(w) \/ WorkerRearm(w) \/ WorkerRetryDeferred(w)
    \/ WorkerSubmit(w) \/ WorkerNotStarted(w) \/ WorkerFailed(w) \/ WorkerFinish(w)

RelayNext ==
    \/ \E d \in Deliveries :
          \/ \E e \in Endpoints : Send(d, e)
          \/ OrdinaryTurn(d) \/ HookSnapshot(d) \/ HookClaim(d) \/ HookGivesUp(d)
          \/ Deliver(d) \/ Expire(d)
    \/ \E e \in Endpoints : Toggle(e) \/ \E c \in Containers : Move(e, c)
    \/ SetClock

FenceNext ==
    \/ \E d \in Deliveries : Dispatch(d) \/ AckRelease(d)
    \/ \E e \in Endpoints : Reconcile(e)

Next == FenceNext \/ RelayNext \/ Restart \/ \E w \in Workers : WorkerNext(w)

Spec == Init /\ [][Next]_vars

\* The recovery sweep keeps running, started threads run, and the transaction
\* that spends a generation does not fail every time.
Fairness ==
    /\ \A e \in Endpoints : WF_vars(Reconcile(e))
    /\ \A w \in Workers : WF_vars(WorkerNext(w)) /\ SF_vars(WorkerBegin(w))

FairSpec == Spec /\ Fairness

-----------------------------------------------------------------------------
(* Properties *)

DeliveryRows ==
    [state : {"none", "pending", "claimed", "delivered", "expired"},
     to : Endpoints \cup {Nobody}, container : Containers \cup {Nobody},
     lease : Nat, generation : 0 .. MaxGeneration]

Threads ==
    [at : {"idle", "starting", "waiting", "asked", "ready", "begun", "sent", "failed"},
     item : Reservations \cup {NoFence}, was : Reservations \cup {NoFence},
     target : Containers \cup {Nobody}]

\* The rows pass _validate_wake_authority: a fence is filed under its own
\* endpoint and no generation is above the marker.
TypeOK ==
    /\ clock \in Nat /\ marker \in 0 .. MaxGeneration /\ restarts \in Nat
    /\ session \in [Endpoints -> [active : BOOLEAN, container : Containers]]
    /\ delivery \in [Deliveries -> DeliveryRows]
    /\ fence \in [Endpoints -> Reservations \cup {NoFence}]
    /\ scheduled \in [Keys -> [generation : 0 .. MaxGeneration, delivery : Deliveries \cup {Nobody}]]
    /\ worker \in [Workers -> Threads]
    /\ hook \in [Deliveries ->
          [container : Containers \cup {Nobody}, generation : 0 .. MaxGeneration]]
    /\ submitted \in [Generations -> Nat]
    /\ spentAt \in [Deliveries -> Nat]
    /\ \A e \in Endpoints : fence[e] # NoFence =>
          fence[e].endpoint = e /\ fence[e].generation <= marker

\* "Competing workers cannot submit the same generation twice": whatever
\* workers, sweeps, restarts and lost commit answers do, a generation is
\* written natively at most once.
OneSubmissionPerGeneration == \A g \in Generations : submitted[g] <= 1

\* A prepared reservation may be resumed after a crash: it has never been
\* written, by any thread, and none is about to write it.
PreparedNeverWritten ==
    \A e \in Endpoints : fence[e].outcome = "prepared" =>
        /\ submitted[fence[e].generation] = 0
        /\ \A w \in Workers :
              worker[w].at = "begun" => worker[w].item.generation # fence[e].generation

\* A fence whose wake was written stays across restarts, moves and closes until
\* its delivery is finished; it is only replaced by a newer generation for the
\* same delivery, and not while a claim is live.
WrittenFenceHeld ==
    [][\A e \in Endpoints :
         (/\ fence[e] # NoFence /\ submitted[fence[e].generation] > 0
          /\ fence'[e].generation # fence[e].generation) =>
             \/ Terminal(fence[e].delivery)
             \/ /\ fence'[e].delivery = fence[e].delivery
                /\ ~LiveClaim(fence[e].delivery)]_vars

\* "Pallium does not blindly resubmit": once a wake for a delivery was spent and
\* nobody has claimed the delivery since, the queue path never wakes for it
\* again, and the retained service, on a clock that is not set back, not before
\* a cooldown has passed; restarts, moves and releases included.
RetrySpaced ==
    [][\A e \in Endpoints :
         (fence[e].outcome = "prepared" /\ fence'[e].outcome = "uncertain") =>
             \/ spentAt[fence[e].delivery] = 0
             \/ Retained /\ clock >= spentAt[fence[e].delivery] + Cooldown]_vars

\* "Recovery can resume that exact generation after a restart": a prepared
\* reservation is not forgotten.  It is spent or released, unless its delivery
\* stops being pending, its session leaves the target it was prepared for, the
\* clock is set back behind the deadline of a rearmed one, or it must be replaced
\* and the generations have run out.
PreparedResolves ==
    \A e \in Endpoints, g \in Generations :
        (fence[e].outcome = "prepared" /\ fence[e].generation = g) ~>
            \/ fence[e].outcome # "prepared" \/ fence[e].generation # g
            \/ State(fence[e].delivery) # "pending"
            \/ WakeTarget(fence[e].delivery) # fence[e].container
            \/ clock < fence[e].deadline
            \/ ClaimLapsed(fence[e]) /\ marker = MaxGeneration

\* The wall clock may be set back behind the deadline of a wake that was spent.
\* Recovery does not wait until the clock has caught up: the deadline is brought
\* within two cooldowns, unless the delivery stops being pending or the generations
\* have run out.
RollbackRecovers ==
    \A e \in Endpoints :
        (fence[e].outcome \in Spent /\ fence[e].deadline > clock + 2 * Cooldown) ~>
            \/ fence[e].outcome \notin Spent \/ fence[e].deadline <= clock + 2 * Cooldown
            \/ State(fence[e].delivery) # "pending" \/ marker = MaxGeneration

=============================================================================
