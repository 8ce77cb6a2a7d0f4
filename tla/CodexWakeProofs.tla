--------------------------- MODULE CodexWakeProofs ---------------------------
(***************************************************************************)
(* Proofs about CodexWake, for any endpoints, deliveries, workers, clocks  *)
(* and restarts.  The inductive invariant has three layers: TypeInv, the   *)
(* types with the worker threads' reservations in them, GenInv, which says *)
(* where a generation may still be written from, and SpacedInv, which says *)
(* what keeps a delivery from being woken for again too early.             *)
(***************************************************************************)
EXTENDS CodexWake, TLAPS

Schedules == [Keys -> [generation : 0 .. MaxGeneration, delivery : Deliveries \cup {Nobody}]]

RelayTypes ==
    /\ clock \in Nat /\ restarts \in Nat
    /\ session \in [Endpoints -> [active : BOOLEAN, container : Containers]]
    /\ delivery \in [Deliveries -> DeliveryRows]
    /\ hook \in [Deliveries ->
          [container : Containers \cup {Nobody}, generation : 0 .. MaxGeneration]]
    /\ spentAt \in [Deliveries -> Nat]
    /\ \A d \in Deliveries : delivery[d].state # "none" => delivery[d].to \in Endpoints

FenceTypes ==
    /\ marker \in 0 .. MaxGeneration
    /\ fence \in [Endpoints -> Reservations \cup {NoFence}]
    /\ \A e \in Endpoints : fence[e] # NoFence =>
          /\ fence[e].endpoint = e /\ fence[e].generation <= marker
          /\ delivery[fence[e].delivery].to = e
          /\ delivery[fence[e].delivery].state # "none"

WorkerTypes ==
    /\ worker \in [Workers -> Threads]
    /\ \A w \in Workers :
        /\ worker[w].at # "idle" =>
              worker[w].item \in Reservations /\ worker[w].item.generation <= marker
        /\ worker[w].at = "asked" => worker[w].target \in Containers

TypeInv ==
    /\ RelayTypes /\ FenceTypes /\ WorkerTypes
    /\ scheduled \in Schedules
    /\ submitted \in [Generations -> Nat]

-----------------------------------------------------------------------------
(* Lemmas about the operators. *)

\* NoFence is no reservation: its endpoint is SQL NULL.
LEMMA NoFenceIsNone == NoFence \notin Reservations
BY CodexWakeAssumption DEF NoFence, Reservations

\* Clearing a key keeps the schedule well typed.
LEMMA ClearType ==
    ASSUME NEW sched \in Schedules, NEW r
    PROVE  Clear(sched, r) \in Schedules
<1>1. NoSchedule \in [generation : 0 .. MaxGeneration, delivery : Deliveries \cup {Nobody}]
  BY CodexWakeAssumption DEF NoSchedule
<1>2. ASSUME NEW k PROVE [sched EXCEPT ![k] = NoSchedule] \in Schedules
  BY <1>1 DEF Schedules
<1> QED
  BY <1>2 DEF Clear

\* The reservation that reserve and reconcile create is a row of the table.
LEMMA PreparedType ==
    ASSUME TypeInv, NEW d \in Deliveries, delivery[d].to \in Endpoints,
           WakeTarget(d) # Nobody, marker < MaxGeneration
    PROVE  /\ Prepared(d) \in Reservations
           /\ Prepared(d).endpoint = delivery[d].to
           /\ Prepared(d).delivery = d
           /\ Prepared(d).generation = marker + 1
           /\ Prepared(d).outcome = "prepared"
<1>1. session[delivery[d].to] \in [active : BOOLEAN, container : Containers]
  BY DEF TypeInv, RelayTypes
<1>2. WakeTarget(d) \in Containers
  BY <1>1 DEF WakeTarget
<1>3. marker + 1 \in Generations
  BY CodexWakeAssumption DEF TypeInv, FenceTypes, Generations
<1> QED
  BY <1>2, <1>3 DEF Prepared, Reservations

\* Spending a reservation changes its outcome and its deadline only.
LEMMA SpentType ==
    ASSUME NEW r \in Reservations, clock \in Nat
    PROVE  /\ SpentItem(r) \in Reservations
           /\ SpentItem(r).endpoint = r.endpoint
           /\ SpentItem(r).delivery = r.delivery
           /\ SpentItem(r).generation = r.generation
           /\ SpentItem(r).outcome = "uncertain"
BY CodexWakeAssumption DEF SpentItem, Reservations, Spent

\* A delivery with a wake state has been sent.
LEMMA PendingIsSent ==
    ASSUME TypeInv, NEW d \in Deliveries, State(d) = "pending"
    PROVE  delivery[d].to \in Endpoints /\ delivery[d].state \in {"pending", "claimed"}
BY DEF TypeInv, RelayTypes, State, DeliveryRows

\* What a fence holds.
LEMMA FenceRow ==
    ASSUME TypeInv, NEW e \in Endpoints, fence[e] # NoFence
    PROVE  /\ fence[e] \in Reservations
           /\ fence[e].endpoint = e
           /\ fence[e].delivery \in Deliveries
           /\ fence[e].container \in Containers
           /\ fence[e].generation \in Generations
           /\ fence[e].generation <= marker
           /\ fence[e].outcome \in {"prepared"} \cup Spent
           /\ fence[e].deadline \in Nat
           /\ delivery[fence[e].delivery].to = e
           /\ delivery[fence[e].delivery].state # "none"
BY DEF TypeInv, FenceTypes, Reservations

\* A thread that carries a reservation.
LEMMA ThreadType ==
    ASSUME NEW r \in Reservations, NEW at \in {"starting", "waiting"}
    PROVE  /\ Thread(at, r) \in Threads
           /\ Thread(at, r).at = at /\ Thread(at, r).item = r
BY DEF Thread, Threads

\* Taking a key keeps the schedule well typed.
LEMMA TakeType ==
    ASSUME NEW sched \in Schedules, NEW r \in Reservations
    PROVE  Take(sched, r) \in Schedules
<1>1. Entry(r) \in [generation : 0 .. MaxGeneration, delivery : Deliveries \cup {Nobody}]
  BY DEF Entry, Reservations, Generations
<1> QED
  BY <1>1 DEF Take, Schedules

\* What handing reservation r on does to the threads: one idle thread takes it.
LEMMA StartEffect ==
    ASSUME TypeInv, NEW r \in Reservations, NEW table, NEW sched \in Schedules,
           NEW at \in {"starting", "waiting"}, Start(at, r, table, sched)
    PROVE  /\ fence' = table
           /\ scheduled' \in Schedules
           /\ worker' \in [Workers -> Threads]
           /\ \A w \in Workers : worker'[w] = worker[w] \/ worker'[w] = Thread(at, r)
BY ThreadType DEF Start, TypeInv, WorkerTypes

\* The type layer says more than TypeOK.
LEMMA TypeInvImplies == TypeInv => TypeOK
BY DEF TypeInv, RelayTypes, FenceTypes, WorkerTypes, Schedules, TypeOK

\* The type layer holds initially.
LEMMA TypeInvInit == Init => TypeInv
<1> SUFFICES ASSUME Init PROVE TypeInv
  OBVIOUS
<1>1. RelayTypes
  <2>1. session \in [Endpoints -> [active : BOOLEAN, container : Containers]]
    <3>1. [active : {TRUE}, container : Containers] \subseteq [active : BOOLEAN, container : Containers]
      OBVIOUS
    <3> QED
      BY <3>1 DEF Init
  <2>2. NoDelivery \in DeliveryRows /\ NoDelivery.state = "none"
    BY CodexWakeAssumption DEF NoDelivery, DeliveryRows
  <2>3. NoHook \in [container : Containers \cup {Nobody}, generation : 0 .. MaxGeneration]
    BY CodexWakeAssumption DEF NoHook
  <2> QED
    BY <2>1, <2>2, <2>3 DEF Init, RelayTypes
<1>2. FenceTypes
  BY CodexWakeAssumption DEF Init, FenceTypes
<1>3. WorkerTypes
  BY CodexWakeAssumption DEF Init, WorkerTypes, Threads, Idle
<1>4. scheduled \in Schedules
  BY CodexWakeAssumption DEF Init, Schedules, NoSchedule
<1>5. submitted \in [Generations -> Nat]
  BY DEF Init
<1> QED
  BY <1>1, <1>2, <1>3, <1>4, <1>5 DEF TypeInv

-----------------------------------------------------------------------------
(* The relay side keeps its types; it does not touch fences or threads. *)

RelayStep ==
    /\ RelayTypes'
    /\ UNCHANGED <<marker, fence, scheduled, worker, submitted>>
    /\ \A d \in Deliveries : delivery[d].state # "none" =>
          delivery'[d].to = delivery[d].to /\ delivery'[d].state # "none"

\* What the relay does to deliveries and turns keeps their types.
LEMMA RelayTypesNext ==
    ASSUME TypeInv, RelayNext
    PROVE  RelayStep
<1> USE CodexWakeAssumption DEF RelayTypes, TypeInv, RelayStep
<1>1. ASSUME NEW d \in Deliveries, NEW e \in Endpoints, Send(d, e)
      PROVE RelayStep
  BY <1>1 DEF Send, memory, DeliveryRows
<1>2. ASSUME NEW d \in Deliveries, OrdinaryTurn(d)
      PROVE RelayStep
  BY <1>2, PendingIsSent DEF OrdinaryTurn, Claim, memory, DeliveryRows
<1>3. ASSUME NEW d \in Deliveries, HookSnapshot(d)
      PROVE RelayStep
  <2>1. delivery[d].to \in Endpoints
    BY <1>3 DEF HookSnapshot
  <2>2. fence[delivery[d].to].generation \in 0 .. MaxGeneration
    <3>1. fence[delivery[d].to] \in Reservations \cup {NoFence}
      BY <2>1 DEF FenceTypes
    <3> QED
      BY <3>1 DEF Reservations, Generations, NoFence
  <2>3. session[delivery[d].to].container \in Containers
    BY <2>1
  <2> QED
    BY <1>3, <2>2, <2>3 DEF HookSnapshot, durable
<1>4. ASSUME NEW d \in Deliveries, HookClaim(d)
      PROVE RelayStep
  BY <1>4, PendingIsSent DEF HookClaim, Claim, DeliveryRows, NoHook
<1>5. ASSUME NEW d \in Deliveries, HookGivesUp(d)
      PROVE RelayStep
  BY <1>5 DEF HookGivesUp, durable, NoHook
<1>6. ASSUME NEW d \in Deliveries, Deliver(d)
      PROVE RelayStep
  <2>2. [delivery[d] EXCEPT !.state = "delivered"] \in DeliveryRows
    BY DEF DeliveryRows
  <2>3. delivery[d].to \in Endpoints
    BY <1>6 DEF Deliver, LiveClaim, State
  <2>4. [delivery[d] EXCEPT !.state = "delivered"].to = delivery[d].to
    BY DEF DeliveryRows
  <2>5. delivery' = [delivery EXCEPT ![d] = [delivery[d] EXCEPT !.state = "delivered"]]
    BY <1>6 DEF Deliver
  <2>6. UNCHANGED <<clock, session, marker, fence, memory, submitted, spentAt>>
    BY <1>6 DEF Deliver
  <2>7. delivery' \in [Deliveries -> DeliveryRows]
    BY <2>2, <2>5
  <2>8. \A x \in Deliveries : delivery'[x].state # "none" => delivery'[x].to \in Endpoints
    BY <2>3, <2>4, <2>5
  <2>9. \A x \in Deliveries : delivery[x].state # "none" =>
           delivery'[x].to = delivery[x].to /\ delivery'[x].state # "none"
    <3>1. [delivery[d] EXCEPT !.state = "delivered"].state = "delivered"
      BY DEF DeliveryRows
    <3> QED
      BY <2>4, <2>5, <3>1
  <2> QED
    BY <2>4, <2>5, <2>6, <2>7, <2>8, <2>9 DEF memory
<1>7. ASSUME NEW d \in Deliveries, Expire(d)
      PROVE RelayStep
  <2>2. [delivery[d] EXCEPT !.state = "expired"] \in DeliveryRows
    BY DEF DeliveryRows
  <2>3. delivery[d].to \in Endpoints
    BY <1>7 DEF Expire
  <2>4. [delivery[d] EXCEPT !.state = "expired"].to = delivery[d].to
    BY DEF DeliveryRows
  <2>5. delivery' = [delivery EXCEPT ![d] = [delivery[d] EXCEPT !.state = "expired"]]
    BY <1>7 DEF Expire
  <2>6. UNCHANGED <<clock, session, marker, fence, memory, submitted, spentAt>>
    BY <1>7 DEF Expire
  <2>7. delivery' \in [Deliveries -> DeliveryRows]
    BY <2>2, <2>5
  <2>8. \A x \in Deliveries : delivery'[x].state # "none" => delivery'[x].to \in Endpoints
    BY <2>3, <2>4, <2>5
  <2>9. \A x \in Deliveries : delivery[x].state # "none" =>
           delivery'[x].to = delivery[x].to /\ delivery'[x].state # "none"
    <3>1. [delivery[d] EXCEPT !.state = "expired"].state = "expired"
      BY DEF DeliveryRows
    <3> QED
      BY <2>4, <2>5, <3>1
  <2> QED
    BY <2>4, <2>5, <2>6, <2>7, <2>8, <2>9 DEF memory
<1>8. ASSUME NEW e \in Endpoints, Toggle(e)
      PROVE RelayStep
  BY <1>8 DEF Toggle, memory
<1>9. ASSUME NEW e \in Endpoints, NEW c \in Containers, Move(e, c)
      PROVE RelayStep
  BY <1>9 DEF Move, memory
<1>10. ASSUME SetClock
       PROVE RelayStep
  BY <1>10 DEF SetClock, durable, memory
<1> QED
  BY <1>1, <1>2, <1>3, <1>4, <1>5, <1>6, <1>7, <1>8, <1>9, <1>10 DEF RelayNext

-----------------------------------------------------------------------------
(* The four shapes of a step, as the generations see it. *)

Fired == {"begun", "sent", "failed"}

\* Thread w does not fire a generation in this step.
Quiet(w) ==
    \/ worker'[w] = worker[w]
    \/ worker'[w].at \notin Fired
    \/ /\ worker[w].at = "begun" /\ worker'[w].at = "failed"
       /\ worker'[w].item = worker[w].item

\* The fence of e stays, goes, or stays spent.
Sustained(e) ==
    \/ fence'[e] = fence[e]
    \/ fence'[e] = NoFence
    \/ /\ fence[e] # NoFence /\ fence'[e].generation = fence[e].generation
       /\ fence'[e].outcome \in Spent

KeepStep ==
    /\ UNCHANGED <<marker, submitted>>
    /\ \A w \in Workers : Quiet(w)
    /\ \A e \in Endpoints : Sustained(e)

FreshStep ==
    \E e \in Endpoints :
        /\ marker' = marker + 1 /\ UNCHANGED submitted
        /\ fence'[e].generation = marker + 1
        /\ \A f \in Endpoints \ {e} : fence'[f] = fence[f]
        /\ \A w \in Workers : Quiet(w)

BeginStep ==
    \E e \in Endpoints, v \in Workers :
        /\ UNCHANGED <<marker, submitted>>
        /\ fence[e] # NoFence /\ fence[e].outcome = "prepared"
        /\ fence'[e].generation = fence[e].generation /\ fence'[e].outcome = "uncertain"
        /\ \A f \in Endpoints \ {e} : fence'[f] = fence[f]
        /\ \A w \in Workers \ {v} : worker'[w] = worker[w]
        /\ \/ worker'[v].at \notin Fired
           \/ worker'[v].at = "begun" /\ worker'[v].item.generation = fence[e].generation

SubmitStep ==
    \E v \in Workers :
        /\ UNCHANGED <<marker, fence>>
        /\ worker[v].at = "begun" /\ worker'[v].at = "sent"
        /\ worker'[v].item = worker[v].item
        /\ \A w \in Workers \ {v} : worker'[w] = worker[w]
        /\ submitted' = [submitted EXCEPT ![worker[v].item.generation] = @ + 1]

WakeStep == KeepStep \/ FreshStep \/ BeginStep \/ SubmitStep

\* Types of the fences when one of them changes.
LEMMA FenceTypesKept ==
    ASSUME TypeInv, marker' \in 0 .. MaxGeneration, marker <= marker',
           NEW e \in Endpoints, NEW r,
           r = NoFence \/
              (/\ r \in Reservations /\ r.endpoint = e /\ r.generation <= marker'
               /\ delivery[r.delivery].to = e /\ delivery[r.delivery].state # "none"),
           delivery' = delivery,
           fence' = [fence EXCEPT ![e] = r]
    PROVE  FenceTypes'
<1>1. \A f \in Endpoints : fence[f] \in Reservations => fence[f].generation \in Nat
  BY CodexWakeAssumption DEF Reservations, Generations
<1>2. marker \in Nat /\ marker' \in Nat
  BY CodexWakeAssumption DEF TypeInv, FenceTypes
<1> QED
  BY <1>1, <1>2 DEF TypeInv, FenceTypes

\* Types of the threads when one of them changes.
LEMMA WorkerTypesKept ==
    ASSUME TypeInv, marker' \in 0 .. MaxGeneration, marker <= marker',
           NEW w \in Workers, NEW t \in Threads,
           t.at # "idle" => t.item \in Reservations /\ t.item.generation <= marker',
           t.at = "asked" => t.target \in Containers,
           worker' = [worker EXCEPT ![w] = t]
    PROVE  WorkerTypes'
<1>1. \A v \in Workers : worker[v].item \in Reservations => worker[v].item.generation \in Nat
  BY CodexWakeAssumption DEF Reservations, Generations
<1>2. marker \in Nat /\ marker' \in Nat
  BY CodexWakeAssumption DEF TypeInv, FenceTypes
<1> QED
  BY <1>1, <1>2 DEF TypeInv, WorkerTypes

\* Threads after the marker advances or a starting thread is added.
LEMMA WorkerTypesScheduled ==
    ASSUME TypeInv, marker' \in 0 .. MaxGeneration, marker <= marker',
           NEW r \in Reservations, r.generation <= marker',
           NEW at \in {"starting", "waiting"}, worker' \in [Workers -> Threads],
           \A w \in Workers : worker'[w] = worker[w] \/ worker'[w] = Thread(at, r)
    PROVE  WorkerTypes' /\ \A w \in Workers : Quiet(w)
<1>1. \A v \in Workers : worker[v].item \in Reservations => worker[v].item.generation \in Nat
  BY CodexWakeAssumption DEF Reservations, Generations
<1>2. marker \in Nat /\ marker' \in Nat
  BY CodexWakeAssumption DEF TypeInv, FenceTypes
<1>3. WorkerTypes'
  BY <1>1, <1>2, ThreadType DEF TypeInv, WorkerTypes
<1> QED
  BY <1>3, ThreadType DEF Quiet, Fired

-----------------------------------------------------------------------------
(* Dispatch, the sweep and the release after an ACK. *)

\* A new generation for the fence of the recipient of d.
LEMMA FreshScheduled ==
    ASSUME TypeInv, NEW d \in Deliveries, NEW e \in Endpoints, delivery[d].to = e,
           delivery[d].state # "none", WakeTarget(d) # Nobody,
           marker < MaxGeneration, marker' = marker + 1,
           NEW sched \in Schedules, NEW at \in {"starting", "waiting"},
           Start(at, Prepared(d), [fence EXCEPT ![e] = Prepared(d)], sched),
           UNCHANGED <<clock, session, delivery, hook, restarts, submitted, spentAt>>
    PROVE  TypeInv' /\ FreshStep
<1>2. /\ Prepared(d) \in Reservations /\ Prepared(d).endpoint = e
      /\ Prepared(d).generation = marker + 1 /\ Prepared(d).delivery = d
  BY PreparedType
<1>3. marker' \in 0 .. MaxGeneration /\ marker <= marker' /\ Prepared(d).generation <= marker'
  BY <1>2, CodexWakeAssumption DEF TypeInv, FenceTypes
<1>5. /\ fence' = [fence EXCEPT ![e] = Prepared(d)]
      /\ scheduled' \in Schedules
      /\ worker' \in [Workers -> Threads]
      /\ \A w \in Workers : worker'[w] = worker[w] \/ worker'[w] = Thread(at, Prepared(d))
  BY <1>2, StartEffect
<1>6. FenceTypes'
  BY <1>2, <1>3, <1>5, FenceTypesKept
<1>7. WorkerTypes' /\ \A w \in Workers : Quiet(w)
  BY <1>2, <1>3, <1>5, WorkerTypesScheduled
<1>8. RelayTypes' /\ submitted' \in [Generations -> Nat]
  BY DEF TypeInv, RelayTypes
<1>9. FreshStep
  <2>1. fence'[e].generation = marker + 1 /\ \A f \in Endpoints \ {e} : fence'[f] = fence[f]
    BY <1>2, <1>5 DEF TypeInv, FenceTypes
  <2> QED
    BY <1>7, <2>1 DEF FreshStep
<1> QED
  BY <1>5, <1>6, <1>7, <1>8, <1>9 DEF TypeInv

\* reserve keeps the type layer.
LEMMA DispatchStep ==
    ASSUME TypeInv, NEW d \in Deliveries, Dispatch(d)
    PROVE  TypeInv' /\ FreshStep
<1>1. delivery[d].to \in Endpoints /\ delivery[d].state # "none"
  BY PendingIsSent DEF Dispatch
<1>2. /\ WakeTarget(d) # Nobody /\ marker < MaxGeneration /\ marker' = marker + 1
      /\ UNCHANGED <<clock, session, delivery, hook, restarts, submitted, spentAt>>
      /\ Start("waiting", Prepared(d), [fence EXCEPT ![delivery[d].to] = Prepared(d)],
               Take(Clear(scheduled, fence[delivery[d].to]), Prepared(d)))
  BY DEF Dispatch, durable
<1>3. Take(Clear(scheduled, fence[delivery[d].to]), Prepared(d)) \in Schedules
  BY <1>1, <1>2, PreparedType, ClearType, TakeType DEF TypeInv
<1> QED
  BY <1>1, <1>2, <1>3, FreshScheduled

\* So does the release by an ACK.
LEMMA AckReleaseStep ==
    ASSUME TypeInv, NEW d \in Deliveries, AckRelease(d)
    PROVE  TypeInv' /\ KeepStep
<1>1. PICK e \in Endpoints :
         /\ fence' = [fence EXCEPT ![e] = NoFence]
         /\ scheduled' = Clear(scheduled, fence[e])
  BY DEF AckRelease
<1>2. UNCHANGED <<clock, session, delivery, marker, worker, hook, restarts, submitted, spentAt>>
  BY DEF AckRelease, durable
<1>3. marker' \in 0 .. MaxGeneration /\ marker <= marker'
  BY <1>2, CodexWakeAssumption DEF TypeInv, FenceTypes
<1>4. FenceTypes'
  BY <1>1, <1>2, <1>3, FenceTypesKept
<1>5. scheduled' \in Schedules
  BY <1>1, ClearType DEF TypeInv
<1>6. TypeInv'
  BY <1>2, <1>4, <1>5 DEF TypeInv, RelayTypes, WorkerTypes
<1>7. KeepStep
  BY <1>1, <1>2 DEF KeepStep, Quiet, Sustained, TypeInv, FenceTypes
<1> QED
  BY <1>6, <1>7

\* So does reconcile.
LEMMA ReconcileStep ==
    ASSUME TypeInv, NEW e \in Endpoints, Reconcile(e)
    PROVE  TypeInv' /\ (KeepStep \/ FreshStep)
<1> DEFINE r == fence[e]
<1>1. /\ r # NoFence
      /\ UNCHANGED <<clock, session, delivery, hook, restarts, submitted, spentAt>>
  BY DEF Reconcile, durable
<1>2. /\ r \in Reservations /\ r.endpoint = e /\ r.delivery \in Deliveries
      /\ r.generation <= marker
      /\ delivery[r.delivery].to = e /\ delivery[r.delivery].state # "none"
  BY <1>1, FenceRow
<1>3. RelayTypes' /\ submitted' \in [Generations -> Nat] /\ submitted' = submitted
  BY <1>1 DEF TypeInv, RelayTypes
<1>4. marker \in 0 .. MaxGeneration /\ marker <= marker
  BY CodexWakeAssumption DEF TypeInv, FenceTypes
<1>5. Clear(scheduled, r) \in Schedules
  BY ClearType DEF TypeInv
<1>6. CASE ReconcileReleased(e)
  <2>1. fence' = [fence EXCEPT ![e] = NoFence] /\ scheduled' \in Schedules
        /\ marker' = marker /\ worker' = worker
    BY <1>5, <1>6 DEF ReconcileReleased
  <2>2. FenceTypes'
    BY <1>1, <1>4, <2>1, FenceTypesKept
  <2> QED
    BY <1>3, <2>1, <2>2
    DEF TypeInv, WorkerTypes, FenceTypes, KeepStep, Quiet, Sustained
<1>7. CASE ReconcileReplaced(e)
  <2>1. /\ WakeTarget(r.delivery) # Nobody /\ marker < MaxGeneration /\ marker' = marker + 1
        /\ Start("starting", Prepared(r.delivery), [fence EXCEPT ![e] = Prepared(r.delivery)],
                 Clear(scheduled, r))
    BY <1>7 DEF ReconcileReplaced, ClaimLapsed
  <2> HIDE DEF r
  <2> QED
    BY <1>1, <1>2, <1>5, <2>1, FreshScheduled
<1>8. ASSUME Start("starting", r, fence, scheduled), marker' = marker
      PROVE  TypeInv' /\ KeepStep
  <2> HIDE DEF r
  <2>1. /\ fence' = fence
        /\ scheduled' \in Schedules
        /\ worker' \in [Workers -> Threads]
        /\ \A w \in Workers : worker'[w] = worker[w] \/ worker'[w] = Thread("starting", r)
    BY <1>2, <1>8, StartEffect DEF TypeInv
  <2>2. WorkerTypes' /\ \A w \in Workers : Quiet(w)
    BY <1>2, <1>4, <1>8, <2>1, WorkerTypesScheduled
  <2>3. FenceTypes'
    BY <1>1, <1>8, <2>1 DEF TypeInv, FenceTypes
  <2> QED
    BY <1>3, <1>8, <2>1, <2>2, <2>3 DEF TypeInv, KeepStep, Sustained
<1>9. CASE ReconcileResume(e)
  BY <1>8, <1>9 DEF ReconcileResume
<1>10. CASE ReconcileRetry(e)
  BY <1>8, <1>10 DEF ReconcileRetry
<1>11. CASE ReconcileClamped(e)
  <2> DEFINE n == [r EXCEPT !.deadline = clock + Cooldown]
  <2>1. /\ n \in Reservations /\ n.endpoint = r.endpoint /\ n.delivery = r.delivery
        /\ n.generation = r.generation /\ n.outcome = r.outcome
    <3>1. clock + Cooldown \in Nat
      BY CodexWakeAssumption DEF TypeInv, RelayTypes
    <3> HIDE DEF r
    <3> QED
      BY <1>2, <3>1 DEF Reservations
  <2>2. /\ fence' = [fence EXCEPT ![e] = n] /\ scheduled' \in Schedules
        /\ marker' = marker /\ worker' = worker /\ r.outcome \in Spent
    BY <1>5, <1>11 DEF ReconcileClamped
  <2>3. FenceTypes'
    <3> HIDE DEF n, r
    <3> QED
      BY <1>1, <1>2, <1>4, <2>1, <2>2, FenceTypesKept
  <2>4. Sustained(e) /\ \A f \in Endpoints \ {e} : fence'[f] = fence[f]
    <3> HIDE DEF n
    <3> QED
      BY <1>1, <2>1, <2>2 DEF TypeInv, FenceTypes, Sustained
  <2> HIDE DEF n
  <2> QED
    BY <1>3, <2>2, <2>3, <2>4 DEF TypeInv, WorkerTypes, KeepStep, Quiet, Sustained
<1> QED
  BY <1>6, <1>7, <1>9, <1>10, <1>11 DEF Reconcile

-----------------------------------------------------------------------------
(* The threads. *)

\* What a thread that is not idle carries.
LEMMA ThreadItem ==
    ASSUME TypeInv, NEW w \in Workers, worker[w].at # "idle"
    PROVE  /\ worker[w].item \in Reservations
           /\ worker[w].item.endpoint \in Endpoints
           /\ worker[w].item.delivery \in Deliveries
           /\ worker[w].item.generation \in Generations
           /\ worker[w].item.generation <= marker
           /\ worker[w].was \in Reservations \cup {NoFence}
BY DEF TypeInv, WorkerTypes, Threads, Reservations

\* A thread that moves on without touching the relay, the marker or its key.
LEMMA ThreadMoves ==
    ASSUME TypeInv, NEW w \in Workers, NEW t \in Threads,
           t.at # "idle" => t.item \in Reservations /\ t.item.generation <= marker,
           t.at = "asked" => t.target \in Containers,
           worker' = [worker EXCEPT ![w] = t],
           UNCHANGED <<clock, session, delivery, hook, restarts, marker>>,
           spentAt' \in [Deliveries -> Nat],
           submitted' \in [Generations -> Nat],
           scheduled' \in Schedules,
           FenceTypes'
    PROVE  TypeInv' /\ \A v \in Workers \ {w} : worker'[v] = worker[v]
<1>1. marker' \in 0 .. MaxGeneration /\ marker <= marker' /\ marker' = marker
  BY CodexWakeAssumption DEF TypeInv, FenceTypes
<1>2. WorkerTypes'
  BY <1>1, WorkerTypesKept
<1> QED
  BY <1>2 DEF TypeInv, RelayTypes, WorkerTypes

\* The schedule and the fences a stopping thread may leave.
LEMMA ClearedType ==
    ASSUME TypeInv, NEW w \in Workers
    PROVE  Cleared(w) \in Schedules
BY ClearType DEF Cleared, TypeInv

\* So does a thread that stops.
LEMMA StopStep ==
    ASSUME TypeInv, NEW w \in Workers, NEW table, NEW sched \in Schedules, Stop(w, table, sched),
           spentAt' \in [Deliveries -> Nat], FenceTypes'
    PROVE  /\ TypeInv'
           /\ \A v \in Workers : Quiet(v)
           /\ \A v \in Workers \ {w} : worker'[v] = worker[v]
           /\ worker'[w].at \notin Fired
           /\ UNCHANGED <<marker, submitted>>
<1>1. Idle \in Threads /\ Idle.at = "idle"
  BY CodexWakeAssumption DEF Idle, Threads
<1>2. scheduled' \in Schedules
  BY DEF Stop
<1>3. UNCHANGED <<clock, session, delivery, hook, restarts, marker, submitted>>
  BY DEF Stop, durable
<1>4. worker' = [worker EXCEPT ![w] = Idle]
  BY DEF Stop
<1>5. submitted' \in [Generations -> Nat]
  BY <1>3 DEF TypeInv
<1>6. TypeInv' /\ \A v \in Workers \ {w} : worker'[v] = worker[v]
  BY <1>1, <1>2, <1>3, <1>4, <1>5, ThreadMoves
<1>7. worker'[w] = Idle
  BY <1>4 DEF TypeInv, WorkerTypes
<1> QED
  BY <1>1, <1>3, <1>6, <1>7 DEF Quiet, Fired

\* Releasing an exact reservation, or leaving the fences alone.
LEMMA ReleasedStep ==
    ASSUME TypeInv, NEW r \in Reservations, UNCHANGED <<marker, delivery>>,
           fence' = fence \/ fence' = Released(r)
    PROVE  FenceTypes' /\ \A e \in Endpoints : Sustained(e)
<1>1. marker' \in 0 .. MaxGeneration /\ marker <= marker'
  BY CodexWakeAssumption DEF TypeInv, FenceTypes
<1>2. CASE fence' = fence
  BY <1>2 DEF TypeInv, FenceTypes, Sustained
<1>3. CASE fence' = [fence EXCEPT ![r.endpoint] = NoFence]
  <2>1. r.endpoint \in Endpoints
    BY DEF Reservations
  <2>2. FenceTypes'
    BY <1>1, <1>3, <2>1, FenceTypesKept
  <2> QED
    BY <1>3, <2>1, <2>2 DEF TypeInv, FenceTypes, Sustained
<1> QED
  BY <1>2, <1>3 DEF Released

\* The fences after the transaction that spends reservation r.
LEMMA SpendStep ==
    ASSUME TypeInv, NEW r \in Reservations, BeginAllowed(r), UNCHANGED <<marker, delivery>>,
           fence' = [fence EXCEPT ![r.endpoint] = SpentItem(r)]
    PROVE  /\ FenceTypes'
           /\ r.endpoint \in Endpoints
           /\ fence[r.endpoint] # NoFence /\ fence[r.endpoint].outcome = "prepared"
           /\ fence[r.endpoint].generation = r.generation
           /\ fence'[r.endpoint].generation = r.generation
           /\ fence'[r.endpoint].outcome = "uncertain"
           /\ \A f \in Endpoints \ {r.endpoint} : fence'[f] = fence[f]
<1>1. r.endpoint \in Endpoints /\ fence[r.endpoint] = r /\ r.outcome = "prepared"
  BY DEF BeginAllowed, Reservations
<1>2. r # NoFence
  BY NoFenceIsNone
<1>3. /\ SpentItem(r) \in Reservations /\ SpentItem(r).endpoint = r.endpoint
      /\ SpentItem(r).delivery = r.delivery /\ SpentItem(r).generation = r.generation
      /\ SpentItem(r).outcome = "uncertain"
  BY SpentType DEF TypeInv, RelayTypes
<1>4. /\ delivery[r.delivery].to = r.endpoint /\ delivery[r.delivery].state # "none"
      /\ r.generation <= marker
  BY <1>1, <1>2, FenceRow
<1>5. marker' \in 0 .. MaxGeneration /\ marker <= marker' /\ marker' = marker
  BY CodexWakeAssumption DEF TypeInv, FenceTypes
<1>6. FenceTypes'
  BY <1>1, <1>3, <1>4, <1>5, FenceTypesKept
<1> QED
  BY <1>1, <1>2, <1>3, <1>6 DEF TypeInv, FenceTypes

\* So does begin_native_attempt.
LEMMA WorkerBeginStep ==
    ASSUME TypeInv, NEW w \in Workers, WorkerBegin(w)
    PROVE  TypeInv' /\ BeginStep
<1> DEFINE r == worker[w].item
           t == [at |-> "begun", item |-> SpentItem(r), was |-> worker[w].was, target |-> Nobody]
<1>1. /\ r \in Reservations /\ r.delivery \in Deliveries /\ r.generation <= marker
      /\ worker[w].was \in Reservations \cup {NoFence}
  BY ThreadItem DEF WorkerBegin
<1>2. /\ BeginAllowed(r)
      /\ fence' = [fence EXCEPT ![r.endpoint] = SpentItem(r)]
      /\ worker' = [worker EXCEPT ![w] = t]
      /\ UNCHANGED <<clock, session, delivery, hook, restarts, marker>>
      /\ scheduled' = scheduled /\ submitted' = submitted
      /\ spentAt' = [spentAt EXCEPT ![r.delivery] = clock]
  BY DEF WorkerBegin, durable
<1>3. /\ SpentItem(r) \in Reservations /\ SpentItem(r).generation = r.generation
  BY <1>1, SpentType DEF TypeInv, RelayTypes
<1>4. /\ t \in Threads /\ t.at = "begun" /\ t.item = SpentItem(r)
  BY <1>1, <1>3 DEF Threads
<1>5. /\ spentAt' \in [Deliveries -> Nat] /\ scheduled' \in Schedules
      /\ submitted' \in [Generations -> Nat]
  BY <1>2 DEF TypeInv, RelayTypes
<1> HIDE DEF r, t
<1>6. /\ FenceTypes'
      /\ r.endpoint \in Endpoints
      /\ fence[r.endpoint] # NoFence /\ fence[r.endpoint].outcome = "prepared"
      /\ fence[r.endpoint].generation = r.generation
      /\ fence'[r.endpoint].generation = r.generation
      /\ fence'[r.endpoint].outcome = "uncertain"
      /\ \A f \in Endpoints \ {r.endpoint} : fence'[f] = fence[f]
  BY <1>1, <1>2, SpendStep
<1>7. TypeInv' /\ \A v \in Workers \ {w} : worker'[v] = worker[v]
  BY <1>1, <1>2, <1>3, <1>4, <1>5, <1>6, ThreadMoves
<1>8. worker'[w] = t
  BY <1>2 DEF TypeInv, WorkerTypes
<1>9. BeginStep
  BY <1>2, <1>3, <1>4, <1>6, <1>7, <1>8 DEF BeginStep
<1> QED
  BY <1>7, <1>9

\* So does an attempt whose commit was not answered.
LEMMA WorkerAmbiguousStep ==
    ASSUME TypeInv, NEW w \in Workers, WorkerAmbiguous(w)
    PROVE  TypeInv' /\ BeginStep
<1> DEFINE r == worker[w].item
<1>1. r \in Reservations /\ r.delivery \in Deliveries
  BY ThreadItem DEF WorkerAmbiguous
<1>2. /\ BeginAllowed(r)
      /\ Stop(w, [fence EXCEPT ![r.endpoint] = SpentItem(r)], Cleared(w))
      /\ spentAt' = [spentAt EXCEPT ![r.delivery] = clock]
  BY DEF WorkerAmbiguous
<1>3. /\ fence' = [fence EXCEPT ![r.endpoint] = SpentItem(r)]
      /\ UNCHANGED <<marker, delivery>>
  BY <1>2 DEF Stop, durable
<1>4. spentAt' \in [Deliveries -> Nat]
  BY <1>2 DEF TypeInv, RelayTypes
<1> HIDE DEF r
<1>5. /\ FenceTypes'
      /\ r.endpoint \in Endpoints
      /\ fence[r.endpoint] # NoFence /\ fence[r.endpoint].outcome = "prepared"
      /\ fence[r.endpoint].generation = r.generation
      /\ fence'[r.endpoint].generation = r.generation
      /\ fence'[r.endpoint].outcome = "uncertain"
      /\ \A f \in Endpoints \ {r.endpoint} : fence'[f] = fence[f]
  BY <1>1, <1>2, <1>3, SpendStep
<1>6. /\ TypeInv'
      /\ \A v \in Workers \ {w} : worker'[v] = worker[v]
      /\ worker'[w].at \notin Fired
      /\ UNCHANGED <<marker, submitted>>
  BY <1>2, <1>4, <1>5, StopStep, ClearedType
<1> QED
  BY <1>5, <1>6 DEF BeginStep

\* A thread that stops and releases its reservation or leaves the fences alone.
LEMMA StopKeeps ==
    ASSUME TypeInv, NEW w \in Workers, worker[w].at # "idle", NEW table,
           NEW sched \in Schedules, Stop(w, table, sched),
           table = fence \/ table = Released(worker[w].item),
           spentAt' \in [Deliveries -> Nat]
    PROVE  TypeInv' /\ KeepStep
<1>1. worker[w].item \in Reservations
  BY ThreadItem
<1>2. fence' = table /\ UNCHANGED <<marker, delivery>>
  BY DEF Stop, durable
<1>3. FenceTypes' /\ \A e \in Endpoints : Sustained(e)
  BY <1>1, <1>2, ReleasedStep
<1>4. TypeInv' /\ (\A v \in Workers : Quiet(v)) /\ UNCHANGED <<marker, submitted>>
  BY <1>3, StopStep
<1> QED
  BY <1>3, <1>4 DEF KeepStep

\* So does a thread that gives up its reservation.
LEMMA WorkerStopsStep ==
    ASSUME TypeInv, NEW w \in Workers,
           \/ WorkerRefused(w) \/ WorkerBusy(w) \/ WorkerNotRun(w)
           \/ WorkerRetryDeferred(w) \/ WorkerFailed(w)
    PROVE  TypeInv' /\ KeepStep
<1>1. CASE WorkerRefused(w) \/ WorkerBusy(w) \/ WorkerRetryDeferred(w)
  <2>1. worker[w].at # "idle" /\ spentAt' \in [Deliveries -> Nat]
    BY <1>1 DEF WorkerRefused, WorkerBusy, WorkerRetryDeferred, TypeInv, RelayTypes
  <2>2. PICK table : /\ Stop(w, table, Cleared(w))
                     /\ table = fence \/ table = Released(worker[w].item)
    BY <1>1 DEF WorkerRefused, WorkerBusy, WorkerRetryDeferred
  <2> QED
    BY <2>1, <2>2, StopKeeps, ClearedType
<1>2. CASE WorkerFailed(w) \/ WorkerNotRun(w)
  <2>1. worker[w].at # "idle"
    BY <1>2 DEF WorkerFailed, WorkerNotRun
  <2>2. spentAt' \in [Deliveries -> Nat]
    BY <1>2 DEF WorkerFailed, WorkerNotRun, TypeInv, RelayTypes
  <2>3. PICK table, sched : /\ Stop(w, table, sched)
                            /\ table = fence \/ table = Released(worker[w].item)
                            /\ sched = Cleared(w) \/ sched = scheduled
    BY <1>2 DEF WorkerFailed, WorkerNotRun
  <2>4. sched \in Schedules
    BY <2>3, ClearedType DEF TypeInv
  <2> QED
    BY <2>1, <2>2, <2>3, <2>4, StopKeeps
<1> QED
  BY <1>1, <1>2

\* So does the start of a thread.
LEMMA WorkerStartsStep ==
    ASSUME TypeInv, NEW w \in Workers, WorkerDuplicate(w) \/ WorkerLaunch(w)
    PROVE  TypeInv' /\ KeepStep
<1> DEFINE r == worker[w].item
           t == Thread("waiting", r)
<1>1. r \in Reservations /\ r.generation <= marker
  BY ThreadItem DEF WorkerDuplicate, WorkerLaunch
<1>2. /\ UNCHANGED <<clock, session, delivery, hook, restarts, marker, fence, submitted>>
      /\ spentAt' = spentAt
  BY DEF WorkerDuplicate, WorkerLaunch, durable
<1>3. /\ FenceTypes' /\ spentAt' \in [Deliveries -> Nat] /\ submitted' \in [Generations -> Nat]
  BY <1>2 DEF TypeInv, RelayTypes, FenceTypes
<1>4. t \in Threads /\ t.at = "waiting" /\ t.item = r
  BY <1>1, ThreadType
<1>5. Idle \in Threads /\ Idle.at = "idle"
  BY CodexWakeAssumption DEF Idle, Threads
<1>6. scheduled' \in Schedules
  <2>1. CASE scheduled' = scheduled
    BY <2>1 DEF TypeInv
  <2>2. CASE scheduled' = Take(scheduled, r)
    BY <1>1, <2>2, TakeType DEF TypeInv
  <2> QED
    BY <2>1, <2>2 DEF WorkerDuplicate, WorkerLaunch
<1> HIDE DEF r, t
<1>7. CASE worker' = [worker EXCEPT ![w] = Idle]
  <2>1. TypeInv' /\ \A v \in Workers \ {w} : worker'[v] = worker[v]
    BY <1>2, <1>3, <1>5, <1>6, <1>7, ThreadMoves
  <2>2. worker'[w] = Idle
    BY <1>7 DEF TypeInv, WorkerTypes
  <2> QED
    BY <1>2, <1>5, <2>1, <2>2 DEF KeepStep, Quiet, Sustained, Fired
<1>8. CASE worker' = [worker EXCEPT ![w] = t]
  <2>1. TypeInv' /\ \A v \in Workers \ {w} : worker'[v] = worker[v]
    BY <1>1, <1>2, <1>3, <1>4, <1>6, <1>8, ThreadMoves
  <2>2. worker'[w] = t
    BY <1>8 DEF TypeInv, WorkerTypes
  <2> QED
    BY <1>2, <1>4, <2>1, <2>2 DEF KeepStep, Quiet, Sustained, Fired
<1> QED
  BY <1>7, <1>8 DEF WorkerDuplicate, WorkerLaunch, r, t

\* So does the check of the target before a retry.
LEMMA WorkerAskStep ==
    ASSUME TypeInv, NEW w \in Workers, WorkerAsk(w)
    PROVE  TypeInv' /\ KeepStep
<1> DEFINE r == worker[w].item
           t == [at |-> "asked", item |-> r, was |-> worker[w].was, target |-> WakeTarget(r.delivery)]
<1>1. /\ r \in Reservations /\ r.endpoint \in Endpoints /\ r.generation <= marker
      /\ worker[w].was \in Reservations \cup {NoFence}
  BY ThreadItem DEF WorkerAsk
<1>2. /\ RetryAllowed(r)
      /\ worker' = [worker EXCEPT ![w] = t]
      /\ UNCHANGED <<clock, session, delivery, hook, restarts, marker>>
      /\ UNCHANGED <<fence, scheduled, submitted, spentAt>>
  BY DEF WorkerAsk, durable
<1>3. WakeTarget(r.delivery) \in Containers
  <2>1. /\ fence[r.endpoint] # NoFence /\ fence[r.endpoint] = r
        /\ WakeTarget(r.delivery) # Nobody
    BY <1>1, <1>2, NoFenceIsNone DEF RetryAllowed
  <2>2. delivery[r.delivery].to \in Endpoints
    BY <1>1, <2>1, FenceRow
  <2> QED
    BY <2>1, <2>2 DEF WakeTarget, TypeInv, RelayTypes
<1>4. t \in Threads /\ t.at = "asked" /\ t.item = r /\ t.target \in Containers
  BY <1>1, <1>3 DEF Threads
<1>5. /\ spentAt' \in [Deliveries -> Nat] /\ scheduled' \in Schedules
      /\ submitted' \in [Generations -> Nat] /\ FenceTypes'
  BY <1>2 DEF TypeInv, RelayTypes, FenceTypes
<1> HIDE DEF r, t
<1>6. TypeInv' /\ \A v \in Workers \ {w} : worker'[v] = worker[v]
  BY <1>1, <1>2, <1>4, <1>5, ThreadMoves
<1>7. worker'[w].at \notin Fired
  BY <1>2, <1>4 DEF TypeInv, WorkerTypes, Fired
<1> QED
  BY <1>2, <1>6, <1>7 DEF KeepStep, Quiet, Sustained

\* So does the rearming of a reservation.
LEMMA WorkerRearmStep ==
    ASSUME TypeInv, NEW w \in Workers, WorkerRearm(w)
    PROVE  TypeInv' /\ FreshStep
<1> DEFINE r == worker[w].item
           n == Rearmed(r, worker[w].target)
           t == [at |-> "ready", item |-> n, was |-> r, target |-> Nobody]
<1>1. /\ r \in Reservations /\ r.endpoint \in Endpoints /\ r.delivery \in Deliveries
      /\ worker[w].target \in Containers
  BY ThreadItem DEF WorkerRearm, TypeInv, WorkerTypes
<1>2. /\ RetryAllowed(r) /\ marker < MaxGeneration /\ marker' = marker + 1
      /\ fence' = [fence EXCEPT ![r.endpoint] = n]
      /\ worker' = [worker EXCEPT ![w] = t]
      /\ UNCHANGED <<clock, session, delivery, hook, restarts, scheduled, submitted, spentAt>>
  BY DEF WorkerRearm, durable
<1>3. marker' \in 0 .. MaxGeneration /\ marker <= marker' /\ marker + 1 \in Generations
  BY <1>2, CodexWakeAssumption DEF TypeInv, FenceTypes, Generations
<1>4. /\ n \in Reservations /\ n.endpoint = r.endpoint /\ n.delivery = r.delivery
      /\ n.generation = marker + 1
  <2>1. PICK x \in Nat : x = IF r.deadline # 0 /\ r.deadline < clock THEN r.deadline ELSE clock
    BY <1>1 DEF Reservations, TypeInv, RelayTypes
  <2>2. n = [endpoint |-> r.endpoint, delivery |-> r.delivery, container |-> worker[w].target,
             generation |-> marker + 1, outcome |-> "prepared", deadline |-> x]
    BY <2>1 DEF Rearmed
  <2> HIDE DEF n, r
  <2> QED
    BY <1>1, <1>3, <2>2 DEF Reservations
<1>5. n.generation <= marker'
  BY <1>2, <1>3, <1>4
<1>6. /\ delivery[r.delivery].to = r.endpoint /\ delivery[r.delivery].state # "none"
  <2>1. fence[r.endpoint] # NoFence /\ fence[r.endpoint] = r
    BY <1>1, <1>2, NoFenceIsNone DEF RetryAllowed
  <2> QED
    BY <1>1, <2>1, FenceRow
<1> HIDE DEF n
<1>7. t \in Threads /\ t.at = "ready" /\ t.item = n
  BY <1>1, <1>4 DEF Threads
<1> HIDE DEF r, t
<1>8. FenceTypes'
  BY <1>1, <1>2, <1>3, <1>4, <1>5, <1>6, FenceTypesKept
<1>9. WorkerTypes'
  BY <1>2, <1>3, <1>4, <1>5, <1>7, WorkerTypesKept
<1>10. TypeInv'
  BY <1>2, <1>8, <1>9 DEF TypeInv, RelayTypes
<1>11. /\ fence'[r.endpoint].generation = marker + 1
       /\ \A f \in Endpoints \ {r.endpoint} : fence'[f] = fence[f]
  BY <1>1, <1>2, <1>4 DEF TypeInv, FenceTypes
<1>12. \A v \in Workers : Quiet(v)
  BY <1>2, <1>7 DEF TypeInv, WorkerTypes, Quiet, Fired
<1> QED
  BY <1>1, <1>2, <1>10, <1>11, <1>12 DEF FreshStep

\* Moving a thread to another phase.
LEMMA PhaseType ==
    ASSUME NEW t \in Threads, NEW p \in {"sent", "failed"}
    PROVE  /\ [t EXCEPT !.at = p] \in Threads /\ [t EXCEPT !.at = p].at = p
           /\ [t EXCEPT !.at = p].item = t.item
BY DEF Threads

\* So does the native write.
LEMMA WorkerSubmitStep ==
    ASSUME TypeInv, NEW w \in Workers, WorkerSubmit(w)
    PROVE  TypeInv' /\ SubmitStep
<1> DEFINE t == [worker[w] EXCEPT !.at = "sent"]
           g == worker[w].item.generation
<1>1. /\ worker[w].item \in Reservations /\ g \in Generations /\ g <= marker
      /\ worker[w].at = "begun" /\ worker[w] \in Threads
  BY ThreadItem DEF WorkerSubmit, TypeInv, WorkerTypes
<1>2. t \in Threads /\ t.at = "sent" /\ t.item = worker[w].item
  BY <1>1, PhaseType
<1>3. /\ worker' = [worker EXCEPT ![w] = t]
      /\ submitted' = [submitted EXCEPT ![g] = @ + 1]
      /\ UNCHANGED <<clock, session, delivery, hook, restarts, marker, fence, scheduled, spentAt>>
  BY DEF WorkerSubmit, durable
<1>4. submitted' \in [Generations -> Nat]
  BY <1>1, <1>3 DEF TypeInv
<1>5. spentAt' \in [Deliveries -> Nat] /\ scheduled' \in Schedules /\ FenceTypes'
  BY <1>3 DEF TypeInv, RelayTypes, FenceTypes
<1> HIDE DEF t
<1>6. TypeInv' /\ \A v \in Workers \ {w} : worker'[v] = worker[v]
  BY <1>1, <1>2, <1>3, <1>4, <1>5, ThreadMoves
<1>7. worker'[w] = t
  BY <1>3 DEF TypeInv, WorkerTypes
<1> QED
  BY <1>1, <1>2, <1>3, <1>6, <1>7 DEF SubmitStep

\* So does an attempt that never reached the native side.
LEMMA WorkerNotStartedStep ==
    ASSUME TypeInv, NEW w \in Workers, WorkerNotStarted(w)
    PROVE  TypeInv' /\ KeepStep
<1> DEFINE t == [worker[w] EXCEPT !.at = "failed"]
<1>1. /\ worker[w].item \in Reservations /\ worker[w].item.generation <= marker
      /\ worker[w].at = "begun" /\ worker[w] \in Threads
  BY ThreadItem DEF WorkerNotStarted, TypeInv, WorkerTypes
<1>2. t \in Threads /\ t.at = "failed" /\ t.item = worker[w].item
  BY <1>1, PhaseType
<1>3. /\ worker' = [worker EXCEPT ![w] = t]
      /\ UNCHANGED <<clock, session, delivery, hook, restarts, marker, fence, scheduled,
                     submitted, spentAt>>
  BY DEF WorkerNotStarted, durable
<1>5. /\ spentAt' \in [Deliveries -> Nat] /\ scheduled' \in Schedules /\ FenceTypes'
      /\ submitted' \in [Generations -> Nat]
  BY <1>3 DEF TypeInv, RelayTypes, FenceTypes
<1> HIDE DEF t
<1>6. TypeInv' /\ \A v \in Workers \ {w} : worker'[v] = worker[v]
  BY <1>1, <1>2, <1>3, <1>5, ThreadMoves
<1>7. worker'[w] = t
  BY <1>3 DEF TypeInv, WorkerTypes
<1> QED
  BY <1>1, <1>2, <1>3, <1>6, <1>7 DEF KeepStep, Quiet, Sustained

\* So does the end of an attempt.
LEMMA WorkerFinishStep ==
    ASSUME TypeInv, NEW w \in Workers, WorkerFinish(w)
    PROVE  TypeInv' /\ KeepStep
<1> DEFINE e == worker[w].item.endpoint
           n == [fence[e] EXCEPT !.outcome = "accepted"]
<1>1. e \in Endpoints
  BY ThreadItem DEF WorkerFinish
<1>2. /\ worker' = [worker EXCEPT ![w] = Idle]
      /\ UNCHANGED <<clock, session, delivery, hook, restarts, marker, submitted, spentAt>>
      /\ fence' = fence \/ (fence[e].outcome = "uncertain" /\ fence' = [fence EXCEPT ![e] = n])
  BY DEF WorkerFinish, Stop, durable
<1>3. scheduled' \in Schedules
  BY ClearedType DEF WorkerFinish, Stop, TypeInv
<1>4. FenceTypes' /\ \A f \in Endpoints : Sustained(f)
  <2>1. CASE fence' = fence
    BY <1>2, <2>1 DEF TypeInv, FenceTypes, Sustained
  <2>2. CASE fence[e].outcome = "uncertain" /\ fence' = [fence EXCEPT ![e] = n]
    <3>1. fence[e] # NoFence
      BY <2>2 DEF NoFence
    <3>2. /\ fence[e] \in Reservations /\ fence[e].endpoint = e /\ fence[e].generation <= marker
          /\ delivery[fence[e].delivery].to = e /\ delivery[fence[e].delivery].state # "none"
      BY <1>1, <3>1, FenceRow
    <3>3. /\ n \in Reservations /\ n.endpoint = e /\ n.delivery = fence[e].delivery
          /\ n.generation = fence[e].generation /\ n.outcome \in Spent
      BY <3>2 DEF Reservations, Spent
    <3>4. marker' \in 0 .. MaxGeneration /\ marker <= marker' /\ marker' = marker
      BY <1>2, CodexWakeAssumption DEF TypeInv, FenceTypes
    <3> HIDE DEF n, e
    <3>5. FenceTypes'
      BY <1>1, <1>2, <2>2, <3>2, <3>3, <3>4, FenceTypesKept
    <3> QED
      BY <1>1, <2>2, <3>1, <3>3, <3>5 DEF TypeInv, FenceTypes, Sustained
  <2> QED
    BY <1>2, <2>1, <2>2
<1>5. Idle \in Threads /\ Idle.at = "idle"
  BY CodexWakeAssumption DEF Idle, Threads
<1>6. spentAt' \in [Deliveries -> Nat] /\ submitted' \in [Generations -> Nat]
  BY <1>2 DEF TypeInv, RelayTypes
<1>7. TypeInv' /\ \A v \in Workers \ {w} : worker'[v] = worker[v]
  BY <1>2, <1>3, <1>4, <1>5, <1>6, ThreadMoves
<1>8. worker'[w].at \notin Fired
  BY <1>2, <1>5 DEF TypeInv, WorkerTypes, Fired
<1> QED
  BY <1>2, <1>4, <1>7, <1>8 DEF KeepStep, Quiet

-----------------------------------------------------------------------------
(* Every step keeps the types and has one of the four shapes. *)

\* So does a restart of the service.
LEMMA RestartStep ==
    ASSUME TypeInv, Restart
    PROVE  TypeInv' /\ KeepStep
<1>1. Idle \in Threads /\ Idle.at = "idle"
  BY CodexWakeAssumption DEF Idle, Threads
<1>2. /\ worker' = [w \in Workers |-> Idle]
      /\ UNCHANGED <<clock, session, delivery, marker, fence, submitted, spentAt>>
  BY DEF Restart, durable
<1>3. scheduled' \in Schedules
  BY CodexWakeAssumption DEF Restart, Schedules, NoSchedule
<1>4. RelayTypes'
  BY <1>2, CodexWakeAssumption DEF Restart, NoHook, TypeInv, RelayTypes
<1>5. WorkerTypes'
  BY <1>1, <1>2 DEF WorkerTypes
<1> QED
  BY <1>1, <1>2, <1>3, <1>4, <1>5
  DEF TypeInv, FenceTypes, KeepStep, Quiet, Sustained, Fired

\* So do the steps of the relay.
LEMMA RelaySideStep ==
    ASSUME TypeInv, RelayNext
    PROVE  TypeInv' /\ KeepStep
<1>1. RelayStep
  BY RelayTypesNext
<1>2. FenceTypes'
  BY <1>1, FenceRow DEF RelayStep, TypeInv, FenceTypes
<1> QED
  BY <1>1, <1>2 DEF RelayStep, TypeInv, WorkerTypes, KeepStep, Quiet, Sustained

\* Every step keeps the type layer.
LEMMA NextStep ==
    ASSUME TypeInv, [Next]_vars
    PROVE  TypeInv' /\ WakeStep
<1>1. CASE RelayNext
  BY <1>1, RelaySideStep DEF WakeStep
<1>2. CASE Restart
  BY <1>2, RestartStep DEF WakeStep
<1>3. CASE FenceNext
  BY <1>3, DispatchStep, AckReleaseStep, ReconcileStep DEF FenceNext, WakeStep
<1>4. ASSUME NEW w \in Workers, WorkerNext(w)
      PROVE  TypeInv' /\ WakeStep
  BY <1>4, WorkerStartsStep, WorkerBeginStep, WorkerAmbiguousStep, WorkerStopsStep, WorkerAskStep,
     WorkerRearmStep, WorkerSubmitStep, WorkerNotStartedStep, WorkerFinishStep
  DEF WorkerNext, WakeStep
<1>5. CASE UNCHANGED vars
  BY <1>5 DEF vars, TypeInv, RelayTypes, FenceTypes, WorkerTypes, WakeStep, KeepStep,
              Quiet, Sustained
<1> QED
  BY <1>1, <1>2, <1>3, <1>4, <1>5 DEF Next

-----------------------------------------------------------------------------
(* Where a generation may still be written from. *)

\* No two fences share a generation.
FenceGenerations ==
    \A e, f \in Endpoints : e # f /\ fence[e] # NoFence /\ fence[f] # NoFence =>
        fence[e].generation # fence[f].generation

\* Only issued generations are written, once each.
Written ==
    \A g \in Generations : submitted[g] <= 1 /\ (submitted[g] > 0 => g <= marker)

\* A prepared generation is unwritten, and no thread has fired it.
PreparedFresh ==
    \A e \in Endpoints : fence[e] # NoFence /\ fence[e].outcome = "prepared" =>
        /\ submitted[fence[e].generation] = 0
        /\ \A w \in Workers : worker[w].at \in Fired =>
              worker[w].item.generation # fence[e].generation

\* A generation is fired by one thread, and unwritten until that thread writes it.
FiredOnce ==
    \A w \in Workers :
        /\ worker[w].at \in {"begun", "failed"} => submitted[worker[w].item.generation] = 0
        /\ \A v \in Workers \ {w} : worker[w].at \in Fired /\ worker[v].at \in Fired =>
              worker[w].item.generation # worker[v].item.generation

GenInv == FenceGenerations /\ Written /\ PreparedFresh /\ FiredOnce

\* The generation layer holds initially.
LEMMA GenInvInit == Init => GenInv
BY CodexWakeAssumption
   DEF Init, GenInv, FenceGenerations, Written, PreparedFresh, FiredOnce, Fired, Idle

\* Generations are natural numbers up to the marker.
LEMMA GenTypes ==
    ASSUME TypeInv
    PROVE  /\ marker \in Nat /\ \A g \in Generations : g \in Nat /\ submitted[g] \in Nat
           /\ \A e \in Endpoints : fence[e] # NoFence =>
                 fence[e].generation \in Generations /\ fence[e].generation <= marker
           /\ \A w \in Workers : worker[w].at \in Fired =>
                 worker[w].item.generation \in Generations /\ worker[w].item.generation <= marker
<1>1. marker \in Nat /\ \A g \in Generations : g \in Nat /\ submitted[g] \in Nat
  BY CodexWakeAssumption DEF TypeInv, FenceTypes, Generations
<1>2. ASSUME NEW w \in Workers, worker[w].at \in Fired
      PROVE  worker[w].item.generation \in Generations /\ worker[w].item.generation <= marker
  BY <1>2, ThreadItem DEF Fired
<1> QED
  BY <1>1, <1>2, FenceRow

\* A step that adds no generation keeps the generation layer.
LEMMA GenInvKeep ==
    ASSUME TypeInv, TypeInv', GenInv, KeepStep
    PROVE  GenInv'
<1> USE DEF KeepStep, GenInv
<1>1. \A e \in Endpoints : fence'[e] # NoFence =>
         fence[e] # NoFence /\ fence'[e].generation = fence[e].generation
  BY DEF Sustained
<1>2. \A e \in Endpoints : fence'[e] # NoFence /\ fence'[e].outcome = "prepared" =>
         fence'[e] = fence[e]
  BY DEF Sustained, Spent
<1>3. \A w \in Workers : worker'[w].at \in Fired =>
         /\ worker[w].at \in Fired /\ worker'[w].item = worker[w].item
         /\ worker'[w].at \in {"begun", "failed"} => worker[w].at \in {"begun", "failed"}
  BY DEF Quiet, Fired
<1>4. FenceGenerations'
  BY <1>1 DEF FenceGenerations
<1>5. Written'
  BY DEF Written
<1>6. PreparedFresh'
  BY <1>2, <1>3 DEF PreparedFresh
<1>7. FiredOnce'
  BY <1>3 DEF FiredOnce, Fired
<1> QED
  BY <1>4, <1>5, <1>6, <1>7

\* So does a step that takes the next generation.
LEMMA GenInvFresh ==
    ASSUME TypeInv, TypeInv', GenInv, FreshStep
    PROVE  GenInv'
<1> USE DEF GenInv
<1>1. PICK e \in Endpoints :
        /\ marker' = marker + 1 /\ UNCHANGED submitted
        /\ fence'[e].generation = marker + 1
        /\ \A f \in Endpoints \ {e} : fence'[f] = fence[f]
        /\ \A w \in Workers : Quiet(w)
  BY DEF FreshStep
<1>2. \A w \in Workers : worker'[w].at \in Fired =>
         /\ worker[w].at \in Fired /\ worker'[w].item = worker[w].item
         /\ worker'[w].at \in {"begun", "failed"} => worker[w].at \in {"begun", "failed"}
  BY <1>1 DEF Quiet, Fired
<1>3. fence'[e] # NoFence => marker + 1 \in Generations
  BY <1>1 DEF TypeInv, FenceTypes, Reservations
<1>4. FenceGenerations'
  BY <1>1, GenTypes DEF FenceGenerations
<1>5. Written'
  BY <1>1, GenTypes DEF Written
<1>6. PreparedFresh'
  <2>1. marker + 1 \in Generations => submitted[marker + 1] = 0
    BY GenTypes DEF Written
  <2>2. \A w \in Workers : worker'[w].at \in Fired => worker'[w].item.generation # marker + 1
    BY <1>2, GenTypes
  <2> QED
    BY <1>1, <1>2, <1>3, <2>1, <2>2 DEF PreparedFresh
<1>7. FiredOnce'
  BY <1>1, <1>2 DEF FiredOnce, Fired
<1> QED
  BY <1>4, <1>5, <1>6, <1>7

\* So does the step that spends a generation.
LEMMA GenInvBegin ==
    ASSUME TypeInv, TypeInv', GenInv, BeginStep
    PROVE  GenInv'
<1> USE DEF GenInv
<1>1. PICK e \in Endpoints, v \in Workers :
        /\ UNCHANGED <<marker, submitted>>
        /\ fence[e] # NoFence /\ fence[e].outcome = "prepared"
        /\ fence'[e].generation = fence[e].generation /\ fence'[e].outcome = "uncertain"
        /\ \A f \in Endpoints \ {e} : fence'[f] = fence[f]
        /\ \A w \in Workers \ {v} : worker'[w] = worker[w]
        /\ \/ worker'[v].at \notin Fired
           \/ worker'[v].at = "begun" /\ worker'[v].item.generation = fence[e].generation
  BY DEF BeginStep
<1>2. /\ submitted[fence[e].generation] = 0
      /\ \A w \in Workers : worker[w].at \in Fired =>
            worker[w].item.generation # fence[e].generation
  BY <1>1 DEF PreparedFresh
<1>3. \A f \in Endpoints \ {e} : fence[f] # NoFence => fence[f].generation # fence[e].generation
  BY <1>1 DEF FenceGenerations
<1>4. FenceGenerations'
  BY <1>1 DEF FenceGenerations
<1>5. Written'
  BY <1>1 DEF Written
<1>6. PreparedFresh'
  BY <1>1, <1>3 DEF PreparedFresh, Fired
<1>7. FiredOnce'
  BY <1>1, <1>2 DEF FiredOnce, Fired
<1> QED
  BY <1>4, <1>5, <1>6, <1>7

\* So does the native write, which the spent generation allows once.
LEMMA GenInvSubmit ==
    ASSUME TypeInv, TypeInv', GenInv, SubmitStep
    PROVE  GenInv'
<1> USE DEF GenInv
<1>1. PICK v \in Workers :
        /\ UNCHANGED <<marker, fence>>
        /\ worker[v].at = "begun" /\ worker'[v].at = "sent"
        /\ worker'[v].item = worker[v].item
        /\ \A w \in Workers \ {v} : worker'[w] = worker[w]
        /\ submitted' = [submitted EXCEPT ![worker[v].item.generation] = @ + 1]
  BY DEF SubmitStep
<1>2. PICK g \in Generations : g = worker[v].item.generation /\ g <= marker
  BY <1>1, GenTypes DEF Fired
<1>3. submitted[g] = 0
  BY <1>1, <1>2 DEF FiredOnce
<1>4. submitted'[g] = 1 /\ \A h \in Generations \ {g} : submitted'[h] = submitted[h]
  BY <1>1, <1>2, <1>3 DEF TypeInv
<1>5. FenceGenerations'
  BY <1>1 DEF FenceGenerations
<1>6. Written'
  BY <1>1, <1>2, <1>4 DEF Written
<1>7. PreparedFresh'
  <2>1. \A e \in Endpoints : fence[e] # NoFence /\ fence[e].outcome = "prepared" =>
           fence[e].generation # g
    BY <1>1, <1>2 DEF PreparedFresh, Fired
  <2> QED
    BY <1>1, <1>4, <2>1, GenTypes DEF PreparedFresh, Fired
<1>8. FiredOnce'
  <2>1. \A w \in Workers \ {v} : worker[w].at \in Fired => worker[w].item.generation # g
    BY <1>1, <1>2 DEF FiredOnce, Fired
  <2> QED
    BY <1>1, <1>4, <2>1, GenTypes DEF FiredOnce, Fired
<1> QED
  BY <1>5, <1>6, <1>7, <1>8

-----------------------------------------------------------------------------
(* Theorems *)

\* The inductive invariant.
THEOREM WakeInvariant == Spec => [](TypeInv /\ GenInv)
<1>1. Init => TypeInv /\ GenInv
  BY TypeInvInit, GenInvInit
<1>2. TypeInv /\ GenInv /\ [Next]_vars => TypeInv' /\ GenInv'
  <2> SUFFICES ASSUME TypeInv, GenInv, [Next]_vars PROVE TypeInv' /\ GenInv'
    OBVIOUS
  <2>1. TypeInv' /\ WakeStep
    BY NextStep
  <2> QED
    BY <2>1, GenInvKeep, GenInvFresh, GenInvBegin, GenInvSubmit DEF WakeStep
<1> QED
  BY <1>1, <1>2, PTL DEF Spec

\* Types, and what _validate_wake_authority checks of the fence rows, hold
\* whatever threads, sweeps, crashes and clocks do.
THEOREM WakeTypeCorrect == Spec => []TypeOK
BY WakeInvariant, TypeInvImplies, PTL

\* No generation is submitted natively twice, for any number of workers and
\* restarts: begin_native_attempt's compare-and-swap is enough, without the lock.
THEOREM SubmittedOnce == Spec => []OneSubmissionPerGeneration
<1>1. TypeInv /\ GenInv => OneSubmissionPerGeneration
  BY DEF GenInv, Written, OneSubmissionPerGeneration
<1> QED
  BY <1>1, WakeInvariant, PTL

\* A prepared reservation was never written and is not about to be: resuming it
\* after a crash is safe.
THEOREM PreparedUnwritten == Spec => []PreparedNeverWritten
<1>1. TypeInv /\ GenInv => PreparedNeverWritten
  BY DEF GenInv, PreparedFresh, PreparedNeverWritten, NoFence, Fired
<1> QED
  BY <1>1, WakeInvariant, PTL

-----------------------------------------------------------------------------
(* A written fence is held. *)

\* What WrittenFenceHeld says of the fence of e in one step.
Held(e) ==
    (/\ fence[e] # NoFence /\ submitted[fence[e].generation] > 0
     /\ fence'[e].generation # fence[e].generation) =>
        \/ Terminal(fence[e].delivery)
        \/ /\ fence'[e].delivery = fence[e].delivery
           /\ ~LiveClaim(fence[e].delivery)

\* Releasing a reservation that was never written.
LEMMA HeldReleased ==
    ASSUME TypeInv, NEW r \in Reservations,
           fence[r.endpoint] = r => submitted[r.generation] = 0,
           fence' = fence \/ fence' = Released(r), NEW e \in Endpoints
    PROVE  Held(e)
<1>1. CASE fence' = fence
  BY <1>1 DEF Held
<1>2. CASE fence[r.endpoint] = r /\ fence' = [fence EXCEPT ![r.endpoint] = NoFence]
  BY <1>2, GenTypes DEF Held, TypeInv, FenceTypes, Reservations
<1> QED
  BY <1>1, <1>2 DEF Released

\* Dispatches, ACKs and sweeps keep the fence of a written wake.
LEMMA HeldFence ==
    ASSUME TypeInv, GenInv, FenceNext, NEW e \in Endpoints
    PROVE  Held(e)
<1>1. ASSUME NEW d \in Deliveries, Dispatch(d) PROVE Held(e)
  <2>1. delivery[d].to \in Endpoints
    BY <1>1, PendingIsSent DEF Dispatch
  <2>2. fence' = [fence EXCEPT ![delivery[d].to] = Prepared(d)]
    BY <1>1 DEF Dispatch, Start
  <2>3. fence[delivery[d].to] # NoFence => Terminal(fence[delivery[d].to].delivery)
    BY <1>1 DEF Dispatch
  <2> QED
    BY <2>1, <2>2, <2>3 DEF Held, TypeInv, FenceTypes
<1>2. ASSUME NEW d \in Deliveries, AckRelease(d) PROVE Held(e)
  BY <1>2 DEF AckRelease, Held, Terminal, TypeInv, FenceTypes
<1>3. ASSUME NEW f \in Endpoints, Reconcile(f) PROVE Held(e)
  <2>1. CASE ReconcileReleased(f)
    BY <2>1 DEF ReconcileReleased, Held, TypeInv, FenceTypes
  <2>2. CASE ReconcileReplaced(f)
    <3>1. fence' = [fence EXCEPT ![f] = Prepared(fence[f].delivery)]
      BY <2>2 DEF ReconcileReplaced, Start
    <3>2. ~LiveClaim(fence[f].delivery)
      BY <2>2 DEF ReconcileReplaced, ClaimLapsed, LiveClaim
    <3>3. Prepared(fence[f].delivery).delivery = fence[f].delivery
      BY DEF Prepared
    <3> QED
      BY <3>1, <3>2, <3>3 DEF Held, TypeInv, FenceTypes
  <2>3. CASE ReconcileResume(f) \/ ReconcileRetry(f)
    BY <2>3 DEF ReconcileResume, ReconcileRetry, Start, Held
  <2>4. CASE ReconcileClamped(f)
    <3>1. fence[f] # NoFence
      BY <1>3 DEF Reconcile
    <3>2. fence' = [fence EXCEPT ![f] = [fence[f] EXCEPT !.deadline = clock + Cooldown]]
      BY <2>4 DEF ReconcileClamped
    <3>3. [fence[f] EXCEPT !.deadline = clock + Cooldown].generation = fence[f].generation
      BY <3>1, FenceRow DEF Reservations
    <3> QED
      BY <3>2, <3>3 DEF Held, TypeInv, FenceTypes
  <2> QED
    BY <1>3, <2>1, <2>2, <2>3, <2>4 DEF Reconcile
<1> QED
  BY <1>1, <1>2, <1>3 DEF FenceNext

\* So do the steps of the threads.
LEMMA HeldWorker ==
    ASSUME TypeInv, GenInv, NEW w \in Workers, WorkerNext(w), NEW e \in Endpoints
    PROVE  Held(e)
<1> DEFINE r == worker[w].item
<1>1. CASE WorkerBegin(w) \/ WorkerAmbiguous(w)
  <2>1. /\ BeginAllowed(r) /\ fence' = [fence EXCEPT ![r.endpoint] = SpentItem(r)]
    BY <1>1 DEF WorkerBegin, WorkerAmbiguous, Stop
  <2>2. SpentItem(r).generation = r.generation /\ fence[r.endpoint] = r
    BY <2>1 DEF SpentItem, BeginAllowed
  <2> QED
    BY <2>1, <2>2 DEF Held, TypeInv, FenceTypes
<1>2. CASE WorkerRefused(w) \/ WorkerBusy(w) \/ WorkerNotRun(w) \/ WorkerFailed(w)
  <2>1. r \in Reservations
    BY <1>2, ThreadItem DEF WorkerRefused, WorkerBusy, WorkerNotRun, WorkerFailed
  <2>2. fence' = fence \/ fence' = Released(r)
    BY <1>2 DEF WorkerRefused, WorkerBusy, WorkerNotRun, WorkerFailed, Stop
  <2>3. CASE fence' = fence
    BY <2>3 DEF Held
  <2>4. CASE r.outcome = "prepared" \/ worker[w].at = "failed"
    <3>1. fence[r.endpoint] = r => submitted[r.generation] = 0
      <4>1. r.endpoint \in Endpoints /\ r # NoFence
        BY <2>1, NoFenceIsNone DEF Reservations
      <4> QED
        BY <2>4, <4>1 DEF GenInv, PreparedFresh, FiredOnce
    <3> HIDE DEF r
    <3> QED
      BY <2>1, <2>2, <3>1, HeldReleased
  <2> QED
    BY <1>2, <2>3, <2>4 DEF WorkerRefused, WorkerBusy, WorkerNotRun, WorkerFailed, Stop
<1>3. CASE \/ WorkerDuplicate(w) \/ WorkerLaunch(w) \/ WorkerAsk(w)
           \/ WorkerRetryDeferred(w) \/ WorkerSubmit(w) \/ WorkerNotStarted(w)
  BY <1>3 DEF WorkerDuplicate, WorkerLaunch, WorkerAsk, WorkerRetryDeferred, WorkerSubmit, WorkerNotStarted, Stop, Held
<1>4. CASE WorkerRearm(w)
  <2>1. /\ RetryAllowed(r)
        /\ fence' = [fence EXCEPT ![r.endpoint] = Rearmed(r, worker[w].target)]
    BY <1>4 DEF WorkerRearm
  <2>2. /\ fence[r.endpoint] = r /\ ~LiveClaim(r.delivery)
        /\ Rearmed(r, worker[w].target).delivery = r.delivery
    BY <2>1 DEF RetryAllowed, LiveClaim, Rearmed
  <2> QED
    BY <2>1, <2>2 DEF Held, TypeInv, FenceTypes
<1>5. CASE WorkerFinish(w)
  <2>1. CASE fence' = fence
    BY <2>1 DEF Held
  <2>2. CASE /\ fence[r.endpoint].outcome = "uncertain"
             /\ fence' = [fence EXCEPT ![r.endpoint].outcome = "accepted"]
    <3>1. r.endpoint \in Endpoints
      BY <1>5, ThreadItem DEF WorkerFinish
    <3>2. fence[r.endpoint] # NoFence
      BY <2>2 DEF NoFence
    <3>3. fence' = [fence EXCEPT ![r.endpoint] = [fence[r.endpoint] EXCEPT !.outcome = "accepted"]]
      BY <2>2
    <3>4. [fence[r.endpoint] EXCEPT !.outcome = "accepted"].generation = fence[r.endpoint].generation
      BY <3>1, <3>2, FenceRow DEF Reservations
    <3> QED
      BY <3>3, <3>4 DEF Held, TypeInv, FenceTypes
  <2> QED
    BY <1>5, <2>1, <2>2 DEF WorkerFinish, Stop
<1> QED
  BY <1>1, <1>2, <1>3, <1>4, <1>5 DEF WorkerNext

\* A fence whose wake was written is only given up when its delivery is
\* finished, and only replaced, by a newer generation for the same delivery,
\* while no claim is live; no crash, move, late worker or sweep drops it.
THEOREM WrittenStaysFenced == Spec => WrittenFenceHeld
<1>1. TypeInv /\ GenInv /\ [Next]_vars => [\A e \in Endpoints : Held(e)]_vars
  <2> SUFFICES ASSUME TypeInv, GenInv, Next, NEW e \in Endpoints PROVE Held(e)
    OBVIOUS
  <2>1. CASE RelayNext
    BY <2>1, RelayTypesNext DEF RelayStep, Held
  <2>2. CASE Restart
    BY <2>2 DEF Restart, Held
  <2> QED
    BY <2>1, <2>2, HeldFence, HeldWorker DEF Next
<1>2. TypeInv /\ GenInv /\ [Next]_vars =>
        [\A e \in Endpoints :
           (/\ fence[e] # NoFence /\ submitted[fence[e].generation] > 0
            /\ fence'[e].generation # fence[e].generation) =>
               \/ Terminal(fence[e].delivery)
               \/ /\ fence'[e].delivery = fence[e].delivery
                  /\ ~LiveClaim(fence[e].delivery)]_vars
  BY <1>1 DEF Held
<1> QED
  BY <1>2, WakeInvariant, PTL DEF Spec, WrittenFenceHeld

-----------------------------------------------------------------------------
(* A retry keeps its distance.  GenInv says nothing about when a delivery may *)
(* be woken for again; the third layer says what keeps it from being spent    *)
(* too early: a spent fence that no claim of its own hook has answered.       *)

\* The fence of e stands for the last wake of d, and is not due before a cooldown.
Holds(e, d) ==
    /\ fence[e] # NoFence /\ fence[e].delivery = d /\ fence[e].outcome \in Spent
    /\ ~ClaimedBy(d, fence[e].generation)
    /\ Retained => fence[e].deadline >= spentAt[d] + Cooldown

SpentHeld(d) ==
    \/ spentAt[d] = 0
    \/ Terminal(d)
    \/ Retained /\ clock >= spentAt[d] + Cooldown
    \/ \E e \in Endpoints : Holds(e, d)

\* Without a retained service no thread carries a spent reservation to retry.
QueueThread(w) ==
    /\ worker[w].at \in {"starting", "waiting"} => worker[w].item.outcome = "prepared"
    /\ worker[w].at \notin {"asked", "ready"}

QueueThreads == ~Retained => \A w \in Workers : QueueThread(w)

SpacedInv ==
    /\ \A d \in Deliveries : SpentHeld(d) /\ (Retained => spentAt[d] <= clock)
    /\ QueueThreads

\* Where the fence of e was the spent one for d it still is, or need not be.
Lasting(e, d) ==
    \/ fence'[e] = fence[e]
    \/ fence[e].delivery # d
    \/ fence[e].outcome \notin Spent
    \/ Terminal(d)
    \/ ClaimedBy(d, fence[e].generation)
    \/ Retained /\ clock >= fence[e].deadline
    \/ /\ fence'[e] # NoFence /\ fence'[e].delivery = d /\ fence'[e].outcome \in Spent
       /\ fence'[e].generation = fence[e].generation
       /\ fence'[e].deadline = fence[e].deadline \/ fence'[e].deadline = clock + Cooldown

\* Only a prepared reservation of a pending delivery is spent.
SpentWhilePending(e) ==
    (fence[e].outcome = "prepared" /\ fence'[e].outcome = "uncertain") =>
        State(fence[e].delivery) = "pending"

\* The fences that last keep d from being spent early.
LEMMA LastingHeld ==
    ASSUME TypeInv, SpacedInv, NEW d \in Deliveries, \A e \in Endpoints : Lasting(e, d),
           UNCHANGED <<clock, delivery>>, spentAt'[d] = spentAt[d]
    PROVE  SpentHeld(d)'
<1>1. clock \in Nat /\ Cooldown \in Nat /\ spentAt[d] \in Nat
  BY CodexWakeAssumption DEF TypeInv, RelayTypes
<1>2. SpentHeld(d) /\ (Retained => spentAt[d] <= clock)
  BY DEF SpacedInv
<1>3. Terminal(d)' = Terminal(d) /\ clock' = clock
  BY DEF Terminal
<1>4. \A g : ClaimedBy(d, g)' = ClaimedBy(d, g)
  BY DEF ClaimedBy
<1>5. CASE spentAt[d] = 0 \/ Terminal(d) \/ (Retained /\ clock >= spentAt[d] + Cooldown)
  BY <1>3, <1>5 DEF SpentHeld
<1>6. ASSUME NEW e \in Endpoints, Holds(e, d), ~Terminal(d), ~(Retained /\ clock >= spentAt[d] + Cooldown)
      PROVE  Holds(e, d)'
  <2>1. fence[e].deadline \in Nat
    BY <1>6, FenceRow DEF Holds
  <2>2. CASE fence'[e] = fence[e]
    BY <1>6, <2>2 DEF Holds, ClaimedBy
  <2>3. ~(Retained /\ clock >= fence[e].deadline)
    BY <1>1, <1>6, <2>1 DEF Holds
  <2>4. CASE /\ fence'[e] # NoFence /\ fence'[e].delivery = d /\ fence'[e].outcome \in Spent
             /\ fence'[e].generation = fence[e].generation
             /\ fence'[e].deadline = fence[e].deadline \/ fence'[e].deadline = clock + Cooldown
    <3>1. ~ClaimedBy(d, fence[e].generation) /\ (Retained => fence[e].deadline >= spentAt[d] + Cooldown)
      BY <1>6 DEF Holds
    <3>2. Retained => fence'[e].deadline >= spentAt[d] + Cooldown
      BY <1>1, <1>2, <2>1, <2>4, <3>1
    <3>3. ~ClaimedBy(d, fence[e].generation)'
      BY <2>4, <3>1 DEF ClaimedBy
    <3> QED
      BY <2>4, <3>2, <3>3 DEF Holds
  <2> QED
    BY <1>6, <2>2, <2>3, <2>4 DEF Lasting, Holds
<1> QED
  BY <1>2, <1>5, <1>6 DEF SpentHeld

\* Dispatches, ACKs and sweeps let the spent fences last.
LEMMA LastingFence ==
    ASSUME TypeInv, FenceNext, NEW e \in Endpoints, NEW d \in Deliveries
    PROVE  Lasting(e, d) /\ SpentWhilePending(e)
<1>1. ASSUME NEW x \in Deliveries, Dispatch(x) PROVE Lasting(e, d) /\ SpentWhilePending(e)
  <2>1. delivery[x].to \in Endpoints
    BY <1>1, PendingIsSent DEF Dispatch
  <2>2. fence' = [fence EXCEPT ![delivery[x].to] = Prepared(x)]
    BY <1>1 DEF Dispatch, Start
  <2>3. fence[delivery[x].to] # NoFence => Terminal(fence[delivery[x].to].delivery)
    BY <1>1 DEF Dispatch
  <2>4. Prepared(x).outcome = "prepared" /\ NoFence.outcome \notin Spent
    BY DEF Prepared, NoFence, Spent
  <2>5. CASE e = delivery[x].to
    BY <2>1, <2>2, <2>3, <2>4, <2>5 DEF Lasting, SpentWhilePending, TypeInv, FenceTypes
  <2>6. CASE e # delivery[x].to
    BY <2>2, <2>6 DEF Lasting, SpentWhilePending, TypeInv, FenceTypes
  <2> QED
    BY <2>5, <2>6
<1>2. ASSUME NEW x \in Deliveries, AckRelease(x) PROVE Lasting(e, d) /\ SpentWhilePending(e)
  <2>1. PICK f \in Endpoints : fence[f].delivery = x /\ fence' = [fence EXCEPT ![f] = NoFence]
    BY <1>2 DEF AckRelease
  <2>2. Terminal(x) /\ NoFence.outcome # "uncertain"
    BY <1>2 DEF AckRelease, Terminal, NoFence
  <2> QED
    BY <2>1, <2>2 DEF Lasting, SpentWhilePending, TypeInv, FenceTypes
<1>3. ASSUME NEW f \in Endpoints, Reconcile(f) PROVE Lasting(e, d) /\ SpentWhilePending(e)
  <2>1. CASE ReconcileReleased(f)
    <3>1. NoFence.outcome # "uncertain"
      BY DEF NoFence
    <3> QED
      BY <2>1, <3>1 DEF ReconcileReleased, Lasting, SpentWhilePending, TypeInv, FenceTypes
  <2>2. CASE ReconcileReplaced(f)
    <3>1. fence' = [fence EXCEPT ![f] = Prepared(fence[f].delivery)]
      BY <2>2 DEF ReconcileReplaced, Start
    <3>2. ClaimedBy(fence[f].delivery, fence[f].generation)
      BY <2>2 DEF ReconcileReplaced, ClaimLapsed
    <3>3. Prepared(fence[f].delivery).outcome = "prepared"
      BY DEF Prepared
    <3> QED
      BY <3>1, <3>2, <3>3 DEF Lasting, SpentWhilePending, TypeInv, FenceTypes
  <2>3. CASE ReconcileResume(f) \/ ReconcileRetry(f)
    BY <2>3 DEF ReconcileResume, ReconcileRetry, Start, Lasting, SpentWhilePending
  <2>4. CASE ReconcileClamped(f)
    <3> DEFINE n == [fence[f] EXCEPT !.deadline = clock + Cooldown]
    <3>1. fence[f] # NoFence /\ fence[f] \in Reservations /\ fence[f].outcome \in Spent
      BY <1>3, <2>4, FenceRow DEF Reconcile, ReconcileClamped
    <3>2. fence' = [fence EXCEPT ![f] = n]
      BY <2>4 DEF ReconcileClamped
    <3>3. /\ n.generation = fence[f].generation /\ n.delivery = fence[f].delivery
          /\ n.outcome = fence[f].outcome /\ n.deadline = clock + Cooldown
          /\ n.endpoint = fence[f].endpoint /\ fence[f].endpoint \in Endpoints
      BY <3>1 DEF Reservations
    <3>4. n # NoFence
      BY <3>3, CodexWakeAssumption DEF NoFence
    <3> HIDE DEF n
    <3> QED
      BY <3>1, <3>2, <3>3, <3>4 DEF Lasting, SpentWhilePending, TypeInv, FenceTypes, Spent
  <2> QED
    BY <1>3, <2>1, <2>2, <2>3, <2>4 DEF Reconcile
<1> QED
  BY <1>1, <1>2, <1>3 DEF FenceNext

\* So do the steps of the threads, but for a wake of the queue path that could
\* not be started, which is taken back and is no wake.
LEMMA LastingWorker ==
    ASSUME TypeInv, QueueThreads, NEW w \in Workers, WorkerNext(w), NEW e \in Endpoints,
           NEW d \in Deliveries
    PROVE  /\ Lasting(e, d) \/ spentAt'[d] = 0
           /\ SpentWhilePending(e)
<1> DEFINE r == worker[w].item
<1>1. CASE WorkerBegin(w) \/ WorkerAmbiguous(w)
  <2>1. BeginAllowed(r) /\ fence' = [fence EXCEPT ![r.endpoint] = SpentItem(r)]
    BY <1>1 DEF WorkerBegin, WorkerAmbiguous, Stop
  <2>2. fence[r.endpoint] = r /\ r.outcome \notin Spent /\ State(r.delivery) = "pending"
    BY <2>1 DEF BeginAllowed, Spent
  <2> QED
    BY <2>1, <2>2 DEF Lasting, SpentWhilePending, TypeInv, FenceTypes
<1>2. CASE WorkerRefused(w) \/ WorkerBusy(w) \/ WorkerNotRun(w)
  <2>1. fence' = fence \/ (r.outcome = "prepared" /\ fence' = Released(r))
    BY <1>2 DEF WorkerRefused, WorkerBusy, WorkerNotRun, Stop
  <2>2. NoFence.outcome # "uncertain" /\ "prepared" \notin Spent
    BY DEF NoFence, Spent
  <2> QED
    BY <2>1, <2>2 DEF Released, Lasting, SpentWhilePending, TypeInv, FenceTypes
<1>3. CASE WorkerFailed(w)
  <2>1. CASE fence' = fence
    BY <2>1 DEF Lasting, SpentWhilePending
  <2>2. CASE fence[r.endpoint] = r /\ ~Retained
    <3>1. fence' = [fence EXCEPT ![r.endpoint] = NoFence] /\ spentAt' = [spentAt EXCEPT ![r.delivery] = 0]
      BY <1>3, <2>2 DEF WorkerFailed, Stop, Released
    <3>2. NoFence.outcome # "uncertain"
      BY DEF NoFence
    <3> QED
      BY <2>2, <3>1, <3>2 DEF Lasting, SpentWhilePending, TypeInv, FenceTypes, RelayTypes
  <2> QED
    BY <1>3, <2>1, <2>2 DEF WorkerFailed, Stop, Released
<1>4. CASE \/ WorkerDuplicate(w) \/ WorkerLaunch(w) \/ WorkerAsk(w)
           \/ WorkerRetryDeferred(w) \/ WorkerSubmit(w) \/ WorkerNotStarted(w)
  BY <1>4 DEF WorkerDuplicate, WorkerLaunch, WorkerAsk, WorkerRetryDeferred, WorkerSubmit,
              WorkerNotStarted, Stop, Lasting, SpentWhilePending
<1>5. CASE WorkerRearm(w) /\ Retained
  <2>1. /\ RetryAllowed(r) /\ worker[w].at # "idle"
        /\ fence' = [fence EXCEPT ![r.endpoint] = Rearmed(r, worker[w].target)]
    BY <1>5 DEF WorkerRearm
  <2>2. fence[r.endpoint] = r /\ CooldownElapsed(r.deadline)
    BY <2>1 DEF RetryAllowed
  <2>3. clock >= r.deadline
    BY <2>1, <2>2, ThreadItem DEF CooldownElapsed, TypeInv, RelayTypes, Reservations
  <2>4. Rearmed(r, worker[w].target).outcome = "prepared"
    BY DEF Rearmed
  <2> QED
    BY <1>5, <2>1, <2>2, <2>3, <2>4 DEF Lasting, SpentWhilePending, TypeInv, FenceTypes
<1>6. CASE WorkerFinish(w)
  <2>1. CASE fence' = fence
    BY <2>1 DEF Lasting, SpentWhilePending
  <2>2. CASE /\ fence[r.endpoint].outcome = "uncertain"
             /\ fence' = [fence EXCEPT ![r.endpoint].outcome = "accepted"]
    <3> DEFINE f == fence[r.endpoint]
               n == [f EXCEPT !.outcome = "accepted"]
    <3>1. r.endpoint \in Endpoints /\ f # NoFence
      BY <1>6, <2>2, ThreadItem DEF WorkerFinish, NoFence
    <3>2. f \in Reservations
      BY <3>1, FenceRow
    <3>3. /\ n.generation = f.generation /\ n.delivery = f.delivery /\ n.outcome = "accepted"
          /\ n.deadline = f.deadline /\ n.endpoint = f.endpoint /\ f.endpoint \in Endpoints
      BY <3>2 DEF Reservations
    <3>4. n # NoFence
      BY <3>3, CodexWakeAssumption DEF NoFence
    <3>5. fence' = [fence EXCEPT ![r.endpoint] = n]
      BY <2>2
    <3> HIDE DEF n
    <3> QED
      BY <3>1, <3>3, <3>4, <3>5 DEF Lasting, SpentWhilePending, TypeInv, FenceTypes, Spent
  <2> QED
    BY <1>6, <2>1, <2>2 DEF WorkerFinish, Stop
<1> QED
  BY <1>1, <1>2, <1>3, <1>4, <1>5, <1>6 DEF WorkerNext, QueueThreads, QueueThread, WorkerRearm

\* Nothing was spent initially.
LEMMA SpacedInit == Init => SpacedInv
<1>1. ASSUME Init PROVE \A d \in Deliveries : SpentHeld(d) /\ (Retained => spentAt[d] <= clock)
  BY <1>1 DEF Init, SpentHeld
<1>2. ASSUME Init PROVE QueueThreads
  BY <1>2 DEF Init, QueueThreads, QueueThread, Idle
<1> QED
  BY <1>1, <1>2 DEF SpacedInv

\* The relay leaves the fences alone; a claim ends the wait and an end of the
\* delivery needs no fence.
LEMMA SpacedRelay ==
    ASSUME TypeInv, SpacedInv, Retained => ~Rollbacks, RelayNext
    PROVE  SpacedInv'
<1>1. RelayStep
  BY RelayTypesNext
<1>2. fence' = fence /\ worker' = worker
  BY <1>1 DEF RelayStep
<1>3. QueueThreads'
  BY <1>2 DEF SpacedInv, QueueThreads, QueueThread
<1>4. clock \in Nat /\ Cooldown \in Nat /\ \A d \in Deliveries : spentAt[d] \in Nat
  BY CodexWakeAssumption DEF TypeInv, RelayTypes
<1>5. clock' \in Nat /\ (Retained => clock' >= clock)
  <2>1. CASE SetClock
    BY <1>4, <2>1 DEF SetClock
  <2>2. CASE clock' = clock
    BY <1>4, <2>2
  <2> QED
    BY <2>1, <2>2 DEF RelayNext, Send, OrdinaryTurn, HookSnapshot, HookClaim, HookGivesUp,
                      Deliver, Expire, Toggle, Move
<1>6. ASSUME NEW d \in Deliveries
      PROVE  \/ spentAt'[d] = 0
             \/ /\ spentAt'[d] = spentAt[d]
                /\ \/ delivery'[d] = delivery[d]
                   \/ delivery'[d].state \in {"delivered", "expired"}
                   \/ delivery'[d].state = "pending" /\ delivery[d].state = "none"
  <2> DEFINE Goal == \/ spentAt'[d] = 0
                     \/ /\ spentAt'[d] = spentAt[d]
                        /\ \/ delivery'[d] = delivery[d]
                           \/ delivery'[d].state \in {"delivered", "expired"}
                           \/ delivery'[d].state = "pending" /\ delivery[d].state = "none"
  <2>1. ASSUME NEW x \in Deliveries, NEW e \in Endpoints, Send(x, e) PROVE Goal
    BY <2>1 DEF Send, TypeInv, RelayTypes
  <2>2. ASSUME NEW x \in Deliveries, OrdinaryTurn(x) \/ HookClaim(x) PROVE Goal
    BY <2>2 DEF OrdinaryTurn, HookClaim, Claim, TypeInv, RelayTypes
  <2>3. ASSUME NEW x \in Deliveries, Deliver(x) PROVE Goal
    <3>1. delivery' = [delivery EXCEPT ![x] = [delivery[x] EXCEPT !.state = "delivered"]]
      BY <2>3 DEF Deliver
    <3>2. [delivery[x] EXCEPT !.state = "delivered"].state = "delivered"
      BY DEF TypeInv, RelayTypes, DeliveryRows
    <3> QED
      BY <2>3, <3>1, <3>2 DEF Deliver, TypeInv, RelayTypes
  <2>4. ASSUME NEW x \in Deliveries, Expire(x) PROVE Goal
    <3>1. delivery' = [delivery EXCEPT ![x] = [delivery[x] EXCEPT !.state = "expired"]]
      BY <2>4 DEF Expire
    <3>2. [delivery[x] EXCEPT !.state = "expired"].state = "expired"
      BY DEF TypeInv, RelayTypes, DeliveryRows
    <3> QED
      BY <2>4, <3>1, <3>2 DEF Expire, TypeInv, RelayTypes
  <2>5. ASSUME UNCHANGED <<delivery, spentAt>> PROVE Goal
    BY <2>5
  <2> HIDE DEF Goal
  <2>6. Goal
    BY <2>1, <2>2, <2>3, <2>4, <2>5
    DEF RelayNext, HookSnapshot, HookGivesUp, Toggle, Move, SetClock, durable
  <2> QED
    BY <2>6 DEF Goal
<1>7. ASSUME NEW d \in Deliveries, spentAt'[d] # 0
      PROVE  SpentHeld(d)' /\ (Retained => spentAt'[d] <= clock')
  <2>1. SpentHeld(d) /\ (Retained => spentAt[d] <= clock)
    BY DEF SpacedInv
  <2>2. spentAt'[d] = spentAt[d]
    BY <1>6, <1>7
  <2>3. ASSUME delivery'[d].state \in {"delivered", "expired"} PROVE SpentHeld(d)'
    BY <2>3 DEF SpentHeld, Terminal
  <2>4. ASSUME Terminal(d) PROVE SpentHeld(d)'
    <3>1. delivery'[d].state \in {"delivered", "expired"}
      BY <1>6, <1>7, <2>4 DEF Terminal
    <3> QED
      BY <2>3, <3>1
  <2>5. ASSUME Retained, clock >= spentAt[d] + Cooldown PROVE SpentHeld(d)'
    BY <1>4, <1>5, <2>2, <2>5 DEF SpentHeld
  <2>6. ASSUME NEW e \in Endpoints, Holds(e, d), delivery'[d].state \notin {"delivered", "expired"}
        PROVE  Holds(e, d)'
    <3>1. delivery'[d] = delivery[d] \/ delivery'[d].state = "pending"
      BY <1>6, <1>7, <2>6
    <3>2. ~ClaimedBy(d, fence[e].generation)
      BY <2>6 DEF Holds
    <3>3. ~(delivery'[d].state = "claimed" /\ delivery'[d].generation = fence[e].generation)
      BY <3>1, <3>2 DEF ClaimedBy
    <3> QED
      BY <1>2, <2>2, <2>6, <3>3 DEF Holds, ClaimedBy
  <2>7. SpentHeld(d)'
    BY <1>7, <2>1, <2>2, <2>3, <2>4, <2>5, <2>6 DEF SpentHeld
  <2> QED
    BY <1>4, <1>5, <2>1, <2>2, <2>7
<1>8. ASSUME NEW d \in Deliveries, spentAt'[d] = 0
      PROVE  SpentHeld(d)' /\ (Retained => spentAt'[d] <= clock')
  BY <1>5, <1>8 DEF SpentHeld
<1> QED
  BY <1>3, <1>7, <1>8 DEF SpacedInv

\* What hands a reservation to a thread hands on a prepared one, unless a retained
\* service retries.
LEMMA QueueFence ==
    ASSUME TypeInv, QueueThreads, FenceNext
    PROVE  QueueThreads'
<1> SUFFICES ASSUME ~Retained, NEW v \in Workers PROVE QueueThread(v)'
  BY DEF QueueThreads
<1>1. QueueThread(v)
  BY DEF QueueThreads
<1>2. ASSUME NEW at \in {"starting", "waiting"}, NEW r, NEW table, NEW sched,
             Start(at, r, table, sched), r.outcome = "prepared"
      PROVE  QueueThread(v)'
  BY <1>1, <1>2 DEF Start, Thread, QueueThread, TypeInv, WorkerTypes
<1>3. \A x : Prepared(x).outcome = "prepared"
  BY DEF Prepared
<1>4. CASE worker' = worker
  BY <1>1, <1>4 DEF QueueThread
<1>5. ASSUME NEW d \in Deliveries, Dispatch(d) PROVE QueueThread(v)'
  BY <1>2, <1>3, <1>5 DEF Dispatch
<1>6. ASSUME NEW e \in Endpoints, ReconcileReplaced(e) \/ ReconcileResume(e) PROVE QueueThread(v)'
  BY <1>2, <1>3, <1>6 DEF ReconcileReplaced, ReconcileResume
<1> QED
  BY <1>4, <1>5, <1>6 DEF FenceNext, AckRelease, Reconcile, ReconcileReleased, ReconcileClamped,
                          ReconcileRetry

\* A thread keeps to what it was handed.
LEMMA QueueWorker ==
    ASSUME TypeInv, QueueThreads, NEW w \in Workers, WorkerNext(w)
    PROVE  QueueThreads'
<1> SUFFICES ASSUME ~Retained, NEW v \in Workers PROVE QueueThread(v)'
  BY DEF QueueThreads
<1>1. QueueThread(v) /\ QueueThread(w)
  BY DEF QueueThreads
<1>2. CASE v # w
  <2>1. worker'[v] = worker[v]
    BY <1>2 DEF WorkerNext, WorkerDuplicate, WorkerLaunch, WorkerNotRun, WorkerBegin, WorkerAmbiguous,
                WorkerRefused, WorkerBusy, WorkerAsk, WorkerRearm, WorkerRetryDeferred, WorkerSubmit,
                WorkerNotStarted, WorkerFailed, WorkerFinish, Stop, TypeInv, WorkerTypes
  <2> QED
    BY <1>1, <2>1 DEF QueueThread
<1>3. CASE v = w
  <2>1. CASE worker' = [worker EXCEPT ![w] = Idle]
    BY <1>3, <2>1 DEF Idle, QueueThread, TypeInv, WorkerTypes
  <2>2. CASE WorkerLaunch(w)
    BY <1>1, <1>3, <2>2 DEF WorkerLaunch, Thread, QueueThread, TypeInv, WorkerTypes
  <2>3. CASE WorkerBegin(w)
    BY <1>3, <2>3 DEF WorkerBegin, QueueThread, TypeInv, WorkerTypes
  <2>4. CASE WorkerSubmit(w) \/ WorkerNotStarted(w)
    <3>1. worker'[w].at \in {"sent", "failed"}
      BY <2>4 DEF WorkerSubmit, WorkerNotStarted, TypeInv, WorkerTypes, Threads
    <3> QED
      BY <1>3, <3>1 DEF QueueThread
  <2>5. ~WorkerAsk(w) /\ ~WorkerRearm(w)
    BY <1>1 DEF QueueThread, WorkerAsk, WorkerRearm, RetryAllowed, Spent
  <2> QED
    BY <2>1, <2>2, <2>3, <2>4, <2>5
    DEF WorkerNext, WorkerDuplicate, WorkerNotRun, WorkerAmbiguous, WorkerRefused, WorkerBusy,
        WorkerRetryDeferred, WorkerFailed, WorkerFinish, Stop
<1> QED
  BY <1>2, <1>3

\* Every step keeps the third layer, if the clock of a retained service is not set back.
LEMMA SpacedNext ==
    ASSUME TypeInv, SpacedInv, Retained => ~Rollbacks, [Next]_vars
    PROVE  SpacedInv'
<1>1. clock \in Nat /\ Cooldown \in Nat /\ \A d \in Deliveries : spentAt[d] \in Nat
  BY CodexWakeAssumption DEF TypeInv, RelayTypes
<1>2. QueueThreads /\ \A d \in Deliveries : Retained => spentAt[d] <= clock
  BY DEF SpacedInv
<1>3. CASE UNCHANGED <<clock, delivery, fence, spentAt>> /\ QueueThreads'
  <2>1. \A e \in Endpoints, d \in Deliveries : Lasting(e, d)
    BY <1>3 DEF Lasting
  <2> QED
    BY <1>2, <1>3, <2>1, LastingHeld DEF SpacedInv
<1>4. CASE UNCHANGED vars
  BY <1>2, <1>3, <1>4 DEF vars, QueueThreads, QueueThread
<1>5. CASE Restart
  BY <1>3, <1>5 DEF Restart, durable, QueueThreads, QueueThread, Idle
<1>6. CASE FenceNext
  <2>1. UNCHANGED <<clock, delivery, spentAt>>
    BY <1>6 DEF FenceNext, Dispatch, AckRelease, Reconcile, durable
  <2>2. QueueThreads'
    BY <1>2, <1>6, QueueFence
  <2>3. \A d \in Deliveries : SpentHeld(d)'
    BY <1>6, <2>1, LastingFence, LastingHeld
  <2> QED
    BY <1>2, <2>1, <2>2, <2>3 DEF SpacedInv
<1>7. ASSUME NEW w \in Workers, WorkerNext(w) PROVE SpacedInv'
  <2> DEFINE r == worker[w].item
  <2>1. UNCHANGED <<clock, delivery>>
    BY <1>7 DEF WorkerNext, WorkerDuplicate, WorkerLaunch, WorkerNotRun, WorkerBegin, WorkerAmbiguous,
                WorkerRefused, WorkerBusy, WorkerAsk, WorkerRearm, WorkerRetryDeferred, WorkerSubmit,
                WorkerNotStarted, WorkerFailed, WorkerFinish, Stop, durable
  <2>2. QueueThreads'
    BY <1>2, <1>7, QueueWorker
  <2>3. ASSUME NEW d \in Deliveries, spentAt'[d] = 0
        PROVE  SpentHeld(d)' /\ (Retained => spentAt'[d] <= clock')
    BY <1>1, <2>1, <2>3 DEF SpentHeld
  <2>4. ASSUME NEW d \in Deliveries, spentAt'[d] = spentAt[d], spentAt[d] # 0
        PROVE  SpentHeld(d)' /\ (Retained => spentAt'[d] <= clock')
    <3>1. \A e \in Endpoints : Lasting(e, d)
      BY <1>2, <1>7, <2>4, LastingWorker
    <3>2. SpentHeld(d)'
      BY <2>1, <2>4, <3>1, LastingHeld
    <3> QED
      BY <1>2, <2>1, <2>4, <3>2
  <2>5. ASSUME WorkerBegin(w) \/ WorkerAmbiguous(w), NEW d \in Deliveries
        PROVE  /\ d = r.delivery => SpentHeld(d)'
               /\ spentAt' = [spentAt EXCEPT ![r.delivery] = clock]
    <3>1. /\ BeginAllowed(r) /\ fence' = [fence EXCEPT ![r.endpoint] = SpentItem(r)]
          /\ spentAt' = [spentAt EXCEPT ![r.delivery] = clock]
      BY <2>5 DEF WorkerBegin, WorkerAmbiguous, Stop
    <3>2. r \in Reservations /\ r.endpoint \in Endpoints /\ r.delivery \in Deliveries
      BY <2>5, ThreadItem DEF WorkerBegin, WorkerAmbiguous
    <3>3. /\ SpentItem(r) \in Reservations /\ SpentItem(r).delivery = r.delivery
          /\ SpentItem(r).generation = r.generation /\ SpentItem(r).outcome \in Spent
          /\ SpentItem(r).deadline = clock + Cooldown
      BY <1>1, <3>2, SpentType DEF Spent, SpentItem
    <3>4. ~ClaimedBy(r.delivery, r.generation)
      BY <3>1 DEF BeginAllowed
    <3> HIDE DEF r
    <3>5. fence'[r.endpoint] = SpentItem(r) /\ spentAt'[r.delivery] = clock
      BY <3>1, <3>2 DEF TypeInv, FenceTypes, RelayTypes
    <3>6. fence'[r.endpoint] # NoFence
      BY <3>3, <3>5, NoFenceIsNone
    <3>7. Retained => fence'[r.endpoint].deadline >= spentAt'[r.delivery] + Cooldown
      BY <1>1, <3>3, <3>5
    <3>8. ~(delivery'[r.delivery].state = "claimed"
             /\ delivery'[r.delivery].generation = fence'[r.endpoint].generation)
      BY <2>1, <3>3, <3>4, <3>5 DEF ClaimedBy
    <3>9. \E e \in Endpoints :
             /\ fence'[e] # NoFence /\ fence'[e].delivery = r.delivery /\ fence'[e].outcome \in Spent
             /\ ~(delivery'[r.delivery].state = "claimed"
                   /\ delivery'[r.delivery].generation = fence'[e].generation)
             /\ Retained => fence'[e].deadline >= spentAt'[r.delivery] + Cooldown
      BY <3>2, <3>3, <3>5, <3>6, <3>7, <3>8
    <3> QED
      BY <3>1, <3>9 DEF SpentHeld, Holds, ClaimedBy
  <2>6. CASE WorkerBegin(w) \/ WorkerAmbiguous(w)
    <3>1. \A d \in Deliveries : SpentHeld(d)' /\ (Retained => spentAt'[d] <= clock')
      <4> TAKE d \in Deliveries
      <4>1. CASE d = r.delivery
        <5>1. spentAt'[d] = clock
          BY <2>5, <2>6, <4>1 DEF TypeInv, RelayTypes
        <5> QED
          BY <1>1, <2>1, <2>5, <2>6, <4>1, <5>1
      <4>2. CASE d # r.delivery
        <5>1. spentAt'[d] = spentAt[d]
          BY <2>5, <2>6, <4>2 DEF TypeInv, RelayTypes
        <5> QED
          BY <2>3, <2>4, <5>1
      <4> QED
        BY <4>1, <4>2
    <3> QED
      BY <2>2, <3>1 DEF SpacedInv
  <2>7. CASE ~(WorkerBegin(w) \/ WorkerAmbiguous(w))
    <3>1. \A d \in Deliveries : spentAt'[d] = spentAt[d] \/ spentAt'[d] = 0
      BY <1>7, <2>7 DEF WorkerNext, WorkerDuplicate, WorkerLaunch, WorkerNotRun,
                WorkerRefused, WorkerBusy, WorkerAsk, WorkerRearm, WorkerRetryDeferred, WorkerSubmit,
                WorkerNotStarted, WorkerFailed, WorkerFinish, TypeInv, RelayTypes
    <3> QED
      BY <2>2, <2>3, <2>4, <3>1 DEF SpacedInv
  <2> QED
    BY <2>6, <2>7
<1> QED
  BY <1>4, <1>5, <1>6, <1>7, SpacedRelay DEF Next

\* What RetrySpaced says of the fence of e in one step.
RetryHeld(e) ==
    (fence[e].outcome = "prepared" /\ fence'[e].outcome = "uncertain") =>
        \/ spentAt[fence[e].delivery] = 0
        \/ Retained /\ clock >= spentAt[fence[e].delivery] + Cooldown

\* Pallium does not blindly resubmit.  After a wake was spent on a delivery that
\* nobody has claimed since, the queue path never spends another one, whatever the
\* clock does, and the retained service only after a full cooldown, provided its
\* wall clock is not set back.
THEOREM RetriesAreSpaced == (Retained => ~Rollbacks) => (Spec => RetrySpaced)
<1> SUFFICES ASSUME Retained => ~Rollbacks PROVE Spec => RetrySpaced
  OBVIOUS
<1>1. Spec => []SpacedInv
  <2>1. TypeInv /\ SpacedInv /\ [Next]_vars => SpacedInv'
    BY SpacedNext
  <2> QED
    BY <2>1, SpacedInit, WakeInvariant, PTL DEF Spec
<1>2. TypeInv /\ SpacedInv /\ [Next]_vars => [\A e \in Endpoints : RetryHeld(e)]_vars
  <2> SUFFICES ASSUME TypeInv, SpacedInv, Next, NEW e \in Endpoints,
                      fence[e].outcome = "prepared", fence'[e].outcome = "uncertain"
               PROVE  \/ spentAt[fence[e].delivery] = 0
                      \/ Retained /\ clock >= spentAt[fence[e].delivery] + Cooldown
    BY DEF RetryHeld
  <2>1. fence[e] # NoFence
    BY DEF NoFence
  <2>2. fence[e].delivery \in Deliveries /\ delivery[fence[e].delivery].to = e
    BY <2>1, FenceRow
  <2>3. SpentWhilePending(e)
    <3>1. CASE fence' = fence
      BY <3>1 DEF SpentWhilePending
    <3>2. CASE FenceNext
      BY <2>2, <3>2, LastingFence
    <3>3. ASSUME NEW w \in Workers, WorkerNext(w) PROVE SpentWhilePending(e)
      BY <2>2, <3>3, LastingWorker DEF SpacedInv
    <3> QED
      BY <3>1, <3>2, <3>3, RelayTypesNext DEF Next, RelayStep, Restart
  <2>4. ~Terminal(fence[e].delivery)
    BY <2>3 DEF SpentWhilePending, State, Terminal
  <2>5. \A f \in Endpoints : ~Holds(f, fence[e].delivery)
    BY <2>2, FenceRow DEF Holds, Spent
  <2> QED
    BY <2>2, <2>4, <2>5 DEF SpacedInv, SpentHeld
<1>3. TypeInv /\ SpacedInv /\ [Next]_vars =>
        [\A e \in Endpoints :
           (fence[e].outcome = "prepared" /\ fence'[e].outcome = "uncertain") =>
               \/ spentAt[fence[e].delivery] = 0
               \/ Retained /\ clock >= spentAt[fence[e].delivery] + Cooldown]_vars
  BY <1>2 DEF RetryHeld
<1> QED
  BY <1>1, <1>3, WakeInvariant, PTL DEF Spec, RetrySpaced
=============================================================================
