------------------------------ MODULE ClaudeWake ------------------------------
(***************************************************************************)
(* The wake registry of Claude Code sessions (core/claude_wake.py) with    *)
(* its workers and reconciler (app/claude_wake.py), the hook's write-ahead *)
(* intents (integrations/claude-code/hooks/common.py) and the callbacks of *)
(* the Relay routes that reach the registry (app/dependencies.py).         *)
(*                                                                         *)
(* A scope is one (session, container) pair: the key of a registration,    *)
(* and of an intent file.  A session keeps its Relay endpoint when it      *)
(* moves to another container, so several scopes share one endpoint.       *)
(*                                                                         *)
(* Simplifications.                                                        *)
(*  - Credentials, generations and timestamps are left out: nothing below  *)
(*    decides on them.  Rows never carry an admission id in this version,  *)
(*    so revocation notices match no row and are left out.                 *)
(*  - An absent capabilities.json loads as the empty registry and is not   *)
(*    told apart from an empty one.                                        *)
(*  - The registry lock is held by every operation from start to end.      *)
(*    Only `attempt' does anything slow under it (the native write), so it *)
(*    is the one operation in two steps; `Free' says nobody holds the lock.*)
(*  - A crash between the two halves of a quarantine leaves what a         *)
(*    quarantine whose second half failed leaves, followed by a crash.     *)
(*                                                                         *)
(* Operators named X_Y are faulty variants of X, used to show that a       *)
(* property can fail.                                                      *)
(***************************************************************************)
EXTENDS Naturals, FiniteSets

CONSTANTS
    Scopes,             \* (session, container) pairs
    Endpoints,          \* Relay endpoints of Claude sessions
    EndpointOf,         \* the endpoint of a scope's session
    Deliveries,         \* Relay deliveries
    To,                 \* the endpoint a delivery is for
    MaxRegistrations,   \* MAX_REGISTRATIONS
    MaxIntents,         \* bound: intents the hooks write
    MaxCrashes,         \* bound: crashes of the service
    MaxFaults,          \* bound: failed writes of capabilities.json
    Nobody

ASSUME ClaudeAssumption ==
    /\ EndpointOf \in [Scopes -> Endpoints]
    /\ To \in [Deliveries -> Endpoints]
    /\ MaxRegistrations \in Nat \ {0}
    /\ MaxIntents \in Nat
    /\ MaxCrashes \in Nat
    /\ MaxFaults \in Nat
    /\ Nobody \notin Deliveries
    /\ Nobody \notin Scopes

VARIABLES
    reg,        \* _registrations
    canonical,  \* capabilities.json
    marker,     \* the file store-unusable exists
    refused,    \* _rehydration_refused
    intent,     \* the intent file of each scope
    issued,     \* intents written so far
    delivery,   \* state of each delivery in the Relay store
    home,       \* the scope each endpoint is enrolled at in the Relay store
    worker,     \* _worker_attempt_ids, and the worker thread of an endpoint
    admits,     \* turns whose admission callback has not run
    releases,   \* acknowledgements whose callback has not run
    crashes,
    faults,
    framed,     \* history: native frames that may have reached a session
    torn,       \* history: a quarantine ended without the marker
    working,    \* history: scopes marked busy since their last idle intent
    stranded    \* history: acknowledgements whose callback was lost

relay == <<delivery, home>>
disk == <<canonical, marker>>
callbacks == <<admits, releases>>
bounds == <<crashes, faults>>
history == <<framed, torn, working, stranded>>
vars == <<reg, disk, refused, intent, issued, relay, worker,
          callbacks, bounds, history>>

-----------------------------------------------------------------------------
(* The registry's rows and files. *)

RowStates == {"none", "idle", "busy", "unreachable", "wake_inflight"}
Row == [state : RowStates, delivery : Deliveries \cup {Nobody}]
Plain(state) == [state |-> state, delivery |-> Nobody]
Holding(d) == [state |-> "wake_inflight", delivery |-> d]
NoRows == [s \in Scopes |-> Plain("none")]

IntentKinds == {"idle", "busy", "closed"}

NoWorker == [phase |-> "none", scope |-> Nobody, delivery |-> Nobody]
Worker == [phase : {"none", "scheduled", "reserved"},
           scope : Scopes \cup {Nobody}, delivery : Deliveries \cup {Nobody}]

Free == \A e \in Endpoints : worker[e].phase # "reserved"

InFlight(rows, s) == rows[s].state = "wake_inflight"
Registered(rows) == {s \in Scopes : rows[s].state # "none"}

\* A loaded file may hold one reservation for an endpoint and for a delivery.
Loadable(rows) ==
    \A s, t \in Scopes :
        InFlight(rows, s) /\ InFlight(rows, t) /\ s # t =>
            /\ EndpointOf[s] # EndpointOf[t]
            /\ rows[s].delivery # rows[t].delivery

\* An atomic write of capabilities.json succeeds, or a fault is spent.
Written(ok) ==
    /\ ok \/ faults < MaxFaults
    /\ faults' = IF ok THEN faults ELSE faults + 1

\* _quarantine_or_mark_unusable_locked: the file is moved away and the marker
\* written; either half may fail, and the marker is tried in any case.
Quarantine ==
    /\ refused' = TRUE
    /\ \E moved, marked \in BOOLEAN :
        /\ canonical' = IF moved THEN NoRows ELSE canonical
        /\ marker' = (marker \/ marked)
        /\ torn' = (torn \/ ~marker')

\* The rows with space for scope s: as they are, or, at the limit, without
\* one row whose native endpoint is provably gone and which is not in flight.
\* (_ensure_capacity_locked; it has written the file when it drops a row.)
WithRoom(s) ==
    IF reg[s].state # "none" \/ Cardinality(Registered(reg)) < MaxRegistrations
    THEN {reg}
    ELSE {[reg EXCEPT ![v] = Plain("none")] :
              v \in {t \in Registered(reg) : ~InFlight(reg, t)}}

-----------------------------------------------------------------------------
Init ==
    /\ reg = NoRows /\ canonical = NoRows
    /\ marker = FALSE /\ refused = FALSE
    /\ intent = [s \in Scopes |-> "none"] /\ issued = 0
    /\ delivery = [d \in Deliveries |-> "pending"]
    /\ home \in {h \in [Endpoints -> Scopes] : \A e \in Endpoints : EndpointOf[h[e]] = e}
    /\ worker = [e \in Endpoints |-> NoWorker]
    /\ admits = {} /\ releases = {}
    /\ crashes = 0 /\ faults = 0
    /\ framed = [d \in Deliveries |-> 0]
    /\ torn = FALSE
    /\ working = {}
    /\ stranded = {}

-----------------------------------------------------------------------------
(* Intents: the hook writes the file, then sends a request.  An intent is   *)
(* applied by that request, late or never, or by recover_intents, at startup *)
(* and in every pass of the reconciler.                                      *)

WriteIntent(s, kind) ==
    /\ issued < MaxIntents
    /\ issued' = issued + 1
    /\ intent' = [intent EXCEPT ![s] = kind]
    /\ working' = IF kind = "idle" THEN working \ {s} ELSE working
    /\ UNCHANGED <<reg, disk, refused, relay, worker, callbacks, bounds,
                   framed, torn, stranded>>

OnDisk_AnyRequest(s, kind) == kind \in IntentKinds

\* Compare before apply: a request is turned away unless the intent it was
\* sent for is still the one on disk.
OnDisk(s, kind) == intent[s] = kind

Admitted_Fresh(s, kind) == Plain(kind)

\* The row of a registration: an existing reservation is kept.
Admitted(s, kind) == IF InFlight(reg, s) THEN reg[s] ELSE Plain(kind)

\* ClaudeWakeRegistry.register.  The intent
\* stays on disk when the Relay store could not be told that the session is
\* active (~completed).
Register(s, kind) ==
    /\ Free
    /\ ~refused
    /\ OnDisk(s, kind)
    /\ kind \in {"idle", "busy"}
    /\ \E base \in WithRoom(s), ok, completed \in BOOLEAN :
        LET rows == IF ok THEN [base EXCEPT ![s] = Admitted(s, kind)] ELSE base
        IN  /\ Written(ok)
            /\ reg' = rows /\ canonical' = rows
            /\ intent' = IF ok /\ completed THEN [intent EXCEPT ![s] = "none"] ELSE intent
            /\ working' = IF ok /\ kind = "busy" THEN working \cup {s} ELSE working
    /\ UNCHANGED <<marker, refused, issued, relay, worker, callbacks, crashes,
                   framed, torn, stranded>>

\* ClaudeWakeRegistry.close: a reservation outlives the close of its scope.
Close(s) ==
    LET rows == [reg EXCEPT ![s] = Plain("none")]
    IN  /\ Free
        /\ OnDisk(s, "closed")
        /\ \E ok \in BOOLEAN :
            /\ IF InFlight(reg, s)
               THEN ok /\ UNCHANGED <<reg, canonical, faults>>
               ELSE /\ Written(ok)
                    /\ reg' = IF ok THEN rows ELSE reg
                    /\ canonical' = IF ok THEN rows ELSE canonical
            /\ intent' = IF ok THEN [intent EXCEPT ![s] = "none"] ELSE intent
        /\ UNCHANGED <<marker, refused, issued, relay, worker, callbacks,
                       crashes, framed, torn, working, stranded>>

\* recover_intents on a file of the older, unscoped name, which a hook of an
\* older version may leave at any time: it drops the row of its scope, but no
\* reservation.
RecoverLegacy(s) ==
    /\ Free
    /\ ~InFlight(reg, s)
    /\ reg' = [reg EXCEPT ![s] = Plain("none")]
    /\ \E ok \in BOOLEAN :
        /\ Written(ok)
        /\ IF ok THEN canonical' = reg' /\ UNCHANGED <<marker, refused, torn>>
                 ELSE Quarantine
    /\ UNCHANGED <<intent, issued, relay, worker, callbacks, crashes, framed, working,
                   stranded>>

-----------------------------------------------------------------------------
(* The Relay store, as far as the registry reads it. *)

\* /relay/turn commits: the session is enrolled at s and claims what is
\* pending; the admission callback runs afterwards.
Turn(s) ==
    /\ home' = [home EXCEPT ![EndpointOf[s]] = s]
    /\ delivery' = [d \in Deliveries |->
           IF To[d] = EndpointOf[s] /\ delivery[d] = "pending" THEN "claimed" ELSE delivery[d]]
    /\ admits' = admits \cup {s}
    /\ UNCHANGED <<reg, disk, refused, intent, issued, worker,
                   releases, bounds, history>>

\* A claim's lease runs out, or the message's lifetime does.
Lapse(d) ==
    /\ \/ delivery[d] = "claimed" /\ delivery' = [delivery EXCEPT ![d] = "pending"]
       \/ delivery[d] \in {"pending", "claimed"} /\ delivery' = [delivery EXCEPT ![d] = "expired"]
    /\ UNCHANGED <<reg, disk, refused, intent, issued, home, worker,
                   callbacks, bounds, history>>

\* An acknowledgement (or a reply) commits; its callback is a background task.
Ack(d) ==
    /\ delivery[d] = "claimed"
    /\ delivery' = [delivery EXCEPT ![d] = "acked"]
    /\ releases' = releases \cup {d}
    /\ UNCHANGED <<reg, disk, refused, intent, issued, home, worker,
                   admits, bounds, history>>

-----------------------------------------------------------------------------
(* Callbacks into the registry. *)

\* _relay_turn_admission -> mark_busy.  When the write fails this process
\* keeps the session busy and fences the stale file.
MarkBusy(s) ==
    /\ Free
    /\ s \in admits
    /\ admits' = admits \ {s}
    /\ IF reg[s].state \in {"none", "wake_inflight"}
       THEN UNCHANGED <<reg, disk, refused, faults, torn, working>>
       ELSE \E ok \in BOOLEAN :
            /\ Written(ok)
            /\ reg' = [reg EXCEPT ![s] = Plain("busy")]
            /\ IF ok THEN canonical' = reg' /\ UNCHANGED <<marker, refused, torn>>
                     ELSE Quarantine
            /\ working' = IF intent[s] = "idle" THEN working ELSE working \cup {s}
    /\ UNCHANGED <<intent, issued, relay, worker, releases, crashes,
                   framed, stranded>>

Released_Renamed(s) == [reg EXCEPT ![s] = Plain("released")]

Released(s) == [reg EXCEPT ![s] = Plain("busy")]

\* _relay_ack_release -> release_delivery: exactly this delivery's reservation.
Release(d) ==
    /\ Free
    /\ d \in releases
    /\ releases' = releases \ {d}
    /\ \/ /\ \A s \in Scopes : reg[s] # Holding(d)
          /\ UNCHANGED <<reg, disk, refused, faults, torn>>
       \/ \E s \in Scopes, ok \in BOOLEAN :
          /\ reg[s] = Holding(d)
          /\ Written(ok)
          /\ reg' = IF ok THEN Released(s) ELSE reg
          /\ IF ok THEN canonical' = reg' /\ UNCHANGED <<marker, refused, torn>>
                   ELSE Quarantine
    /\ UNCHANGED <<intent, issued, relay, worker, admits, crashes,
                   framed, working, stranded>>

\* _relay_ack_release looks the endpoint up in the Relay store first.  A storage
\* error there ends the callback, and the route only logs it.
ReleaseLost(d) ==
    /\ d \in releases
    /\ releases' = releases \ {d}
    /\ stranded' = stranded \cup {d}
    /\ UNCHANGED <<reg, disk, refused, intent, issued, relay, worker, admits,
                   bounds, framed, torn, working>>

-----------------------------------------------------------------------------
(* Workers: at most one for an endpoint. *)

Pending(s, d) ==
    /\ delivery[d] = "pending"
    /\ To[d] = EndpointOf[s]
    /\ home[EndpointOf[s]] = s

\* schedule_claude_relay_wake.
Schedule(s, d) ==
    /\ Pending(s, d)
    /\ worker[EndpointOf[s]] = NoWorker
    /\ worker' = [worker EXCEPT ![EndpointOf[s]] =
                      [phase |-> "scheduled", scope |-> s, delivery |-> d]]
    /\ UNCHANGED <<reg, disk, refused, intent, issued, relay,
                   callbacks, bounds, history>>

\* The reconciler schedules the idle capabilities of a usable registry.
Reconcile(s, d) ==
    /\ Free
    /\ ~refused
    /\ reg[s].state = "idle"
    /\ Schedule(s, d)

Eligible_AnyScope(s, d) == reg[s].state = "idle" /\ Pending(s, d)

Eligible_Unchecked(s, d) ==
    /\ reg[s].state = "idle"
    /\ \A t \in Scopes : EndpointOf[t] = EndpointOf[s] => ~InFlight(reg, t)

\* An idle row, no reservation at any scope of the endpoint, and the delivery
\* still pending there: all read under the registry lock.
Eligible(s, d) ==
    /\ reg[s].state = "idle"
    /\ \A t \in Scopes : EndpointOf[t] = EndpointOf[s] => ~InFlight(reg, t)
    /\ Pending(s, d)

Done_KeepsEntry(e) == [worker EXCEPT ![e].phase = "none"]

\* The worker of e ends and gives up its entry.
Done(e) == [worker EXCEPT ![e] = NoWorker]

\* attempt, first half: the reservation is durable before the native write.
Reserve(e) ==
    LET s == worker[e].scope
        d == worker[e].delivery
        rows == [reg EXCEPT ![s] = Holding(d)]
    IN  /\ Free
        /\ worker[e].phase = "scheduled"
        /\ \/ /\ Eligible(s, d)
              /\ reg' = rows /\ canonical' = rows
              /\ worker' = [worker EXCEPT ![e].phase = "reserved"]
              /\ UNCHANGED faults
           \/ /\ ~Eligible(s, d) \/ faults < MaxFaults
              /\ faults' = IF Eligible(s, d) THEN faults + 1 ELSE faults
              /\ worker' = Done(e)
              /\ UNCHANGED <<reg, canonical>>
        /\ UNCHANGED <<marker, refused, intent, issued, relay, callbacks, crashes, history>>

\* attempt, second half: the frame was written, or may have been.
Submit(e) ==
    /\ worker[e].phase = "reserved"
    /\ framed' = [framed EXCEPT ![worker[e].delivery] = @ + 1]
    /\ worker' = Done(e)
    /\ UNCHANGED <<reg, disk, refused, intent, issued, relay,
                   callbacks, bounds, torn, working, stranded>>

\* attempt, second half: certainly no frame.  The reservation is reset by a
\* second durable write; if that fails it stays, and the store is fenced.
SafeFail(e) ==
    /\ worker[e].phase = "reserved"
    /\ worker' = Done(e)
    /\ \E ok \in BOOLEAN, state \in {"idle", "unreachable"} :
        /\ Written(ok)
        /\ reg' = IF ok THEN [reg EXCEPT ![worker[e].scope] = Plain(state)] ELSE reg
        /\ IF ok THEN canonical' = reg' /\ UNCHANGED <<marker, refused, torn>>
                 ELSE Quarantine
    /\ UNCHANGED <<intent, issued, relay, callbacks, crashes,
                   framed, working, stranded>>

\* The service dies, in the middle of a native write or elsewhere, and starts
\* again from its files (_load).  Callbacks that had not run are lost.  A frame
\* may have left before the crash.
Crash ==
    /\ crashes < MaxCrashes
    /\ crashes' = crashes + 1
    /\ refused' = (marker \/ ~Loadable(canonical))
    /\ reg' = IF refused' THEN NoRows ELSE canonical
    /\ worker' = [e \in Endpoints |-> NoWorker]
    /\ framed' \in {framed, [d \in Deliveries |->
           framed[d] + Cardinality({e \in Endpoints : worker[e].phase = "reserved"
                                                      /\ worker[e].delivery = d})]}
    /\ admits' = {} /\ releases' = {}
    /\ stranded' = stranded \cup releases
    /\ UNCHANGED <<disk, intent, issued, relay, faults,
                   torn, working>>

Next ==
    \/ \E s \in Scopes : \/ \E kind \in IntentKinds : WriteIntent(s, kind) \/ Register(s, kind)
                         \/ Close(s)
                         \/ RecoverLegacy(s)
                         \/ Turn(s)
                         \/ MarkBusy(s)
                         \/ \E d \in Deliveries : Schedule(s, d)
    \/ \E d \in Deliveries : Lapse(d) \/ Ack(d) \/ Release(d) \/ ReleaseLost(d)
    \/ \E e \in Endpoints : Reserve(e) \/ Submit(e) \/ SafeFail(e)
    \/ Crash

Spec == Init /\ [][Next]_vars

-----------------------------------------------------------------------------
(* Properties. *)

\* The rows, files, callbacks and workers have the shapes the code gives them.
TypeOK ==
    /\ reg \in [Scopes -> Row] /\ canonical \in [Scopes -> Row]
    /\ marker \in BOOLEAN /\ refused \in BOOLEAN /\ torn \in BOOLEAN
    /\ intent \in [Scopes -> IntentKinds \cup {"none"}] /\ issued \in 0..MaxIntents
    /\ working \subseteq Scopes /\ admits \subseteq Scopes
    /\ crashes \in 0..MaxCrashes /\ faults \in 0..MaxFaults
    /\ delivery \in [Deliveries -> {"pending", "claimed", "acked", "expired"}]
    /\ home \in [Endpoints -> Scopes]
    /\ worker \in [Endpoints -> Worker]
    /\ releases \subseteq Deliveries /\ stranded \subseteq Deliveries
    /\ framed \in [Deliveries -> Nat]

\* A native frame that was or may have been written stays a fence, across
\* restarts, registrations, closes, evictions and failed writes, until its own
\* delivery is acknowledged: no delivery is submitted twice and no endpoint
\* gets a second frame meanwhile.  The one exception the code leaves is a
\* quarantine that moved the file away and did not write the marker.
NativeFence ==
    torn \/ \A d \in Deliveries :
        /\ framed[d] <= 1
        /\ \A c \in Deliveries \ {d} :
              To[c] = To[d] /\ framed[d] = 1 /\ framed[c] = 1
                  => delivery[d] = "acked" \/ delivery[c] = "acked"

\* The registry never writes a file that its own _load would refuse.
WritesLoadable == Loadable(canonical)

\* A session the service has recorded as working since its last idle intent
\* gets no wake, restarts included.  Exceptions: an unmarked quarantine, and an
\* idle intent that was still on disk when the session was marked busy.
BusyNotWoken ==
    \A e \in Endpoints :
        worker[e].phase = "reserved" => torn \/ worker[e].scope \notin working

\* Every reservation of an acknowledged delivery has a callback still to come that
\* releases it, or one that was lost (in a crash, or by a storage error before it
\* reached the registry), or the store is refused: checking `pending' and reserving
\* under the lock that `release_delivery' takes leaves no gap in between, and no
\* registration, move, failed write or callback of another delivery loses one.
NoStrandedReservation ==
    \A s \in Scopes, d \in Deliveries :
        reg[s] = Holding(d) /\ delivery[d] = "acked"
            => d \in releases \cup stranded \/ refused \/ torn

\* A pending delivery and an idle capability of a usable registry do not wait
\* on each other for ever: an attempt reserves, or one of them changes.
Waiting(s, d) ==
    /\ ~refused
    /\ reg[s].state = "idle"
    /\ Pending(s, d)
    /\ \A t \in Scopes : EndpointOf[t] = EndpointOf[s] => ~InFlight(reg, t)

WakeAttempted == \A s \in Scopes, d \in Deliveries : []<>~Waiting(s, d)

-----------------------------------------------------------------------------
\* The reconciler runs every second and worker threads run to their end.
Fairness ==
    /\ \A s \in Scopes : WF_vars(\E d \in Deliveries : Reconcile(s, d))
    /\ \A e \in Endpoints : WF_vars(Reserve(e)) /\ WF_vars(Submit(e) \/ SafeFail(e))

FairSpec == Spec /\ Fairness
=============================================================================
