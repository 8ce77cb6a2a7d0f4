----------------------------- MODULE OpenCodeWake -----------------------------
(***************************************************************************)
(* Native wakes of one OpenCode session: the wake record of its endpoint   *)
(* (storage/sqlite_relay.py), the V2 plugin instances that compete for it  *)
(* (integrations/opencode/.opencode/plugins/pallium-v2.mjs) and, external, *)
(* the OpenCode host that queues and runs native inputs.                   *)
(*                                                                         *)
(* A plugin polls the store; the store anchors a delivery under a new      *)
(* generation; the plugin submits a native input whose id is made of that  *)
(* generation, reports it admitted, waits, and reports its terminal        *)
(* record.  When the host runs the input, the context hook claims the      *)
(* delivery and acknowledges it once it is attached to the model context.  *)
(*                                                                         *)
(* Simplifications.                                                        *)
(*  - Clocks are flags: a lease is live until it ends, a retry waits until *)
(*    its back-off ends.  An expired message is seen as expired at once.   *)
(*  - The scope generation is constant: the plugin never changes scope.    *)
(*  - Every delivery fits the context budget and renders safely.           *)
(*  - A request is executed at most once; its reply may be lost.           *)
(*  - As the plugin relies on, a prompt whose id the host has already seen *)
(*    is not queued again.                                                 *)
(*  - An owner is one plugin instance; a new instance draws a new id.      *)
(*                                                                         *)
(* Operators named X_Y are faulty variants of X, used to show that a       *)
(* property can fail.                                                      *)
(***************************************************************************)
EXTENDS Naturals, FiniteSets

CONSTANTS
    Owners,         \* plugin instances
    Locations,      \* native directories
    InitialHome,    \* the one the session begins in
    LocationOf,     \* the directory of an instance
    Deliveries,     \* deliveries to the endpoint, in the order they are sent
    RetryLimit,     \* retries of a wake: 20 in the code
    None,
    MaxGenerations, \* bound: generations of the wake record
    MaxEvents       \* bound: turns of the user, lost replies, stalls, inputs
                    \* that cannot be verified, instances started and
                    \* stopped, sessions moved or closed

ASSUME OpenCodeAssumption ==
    /\ LocationOf \in [Owners -> Locations] /\ InitialHome \in Locations
    /\ Deliveries \subseteq Nat \ {0}
    /\ RetryLimit \in Nat /\ MaxGenerations \in Nat /\ MaxEvents \in Nat
    /\ None \notin Owners \cup Locations \cup Deliveries

VARIABLES
    session,    \* "active" or "closed"
    home,       \* the directory the native session belongs to
    wake,       \* the wake record; its location is None before the first enrollment
    delivery,   \* state, claim lease and attempts of every delivery
    natural,    \* the attempt a user's turn has yet to acknowledge, 0 for none
    input,      \* native inputs of the host, by generation
    plugin,     \* the plugin instances
    shown,      \* history: the attempts whose text an input was given
    events

store == <<session, wake, delivery>>
vars == <<store, home, natural, input, plugin, shown, events>>

Generations == 1..MaxGenerations
NoItem == [gen |-> 0, delivery |-> None, admitted |-> FALSE, terminal |-> FALSE]

-----------------------------------------------------------------------------
(* The store. *)

Invalidated(w) ==
    [w EXCEPT !.gen = @ + 1, !.delivery = None, !.claim = 0, !.admitted = FALSE,
              !.terminal = FALSE, !.failures = 0, !.backoff = FALSE]

\* _opencode_wake_view
View(w) ==
    IF w.delivery = None THEN NoItem
    ELSE [gen |-> w.gen, delivery |-> w.delivery, admitted |-> w.admitted,
          terminal |-> w.terminal]

\* _opencode_binding: the requester owns the live registration, and for a
\* request about a wake, that wake is the current one.
Bound(o) ==
    /\ session = "active"
    /\ wake.owner = o /\ wake.leased /\ wake.location = LocationOf[o]

Current_AnyGeneration(o, r) == Bound(o) /\ wake.delivery = r.delivery

Current(o, r) == Bound(o) /\ wake.gen = r.gen /\ wake.delivery = r.delivery

\* Operation enroll.
CanEnroll(o) ==
    /\ session = "active"
    /\ wake.owner \in {None, o} \/ ~wake.leased
Enrolled(o) ==
    [IF wake.location \in {None, LocationOf[o]} THEN wake ELSE Invalidated(wake)
        EXCEPT !.owner = o, !.location = LocationOf[o], !.leased = TRUE]

\* Operation poll: a wake whose input has ended is given up when its delivery
\* is done, and retried under a new generation when it is not; without an
\* anchor the oldest eligible delivery is taken.
Eligible(d) ==
    \/ delivery[d].state = "pending"
    \/ delivery[d].state = "claimed" /\ ~delivery[d].leased
First(d) == Eligible(d) /\ \A e \in Deliveries : Eligible(e) => d <= e
Oldest == CHOOSE d \in Deliveries : First(d)

GivenUp_IfDelivered(w) ==
    w.delivery # None /\ w.terminal /\ delivery[w.delivery].state = "delivered"

GivenUp(w) ==
    /\ w.delivery # None /\ w.terminal
    /\ ~Eligible(w.delivery) /\ delivery[w.delivery].state # "claimed"

Retried_Unlimited(w) ==
    w.delivery # None /\ w.terminal /\ Eligible(w.delivery) /\ ~w.backoff

Retried_BeforeTerminal(w) ==
    w.delivery # None /\ Eligible(w.delivery) /\ w.failures < RetryLimit /\ ~w.backoff

Retried(w) ==
    /\ w.delivery # None /\ w.terminal
    /\ Eligible(w.delivery)
    /\ w.failures < RetryLimit /\ ~w.backoff

Anchored(w) ==
    IF w.delivery # None \/ ~\E d \in Deliveries : First(d) THEN w
    ELSE [Invalidated(w) EXCEPT !.delivery = Oldest]
Polled(w) ==
    IF GivenUp(w) THEN Anchored([w EXCEPT !.delivery = None, !.failures = 0])
    ELSE IF Retried(w)
         THEN [w EXCEPT !.gen = @ + 1, !.claim = 0, !.admitted = FALSE, !.terminal = FALSE,
                        !.failures = @ + 1, !.backoff = FALSE]
    ELSE Anchored(w)

-----------------------------------------------------------------------------
(* A plugin instance. *)

Fresh(st) == [state |-> st, known |-> FALSE, item |-> NoItem, step |-> "idle", run |-> NoItem]
Owned(o) == plugin[o].state = "up" /\ plugin[o].known /\ home = LocationOf[o]

\* Something happens that the protocol cannot count on not happening.
Event == events < MaxEvents /\ events' = events + 1
Usual == UNCHANGED events

\* The instance is loaded, finds the session and tries to enroll; or a turn of
\* the user makes it find a session it had dropped.
Discover(o) ==
    /\ plugin[o].state \in {"new", "up"} /\ ~plugin[o].known
    /\ home = LocationOf[o] /\ session = "active"
    /\ wake' = IF CanEnroll(o) THEN Enrolled(o) ELSE wake
    /\ wake'.gen <= MaxGenerations
    /\ plugin' = [plugin EXCEPT ![o].state = "up", ![o].known = TRUE,
                                ![o].item = IF CanEnroll(o) THEN View(wake') ELSE @]
    /\ IF plugin[o].state = "new" THEN Event ELSE Usual
    /\ UNCHANGED <<session, delivery, home, natural, input, shown>>

\* What the plugin keeps of a reply; a wake that has not ended starts runWake.
Wakes(o, w) == plugin[o].step = "idle" /\ w.delivery # None /\ ~w.terminal
Replied(o, w) ==
    plugin' = [plugin EXCEPT
        ![o].item = View(w),
        ![o].run = IF Wakes(o, w) THEN View(w) ELSE @,
        ![o].step = IF Wakes(o, w) THEN "submit" ELSE @]

\* poll; a missing registration is enrolled again.
Poll(o) ==
    /\ Owned(o)
    /\ Bound(o) \/ CanEnroll(o)
    /\ wake' = [(IF Bound(o) THEN Polled(wake) ELSE Enrolled(o)) EXCEPT !.leased = TRUE]
    /\ wake'.gen <= MaxGenerations
    /\ \/ Usual /\ Replied(o, wake')
       \/ Event /\ UNCHANGED plugin
    /\ UNCHANGED <<session, delivery, home, natural, input, shown>>

Detached(o) == IF Bound(o) THEN [wake EXCEPT !.owner = None, !.leased = FALSE] ELSE wake

\* poll in an instance whose directory the session has left.
Drop(o) ==
    /\ plugin[o].state = "up" /\ plugin[o].known /\ home # LocationOf[o]
    /\ plugin' = [plugin EXCEPT ![o] = Fresh("up")]
    /\ \/ Usual /\ wake' = Detached(o)
       \/ Event /\ UNCHANGED wake
    /\ UNCHANGED <<session, delivery, home, natural, input, shown>>

\* runWake, from one await to the next.
Observed(r) == input[r.gen].status # "none" /\ input[r.gen].seen
Running(o, step) == plugin[o].step = step /\ Owned(o)
Goto(o, step) ==
    plugin' = [plugin EXCEPT ![o].step = step, ![o].run = IF step = "idle" THEN NoItem ELSE @]

Submit(o) ==
    LET r == plugin[o].run IN
    /\ Running(o, "submit")
    /\ IF Observed(r) \/ r.admitted THEN UNCHANGED input
       ELSE input' = [input EXCEPT ![r.gen] =
                        IF @.status # "none" THEN @
                        ELSE [@ EXCEPT !.status = "queued", !.delivery = r.delivery, !.by = o]]
    /\ \/ Usual /\ Goto(o, IF Observed(r) \/ ~r.admitted THEN "admit" ELSE "idle")
       \/ Event /\ Goto(o, "idle")
    /\ UNCHANGED <<store, home, natural, shown>>

Admit(o) ==
    LET r == plugin[o].run IN
    /\ Running(o, "admit")
    /\ Goto(o, IF Observed(r) THEN "wait" ELSE "idle")
    /\ IF Observed(r) /\ Current(o, r)
       THEN wake' = [wake EXCEPT !.admitted = TRUE] ELSE UNCHANGED wake
    /\ UNCHANGED <<session, delivery, home, natural, input, shown, events>>

\* The host is idle again; the terminal record must be the input's own.
Settle_AnyIdle(o, r) == input[r.gen].status \in {"none", "queued", "ended", "merged"}

Settle(o, r) == input[r.gen].status = "ended" /\ input[r.gen].seen

Finish(o) ==
    LET r == plugin[o].run IN
    /\ Running(o, "wait")
    /\ \A g \in Generations : input[g].status \notin {"queued", "running"}
    /\ Goto(o, "idle")
    /\ \/ Usual /\ wake' = IF Settle(o, r) /\ Current(o, r) /\ ~wake.terminal
                             THEN [wake EXCEPT !.terminal = TRUE, !.backoff = TRUE]
                             ELSE wake
       \/ Event /\ UNCHANGED wake
    /\ UNCHANGED <<session, delivery, home, natural, input, shown>>

-----------------------------------------------------------------------------
(* The host runs an input; the context hook of operation context. *)

Hooked(o, g) ==
    /\ input[g].status \in {"queued", "running"} /\ input[g].ack = 0
    /\ Owned(o)
    /\ input[g].by = o \/ ~Owned(input[g].by)
    /\ \A h \in Generations \ {g} : input[h].status # "running"

\* The instance recognises the input as the wake it was given.
Reserved(o, g) == plugin[o].item.gen = g /\ plugin[o].item.delivery = input[g].delivery
Request(g) == [gen |-> g, delivery |-> input[g].delivery]

\* An input that is not recognised runs as ordinary input, without Relay text.
ContextOrdinary(o, g) ==
    /\ Hooked(o, g) /\ ~Reserved(o, g)
    /\ input[g].status = "queued"
    /\ input' = [input EXCEPT ![g].status = "running"]
    /\ UNCHANGED <<store, home, natural, plugin, shown, events>>

Used_IfDelivered(d) == delivery[d].state = "delivered"

\* This generation has claimed before, or the delivery needs no claim.
Used(d) == wake.terminal \/ wake.claim # 0 \/ delivery[d].state = "delivered"
Reusable(d) ==
    /\ wake.claim = delivery[d].attempts /\ ~wake.terminal
    /\ delivery[d].state = "delivered" \/ (delivery[d].state = "claimed" /\ delivery[d].leased)

Attached(g, d) ==
    /\ input' = [input EXCEPT ![g].status = "running",
                              ![g].ack = IF delivery'[d].state = "delivered" THEN 0
                                         ELSE delivery'[d].attempts]
    /\ shown' = [shown EXCEPT ![g] = @ \cup {delivery'[d].attempts}]
\* The hook throws: the host ends the turn.
Refused(g) == input' = [input EXCEPT ![g].status = "ended"] /\ UNCHANGED shown

ContextWake(o, g) ==
    LET d == input[g].delivery IN
    /\ Hooked(o, g) /\ Reserved(o, g)
    /\ IF Current(o, Request(g)) /\ ~Used(d) /\ Eligible(d)
       THEN /\ delivery' = [delivery EXCEPT ![d].state = "claimed", ![d].leased = TRUE,
                                            ![d].attempts = @ + 1]
            /\ wake' = [wake EXCEPT !.claim = delivery'[d].attempts]
       ELSE UNCHANGED <<delivery, wake>>
    /\ \/ /\ Usual
          /\ IF Current(o, Request(g)) /\ (IF Used(d) THEN Reusable(d) ELSE Eligible(d))
             THEN Attached(g, d) ELSE Refused(g)
       \/ Event /\ Refused(g)
    /\ UNCHANGED <<session, home, natural, plugin>>

\* relay_ack with the claim of this attempt, at the end of the hook.
Ack(g) ==
    LET d == input[g].delivery IN
    /\ input[g].ack # 0
    /\ input' = [input EXCEPT ![g].ack = 0]
    /\ \/ /\ Usual
          /\ delivery' = IF delivery[d].state = "claimed" /\ delivery[d].leased
                            /\ delivery[d].attempts = input[g].ack
                         THEN [delivery EXCEPT ![d].state = "delivered", ![d].leased = FALSE]
                         ELSE delivery
       \/ Event /\ UNCHANGED delivery
    /\ UNCHANGED <<session, wake, home, natural, plugin, shown>>

\* The turn ends.  With another input steered into it, the idle record is not
\* the input's own.
EndInput(g) ==
    /\ input[g].status = "running" /\ input[g].ack = 0
    /\ \/ Usual /\ input' = [input EXCEPT ![g].status = "ended"]
       \/ Event /\ input' = [input EXCEPT ![g].status = "merged"]
    /\ UNCHANGED <<store, home, natural, plugin, shown>>

\* Compaction removes the input from the native history.
Compact(g) ==
    /\ input[g].status # "none" /\ input[g].seen
    /\ Event
    /\ input' = [input EXCEPT ![g].seen = FALSE]
    /\ UNCHANGED <<store, home, natural, plugin, shown>>

-----------------------------------------------------------------------------
(* Other parties, time, failures. *)

Send(d) ==
    /\ delivery[d].state = "unsent"
    /\ \A e \in Deliveries : e < d => delivery[e].state # "unsent"
    /\ session = "active"
    /\ delivery' = [delivery EXCEPT ![d].state = "pending"]
    /\ UNCHANGED <<session, wake, home, natural, input, plugin, shown, events>>

\* relay_turn on a turn the user starts: it registers the session and claims.
NaturalTurn ==
    /\ Event
    /\ session' = "active"
    /\ delivery' = [d \in Deliveries |->
            IF Eligible(d) THEN [state |-> "claimed", leased |-> TRUE,
                                 attempts |-> delivery[d].attempts + 1]
            ELSE delivery[d]]
    /\ natural' = [d \in Deliveries |-> IF Eligible(d) THEN delivery'[d].attempts ELSE natural[d]]
    /\ UNCHANGED <<wake, home, input, plugin, shown>>

NaturalAck(d) ==
    /\ natural[d] # 0
    /\ natural' = [natural EXCEPT ![d] = 0]
    /\ delivery' = IF delivery[d].state = "claimed" /\ delivery[d].leased
                      /\ delivery[d].attempts = natural[d]
                   THEN [delivery EXCEPT ![d].state = "delivered", ![d].leased = FALSE]
                         ELSE delivery
    /\ UNCHANGED <<session, wake, home, input, plugin, shown, events>>

Expire(d) ==
    /\ delivery[d].state \in {"pending", "claimed"}
    /\ delivery' = [delivery EXCEPT ![d].state = "expired", ![d].leased = FALSE]
    /\ UNCHANGED <<session, wake, home, natural, input, plugin, shown, events>>

ClaimLeaseEnds(d) ==
    /\ delivery[d].state = "claimed" /\ delivery[d].leased
    /\ delivery' = [delivery EXCEPT ![d].leased = FALSE]
    /\ UNCHANGED <<session, wake, home, natural, input, plugin, shown, events>>

\* An owner that polls renews its lease in time, unless it stalls.
OwnerLeaseEnds ==
    /\ wake.owner # None /\ wake.leased
    /\ IF Owned(wake.owner) THEN Event ELSE Usual
    /\ wake' = [wake EXCEPT !.leased = FALSE]
    /\ UNCHANGED <<session, delivery, home, natural, input, plugin, shown>>

BackoffEnds ==
    /\ wake.backoff
    /\ wake' = [wake EXCEPT !.backoff = FALSE]
    /\ UNCHANGED <<session, delivery, home, natural, input, plugin, shown, events>>

\* Disposal detaches, if the request arrives; a crash does not.  A turn that
\* was running stays queued for the next host process.
Stop(o) ==
    /\ plugin[o].state = "up"
    /\ Event
    /\ plugin' = [plugin EXCEPT ![o] = Fresh("gone")]
    /\ wake' \in {wake, Detached(o)}
    /\ input' = [g \in Generations |->
            IF input[g].by = o /\ input[g].status = "running"
            THEN [input[g] EXCEPT !.status = "queued", !.ack = 0] ELSE input[g]]
    /\ UNCHANGED <<session, delivery, home, natural, shown>>

Move(l) ==
    /\ l # home
    /\ Event
    /\ home' = l
    /\ UNCHANGED <<store, natural, input, plugin, shown>>

\* relay_close_session
Close ==
    /\ session = "active"
    /\ Event
    /\ session' = "closed"
    /\ wake' = [Invalidated(wake) EXCEPT !.owner = None, !.leased = FALSE]
    /\ wake'.gen <= MaxGenerations
    /\ UNCHANGED <<delivery, home, natural, input, plugin, shown>>

Init ==
    /\ session = "active"
    /\ home = InitialHome
    /\ wake = [owner |-> None, leased |-> FALSE, location |-> None, gen |-> 0,
               delivery |-> None, claim |-> 0, admitted |-> FALSE, terminal |-> FALSE,
               failures |-> 0, backoff |-> FALSE]
    /\ delivery = [d \in Deliveries |-> [state |-> "unsent", leased |-> FALSE, attempts |-> 0]]
    /\ natural = [d \in Deliveries |-> 0]
    /\ input = [g \in Generations |-> [status |-> "none", delivery |-> None, seen |-> TRUE,
                                       ack |-> 0, by |-> None]]
    /\ plugin = [o \in Owners |-> Fresh("new")]
    /\ shown = [g \in Generations |-> {}]
    /\ events = 0

Next ==
    \/ \E o \in Owners : Discover(o) \/ Drop(o) \/ Stop(o)
    \/ \E o \in Owners : Poll(o) \/ Submit(o) \/ Admit(o) \/ Finish(o)
    \/ \E g \in Generations : Ack(g) \/ EndInput(g) \/ Compact(g)
    \/ \E o \in Owners, g \in Generations : ContextOrdinary(o, g) \/ ContextWake(o, g)
    \/ \E d \in Deliveries : Send(d) \/ NaturalAck(d) \/ Expire(d) \/ ClaimLeaseEnds(d)
    \/ NaturalTurn \/ OwnerLeaseEnds \/ BackoffEnds \/ Close
    \/ \E l \in Locations : Move(l)

Spec == Init /\ [][Next]_vars

\* A plugin that is up polls and finishes what it began, the host runs what is
\* queued, and time passes.  Nothing makes a user start OpenCode or a turn.
Fairness ==
    /\ \A o \in Owners : /\ WF_vars(Poll(o)) /\ WF_vars(Submit(o))
                         /\ WF_vars(Admit(o)) /\ WF_vars(Finish(o))
    /\ \A g \in Generations : WF_vars(Ack(g)) /\ WF_vars(EndInput(g))
    /\ \A g \in Generations :
        WF_vars(\E o \in Owners : ContextOrdinary(o, g) \/ ContextWake(o, g))
    /\ \A d \in Deliveries : WF_vars(Expire(d)) /\ WF_vars(ClaimLeaseEnds(d))
    /\ WF_vars(OwnerLeaseEnds) /\ WF_vars(BackoffEnds)

FairSpec == Spec /\ Fairness

-----------------------------------------------------------------------------
(* Properties. *)

Item == [gen : Nat, delivery : Deliveries \cup {None}, admitted : BOOLEAN, terminal : BOOLEAN]

\* The wake record, the deliveries, the native inputs and the plugins have the
\* shapes the code gives them, and a wake is never retried beyond the limit.
TypeOK ==
    /\ session \in {"active", "closed"} /\ home \in Locations
    /\ wake \in [owner : Owners \cup {None}, leased : BOOLEAN,
                 location : Locations \cup {None}, gen : Nat,
                 delivery : Deliveries \cup {None}, claim : Nat, admitted : BOOLEAN,
                 terminal : BOOLEAN, failures : 0..RetryLimit, backoff : BOOLEAN]
    /\ delivery \in [Deliveries -> [leased : BOOLEAN, attempts : Nat,
            state : {"unsent", "pending", "claimed", "delivered", "expired"}]]
    /\ natural \in [Deliveries -> Nat]
    /\ input \in [Generations -> [delivery : Deliveries \cup {None}, seen : BOOLEAN,
            ack : Nat, by : Owners \cup {None},
            status : {"none", "queued", "running", "ended", "merged"}]]
    /\ plugin \in [Owners -> [state : {"new", "up", "gone"}, known : BOOLEAN, item : Item,
            step : {"idle", "submit", "admit", "wait"}, run : Item]]

\* What the store records of a wake is true of the native input of that very
\* generation: admitted means the host has it, terminal that it has ended, over
\* takeovers of the lease and late reports of instances that lost it.
RecordTrue ==
    /\ wake.admitted => input[wake.gen].status # "none"
    /\ wake.terminal /\ wake.delivery # None => input[wake.gen].status = "ended"

\* "Unverified admission is not silently resubmitted": a delivery gets a new
\* generation, and so a second native input, only when the first has ended.
NotResubmitted ==
    [][wake.delivery # None /\ wake'.delivery = wake.delivery /\ wake'.gen # wake.gen
        => input[wake.gen].status = "ended"]_vars

\* However often an input's context hook runs, over expired leases, turns of the
\* user and retries, it shows one attempt of its delivery, and no two inputs of
\* a delivery are given the same attempt.
OneAttempt ==
    /\ \A g \in Generations : Cardinality(shown[g]) <= 1
    /\ \A g, h \in Generations :
        g # h /\ input[g].delivery = input[h].delivery => shown[g] \cap shown[h] = {}

\* While an instance attends the session and every native input can be verified,
\* no anchored delivery blocks the later ones for ever: it is delivered, retried
\* or expired, and let go.
Attended == \E o \in Owners : Owned(o)
Verifiable == \A g \in Generations : input[g].seen /\ input[g].status # "merged"
WakeEnds ==
    \A d \in Deliveries :
        wake.delivery = d ~> (wake.delivery # d \/ ~Attended \/ ~Verifiable)
=============================================================================
