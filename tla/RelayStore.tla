----------------------------- MODULE RelayStore -----------------------------
(***************************************************************************)
(* The durable core of Pallium Relay: the session, alias, message and      *)
(* delivery rows of storage/sqlite_relay.py and the operations on them.    *)
(*                                                                         *)
(* Every operation runs in one BEGIN IMMEDIATE transaction, so operations  *)
(* are serialised and each one is a single action.  The exception is the   *)
(* clock: an operation reads `current = _now()` BEFORE it waits for the    *)
(* write lock, so the time it works with may be older than the time at     *)
(* which it commits, and older than times other operations have already    *)
(* used.  Every action therefore takes a `now` from Recent, not `clock`.   *)
(*                                                                         *)
(* Conventions.  A delivery is identified with its message: relay_send and *)
(* relay_reply_atomic insert exactly one delivery per message.  The claim  *)
(* token minted by the k-th claim of a delivery (a fresh uuid4) is the     *)
(* number k and 0 is SQL NULL; a receipt is a hash of the token and is     *)
(* identified with it.  Payloads only decide which deliveries fit into a   *)
(* turn and are left out.  Requests the code rejects leave the rows alone  *)
(* and are no action.  Operators named X_Y are faulty variants of X: each  *)
(* one breaks a property, which shows that the property depends on X.      *)
(***************************************************************************)
EXTENDS Naturals, FiniteSets

CONSTANTS
    Endpoints,      \* values of relay_sessions.id, minted by uuid4
    Refs,           \* (runtime, session_ref) pairs
    Containers,     \* container_ref values (projects)
    Aliases,        \* session names
    ClientIds,      \* message ids that senders choose
    MaxDepth,       \* bound: longest chain of replies to a sent message
    Lease,          \* RELAY_CLAIM_LEASE_SECONDS
    Lifetimes,      \* expires_in_seconds values; 0 is null (durable)
    MaxMessages,    \* deliveries one turn claims at most
    MaxClock,       \* bound on the clock
    MaxDelay,       \* bound on the age of an operation's clock reading
    MaxGeneration,  \* bound on scope moves of one endpoint
    Nobody          \* SQL NULL where an endpoint, ref, container or alias goes

ASSUME RelayStoreAssumption ==
    /\ MaxDepth \in Nat /\ MaxClock \in Nat /\ MaxDelay \in Nat
    /\ MaxGeneration \in Nat /\ MaxMessages \in Nat
    /\ Lease \in Nat \ {0}
    /\ Lifetimes \subseteq Nat
    /\ Nobody \notin Endpoints \cup Aliases

VARIABLES
    clock,      \* wall-clock time
    session,    \* relay_sessions joined with relay_endpoint_generations
    binding,    \* relay_aliases: the endpoint each name is bound to
    message,    \* relay_messages
    delivery    \* relay_deliveries; the field `by` is history: whose claim completed it

vars == <<clock, session, binding, message, delivery>>

\* <<c, 0>> is the message a client sent under id c, <<c, k + 1>> the reply to
\* <<c, k>>: its id is a hash of the delivery it answers, so it is one per delivery.
Messages == ClientIds \X (0 .. MaxDepth)
ReplyId(m) == <<m[1], m[2] + 1>>

DurableExpiry == MaxClock + 1
ExpiryAt(now, lifetime) == IF lifetime = 0 THEN DurableExpiry ELSE now + lifetime

Recent == {t \in 0 .. clock : clock - t <= MaxDelay}

SessionStates == {"none", "active", "unreachable", "closed"}
DeliveryStates == {"none", "pending", "claimed", "delivered", "expired"}
Open == {"pending", "claimed"}
Selectors == Endpoints \cup Aliases \cup Refs

NoSession == [state |-> "none", ref |-> Nobody, container |-> Nobody,
              seen |-> 0, alias |-> Nobody, generation |-> 0]
NoMessage == [from |-> Nobody, to |-> Nobody, created |-> 0, expires |-> 0]
NoDelivery == [state |-> "none", attempts |-> 0, token |-> 0, lease |-> 0, by |-> 0]
NewDelivery == [NoDelivery EXCEPT !.state = "pending"]

Init ==
    /\ clock = 0
    /\ session = [e \in Endpoints |-> NoSession]
    /\ binding = [a \in Aliases |-> Nobody]
    /\ message = [m \in Messages |-> NoMessage]
    /\ delivery = [m \in Messages |-> NoDelivery]

-----------------------------------------------------------------------------
(* Lookups. *)

Registered(e) == session[e].state # "none"

\* The row of _relay_session, as the set of at most one endpoint.
RelaySession(c, r) ==
    {e \in Endpoints : Registered(e) /\ session[e].container = c /\ session[e].ref = r}

\* What a recipient selector names, before its lifecycle state is looked at.
RelayTarget(sel) ==
    {e \in Endpoints :
        /\ Registered(e)
        /\ \/ sel = e
           \/ sel \in Aliases /\ binding[sel] = e
           \/ sel \in Refs /\ session[e].ref = sel}

Expired_PendingOnly(m, now) == delivery[m].state = "pending" /\ message[m].expires <= now

Expired(m, now) == delivery[m].state \in Open /\ message[m].expires <= now

Expire_KeepsToken(d) == [d EXCEPT !.state = "expired"]

Expire(d) ==
    [state |-> "expired", attempts |-> d.attempts, token |-> 0, lease |-> d.lease, by |-> d.by]

Claim(d, now) ==
    [state |-> "claimed", attempts |-> d.attempts + 1,
     token |-> d.attempts + 1, lease |-> now + Lease, by |-> d.by]

Deliver_Forgotten(d, k) == d

Deliver(d, k) ==
    [state |-> "delivered", attempts |-> d.attempts, token |-> d.token, lease |-> d.lease, by |-> k]

Eligible_AnyClaim(e, now) ==
    {m \in Messages :
        message[m].to = e /\ message[m].expires > now /\ delivery[m].state \in Open}

Eligible(e, now) ==
    {m \in Messages :
        /\ message[m].to = e
        /\ message[m].expires > now
        /\ \/ delivery[m].state = "pending"
           \/ delivery[m].state = "claimed" /\ delivery[m].lease <= now}

\* The deliveries a turn may claim: any that fit.  The oldest go first, but one
\* that overruns the response budget or cannot be rendered is passed over.
Selections(e, now) == {S \in SUBSET Eligible(e, now) : Cardinality(S) <= MaxMessages}

\* Turn on deliveries: the sweep of everything past its expiry, whoever the
\* recipient, then the claims.
SweepAndClaim(S, now) ==
    delivery' = [m \in Messages |->
        IF m \in S THEN Claim(delivery[m], now)
        ELSE IF Expired(m, now) THEN Expire(delivery[m])
        ELSE delivery[m]]

\* The expiry that _relay_status_in_session applies to one message.
ExpireOne(m, now) ==
    delivery' = [delivery EXCEPT ![m] = IF Expired(m, now) THEN Expire(@) ELSE @]

-----------------------------------------------------------------------------
(* relay_turn *)

\* First turn of a (container, runtime, session_ref): a new endpoint.
RegisterTurn(e, r, c, now) ==
    /\ ~Registered(e)
    /\ RelaySession(c, r) = {}
    /\ session' = [session EXCEPT ![e] =
            [state |-> "active", ref |-> r, container |-> c,
             seen |-> now, alias |-> Nobody, generation |-> 0]]
    /\ SweepAndClaim({}, now)
    /\ UNCHANGED <<clock, binding, message>>

\* A registering turn of a known endpoint: it is (re)activated whatever its state.
Turn(e, now, S) ==
    /\ Registered(e)
    /\ session' = [session EXCEPT ![e].state = "active", ![e].seen = now]
    /\ SweepAndClaim(S, now)
    /\ UNCHANGED <<clock, binding, message>>

\* register_session = False (MCP receive): only an active endpoint gets anything.
ReceiveTurn(e, now, S) ==
    /\ session[e].state = "active"
    /\ SweepAndClaim(S, now)
    /\ UNCHANGED <<clock, session, binding, message>>

\* What a scope transition of endpoint e from container p to container c, sent
\* with generation g, requires; `moves` tells whether it still has to be done.
TransitionAllowed_TakesOver(e, p, c, g, moves) ==
    /\ moves /\ p # c
    /\ session[e].state = "active"
    /\ session[e].container = p /\ session[e].generation = g /\ g < MaxGeneration

TransitionAllowed(e, p, c, g, moves) ==
    \/ /\ ~moves /\ p = c
       /\ session[e].state \in {"active", "unreachable"}
       /\ session[e].container = c /\ session[e].generation = g
    \/ /\ ~moves /\ p # c
       /\ session[e].state = "active"
       /\ session[e].container = c /\ session[e].generation = g + 1
       /\ RelaySession(p, session[e].ref) = {}
    \/ /\ moves /\ p # c
       /\ RelaySession(c, session[e].ref) = {}
       /\ session[e].state = "active"
       /\ session[e].container = p /\ session[e].generation = g
       /\ g < MaxGeneration

TransitionTurn(e, p, c, g, now, S) ==
    \E moves \in BOOLEAN :
        /\ TransitionAllowed(e, p, c, g, moves)
        /\ session' = [session EXCEPT ![e] =
              [@ EXCEPT !.state = "active", !.seen = now,
                        !.container = c, !.generation = IF moves THEN g + 1
                                              ELSE session[e].generation]]
        /\ SweepAndClaim(S, now)
        /\ UNCHANGED <<clock, binding, message>>

-----------------------------------------------------------------------------
(* relay_send, relay_reply_atomic, relay_message_status *)

\* Both write the message and its pending delivery.  The selector that the row
\* keeps is only compared with that of a repeated request.
Row_NoRecipient(from, to, lifetime, now) ==
    [from |-> from, to |-> Nobody, created |-> now, expires |-> ExpiryAt(now, lifetime)]

Row(from, to, lifetime, now) ==
    [from |-> from, to |-> to, created |-> now, expires |-> ExpiryAt(now, lifetime)]

Send(m, from, sel, to, lifetime, now) ==
    /\ m[2] = 0 /\ delivery[m].state = "none"
    /\ session[from].state \in {"active", "unreachable"}
    /\ RelayTarget(sel) = {to}
    /\ session[to].state = "active"
    /\ message' = [message EXCEPT ![m] = Row(from, to, lifetime, now)]
    /\ delivery' = [delivery EXCEPT ![m] = NewDelivery]
    /\ UNCHANGED <<clock, session, binding>>

\* The same request again under the same message_id returns the stored status;
\* its selector must be the stored one and is not resolved again.
SendAgain(m, now) ==
    /\ m[2] = 0 /\ delivery[m].state # "none"
    /\ session[message[m].from].state \in {"active", "unreachable"}
    /\ ExpireOne(m, now)
    /\ UNCHANGED <<clock, session, binding, message>>

Status(m, now) ==
    /\ delivery[m].state # "none"
    /\ ExpireOne(m, now)
    /\ UNCHANGED <<clock, session, binding, message>>

\* The claim checks of relay_reply_atomic for receipt k (0: none given).
MayReply(m, k, now) ==
    \/ /\ delivery[m].state = "claimed"
       /\ message[m].expires > now
       /\ delivery[m].lease > now
       /\ k # 0 /\ k = delivery[m].token
    \/ /\ delivery[m].state = "delivered"
       /\ k \in {0, delivery[m].token}

\* A reply to a claim whose message has expired commits the expiry and fails.
ReplyTooLate(m, now) ==
    /\ delivery[m].state = "claimed" /\ message[m].expires <= now
    /\ delivery' = [delivery EXCEPT ![m] = Expire(@)]
    /\ UNCHANGED <<clock, session, binding, message>>

\* First reply: the reply message, its pending delivery and the
\* acknowledgement of the delivery it answers, in one transaction.
Reply(m, k, lifetime, now) ==
    /\ ReplyId(m) \in Messages
    /\ MayReply(m, k, now)
    /\ session[message[m].to].state = "active"
    /\ delivery[ReplyId(m)].state = "none"
    /\ session[message[m].from].state = "active"
    /\ message' = [message EXCEPT ![ReplyId(m)] =
            Row(message[m].to, message[m].from, lifetime, now)]
    /\ delivery' = [delivery EXCEPT ![ReplyId(m)] = NewDelivery,
            ![m] = IF @.state = "claimed" THEN Deliver(@, k) ELSE @]
    /\ UNCHANGED <<clock, session, binding>>

\* The reply exists: its status is returned, the delivery it answers is left alone.
ReplyAgain(m, k, now) ==
    /\ ReplyId(m) \in Messages
    /\ MayReply(m, k, now)
    /\ session[message[m].to].state = "active"
    /\ delivery[ReplyId(m)].state # "none"
    /\ ExpireOne(ReplyId(m), now)
    /\ UNCHANGED <<clock, session, binding, message>>

-----------------------------------------------------------------------------
(* relay_ack, relay_ack_by_receipt: a second ACK of a delivered claim returns  *)
(* success and changes nothing.                                                *)

\* Both acknowledge a live claim of an unexpired message with its own token.
AckLive_AnyToken(m, k, now) ==
    /\ delivery[m].state = "claimed"
    /\ message[m].expires > now /\ delivery[m].lease > now
    /\ delivery' = [delivery EXCEPT ![m] = Deliver(@, k)]
    /\ UNCHANGED <<clock, session, binding, message>>

AckLive(m, k, now) ==
    /\ delivery[m].state = "claimed" /\ delivery[m].token = k
    /\ message[m].expires > now /\ delivery[m].lease > now
    /\ delivery' = [delivery EXCEPT ![m] = Deliver(@, k)]
    /\ UNCHANGED <<clock, session, binding, message>>

\* An ACK of an expired message commits the expiry; relay_ack looks at the
\* token first, relay_ack_by_receipt only after it.
Ack(m, k, now) ==
    \/ AckLive(m, k, now)
    \/ /\ delivery[m].state = "claimed" /\ delivery[m].token = k
       /\ message[m].expires <= now
       /\ delivery' = [delivery EXCEPT ![m] = Expire(@)]
       /\ UNCHANGED <<clock, session, binding, message>>

AckByReceipt(m, k, now) ==
    \/ AckLive(m, k, now)
    \/ /\ delivery[m].state = "claimed"
       /\ message[m].expires <= now
       /\ delivery' = [delivery EXCEPT ![m] = Expire(@)]
       /\ UNCHANGED <<clock, session, binding, message>>

-----------------------------------------------------------------------------
(* relay_close_session, relay_name_session, relay_mark_unreachable/_active *)

\* The alias table without the name of e, if e still owns it.
Unbind(e) ==
    [a \in Aliases |-> IF a = session[e].alias /\ binding[a] = e THEN Nobody ELSE binding[a]]

CloseSession(e) ==
    /\ Registered(e)
    /\ session' = [session EXCEPT ![e].state = "closed", ![e].alias = Nobody]
    /\ binding' = Unbind(e)
    /\ UNCHANGED <<clock, message, delivery>>

OtherOwners_None(e, a) == {}

OtherOwners(e, a) == {f \in Endpoints : f # e /\ session[f].alias = a}

NameSession(e, a, replace) ==
    /\ session[e].state \in {"active", "unreachable"}
    /\ (binding[a] \notin {Nobody, e} \/ OtherOwners(e, a) # {}) => replace
    /\ session' = [f \in Endpoints |->
            IF f = e THEN [session[f] EXCEPT !.alias = a]
            ELSE IF f \in OtherOwners(e, a) THEN [session[f] EXCEPT !.alias = Nobody]
            ELSE session[f]]
    /\ binding' = [Unbind(e) EXCEPT ![a] = e]
    /\ UNCHANGED <<clock, message, delivery>>

UnnameSession(e) ==
    /\ session[e].state \in {"active", "unreachable"}
    /\ session' = [session EXCEPT ![e].alias = Nobody]
    /\ binding' = Unbind(e)
    /\ UNCHANGED <<clock, message, delivery>>

\* A native wake that started at `attempted` found no live destination.
MarkUnreachable(e, attempted) ==
    /\ session[e].state = "active" /\ session[e].seen < attempted
    /\ session' = [session EXCEPT ![e].state = "unreachable"]
    /\ UNCHANGED <<clock, binding, message, delivery>>

MarkActive(e, now) ==
    /\ Registered(e)
    /\ session' = [session EXCEPT ![e] =
            [@ EXCEPT !.state = "active",
                      !.seen = IF session[e].seen < now THEN now ELSE session[e].seen]]
    /\ UNCHANGED <<clock, binding, message, delivery>>

Tick ==
    /\ clock < MaxClock
    /\ clock' = clock + 1
    /\ UNCHANGED <<session, binding, message, delivery>>

-----------------------------------------------------------------------------
TurnNext(now) ==
    \E e \in Endpoints :
        \/ \E r \in Refs, c \in Containers : RegisterTurn(e, r, c, now)
        \/ \E S \in Selections(e, now) :
              \/ Turn(e, now, S)
              \/ ReceiveTurn(e, now, S)
              \/ \E p, c \in Containers, g \in 0 .. session[e].generation :
                    TransitionTurn(e, p, c, g, now, S)

MessageNext(now) ==
    \E m \in Messages :
        \/ \E from, to \in Endpoints, sel \in Selectors, lifetime \in Lifetimes :
              Send(m, from, sel, to, lifetime, now)
        \/ SendAgain(m, now)
        \/ Status(m, now)
        \/ ReplyTooLate(m, now)
        \/ \E k \in 0 .. delivery[m].attempts :
              \/ \E lifetime \in Lifetimes : Reply(m, k, lifetime, now)
              \/ ReplyAgain(m, k, now)
              \/ k > 0 /\ Ack(m, k, now)
              \/ k > 0 /\ AckByReceipt(m, k, now)

SessionNext(now) ==
    \E e \in Endpoints :
        \/ CloseSession(e)
        \/ \E a \in Aliases, replace \in BOOLEAN : NameSession(e, a, replace)
        \/ UnnameSession(e)
        \/ MarkUnreachable(e, now)
        \/ MarkActive(e, now)

Next ==
    \/ Tick
    \/ \E now \in Recent : TurnNext(now) \/ MessageNext(now) \/ SessionNext(now)

Spec == Init /\ [][Next]_vars

\* Time passes, and some session of the service keeps taking turns.
Fairness ==
    /\ WF_vars(Tick)
    /\ WF_vars(\E e \in Endpoints : \E S \in Selections(e, clock) : Turn(e, clock, S))

FairSpec == Spec /\ Fairness

-----------------------------------------------------------------------------
(* Properties *)

SessionRow ==
    [state : SessionStates, ref : Refs \cup {Nobody}, container : Containers \cup {Nobody},
     seen : Nat, alias : Aliases \cup {Nobody}, generation : Nat]

MessageRow ==
    [from : Endpoints \cup {Nobody}, to : Endpoints \cup {Nobody},
     created : Nat, expires : Nat]

DeliveryRow ==
    [state : DeliveryStates, attempts : Nat, token : Nat, lease : Nat, by : Nat]

\* The rows have the types of their columns, and a stored message has a sender
\* and a recipient endpoint.
TypeOK ==
    /\ clock \in Nat
    /\ session \in [Endpoints -> SessionRow]
    /\ binding \in [Aliases -> Endpoints \cup {Nobody}]
    /\ message \in [Messages -> MessageRow]
    /\ delivery \in [Messages -> DeliveryRow]
    /\ \A m \in Messages : delivery[m].state # "none" =>
          /\ message[m].from \in Endpoints
          /\ message[m].to \in Endpoints

\* What _wake_retry_pending and the claim view rely on: a delivery is pending
\* exactly while nobody has ever claimed it, the stored token is that of the
\* newest claim, kept on delivery and erased on expiry, and a delivery is
\* completed by the holder of the newest claim or not at all: an ACK or a reply
\* that arrives after a redelivery never completes it.
ClaimBookkeeping ==
    \A m \in Messages :
        LET d == delivery[m] IN
        /\ d.state \in {"none", "pending"} => d.attempts = 0 /\ d.token = 0 /\ d.lease = 0
        /\ d.state \in {"claimed", "delivered"} => d.attempts > 0 /\ d.token = d.attempts
        /\ d.state = "expired" => d.token = 0
        /\ d.by = IF d.state = "delivered" THEN d.attempts ELSE 0

\* relay_reply_atomic leaves the source delivery alone when the reply already
\* exists.  That is right only because a stored reply always means that the
\* delivery it answers has been acknowledged; and it goes back to the endpoint
\* that sent the source, whatever the sessions did in between.
ReplyAcknowledges ==
    \A m \in Messages :
        (ReplyId(m) \in Messages /\ delivery[ReplyId(m)].state # "none") =>
            /\ delivery[m].state = "delivered"
            /\ message[ReplyId(m)].to = message[m].from
            /\ message[ReplyId(m)].from = message[m].to

\* relay_sessions.alias and relay_aliases are two records of the same fact and
\* are updated separately: through takeovers, renames, closes and reactivations
\* they agree, so a name has one owner, and a closed session has none.
NamesAgree ==
    /\ \A e \in Endpoints, a \in Aliases : session[e].alias = a <=> binding[a] = e
    /\ \A e \in Endpoints : session[e].state \in {"none", "closed"} => session[e].alias = Nobody

\* Scope moves and registrations never make two endpoints share one
\* (container, runtime, session_ref): uq_relay_session_scope is never hit.
ScopesUnique ==
    \A e, f \in Endpoints :
        (/\ Registered(e) /\ Registered(f)
         /\ session[e].ref = session[f].ref
         /\ session[e].container = session[f].container) => e = f

\* A claim is handed out again only when the lease of the previous claim has
\* run out on the real clock, although the turn that takes it over may be
\* working with an old clock reading.
LeaseExclusive ==
    [][\A m \in Messages :
         delivery'[m].attempts # delivery[m].attempts => delivery[m].lease <= clock]_vars

\* Every message with a finite lifetime leaves the open states, even when its
\* recipient never takes another turn: any session's turn sweeps it.
LifetimesEnd ==
    \A m \in Messages :
        (delivery[m].state \in Open /\ message[m].expires <= MaxClock)
            ~> delivery[m].state \in {"delivered", "expired"}

-----------------------------------------------------------------------------
(* The promise of the delivery life cycle, as an abstract specification. *)

Mailbox == INSTANCE RelayMailbox WITH
    time <- clock,
    box <- [m \in Messages |->
        [state |-> IF delivery[m].state \in Open THEN "open" ELSE delivery[m].state,
         claims |-> delivery[m].attempts,
         until |-> delivery[m].lease,
         deadline |-> message[m].expires,
         by |-> delivery[m].by]]

\* The relational rows implement the mailbox: at-least-once hand-out under
\* exclusive leases, one completion by the newest claim, expiry only after the
\* deadline, and final states that stay final.
ImplementsMailbox == Mailbox!Spec

=============================================================================
