-------------------------- MODULE RelayStoreProofs --------------------------
(***************************************************************************)
(* Proofs about RelayStore for every set of endpoints, names, projects and *)
(* messages, every lease and lifetime, and every delay between an          *)
(* operation's clock reading and its commit.                               *)
(*                                                                         *)
(* The argument: StepShape says what any step may do to one delivery row.  *)
(* Type correctness, the claim bookkeeping and the reply invariant follow  *)
(* from it, and so does the refinement of RelayMailbox.  The session side  *)
(* (names and scopes) touches no delivery and is proved on its own.        *)
(***************************************************************************)
EXTENDS RelayStore, TLAPS

-----------------------------------------------------------------------------
(* Messages and reply ids *)

\* A reply id is never a client's id and belongs to one message only: the hash of
\* the delivery id in core/relay.py is injective and has a prefix of its own.
LEMMA ReplyIdFacts ==
    ASSUME NEW m \in Messages, NEW n \in Messages
    PROVE  /\ m[2] \in Nat
           /\ ReplyId(m)[2] # 0
           /\ ReplyId(m) # m
           /\ ReplyId(m) = ReplyId(n) => m = n
<1>1. /\ m = <<m[1], m[2]>> /\ m[2] \in 0 .. MaxDepth
      /\ n = <<n[1], n[2]>> /\ n[2] \in 0 .. MaxDepth
  BY DEF Messages
<1>2. m[2] \in Nat /\ n[2] \in Nat
  BY <1>1, RelayStoreAssumption
<1>3. ReplyId(m)[1] = m[1] /\ ReplyId(m)[2] = m[2] + 1
  BY DEF ReplyId
<1>4. ReplyId(n)[1] = n[1] /\ ReplyId(n)[2] = n[2] + 1
  BY DEF ReplyId
<1> QED
  BY <1>1, <1>2, <1>3, <1>4

\* A new delivery row, field by field.
LEMMA NewDeliveryRow ==
    NewDelivery = [state |-> "pending", attempts |-> 0, token |-> 0, lease |-> 0, by |-> 0]
BY DEF NewDelivery, NoDelivery

-----------------------------------------------------------------------------
(* What a step may do to one message and its delivery. *)

Untouched(m) == delivery'[m] = delivery[m] /\ message'[m] = message[m]

Posted(m) ==
    /\ delivery[m].state = "none"
    /\ delivery'[m] = NewDelivery
    /\ message'[m] \in MessageRow
    /\ message'[m].from \in Endpoints /\ message'[m].to \in Endpoints
    /\ \/ m[2] = 0
       \/ \E p \in Messages :
             /\ m = ReplyId(p)
             /\ delivery'[p].state = "delivered"
             /\ message'[p] = message[p]
             /\ message'[m].to = message[p].from
             /\ message'[m].from = message[p].to

Handed(m) ==
    /\ delivery[m].state \in Open
    /\ delivery[m].state = "claimed" => delivery[m].lease <= clock
    /\ \E now \in Nat : delivery'[m] = Claim(delivery[m], now)
    /\ message'[m] = message[m]

Completed(m) ==
    /\ delivery[m].state = "claimed"
    /\ delivery'[m] = Deliver(delivery[m], delivery[m].token)
    /\ message'[m] = message[m]

Lapsed(m) ==
    /\ delivery[m].state \in Open
    /\ message[m].expires <= clock
    /\ delivery'[m] = Expire(delivery[m])
    /\ message'[m] = message[m]

RowStep(m) == Untouched(m) \/ Posted(m) \/ Handed(m) \/ Completed(m) \/ Lapsed(m)

\* The part of the invariant about messages and deliveries.
MailInv == TypeOK /\ ClaimBookkeeping /\ ReplyAcknowledges

\* A clock reading within the allowed delay is a time.
LEMMA RecentBound ==
    ASSUME TypeOK, NEW now \in Recent
    PROVE  now \in Nat /\ now <= clock
BY DEF Recent, TypeOK

\* What the expiry sweep and the claims of relay_turn do to a delivery.
LEMMA SweepShape ==
    ASSUME TypeOK, NEW now \in Recent, NEW e \in Endpoints,
           NEW S \in SUBSET Eligible(e, now), SweepAndClaim(S, now), UNCHANGED message,
           NEW m \in Messages
    PROVE  RowStep(m)
<1>1. now \in Nat /\ now <= clock
  BY RecentBound
<1>2. clock \in Nat /\ delivery[m] \in DeliveryRow /\ message[m] \in MessageRow
  BY DEF TypeOK
<1>3. CASE m \in S
  <2>1. /\ delivery[m].state = "pending" \/ delivery[m].state = "claimed"
        /\ delivery[m].state = "claimed" => delivery[m].lease <= now
    BY <1>3 DEF Eligible
  <2>2. delivery'[m] = Claim(delivery[m], now)
    BY <1>3 DEF SweepAndClaim
  <2>3. delivery[m].state = "claimed" => delivery[m].lease <= clock
    BY <1>1, <1>2, <2>1 DEF DeliveryRow
  <2>4. Handed(m)
    BY <1>1, <2>1, <2>2, <2>3 DEF Handed, Open
  <2> QED BY <2>4 DEF RowStep
<1>4. CASE m \notin S /\ Expired(m, now)
  <2>1. delivery'[m] = Expire(delivery[m])
    BY <1>4 DEF SweepAndClaim
  <2>2. message[m].expires <= clock
    BY <1>1, <1>2, <1>4 DEF Expired, MessageRow
  <2>3. Lapsed(m)
    BY <1>4, <2>1, <2>2 DEF Expired, Lapsed
  <2> QED BY <2>3 DEF RowStep
<1>5. CASE m \notin S /\ ~Expired(m, now)
  BY <1>5 DEF SweepAndClaim, RowStep, Untouched
<1> QED BY <1>3, <1>4, <1>5

\* What the lazy expiry of _relay_status_in_session does to a delivery.
LEMMA ExpireOneShape ==
    ASSUME TypeOK, NEW now \in Recent, NEW n \in Messages,
           ExpireOne(n, now), UNCHANGED message, NEW m \in Messages
    PROVE  RowStep(m)
<1>1. now \in Nat /\ now <= clock
  BY RecentBound
<1>2. clock \in Nat /\ message[m] \in MessageRow
  BY DEF TypeOK
<1>3. CASE m = n /\ Expired(m, now)
  <2>1. delivery'[m] = Expire(delivery[m])
    BY <1>3 DEF ExpireOne, TypeOK
  <2>2. message[m].expires <= clock
    BY <1>1, <1>2, <1>3 DEF Expired, MessageRow
  <2> QED BY <1>3, <2>1, <2>2 DEF RowStep, Lapsed, Expired
<1>4. CASE ~(m = n /\ Expired(m, now))
  <2>1. delivery'[m] = delivery[m]
    BY <1>4 DEF ExpireOne, TypeOK
  <2> QED BY <2>1 DEF RowStep, Untouched
<1> QED BY <1>3, <1>4

\* An operation that changes one row n, from claimed to delivered or from open
\* and overdue to expired.
LEMMA OneRowShape ==
    ASSUME TypeOK, NEW now \in Recent, NEW n \in Messages, UNCHANGED message,
           \/ /\ delivery[n].state = "claimed"
              /\ delivery' = [delivery EXCEPT ![n] = Deliver(@, delivery[n].token)]
           \/ /\ delivery[n].state = "claimed" /\ message[n].expires <= now
              /\ delivery' = [delivery EXCEPT ![n] = Expire(@)],
           NEW m \in Messages
    PROVE  RowStep(m)
<1>1. now \in Nat /\ now <= clock
  BY RecentBound
<1>2. clock \in Nat /\ message[n] \in MessageRow
  BY DEF TypeOK
<1>3. CASE m # n
  BY <1>3 DEF RowStep, Untouched, TypeOK
<1>4. CASE m = n /\ delivery' = [delivery EXCEPT ![n] = Deliver(@, delivery[n].token)]
  <2>1. delivery'[m] = Deliver(delivery[m], delivery[m].token)
    BY <1>4 DEF TypeOK
  <2> QED BY <1>4, <2>1 DEF RowStep, Completed
<1>5. CASE /\ m = n /\ message[n].expires <= now
           /\ delivery' = [delivery EXCEPT ![n] = Expire(@)]
  <2>1. delivery'[m] = Expire(delivery[m])
    BY <1>5 DEF TypeOK
  <2>2. message[m].expires <= clock
    BY <1>1, <1>2, <1>5 DEF MessageRow
  <2> QED BY <1>5, <2>1, <2>2 DEF RowStep, Lapsed, Open
<1> QED BY <1>3, <1>4, <1>5

\* A stored message starts pending and unclaimed.
LEMMA NewRow ==
    ASSUME NEW from \in Endpoints, NEW to \in Endpoints,
           NEW lifetime \in Lifetimes, NEW now \in Nat
    PROVE  /\ Row(from, to, lifetime, now) \in MessageRow
           /\ Row(from, to, lifetime, now).from = from
           /\ Row(from, to, lifetime, now).to = to
<1>1. ExpiryAt(now, lifetime) \in Nat
  BY RelayStoreAssumption DEF ExpiryAt, DurableExpiry
<1> QED BY <1>1 DEF Row, MessageRow

\* relay_send adds one message and changes no other.
LEMMA SendShape ==
    ASSUME TypeOK, NEW now \in Recent, NEW n \in Messages,
           NEW from \in Endpoints, NEW sel \in Selectors, NEW to \in Endpoints,
           NEW lifetime \in Lifetimes, Send(n, from, sel, to, lifetime, now),
           NEW m \in Messages
    PROVE  RowStep(m)
<1>1. now \in Nat
  BY RecentBound
<1>2. CASE m = n
  <2>1. /\ delivery[m].state = "none" /\ m[2] = 0
        /\ delivery'[m] = NewDelivery
        /\ message'[m] = Row(from, to, lifetime, now)
    BY <1>2 DEF Send, TypeOK
  <2> QED BY <1>1, <2>1, NewRow DEF RowStep, Posted
<1>3. CASE m # n
  BY <1>3 DEF Send, TypeOK, RowStep, Untouched
<1> QED BY <1>2, <1>3

\* relay_reply_atomic adds the reply and delivers its source.
LEMMA ReplyShape ==
    ASSUME TypeOK, NEW now \in Recent, NEW n \in Messages, NEW k,
           NEW lifetime \in Lifetimes, Reply(n, k, lifetime, now),
           NEW m \in Messages
    PROVE  RowStep(m)
<1> DEFINE r == ReplyId(n)
<1>1. now \in Nat
  BY RecentBound
<1>2. r # n /\ r \in Messages
  BY ReplyIdFacts DEF Reply
<1>3. delivery[n].state \in {"claimed", "delivered"}
  BY DEF Reply, MayReply
<1>4. message[n].from \in Endpoints /\ message[n].to \in Endpoints
  BY <1>3 DEF TypeOK
<1>5. /\ delivery[r].state = "none"
      /\ delivery'[r] = NewDelivery
      /\ message'[r] = Row(message[n].to, message[n].from, lifetime, now)
      /\ delivery'[n] = IF delivery[n].state = "claimed" THEN Deliver(delivery[n], k)
                        ELSE delivery[n]
      /\ message'[n] = message[n]
  BY <1>2 DEF Reply, TypeOK
<1>6. delivery'[n].state = "delivered"
  BY <1>3, <1>5 DEF Deliver
<1>7. CASE m = r
  <2>1. /\ message'[r] \in MessageRow
        /\ message'[r].from = message[n].to /\ message'[r].to = message[n].from
    BY <1>1, <1>4, <1>5, NewRow
  <2> QED BY <1>2, <1>4, <1>5, <1>6, <1>7, <2>1 DEF RowStep, Posted
<1>8. CASE m = n /\ delivery[n].state = "claimed"
  <2>1. k = delivery[n].token
    BY <1>8 DEF Reply, MayReply
  <2> QED BY <1>5, <1>8, <2>1 DEF RowStep, Completed
<1>9. CASE m = n /\ delivery[n].state = "delivered"
  BY <1>5, <1>9 DEF RowStep, Untouched
<1>10. CASE m # n /\ m # r
  BY <1>10 DEF Reply, TypeOK, RowStep, Untouched
<1> QED BY <1>3, <1>7, <1>8, <1>9, <1>10

\* Every step of the store moves each message along its life cycle or leaves it.
LEMMA StepShape ==
    ASSUME TypeOK, Next, NEW m \in Messages
    PROVE  RowStep(m)
<1>1. CASE Tick
  BY <1>1 DEF Tick, RowStep, Untouched
<1>2. ASSUME NEW now \in Recent, TurnNext(now)
      PROVE  RowStep(m)
  <2>1. PICK e \in Endpoints :
          \/ \E r \in Refs, c \in Containers : RegisterTurn(e, r, c, now)
          \/ \E S \in Selections(e, now) :
                \/ Turn(e, now, S)
                \/ ReceiveTurn(e, now, S)
                \/ \E p, c \in Containers, g \in 0 .. session[e].generation :
                      TransitionTurn(e, p, c, g, now, S)
    BY <1>2 DEF TurnNext
  <2>2. PICK S \in SUBSET Eligible(e, now) : SweepAndClaim(S, now) /\ UNCHANGED message
    <3>1. CASE \E r \in Refs, c \in Containers : RegisterTurn(e, r, c, now)
      BY <3>1 DEF RegisterTurn
    <3>2. ASSUME NEW S \in Selections(e, now),
                 \/ Turn(e, now, S)
                 \/ ReceiveTurn(e, now, S)
                 \/ \E p, c \in Containers, g \in 0 .. session[e].generation :
                       TransitionTurn(e, p, c, g, now, S)
          PROVE  S \in SUBSET Eligible(e, now) /\ SweepAndClaim(S, now) /\ UNCHANGED message
      BY <3>2 DEF Selections, Turn, ReceiveTurn, TransitionTurn
    <3> QED BY <2>1, <3>1, <3>2
  <2> QED BY <2>2, SweepShape
<1>3. ASSUME NEW now \in Recent, MessageNext(now)
      PROVE  RowStep(m)
  <2>1. PICK n \in Messages :
          \/ \E from, to \in Endpoints, sel \in Selectors, lifetime \in Lifetimes :
                Send(n, from, sel, to, lifetime, now)
          \/ SendAgain(n, now)
          \/ Status(n, now)
          \/ ReplyTooLate(n, now)
          \/ \E k \in 0 .. delivery[n].attempts :
                \/ \E lifetime \in Lifetimes : Reply(n, k, lifetime, now)
                \/ ReplyAgain(n, k, now)
                \/ k > 0 /\ Ack(n, k, now)
                \/ k > 0 /\ AckByReceipt(n, k, now)
    BY <1>3 DEF MessageNext
  <2>2. CASE \E from, to \in Endpoints, sel \in Selectors, lifetime \in Lifetimes :
                Send(n, from, sel, to, lifetime, now)
    BY <2>2, SendShape
  <2>3. CASE SendAgain(n, now)
    BY <2>3, ExpireOneShape DEF SendAgain
  <2>4. CASE Status(n, now)
    BY <2>4, ExpireOneShape DEF Status
  <2>5. CASE ReplyTooLate(n, now)
    BY <2>5, OneRowShape DEF ReplyTooLate
  <2>6. ASSUME NEW k \in 0 .. delivery[n].attempts, NEW lifetime \in Lifetimes,
               Reply(n, k, lifetime, now)
        PROVE  RowStep(m)
    BY <2>6, ReplyShape
  <2>7. ASSUME NEW k \in 0 .. delivery[n].attempts, ReplyAgain(n, k, now)
        PROVE  RowStep(m)
    BY <2>7, ExpireOneShape DEF ReplyAgain
  <2>8. ASSUME NEW k \in 0 .. delivery[n].attempts, Ack(n, k, now)
        PROVE  RowStep(m)
    BY <2>8, OneRowShape DEF Ack, AckLive
  <2>9. ASSUME NEW k \in 0 .. delivery[n].attempts, AckByReceipt(n, k, now)
        PROVE  RowStep(m)
    BY <2>9, OneRowShape DEF AckByReceipt, AckLive
  <2> QED BY <2>1, <2>2, <2>3, <2>4, <2>5, <2>6, <2>7, <2>8, <2>9
<1>4. ASSUME NEW now \in Recent, SessionNext(now)
      PROVE  RowStep(m)
  BY <1>4 DEF SessionNext, CloseSession, NameSession, UnnameSession, MarkUnreachable,
              MarkActive, RowStep, Untouched
<1> QED BY <1>1, <1>2, <1>3, <1>4 DEF Next

-----------------------------------------------------------------------------
(* The invariant of messages and deliveries *)

\* A step along the life cycle keeps the delivery rows well typed.
LEMMA RowStepTypes ==
    ASSUME TypeOK, ClaimBookkeeping, NEW m \in Messages, RowStep(m)
    PROVE  /\ delivery'[m] \in DeliveryRow
           /\ message'[m] \in MessageRow
           /\ delivery'[m].state # "none" =>
                 message'[m].from \in Endpoints /\ message'[m].to \in Endpoints
           /\ LET d == delivery'[m] IN
              /\ d.state \in {"none", "pending"} =>
                    d.attempts = 0 /\ d.token = 0 /\ d.lease = 0
              /\ d.state \in {"claimed", "delivered"} => d.attempts > 0 /\ d.token = d.attempts
              /\ d.state = "expired" => d.token = 0
              /\ d.by = IF d.state = "delivered" THEN d.attempts ELSE 0
<1>1. delivery[m] \in DeliveryRow /\ message[m] \in MessageRow
  BY DEF TypeOK
<1>2. delivery[m].state # "none" => message[m].from \in Endpoints /\ message[m].to \in Endpoints
  BY DEF TypeOK
<1>3. LET d == delivery[m] IN
      /\ d.state \in {"none", "pending"} => d.attempts = 0 /\ d.token = 0 /\ d.lease = 0
      /\ d.state \in {"claimed", "delivered"} => d.attempts > 0 /\ d.token = d.attempts
      /\ d.state = "expired" => d.token = 0
      /\ d.by = IF d.state = "delivered" THEN d.attempts ELSE 0
  BY DEF ClaimBookkeeping
<1>4. CASE Untouched(m)
  BY <1>1, <1>2, <1>3, <1>4 DEF Untouched
<1>5. CASE Posted(m)
  <2>1. delivery'[m] =
          [state |-> "pending", attempts |-> 0, token |-> 0, lease |-> 0, by |-> 0]
    BY <1>5, NewDeliveryRow DEF Posted
  <2>2. /\ message'[m] \in MessageRow
        /\ message'[m].from \in Endpoints /\ message'[m].to \in Endpoints
    BY <1>5 DEF Posted
  <2> QED BY <2>1, <2>2 DEF DeliveryRow, DeliveryStates
<1>6. CASE Handed(m)
  <2>1. PICK now \in Nat : delivery'[m] = Claim(delivery[m], now)
    BY <1>6 DEF Handed
  <2>2. now + Lease \in Nat
    BY RelayStoreAssumption
  <2> QED BY <1>1, <1>2, <1>3, <1>6, <2>1, <2>2 DEF Handed, Claim, DeliveryRow, DeliveryStates, Open
<1>7. CASE Completed(m)
  BY <1>1, <1>2, <1>3, <1>7 DEF Completed, Deliver, DeliveryRow, DeliveryStates
<1>8. CASE Lapsed(m)
  BY <1>1, <1>2, <1>3, <1>8 DEF Lapsed, Expire, DeliveryRow, DeliveryStates, Open
<1> QED BY <1>4, <1>5, <1>6, <1>7, <1>8 DEF RowStep

-----------------------------------------------------------------------------
(* The invariant of sessions and names *)

NameInv == NamesAgree /\ ScopesUnique

\* Steps that may activate, deactivate or date a session but leave every
\* identity (scope, name, registration) alone.
KeepsIdentity ==
    /\ session' \in [Endpoints -> SessionRow]
    /\ binding' = binding
    /\ \A e \in Endpoints :
          /\ session'[e].ref = session[e].ref
          /\ session'[e].container = session[e].container
          /\ session'[e].alias = session[e].alias
          /\ session'[e].generation = session[e].generation
          /\ (session'[e].state = "none") <=> (session[e].state = "none")
          /\ session'[e].state = "closed" => session[e].state = "closed"

\* A step that changes no name and no scope keeps both sound.
LEMMA KeepsIdentityStep ==
    ASSUME NameInv, KeepsIdentity
    PROVE  NameInv'
<1>1. NamesAgree'
  BY DEF NameInv, NamesAgree, KeepsIdentity
<1>2. ScopesUnique'
  BY DEF NameInv, ScopesUnique, KeepsIdentity, Registered
<1> QED BY <1>1, <1>2 DEF NameInv

\* Every session row is well typed.
LEMMA SessionTypes == TypeOK => session \in [Endpoints -> SessionRow]
BY DEF TypeOK

\* The registration of relay_turn keeps sessions, names and scopes sound.
LEMMA RegisterStep ==
    ASSUME TypeOK, NameInv, NEW e \in Endpoints, NEW r \in Refs, NEW c \in Containers,
           NEW now \in Recent, RegisterTurn(e, r, c, now)
    PROVE  session' \in [Endpoints -> SessionRow] /\ NameInv'
<1>1. now \in Nat
  BY RecentBound
<1> DEFINE new == [state |-> "active", ref |-> r, container |-> c,
                   seen |-> now, alias |-> Nobody, generation |-> 0]
<1>2. session' = [session EXCEPT ![e] = new] /\ binding' = binding
  BY DEF RegisterTurn
<1>3. new \in SessionRow
  BY <1>1 DEF SessionRow, SessionStates
<1>4. session' \in [Endpoints -> SessionRow]
  BY <1>2, <1>3 DEF TypeOK
<1>5. session[e].alias = Nobody
  BY DEF RegisterTurn, Registered, NameInv, NamesAgree
<1>6. \A f \in Endpoints : session'[f].alias = session[f].alias
  BY <1>2, <1>5 DEF TypeOK
<1>7. NamesAgree'
  BY <1>2, <1>6 DEF NameInv, NamesAgree, TypeOK
<1>8. \A f \in Endpoints : f # e => session'[f] = session[f]
  BY <1>2 DEF TypeOK
<1>9. session'[e].ref = r /\ session'[e].container = c
  BY <1>2 DEF TypeOK
<1>10. \A f \in Endpoints : Registered(f) =>
          ~(session[f].container = c /\ session[f].ref = r)
  BY DEF RegisterTurn, RelaySession
<1>11. ScopesUnique'
  BY <1>8, <1>9, <1>10 DEF NameInv, ScopesUnique, Registered
<1> QED BY <1>4, <1>7, <1>11 DEF NameInv

\* A turn of a registered session changes neither names nor scopes.
LEMMA TurnStep ==
    ASSUME TypeOK, NEW e \in Endpoints, NEW now \in Recent, NEW S, Turn(e, now, S)
    PROVE  KeepsIdentity
<1>1. now \in Nat
  BY RecentBound
<1>2. /\ session[e].state # "none" /\ binding' = binding
      /\ session' = [session EXCEPT ![e].state = "active", ![e].seen = now]
  BY DEF Turn, Registered
<1>3. session' \in [Endpoints -> SessionRow]
  BY <1>1, <1>2, SessionTypes DEF SessionRow, SessionStates
<1>4. \A f \in Endpoints :
        /\ session'[f].ref = session[f].ref
        /\ session'[f].container = session[f].container
        /\ session'[f].alias = session[f].alias
        /\ session'[f].generation = session[f].generation
        /\ session'[f].state = IF f = e THEN "active" ELSE session[f].state
  BY <1>2 DEF TypeOK, SessionRow
<1> QED BY <1>2, <1>3, <1>4 DEF KeepsIdentity

\* A scope transition keeps names and scopes sound.
LEMMA TransitionStep ==
    ASSUME TypeOK, NameInv, NEW e \in Endpoints, NEW p \in Containers, NEW c \in Containers,
           NEW g \in Nat, NEW now \in Recent, NEW S, TransitionTurn(e, p, c, g, now, S)
    PROVE  session' \in [Endpoints -> SessionRow] /\ NameInv'
<1>1. now \in Nat
  BY RecentBound
<1>2. PICK moves \in BOOLEAN :
        /\ TransitionAllowed(e, p, c, g, moves)
        /\ session' = [session EXCEPT ![e] =
              [@ EXCEPT !.state = "active", !.seen = now,
                        !.container = c, !.generation = IF moves THEN g + 1
                                              ELSE session[e].generation]]
        /\ binding' = binding
  BY DEF TransitionTurn
<1>3. session' \in [Endpoints -> SessionRow]
  <2>1. (IF moves THEN g + 1 ELSE session[e].generation) \in Nat
    BY DEF TypeOK, SessionRow
  <2>2. PICK generation \in Nat : session' =
          [session EXCEPT ![e] = [@ EXCEPT !.state = "active", !.seen = now,
                                           !.container = c, !.generation = generation]]
    BY <1>2, <2>1
  <2> QED BY <1>1, <2>2, SessionTypes DEF SessionRow, SessionStates
<1>4. session[e].state \in {"active", "unreachable"}
  BY <1>2 DEF TransitionAllowed
<1>5. \A f \in Endpoints :
        /\ session'[f].alias = session[f].alias
        /\ session'[f].ref = session[f].ref
        /\ f # e => session'[f] = session[f]
  BY <1>2 DEF TypeOK, SessionRow
<1>6. session'[e].container = c /\ session'[e].state = "active"
  BY <1>2 DEF TypeOK, SessionRow
<1>7. NamesAgree'
  BY <1>2, <1>5, <1>6 DEF NameInv, NamesAgree
<1>8. session[e].container = c \/ RelaySession(c, session[e].ref) = {}
  BY <1>2 DEF TransitionAllowed
<1>9. ScopesUnique'
  <2>1. CASE session[e].container = c
    BY <1>4, <1>5, <1>6, <2>1 DEF NameInv, ScopesUnique, Registered
  <2>2. CASE RelaySession(c, session[e].ref) = {}
    <3>1. \A f \in Endpoints : Registered(f) =>
             ~(session[f].container = c /\ session[f].ref = session[e].ref)
      BY <2>2 DEF RelaySession
    <3> QED BY <1>5, <1>6, <3>1 DEF NameInv, ScopesUnique, Registered
  <2> QED BY <1>8, <2>1, <2>2
<1> QED BY <1>3, <1>7, <1>9 DEF NameInv

\* So does relay_close_session.
LEMMA CloseStep ==
    ASSUME TypeOK, NameInv, NEW e \in Endpoints,
           \/ CloseSession(e)
           \/ UnnameSession(e)
    PROVE  /\ session' \in [Endpoints -> SessionRow]
           /\ binding' \in [Aliases -> Endpoints \cup {Nobody}]
           /\ NameInv'
<1>1. session' \in [Endpoints -> SessionRow]
  BY DEF CloseSession, UnnameSession, TypeOK, SessionRow, SessionStates
<1>2. binding' = [a \in Aliases |->
                    IF a = session[e].alias /\ binding[a] = e THEN Nobody ELSE binding[a]]
  BY DEF CloseSession, UnnameSession, Unbind
<1>3. binding' \in [Aliases -> Endpoints \cup {Nobody}]
  BY <1>2 DEF TypeOK
<1>4. /\ session'[e].alias = Nobody
      /\ session'[e].ref = session[e].ref /\ session'[e].container = session[e].container
      /\ (session'[e].state = "none") <=> (session[e].state = "none")
      /\ \A f \in Endpoints : f # e => session'[f] = session[f]
  BY DEF CloseSession, UnnameSession, TypeOK, SessionRow, Registered
<1>5. \A a \in Aliases : binding'[a] = IF binding[a] = e THEN Nobody ELSE binding[a]
  BY <1>2 DEF NameInv, NamesAgree
<1>6. Nobody \notin Endpoints /\ Nobody \notin Aliases
  BY RelayStoreAssumption
<1>7. NamesAgree'
  BY <1>4, <1>5, <1>6 DEF NameInv, NamesAgree
<1>8. ScopesUnique'
  BY <1>4 DEF NameInv, ScopesUnique, Registered
<1> QED BY <1>1, <1>3, <1>7, <1>8 DEF NameInv

\* So does relay_name_session.
LEMMA NameStep ==
    ASSUME TypeOK, NameInv, NEW e \in Endpoints, NEW a \in Aliases, NEW replace \in BOOLEAN,
           NameSession(e, a, replace)
    PROVE  /\ session' \in [Endpoints -> SessionRow]
           /\ binding' \in [Aliases -> Endpoints \cup {Nobody}]
           /\ NameInv'
<1>1. session' \in [Endpoints -> SessionRow]
  BY DEF NameSession, TypeOK, SessionRow
<1>2. \A b \in Aliases : binding'[b] =
        IF b = a THEN e
        ELSE IF b = session[e].alias /\ binding[b] = e THEN Nobody ELSE binding[b]
  BY DEF NameSession, Unbind
<1>3. binding' \in [Aliases -> Endpoints \cup {Nobody}]
  BY DEF NameSession, Unbind, TypeOK
<1>4. \A f \in Endpoints :
        /\ session'[f].ref = session[f].ref /\ session'[f].container = session[f].container
        /\ session'[f].state = session[f].state
        /\ session'[f].alias = IF f = e THEN a
                               ELSE IF session[f].alias = a THEN Nobody
                               ELSE session[f].alias
  BY DEF NameSession, OtherOwners, TypeOK, SessionRow
<1>5. Nobody \notin Endpoints /\ Nobody \notin Aliases
  BY RelayStoreAssumption
<1>6. session[e].state \in {"active", "unreachable"}
  BY DEF NameSession
<1>7. NamesAgree'
  <2>1. ASSUME NEW f \in Endpoints, NEW b \in Aliases
        PROVE  session'[f].alias = b <=> binding'[b] = f
    BY <1>2, <1>4, <1>5 DEF NameInv, NamesAgree
  <2>2. \A f \in Endpoints : session'[f].state \in {"none", "closed"} => session'[f].alias = Nobody
    BY <1>4, <1>6 DEF NameInv, NamesAgree
  <2> QED BY <2>1, <2>2 DEF NamesAgree
<1>8. ScopesUnique'
  BY <1>4 DEF NameInv, ScopesUnique, Registered
<1> QED BY <1>1, <1>3, <1>7, <1>8 DEF NameInv

\* A change of reachability touches neither names nor scopes.
LEMMA HealthStep ==
    ASSUME TypeOK, NEW e \in Endpoints, NEW now \in Recent,
           MarkUnreachable(e, now) \/ MarkActive(e, now)
    PROVE  KeepsIdentity
<1>1. now \in Nat
  BY RecentBound
<1>2. CASE MarkUnreachable(e, now)
  BY <1>2 DEF MarkUnreachable, TypeOK, KeepsIdentity, SessionRow, SessionStates
<1>3. CASE MarkActive(e, now)
  <2>1. (IF session[e].seen < now THEN now ELSE session[e].seen) \in Nat
    BY <1>1 DEF TypeOK, SessionRow
  <2>2. /\ session[e].state # "none" /\ binding' = binding
        /\ session' = [session EXCEPT ![e] = [@ EXCEPT !.state = "active",
                    !.seen = IF session[e].seen < now THEN now ELSE session[e].seen]]
    BY <1>3 DEF MarkActive, Registered
  <2>3. session' \in [Endpoints -> SessionRow]
    <3>1. PICK seen \in Nat : session' =
            [session EXCEPT ![e] = [@ EXCEPT !.state = "active", !.seen = seen]]
      BY <2>1, <2>2
    <3> QED BY <3>1, SessionTypes DEF SessionRow, SessionStates
  <2>4. \A f \in Endpoints :
          /\ session'[f].ref = session[f].ref
          /\ session'[f].container = session[f].container
          /\ session'[f].alias = session[f].alias
          /\ session'[f].generation = session[f].generation
          /\ session'[f].state = IF f = e THEN "active" ELSE session[f].state
    BY <2>2 DEF TypeOK, SessionRow
  <2> QED BY <2>2, <2>3, <2>4 DEF KeepsIdentity
<1> QED BY <1>2, <1>3

\* Every step keeps the session rows well typed and the names and scopes sound.
LEMMA SessionsStep ==
    ASSUME TypeOK, NameInv, Next
    PROVE  /\ clock' \in Nat
           /\ session' \in [Endpoints -> SessionRow]
           /\ binding' \in [Aliases -> Endpoints \cup {Nobody}]
           /\ NameInv'
<1>0. /\ clock \in Nat
      /\ session \in [Endpoints -> SessionRow]
      /\ binding \in [Aliases -> Endpoints \cup {Nobody}]
  BY DEF TypeOK
<1>1. ASSUME KeepsIdentity, UNCHANGED clock
      PROVE  /\ clock' \in Nat
             /\ session' \in [Endpoints -> SessionRow]
             /\ binding' \in [Aliases -> Endpoints \cup {Nobody}]
             /\ NameInv'
  BY <1>0, <1>1, KeepsIdentityStep DEF KeepsIdentity
<1>2. ASSUME UNCHANGED <<session, binding>>
      PROVE  /\ session' \in [Endpoints -> SessionRow]
             /\ binding' \in [Aliases -> Endpoints \cup {Nobody}]
             /\ NameInv'
  <2>1. KeepsIdentity
    BY <1>0, <1>2 DEF KeepsIdentity
  <2> QED BY <1>0, <1>2, <2>1, KeepsIdentityStep
<1>3. CASE Tick
  BY <1>0, <1>2, <1>3 DEF Tick
<1>4. ASSUME NEW now \in Recent, NEW e \in Endpoints, NEW r \in Refs, NEW c \in Containers,
             RegisterTurn(e, r, c, now)
      PROVE  /\ clock' \in Nat
             /\ session' \in [Endpoints -> SessionRow]
             /\ binding' \in [Aliases -> Endpoints \cup {Nobody}]
             /\ NameInv'
  <2>1. clock' = clock /\ binding' = binding
    BY <1>4 DEF RegisterTurn
  <2> QED BY <1>0, <1>4, <2>1, RegisterStep
<1>5. ASSUME NEW now \in Recent, NEW e \in Endpoints, NEW S, Turn(e, now, S)
      PROVE  KeepsIdentity /\ UNCHANGED clock
  BY <1>5, TurnStep DEF Turn
<1>6. ASSUME NEW now \in Recent, NEW e \in Endpoints, NEW S,
             NEW p \in Containers, NEW c \in Containers, NEW g \in 0 .. session[e].generation,
             TransitionTurn(e, p, c, g, now, S)
      PROVE  /\ clock' \in Nat
             /\ session' \in [Endpoints -> SessionRow]
             /\ binding' \in [Aliases -> Endpoints \cup {Nobody}]
             /\ NameInv'
  <2>1. clock' = clock /\ binding' = binding
    BY <1>6 DEF TransitionTurn
  <2>2. g \in Nat
    BY <1>0 DEF SessionRow
  <2> QED BY <1>0, <1>6, <2>1, <2>2, TransitionStep
<1>7. ASSUME NEW now \in Recent, TurnNext(now)
      PROVE  /\ clock' \in Nat
             /\ session' \in [Endpoints -> SessionRow]
             /\ binding' \in [Aliases -> Endpoints \cup {Nobody}]
             /\ NameInv'
  <2>1. ASSUME NEW e \in Endpoints, NEW S, ReceiveTurn(e, now, S)
        PROVE  UNCHANGED <<clock, session, binding>>
    BY <2>1 DEF ReceiveTurn
  <2> QED BY <1>0, <1>1, <1>2, <1>4, <1>5, <1>6, <1>7, <2>1 DEF TurnNext
<1>8. ASSUME NEW now \in Recent, MessageNext(now)
      PROVE  UNCHANGED <<clock, session, binding>>
  BY <1>8 DEF MessageNext, Send, SendAgain, Status, ReplyTooLate, Reply, ReplyAgain,
              Ack, AckByReceipt, AckLive
<1>9. ASSUME NEW now \in Recent, NEW e \in Endpoints, CloseSession(e) \/ UnnameSession(e)
      PROVE  /\ clock' \in Nat
             /\ session' \in [Endpoints -> SessionRow]
             /\ binding' \in [Aliases -> Endpoints \cup {Nobody}]
             /\ NameInv'
  <2>1. clock' = clock
    BY <1>9 DEF CloseSession, UnnameSession
  <2> QED BY <1>0, <1>9, <2>1, CloseStep
<1>10. ASSUME NEW e \in Endpoints, NEW a \in Aliases, NEW replace \in BOOLEAN,
              NameSession(e, a, replace)
       PROVE  /\ clock' \in Nat
              /\ session' \in [Endpoints -> SessionRow]
              /\ binding' \in [Aliases -> Endpoints \cup {Nobody}]
              /\ NameInv'
  <2>1. clock' = clock
    BY <1>10 DEF NameSession
  <2> QED BY <1>0, <1>10, <2>1, NameStep
<1>11. ASSUME NEW now \in Recent, NEW e \in Endpoints,
              MarkUnreachable(e, now) \/ MarkActive(e, now)
       PROVE  KeepsIdentity /\ UNCHANGED clock
  BY <1>11, HealthStep DEF MarkUnreachable, MarkActive
<1>12. ASSUME NEW now \in Recent, SessionNext(now)
       PROVE  /\ clock' \in Nat
              /\ session' \in [Endpoints -> SessionRow]
              /\ binding' \in [Aliases -> Endpoints \cup {Nobody}]
              /\ NameInv'
  BY <1>1, <1>9, <1>10, <1>11, <1>12 DEF SessionNext
<1> QED BY <1>0, <1>2, <1>3, <1>7, <1>8, <1>12 DEF Next

-----------------------------------------------------------------------------
(* The inductive invariant and its consequences *)

IInv == MailInv /\ NameInv

\* The empty store is in the inductive invariant.
LEMMA InitIInv == Init => IInv
<1> SUFFICES ASSUME Init PROVE IInv
  OBVIOUS
<1>1. NoSession \in SessionRow /\ NoMessage \in MessageRow /\ NoDelivery \in DeliveryRow
  BY DEF NoSession, NoMessage, NoDelivery, SessionRow, MessageRow, DeliveryRow,
         SessionStates, DeliveryStates
<1>2. \A m \in Messages : delivery[m] = NoDelivery
  BY DEF Init
<1>3. \A e \in Endpoints : session[e] = NoSession
  BY DEF Init
<1>4. TypeOK
  BY <1>1, <1>2 DEF Init, TypeOK, NoDelivery
<1>5. ClaimBookkeeping
  BY <1>2 DEF ClaimBookkeeping, NoDelivery
<1>6. ReplyAcknowledges
  BY <1>2 DEF ReplyAcknowledges, NoDelivery
<1>7. NamesAgree
  BY <1>3, RelayStoreAssumption DEF Init, NamesAgree, NoSession
<1>8. ScopesUnique
  BY <1>3 DEF ScopesUnique, Registered, NoSession
<1> QED BY <1>4, <1>5, <1>6, <1>7, <1>8 DEF IInv, MailInv, NameInv

\* The row functions keep their domains.
LEMMA Domains ==
    ASSUME TypeOK, Next
    PROVE  /\ delivery' = [m \in Messages |-> delivery'[m]]
           /\ message' = [m \in Messages |-> message'[m]]
<1>0. /\ delivery = [m \in Messages |-> delivery[m]]
      /\ message = [m \in Messages |-> message[m]]
  BY DEF TypeOK
<1>1. ASSUME NEW now, TurnNext(now)
      PROVE  /\ delivery' = [m \in Messages |-> delivery'[m]]
             /\ message' = message
  BY <1>1 DEF TurnNext, RegisterTurn, Turn, ReceiveTurn, TransitionTurn, SweepAndClaim
<1>2. ASSUME NEW now, MessageNext(now)
      PROVE  /\ delivery' = [m \in Messages |-> delivery'[m]]
             /\ message' = [m \in Messages |-> message'[m]]
  BY <1>0, <1>2 DEF MessageNext, Send, SendAgain, Status, ReplyTooLate, Reply, ReplyAgain,
              Ack, AckByReceipt, AckLive, ExpireOne
<1>3. ASSUME NEW now, SessionNext(now)
      PROVE  UNCHANGED <<delivery, message>>
  BY <1>3 DEF SessionNext, CloseSession, NameSession, UnnameSession, MarkUnreachable, MarkActive
<1>4. CASE Tick
  BY <1>0, <1>4 DEF Tick
<1> QED BY <1>0, <1>1, <1>2, <1>3, <1>4 DEF Next

\* A reply keeps ReplyAcknowledges.
LEMMA ReplyStep ==
    ASSUME MailInv, \A m \in Messages : RowStep(m)
    PROVE  ReplyAcknowledges'
<1> SUFFICES ASSUME NEW m \in Messages, ReplyId(m) \in Messages,
                    delivery'[ReplyId(m)].state # "none"
             PROVE  /\ delivery'[m].state = "delivered"
                    /\ message'[ReplyId(m)].to = message'[m].from
                    /\ message'[ReplyId(m)].from = message'[m].to
  BY DEF ReplyAcknowledges
<1> DEFINE r == ReplyId(m)
<1>1. CASE delivery[r].state # "none"
  <2>1. /\ delivery[m].state = "delivered"
        /\ message[r].to = message[m].from /\ message[r].from = message[m].to
    BY <1>1 DEF MailInv, ReplyAcknowledges
  <2>2. Untouched(m)
    BY <2>1 DEF RowStep, Posted, Handed, Completed, Lapsed, Open
  <2>3. message'[r] = message[r]
    BY <1>1 DEF RowStep, Untouched, Posted, Handed, Completed, Lapsed
  <2> QED BY <2>1, <2>2, <2>3 DEF Untouched
<1>2. CASE delivery[r].state = "none"
  <2>1. Posted(r)
    BY <1>2 DEF RowStep, Untouched, Handed, Completed, Lapsed, Open
  <2>2. r[2] # 0
    BY ReplyIdFacts
  <2>3. PICK p \in Messages :
             /\ r = ReplyId(p)
             /\ delivery'[p].state = "delivered"
             /\ message'[p] = message[p]
             /\ message'[r].to = message[p].from
             /\ message'[r].from = message[p].to
    BY <2>1, <2>2 DEF Posted
  <2>4. p = m
    BY <2>3, ReplyIdFacts
  <2> QED BY <2>3, <2>4
<1> QED BY <1>1, <1>2

\* Every step of the store keeps the inductive invariant.
LEMMA NextIInv == IInv /\ [Next]_vars => IInv'
<1> SUFFICES ASSUME IInv, [Next]_vars PROVE IInv'
  OBVIOUS
<1>1. CASE UNCHANGED vars
  BY <1>1 DEF vars, IInv, MailInv, NameInv, TypeOK, ClaimBookkeeping, ReplyAcknowledges,
              NamesAgree, ScopesUnique, Registered
<1>2. CASE Next
  <2>1. TypeOK /\ ClaimBookkeeping /\ MailInv /\ NameInv
    BY DEF IInv, MailInv
  <2>2. \A m \in Messages : RowStep(m)
    BY <1>2, <2>1, StepShape
  <2>3. /\ clock' \in Nat
        /\ session' \in [Endpoints -> SessionRow]
        /\ binding' \in [Aliases -> Endpoints \cup {Nobody}]
        /\ NameInv'
    BY <1>2, <2>1, SessionsStep
  <2>4. /\ delivery' = [m \in Messages |-> delivery'[m]]
        /\ message' = [m \in Messages |-> message'[m]]
    BY <1>2, <2>1, Domains
  <2>5. TypeOK'
    <3>1. \A m \in Messages :
             /\ delivery'[m] \in DeliveryRow
             /\ message'[m] \in MessageRow
             /\ delivery'[m].state # "none" =>
                   message'[m].from \in Endpoints /\ message'[m].to \in Endpoints
      BY <2>1, <2>2, RowStepTypes
    <3>2. delivery' \in [Messages -> DeliveryRow] /\ message' \in [Messages -> MessageRow]
      BY <2>4, <3>1
    <3> QED BY <2>3, <3>1, <3>2 DEF TypeOK
  <2>6. ClaimBookkeeping'
    BY <2>1, <2>2, RowStepTypes DEF ClaimBookkeeping
  <2>7. ReplyAcknowledges'
    BY <2>1, <2>2, ReplyStep
  <2> QED BY <2>3, <2>5, <2>6, <2>7 DEF IInv, MailInv
<1> QED BY <1>1, <1>2

\* The inductive invariant of the Relay store holds in every reachable state.
THEOREM StoreInvariant == Spec => []IInv
<1> QED BY InitIInv, NextIInv, PTL DEF Spec

\* The rows keep the types of their columns: storage/sqlite_schema.py.
THEOREM TypeCorrect == Spec => []TypeOK
<1>1. IInv => TypeOK
  BY DEF IInv, MailInv
<1> QED BY <1>1, StoreInvariant, PTL

\* The stored claim token is always that of the newest claim, and a delivery is
\* pending exactly while it was never claimed (what _wake_retry_pending assumes).
THEOREM ClaimsBooked == Spec => []ClaimBookkeeping
<1>1. IInv => ClaimBookkeeping
  BY DEF IInv, MailInv
<1> QED BY <1>1, StoreInvariant, PTL

\* A stored reply means its source delivery is acknowledged (relay_reply_atomic).
THEOREM RepliesAcknowledge == Spec => []ReplyAcknowledges
<1>1. IInv => ReplyAcknowledges
  BY DEF IInv, MailInv
<1> QED BY <1>1, StoreInvariant, PTL

\* The alias table and the alias column agree (relay_name_session, relay_close_session).
THEOREM NamesStayConsistent == Spec => []NamesAgree
<1>1. IInv => NamesAgree
  BY DEF IInv, NameInv
<1> QED BY <1>1, StoreInvariant, PTL

\* Two endpoints never share a scope (relay_turn's registration and transitions).
THEOREM ScopesStayUnique == Spec => []ScopesUnique
<1>1. IInv => ScopesUnique
  BY DEF IInv, NameInv
<1> QED BY <1>1, StoreInvariant, PTL

-----------------------------------------------------------------------------
(* Action properties *)

\* A claim is handed out again only after the previous lease ended on the real
\* clock, for every delay between relay_turn's clock reading and its commit.
THEOREM LeasesExclusive == Spec => LeaseExclusive
<1>1. ASSUME IInv, [Next]_vars, NEW m \in Messages,
             delivery'[m].attempts # delivery[m].attempts
      PROVE  delivery[m].lease <= clock
  <2>1. CASE UNCHANGED vars
    BY <1>1, <2>1 DEF vars
  <2>2. CASE Next
    <3>1. RowStep(m)
      BY <1>1, <2>2, StepShape DEF IInv, MailInv
    <3>2. delivery[m] \in DeliveryRow /\ clock \in Nat
      BY <1>1 DEF IInv, MailInv, TypeOK
    <3>3. delivery[m].state \in {"none", "pending"} =>
             delivery[m].attempts = 0 /\ delivery[m].lease = 0
      BY <1>1 DEF IInv, MailInv, ClaimBookkeeping
    <3>4. ~Untouched(m)
      BY <1>1 DEF Untouched
    <3>5. ~Posted(m)
      <4>1. NewDelivery.attempts = 0
        BY NewDeliveryRow
      <4> QED BY <1>1, <3>3, <4>1 DEF Posted
    <3>6. ~Completed(m)
      BY <1>1 DEF Completed, Deliver
    <3>7. ~Lapsed(m)
      BY <1>1, <3>2 DEF Lapsed, Expire
    <3>8. Handed(m)
      BY <3>1, <3>4, <3>5, <3>6, <3>7 DEF RowStep
    <3> QED BY <3>2, <3>3, <3>8 DEF Handed, Open
  <2> QED BY <1>1, <2>1, <2>2
<1>2. IInv /\ [Next]_vars => [\A m \in Messages :
         delivery'[m].attempts # delivery[m].attempts => delivery[m].lease <= clock]_vars
  BY <1>1
<1> QED BY <1>2, StoreInvariant, PTL DEF Spec, LeaseExclusive

-----------------------------------------------------------------------------
(* The rows implement the mailbox *)

\* The initial store maps to the initial mailbox.
LEMMA MailboxInit == Init => Mailbox!Init
<1> SUFFICES ASSUME Init PROVE Mailbox!Init
  OBVIOUS
<1>1. \A m \in Messages : delivery[m] =
        [state |-> "none", attempts |-> 0, token |-> 0, lease |-> 0, by |-> 0]
  BY DEF Init, NoDelivery
<1> QED BY <1>1 DEF Init, Mailbox!Init, Mailbox!Absent, Open

\* Every step of the store maps to a step of the mailbox or to a stutter.
LEMMA MailboxStep ==
    ASSUME IInv, [Next]_vars
    PROVE  [Mailbox!Next]_Mailbox!mailVars
<1> DEFINE Box(m) ==
        [state |-> IF delivery[m].state \in Open THEN "open" ELSE delivery[m].state,
         claims |-> delivery[m].attempts,
         until |-> delivery[m].lease,
         deadline |-> message[m].expires,
         by |-> delivery[m].by]
<1>1. CASE UNCHANGED vars
  BY <1>1 DEF vars, Mailbox!mailVars
<1>2. CASE Next
  <2>1. clock' \in {clock, clock + 1}
    <3>1. ASSUME NEW now, TurnNext(now) PROVE clock' = clock
      BY <3>1 DEF TurnNext, RegisterTurn, Turn, ReceiveTurn, TransitionTurn
    <3>2. ASSUME NEW now, MessageNext(now) PROVE clock' = clock
      BY <3>2 DEF MessageNext, Send, SendAgain, Status, ReplyTooLate, Reply, ReplyAgain,
                  Ack, AckByReceipt, AckLive
    <3>3. ASSUME NEW now, SessionNext(now) PROVE clock' = clock
      BY <3>3 DEF SessionNext, CloseSession, NameSession, UnnameSession,
                  MarkUnreachable, MarkActive
    <3>4. CASE Tick
      BY <3>4 DEF Tick
    <3> QED BY <1>2, <3>1, <3>2, <3>3, <3>4 DEF Next
  <2>2. ASSUME NEW m \in Messages
        PROVE  \/ Box(m)' = Box(m)
               \/ Mailbox!Post(Box(m), Box(m)')
               \/ Mailbox!HandOut(Box(m), Box(m)')
               \/ Mailbox!Complete(Box(m), Box(m)')
               \/ Mailbox!Lapse(Box(m), Box(m)')
    <3>1. RowStep(m)
      BY <1>2, StepShape DEF IInv, MailInv
    <3>2. delivery[m] \in DeliveryRow /\ clock \in Nat
      BY DEF IInv, MailInv, TypeOK
    <3>3. LET d == delivery[m] IN
          /\ d.state \in {"none", "pending"} => d.attempts = 0 /\ d.token = 0 /\ d.lease = 0
          /\ d.state \in {"claimed", "delivered"} => d.attempts > 0 /\ d.token = d.attempts
          /\ d.state = "expired" => d.token = 0
          /\ d.by = IF d.state = "delivered" THEN d.attempts ELSE 0
      BY DEF IInv, MailInv, ClaimBookkeeping
    <3>4. CASE Untouched(m)
      BY <3>4 DEF Untouched
    <3>5. CASE Posted(m)
      <4>1. delivery'[m] =
              [state |-> "pending", attempts |-> 0, token |-> 0, lease |-> 0, by |-> 0]
        BY <3>5, NewDeliveryRow DEF Posted
      <4>2. delivery[m].state = "none"
        BY <3>5 DEF Posted
      <4>3. Mailbox!Post(Box(m), Box(m)')
        BY <3>3, <4>1, <4>2 DEF Mailbox!Post, Mailbox!Absent, Open
      <4> QED BY <4>3
    <3>6. CASE Handed(m)
      <4>1. PICK now \in Nat : delivery'[m] = Claim(delivery[m], now)
        BY <3>6 DEF Handed
      <4>2. delivery[m].lease <= clock
        BY <3>2, <3>3, <3>6 DEF Handed, Open, DeliveryRow
      <4>3. Mailbox!HandOut(Box(m), Box(m)')
        BY <3>3, <3>6, <4>1, <4>2 DEF Mailbox!HandOut, Handed, Claim, Open
      <4> QED BY <4>3
    <3>7. CASE Completed(m)
      <4>1. Mailbox!Complete(Box(m), Box(m)')
        BY <3>3, <3>7 DEF Mailbox!Complete, Completed, Deliver, Open
      <4> QED BY <4>1
    <3>8. CASE Lapsed(m)
      <4>1. Mailbox!Lapse(Box(m), Box(m)')
        BY <3>3, <3>8 DEF Mailbox!Lapse, Lapsed, Expire, Open
      <4> QED BY <4>1
    <3> QED BY <3>1, <3>4, <3>5, <3>6, <3>7, <3>8 DEF RowStep
  <2>3. Mailbox!Next
    BY <2>1, <2>2 DEF Mailbox!Next
  <2> QED BY <2>3
<1> QED BY <1>1, <1>2

\* storage/sqlite_relay.py implements the at-least-once mailbox: exclusive
\* leases, one completion by the newest claim, expiry only past the deadline.
THEOREM StoreImplementsMailbox == Spec => ImplementsMailbox
<1>1. Init => Mailbox!Init
  BY MailboxInit
<1>2. IInv /\ [Next]_vars => [Mailbox!Next]_Mailbox!mailVars
  BY MailboxStep
<1> QED BY <1>1, <1>2, StoreInvariant, PTL DEF Spec, ImplementsMailbox, Mailbox!Spec

=============================================================================
