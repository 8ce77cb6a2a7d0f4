-------------------------- MODULE ClaudeWakeProofs --------------------------
(***************************************************************************)
(* The safety properties of ClaudeWake for any scopes, endpoints,          *)
(* deliveries, registration limit and numbers of crashes and faults.  The  *)
(* argument for the native fence: a frame only leaves while its session's  *)
(* row holds the reservation; the row outlives everything but the          *)
(* acknowledgement; and a store that lost it is refused for good.          *)
(***************************************************************************)
EXTENDS ClaudeWake, FiniteSetTheorems, TLAPS

Sound(rows) ==
    /\ Loadable(rows)
    /\ \A s \in Scopes : InFlight(rows, s) =>
          /\ rows[s].delivery \in Deliveries
          /\ To[rows[s].delivery] = EndpointOf[s]

RowsSound == Sound(reg) /\ Sound(canonical)

\* Workers are bound to their endpoint, one of them at most is in the middle of
\* an attempt, and that one holds the reservation of a frame not yet sent.
WorkerBound(e) ==
    /\ worker[e].scope \in Scopes /\ EndpointOf[worker[e].scope] = e
    /\ worker[e].delivery \in Deliveries /\ To[worker[e].delivery] = e

WorkersSound ==
    /\ \A e \in Endpoints : worker[e].phase # "none" => WorkerBound(e)
    /\ \A e \in Endpoints : worker[e].phase = "reserved" =>
          /\ reg[worker[e].scope] = Holding(worker[e].delivery)
          /\ torn \/ framed[worker[e].delivery] = 0
    /\ \A e, f \in Endpoints :
          worker[e].phase = "reserved" /\ worker[f].phase = "reserved" => e = f

\* Memory and disk agree unless the store is refused, and a refused store is
\* marked, so that the next start refuses it too.
FilesAgree ==
    /\ ~refused => canonical = reg
    /\ refused => marker \/ torn
    /\ marker => refused

Acknowledged == \A d \in releases : delivery[d] = "acked"

\* A frame that left and is not acknowledged has its reservation, or the store
\* is refused and empty, and nothing is ever sent again.
HasFence(d) ==
    \/ \E s \in Scopes : EndpointOf[s] = To[d] /\ reg[s] = Holding(d)
    \/ refused /\ reg = NoRows

Fenced == torn \/ \A d \in Deliveries : framed[d] > 0 /\ delivery[d] # "acked" => HasFence(d)

\* Sessions recorded as working are not idle, nor about to become so.
Quiet ==
    /\ \A s \in working : intent[s] # "idle"
    /\ torn \/ \A s \in working : reg[s].state # "idle"

IInv ==
    /\ TypeOK /\ RowsSound /\ WorkersSound /\ FilesAgree /\ Acknowledged
    /\ Fenced /\ NativeFence /\ Quiet /\ BusyNotWoken /\ NoStrandedReservation

-----------------------------------------------------------------------------
LEMMA RowFacts ==
    /\ \A state \in RowStates : Plain(state) \in Row /\ Plain(state).state = state
    /\ \A d \in Deliveries : Holding(d) \in Row /\ Holding(d).state = "wake_inflight"
                             /\ Holding(d).delivery = d
    /\ NoRows \in [Scopes -> Row] /\ \A s \in Scopes : NoRows[s].state = "none"
    /\ NoWorker \in Worker /\ NoWorker.phase = "none"
BY DEF RowStates, Plain, Row, Holding, NoRows, NoWorker, Worker

LEMMA NoRowsSound == Sound(NoRows)
BY RowFacts DEF Sound, Loadable, InFlight

\* A row in flight is the reservation of its delivery.
LEMMA HoldingRow ==
    ASSUME NEW rows \in [Scopes -> Row], NEW s \in Scopes, InFlight(rows, s)
    PROVE  rows[s] = Holding(rows[s].delivery)
<1>1. rows[s] \in Row
  OBVIOUS
<1> QED BY <1>1 DEF Row, InFlight, Holding

\* An endpoint has one reservation at most.
LEMMA OneReservation ==
    ASSUME NEW rows, Sound(rows), NEW s \in Scopes, NEW t \in Scopes,
           NEW c \in Deliveries, NEW d \in Deliveries,
           rows[s] = Holding(c), rows[t] = Holding(d), EndpointOf[s] = EndpointOf[t]
    PROVE  s = t /\ c = d
<1>1. InFlight(rows, s) /\ InFlight(rows, t) /\ rows[s].delivery = c /\ rows[t].delivery = d
  BY RowFacts DEF InFlight
<1>2. s = t
  BY <1>1 DEF Sound, Loadable
<1> QED BY <1>1, <1>2

LEMMA InitHolds == Init => IInv
<1> SUFFICES ASSUME Init PROVE IInv
  OBVIOUS
<1> USE ClaudeAssumption DEF Init
<1>1. TypeOK
  <2>1. home \in [Endpoints -> Scopes]
    OBVIOUS
  <2>2. reg \in [Scopes -> Row] /\ canonical \in [Scopes -> Row] /\ worker \in [Endpoints -> Worker]
    BY RowFacts
  <2>3. /\ intent \in [Scopes -> IntentKinds \cup {"none"}]
        /\ delivery \in [Deliveries -> {"pending", "claimed", "acked", "expired"}]
        /\ framed \in [Deliveries -> Nat]
    OBVIOUS
  <2>4. issued \in 0..MaxIntents /\ crashes \in 0..MaxCrashes /\ faults \in 0..MaxFaults
    OBVIOUS
  <2>5. /\ marker \in BOOLEAN /\ refused \in BOOLEAN /\ torn \in BOOLEAN
        /\ working \subseteq Scopes /\ admits \subseteq Scopes
        /\ releases \subseteq Deliveries /\ stranded \subseteq Deliveries
    OBVIOUS
  <2> HIDE DEF Init
  <2> QED BY <2>1, <2>2, <2>3, <2>4, <2>5 DEF TypeOK
<1>2. RowsSound
  BY NoRowsSound DEF RowsSound
<1>3. WorkersSound
  BY RowFacts DEF WorkersSound
<1>4. FilesAgree /\ Acknowledged
  BY DEF FilesAgree, Acknowledged
<1>5. Fenced /\ NativeFence
  BY DEF Fenced, NativeFence
<1>6. Quiet /\ BusyNotWoken
  BY RowFacts DEF Quiet, BusyNotWoken
<1>7. NoStrandedReservation
  BY RowFacts DEF NoStrandedReservation
<1> QED BY <1>1, <1>2, <1>3, <1>4, <1>5, <1>6, <1>7 DEF IInv

-----------------------------------------------------------------------------
(* Steps that change rows, but reserve nothing: the file follows, or the      *)
(* store is quarantined, or neither changes.                                  *)

Saved ==
    \/ canonical' = reg' /\ UNCHANGED <<marker, refused, torn>>
    \/ Quarantine
    \/ UNCHANGED <<reg, canonical, marker, refused, torn>>

LEMMA FilesStep ==
    ASSUME IInv, reg' \in [Scopes -> Row], Sound(reg'), Saved
    PROVE  /\ FilesAgree' /\ RowsSound'
           /\ canonical' \in [Scopes -> Row]
           /\ marker' \in BOOLEAN /\ refused' \in BOOLEAN /\ torn' \in BOOLEAN
           /\ torn => torn'
           /\ refused => refused'
<1> USE DEF IInv, TypeOK
<1>1. CASE canonical' = reg' /\ UNCHANGED <<marker, refused, torn>>
  BY <1>1 DEF FilesAgree, RowsSound
<1>2. CASE UNCHANGED <<reg, canonical, marker, refused, torn>>
  BY <1>2 DEF FilesAgree, RowsSound
<1>3. CASE Quarantine
  <2>1. /\ refused' = TRUE
        /\ canonical' = NoRows \/ canonical' = canonical
        /\ marker' \in BOOLEAN /\ torn' = (torn \/ ~marker')
    BY <1>3 DEF Quarantine
  <2> QED BY <2>1, NoRowsSound, RowFacts DEF FilesAgree, RowsSound
<1> QED BY <1>1, <1>2, <1>3 DEF Saved

LEMMA RowsStep ==
    ASSUME IInv, Saved,
           reg' \in [Scopes -> Row],
           \A s \in Scopes : InFlight(reg', s) => reg'[s] = reg[s],
           \A s \in Scopes : InFlight(reg, s) =>
               \/ reg'[s] = reg[s]
               \/ torn \/ delivery[reg[s].delivery] = "acked" \/ framed[reg[s].delivery] = 0,
           refused /\ reg = NoRows => reg' = NoRows,
           worker' \in [Endpoints -> Worker],
           \A e \in Endpoints : worker'[e] \in {worker[e], NoWorker} /\ worker'[e].phase # "reserved",
           releases' \subseteq releases, admits' \subseteq Scopes,
           intent' \in [Scopes -> IntentKinds \cup {"none"}],
           working' \subseteq Scopes, faults' \in 0..MaxFaults,
           UNCHANGED <<issued, relay, crashes, framed, stranded>>,
           Quiet', NoStrandedReservation'
    PROVE  IInv'
<1>1. Sound(reg')
  BY DEF IInv, RowsSound, Sound, Loadable, InFlight
<1>2. /\ FilesAgree' /\ RowsSound' /\ canonical' \in [Scopes -> Row]
      /\ marker' \in BOOLEAN /\ refused' \in BOOLEAN /\ torn' \in BOOLEAN
      /\ (torn => torn') /\ (refused => refused')
  BY <1>1, FilesStep
<1>3. TypeOK'
  BY <1>2 DEF IInv, TypeOK, relay
<1>4. WorkersSound' /\ BusyNotWoken'
  BY RowFacts DEF IInv, WorkersSound, WorkerBound, BusyNotWoken
<1>5. Acknowledged'
  BY DEF IInv, Acknowledged, relay
<1>6. NativeFence'
  BY <1>2 DEF IInv, NativeFence, relay
<1>7. Fenced'
  <2> SUFFICES ASSUME ~torn', NEW d \in Deliveries, framed[d] > 0, delivery[d] # "acked"
               PROVE  HasFence(d)'
    BY DEF Fenced, relay
  <2>1. HasFence(d)
    BY <1>2 DEF IInv, Fenced
  <2>2. CASE refused /\ reg = NoRows
    BY <2>2, <1>2 DEF HasFence
  <2>3. ASSUME NEW s \in Scopes, EndpointOf[s] = To[d], reg[s] = Holding(d)
        PROVE  HasFence(d)'
    <3>1. InFlight(reg, s) /\ reg[s].delivery = d
      BY <2>3, RowFacts DEF InFlight
    <3>2. reg'[s] = Holding(d)
      BY <3>1, <2>3, <1>2
    <3> QED BY <2>3, <3>2 DEF HasFence
  <2> QED BY <2>1, <2>2, <2>3 DEF HasFence
<1> QED BY <1>2, <1>3, <1>4, <1>5, <1>6, <1>7 DEF IInv

\* No attempt is under way while the registry is free.
LEMMA FreeWorkers ==
    ASSUME IInv, Free, UNCHANGED worker
    PROVE  /\ worker' \in [Endpoints -> Worker]
           /\ \A e \in Endpoints : worker'[e] \in {worker[e], NoWorker} /\ worker'[e].phase # "reserved"
BY DEF IInv, TypeOK, Free

LEMMA WrittenFaults ==
    ASSUME TypeOK, NEW ok \in BOOLEAN, Written(ok)
    PROVE  faults' \in 0..MaxFaults
BY ClaudeAssumption DEF TypeOK, Written

-----------------------------------------------------------------------------
(* One lemma for each action. *)

\* A change of rows that takes no reservation away and adds none, by a
\* registration, a close, a legacy intent or the admission of a turn.
LEMMA KeepsReservations ==
    ASSUME IInv, Free, Saved, UNCHANGED worker,
           reg' \in [Scopes -> Row],
           \A s \in Scopes : InFlight(reg, s) \/ InFlight(reg', s) => reg'[s] = reg[s],
           refused /\ reg = NoRows => reg' = NoRows,
           admits' \subseteq Scopes, UNCHANGED releases,
           intent' \in [Scopes -> IntentKinds \cup {"none"}],
           working' \subseteq Scopes, faults' \in 0..MaxFaults,
           UNCHANGED <<issued, relay, crashes, framed, stranded>>,
           Quiet'
    PROVE  IInv'
<1>1. Sound(reg')
  BY DEF IInv, RowsSound, Sound, Loadable, InFlight
<1>2. (torn => torn') /\ (refused => refused')
  BY <1>1, FilesStep
<1>3. NoStrandedReservation'
  <2> SUFFICES ASSUME NEW s \in Scopes, NEW d \in Deliveries, reg'[s] = Holding(d), delivery[d] = "acked"
               PROVE  d \in releases \cup stranded \/ refused' \/ torn'
    BY DEF NoStrandedReservation, relay
  <2>1. InFlight(reg', s)
    BY RowFacts DEF InFlight
  <2>2. reg[s] = Holding(d)
    BY <2>1
  <2> QED BY <2>2, <1>2 DEF IInv, NoStrandedReservation
<1> QED BY <1>3, FreeWorkers, RowsStep

\* The rows a registration starts from.
LEMMA RoomFacts ==
    ASSUME IInv, NEW s \in Scopes, NEW base \in WithRoom(s)
    PROVE  /\ base \in [Scopes -> Row]
           /\ \A t \in Scopes : base[t] = reg[t] \/ (base[t] = Plain("none") /\ ~InFlight(reg, t))
<1>1. CASE base = reg
  BY <1>1 DEF IInv, TypeOK
<1>2. ASSUME NEW v \in Registered(reg), ~InFlight(reg, v), base = [reg EXCEPT ![v] = Plain("none")]
      PROVE  /\ base \in [Scopes -> Row]
             /\ \A t \in Scopes : base[t] = reg[t] \/ (base[t] = Plain("none") /\ ~InFlight(reg, t))
  BY <1>2, RowFacts DEF IInv, TypeOK, RowStates
<1> QED BY <1>1, <1>2 DEF WithRoom

LEMMA WriteIntentStep ==
    ASSUME IInv, NEW s \in Scopes, NEW kind \in IntentKinds, WriteIntent(s, kind)
    PROVE  IInv'
<1> USE DEF WriteIntent, relay, disk, callbacks, bounds
<1>1. TypeOK'
  BY ClaudeAssumption DEF IInv, TypeOK
<1>2. RowsSound' /\ FilesAgree' /\ Acknowledged' /\ Fenced' /\ NativeFence' /\ NoStrandedReservation'
  BY DEF IInv, RowsSound, FilesAgree, Acknowledged, Fenced, HasFence, NativeFence, NoStrandedReservation
<1>3. WorkersSound' /\ BusyNotWoken'
  BY DEF IInv, WorkersSound, WorkerBound, BusyNotWoken
<1>4. Quiet'
  BY DEF IInv, Quiet, TypeOK, IntentKinds
<1> QED BY <1>1, <1>2, <1>3, <1>4 DEF IInv

LEMMA RegisterStep ==
    ASSUME IInv, NEW s \in Scopes, NEW kind \in IntentKinds, Register(s, kind)
    PROVE  IInv'
<1>1. PICK base \in WithRoom(s), ok \in BOOLEAN, completed \in BOOLEAN :
        LET rows == IF ok THEN [base EXCEPT ![s] = Admitted(s, kind)] ELSE base
        IN  /\ Written(ok)
            /\ reg' = rows /\ canonical' = rows
            /\ intent' = IF ok /\ completed THEN [intent EXCEPT ![s] = "none"] ELSE intent
            /\ working' = IF ok /\ kind = "busy" THEN working \cup {s} ELSE working
  BY DEF Register
<1>2. /\ Free /\ ~refused /\ intent[s] = kind /\ kind \in {"idle", "busy"}
      /\ UNCHANGED <<marker, refused, issued, relay, worker, callbacks, crashes, framed, torn, stranded>>
  BY DEF Register, OnDisk
<1>3. /\ base \in [Scopes -> Row]
      /\ \A t \in Scopes : base[t] = reg[t] \/ (base[t] = Plain("none") /\ ~InFlight(reg, t))
  BY RoomFacts
<1>4. Admitted(s, kind) \in Row /\ (InFlight(reg, s) => Admitted(s, kind) = reg[s])
      /\ (~InFlight(reg, s) => Admitted(s, kind) = Plain(kind))
  BY <1>2, RowFacts DEF Admitted, RowStates, IInv, TypeOK
<1>5. /\ reg' \in [Scopes -> Row]
      /\ \A t \in Scopes : \/ reg'[t] = reg[t]
                           \/ reg'[t] = Plain("none") /\ ~InFlight(reg, t)
                           \/ t = s /\ ok /\ reg'[t] = Plain(kind) /\ ~InFlight(reg, t)
  <2>1. CASE ok
    BY <2>1, <1>1, <1>3, <1>4
  <2>2. CASE ~ok
    BY <2>2, <1>1, <1>3
  <2> QED BY <2>1, <2>2
<1>6. \A t \in Scopes : InFlight(reg, t) \/ InFlight(reg', t) => reg'[t] = reg[t]
  BY <1>2, <1>5, RowFacts DEF InFlight, RowStates
<1>7. Saved
  BY <1>1, <1>2 DEF Saved
<1>8. Quiet'
  <2>1. \A t \in working' : intent'[t] # "idle"
    BY <1>1, <1>2 DEF IInv, Quiet, TypeOK
  <2>2. ASSUME ~torn, NEW t \in working' PROVE reg'[t].state # "idle"
    <3>1. t \in Scopes
      BY <1>1 DEF IInv, TypeOK
    <3>2. CASE t \in working
      <4>1. reg[t].state # "idle" /\ intent[t] # "idle"
        BY <3>2, <2>2 DEF IInv, Quiet
      <4> QED BY <4>1, <3>1, <1>2, <1>5, RowFacts DEF RowStates
    <3>3. CASE t \notin working
      <4>1. t = s /\ ok /\ kind = "busy"
        BY <3>3, <1>1
      <4>2. reg'[s] = Admitted(s, kind)
        BY <4>1, <1>1, <1>3
      <4> QED BY <4>1, <4>2, <1>4, RowFacts DEF RowStates, InFlight
    <3> QED BY <3>2, <3>3
  <2> QED BY <2>1, <2>2, <1>2 DEF Quiet
<1>9. /\ admits' \subseteq Scopes /\ UNCHANGED releases
      /\ intent' \in [Scopes -> IntentKinds \cup {"none"}]
      /\ working' \subseteq Scopes /\ faults' \in 0..MaxFaults
      /\ UNCHANGED <<issued, relay, crashes, framed, stranded>>
  BY <1>1, <1>2, WrittenFaults DEF IInv, TypeOK, callbacks
<1> QED BY <1>2, <1>5, <1>6, <1>7, <1>8, <1>9, KeepsReservations

LEMMA CloseStep ==
    ASSUME IInv, NEW s \in Scopes, Close(s)
    PROVE  IInv'
<1> DEFINE rows == [reg EXCEPT ![s] = Plain("none")]
<1>1. PICK ok \in BOOLEAN :
        /\ IF InFlight(reg, s)
           THEN ok /\ UNCHANGED <<reg, canonical, faults>>
           ELSE /\ Written(ok)
                /\ reg' = IF ok THEN rows ELSE reg
                /\ canonical' = IF ok THEN rows ELSE canonical
        /\ intent' = IF ok THEN [intent EXCEPT ![s] = "none"] ELSE intent
  BY DEF Close
<1>2. /\ Free
      /\ UNCHANGED <<marker, refused, issued, relay, worker, callbacks, crashes, framed, torn, working, stranded>>
  BY DEF Close
<1>3. rows \in [Scopes -> Row] /\ \A t \in Scopes : rows[t] = IF t = s THEN Plain("none") ELSE reg[t]
  BY RowFacts DEF IInv, TypeOK, RowStates
<1>4. /\ reg' \in [Scopes -> Row]
      /\ reg' = reg \/ (reg' = rows /\ ~InFlight(reg, s))
  BY <1>1, <1>3 DEF IInv, TypeOK
<1>5. Saved
  BY <1>1, <1>2 DEF Saved
<1> HIDE DEF rows
<1>6. /\ \A t \in Scopes : InFlight(reg, t) \/ InFlight(reg', t) => reg'[t] = reg[t]
      /\ \A t \in Scopes : reg'[t] = reg[t] \/ reg'[t].state # "idle"
  BY <1>3, <1>4, RowFacts DEF InFlight, RowStates
<1>7. reg = NoRows => reg' = NoRows
  <2>1. reg = NoRows => rows = reg
    BY <1>3 DEF NoRows, rows
  <2> QED BY <2>1, <1>4
<1>8. Quiet'
  BY <1>1, <1>2, <1>6 DEF IInv, Quiet, TypeOK
<1>9. /\ admits' \subseteq Scopes /\ UNCHANGED releases
      /\ intent' \in [Scopes -> IntentKinds \cup {"none"}]
      /\ working' \subseteq Scopes /\ faults' \in 0..MaxFaults
      /\ UNCHANGED <<issued, relay, crashes, framed, stranded>>
  BY <1>1, <1>2, WrittenFaults DEF IInv, TypeOK, callbacks
<1> QED BY <1>2, <1>4, <1>5, <1>6, <1>7, <1>8, <1>9, KeepsReservations

LEMMA RecoverLegacyStep ==
    ASSUME IInv, NEW s \in Scopes, RecoverLegacy(s)
    PROVE  IInv'
<1>1. /\ Free /\ ~InFlight(reg, s)
      /\ reg' = [reg EXCEPT ![s] = Plain("none")]
      /\ UNCHANGED <<intent, issued, relay, worker, callbacks, crashes, framed, working, stranded>>
  BY DEF RecoverLegacy
<1>2. reg' \in [Scopes -> Row] /\ \A t \in Scopes : reg'[t] = IF t = s THEN Plain("none") ELSE reg[t]
  BY <1>1, RowFacts DEF IInv, TypeOK, RowStates
<1>3. PICK ok \in BOOLEAN :
        /\ Written(ok)
        /\ IF ok THEN canonical' = reg' /\ UNCHANGED <<marker, refused, torn>> ELSE Quarantine
  BY DEF RecoverLegacy
<1>4. Saved
  BY <1>3 DEF Saved
<1>5. \A t \in Scopes : InFlight(reg, t) \/ InFlight(reg', t) => reg'[t] = reg[t]
  BY <1>1, <1>2, RowFacts DEF InFlight, RowStates
<1>6. reg = NoRows => reg' = NoRows
  BY <1>1 DEF NoRows
<1>7. (torn => torn') /\ Sound(reg')
  <2>1. Sound(reg')
    BY <1>2, <1>5 DEF IInv, RowsSound, Sound, Loadable, InFlight
  <2> QED BY <2>1, <1>2, <1>4, FilesStep
<1>8. Quiet'
  BY <1>1, <1>2, <1>7, RowFacts DEF IInv, Quiet, TypeOK, RowStates
<1>9. /\ admits' \subseteq Scopes /\ UNCHANGED releases
      /\ intent' \in [Scopes -> IntentKinds \cup {"none"}]
      /\ working' \subseteq Scopes /\ faults' \in 0..MaxFaults
      /\ UNCHANGED <<issued, relay, crashes, framed, stranded>>
  BY <1>1, <1>3, WrittenFaults DEF IInv, TypeOK, callbacks
<1> QED BY <1>1, <1>2, <1>4, <1>5, <1>6, <1>8, <1>9, KeepsReservations

LEMMA MarkBusyStep ==
    ASSUME IInv, NEW s \in Scopes, MarkBusy(s)
    PROVE  IInv'
<1>1. /\ Free /\ admits' = admits \ {s}
      /\ UNCHANGED <<intent, issued, relay, worker, releases, crashes, framed, stranded>>
  BY DEF MarkBusy
<1>2. CASE UNCHANGED <<reg, disk, refused, faults, torn, working>>
  <2>1. Saved /\ Quiet'
    BY <1>1, <1>2 DEF Saved, disk, IInv, Quiet
  <2> QED BY <1>1, <1>2, <2>1, KeepsReservations DEF IInv, TypeOK
<1>3. ASSUME reg[s].state \notin {"none", "wake_inflight"},
             NEW ok \in BOOLEAN, Written(ok),
             reg' = [reg EXCEPT ![s] = Plain("busy")],
             IF ok THEN canonical' = reg' /\ UNCHANGED <<marker, refused, torn>> ELSE Quarantine,
             working' = IF intent[s] = "idle" THEN working ELSE working \cup {s}
      PROVE  IInv'
  <2>1. reg' \in [Scopes -> Row] /\ \A t \in Scopes : reg'[t] = IF t = s THEN Plain("busy") ELSE reg[t]
    BY <1>3, RowFacts DEF IInv, TypeOK, RowStates
  <2>2. Saved
    BY <1>3 DEF Saved
  <2>3. \A t \in Scopes : InFlight(reg, t) \/ InFlight(reg', t) => reg'[t] = reg[t]
    BY <1>3, <2>1, RowFacts DEF InFlight, RowStates
  <2>4. reg # NoRows
    BY <1>3, RowFacts
  <2>5. torn => torn'
    <3>1. Sound(reg')
      BY <2>1, <2>3 DEF IInv, RowsSound, Sound, Loadable, InFlight
    <3> QED BY <3>1, <2>1, <2>2, FilesStep
  <2>6. Quiet'
    BY <1>1, <1>3, <2>1, <2>5, RowFacts DEF IInv, Quiet, TypeOK, RowStates
  <2>7. /\ admits' \subseteq Scopes /\ UNCHANGED releases
        /\ intent' \in [Scopes -> IntentKinds \cup {"none"}]
        /\ working' \subseteq Scopes /\ faults' \in 0..MaxFaults
        /\ UNCHANGED <<issued, relay, crashes, framed, stranded>>
    BY <1>1, <1>3, WrittenFaults DEF IInv, TypeOK
  <2> QED BY <1>1, <2>1, <2>2, <2>3, <2>4, <2>6, <2>7, KeepsReservations
<1> QED BY <1>2, <1>3 DEF MarkBusy

\* Turns and lapses neither acknowledge a delivery nor take that back.
LEMMA RelayStep ==
    ASSUME IInv, home' \in [Endpoints -> Scopes], admits' \subseteq Scopes,
           delivery' \in [Deliveries -> {"pending", "claimed", "acked", "expired"}],
           \A d \in Deliveries : delivery'[d] = "acked" <=> delivery[d] = "acked",
           UNCHANGED <<reg, disk, refused, intent, issued, worker, releases, bounds, history>>
    PROVE  IInv'
<1> USE DEF disk, bounds, history
<1>1. TypeOK'
  BY DEF IInv, TypeOK
<1>2. RowsSound' /\ FilesAgree' /\ Quiet'
  BY DEF IInv, RowsSound, FilesAgree, Quiet
<1>3. WorkersSound' /\ BusyNotWoken'
  BY DEF IInv, WorkersSound, WorkerBound, BusyNotWoken
<1>4. Acknowledged'
  BY DEF IInv, Acknowledged, TypeOK
<1>5. Fenced'
  BY DEF IInv, Fenced, HasFence
<1>6. NativeFence'
  BY DEF IInv, NativeFence
<1>7. NoStrandedReservation'
  BY DEF IInv, NoStrandedReservation
<1> QED BY <1>1, <1>2, <1>3, <1>4, <1>5, <1>6, <1>7 DEF IInv

LEMMA TurnStep ==
    ASSUME IInv, NEW s \in Scopes, Turn(s)
    PROVE  IInv'
<1>1. home' \in [Endpoints -> Scopes]
  BY ClaudeAssumption DEF Turn, IInv, TypeOK
<1>2. /\ delivery' \in [Deliveries -> {"pending", "claimed", "acked", "expired"}]
      /\ \A d \in Deliveries : delivery'[d] = "acked" <=> delivery[d] = "acked"
  BY DEF Turn, IInv, TypeOK
<1>3. /\ admits' \subseteq Scopes
      /\ UNCHANGED <<reg, disk, refused, intent, issued, worker, releases, bounds, history>>
  BY DEF Turn, IInv, TypeOK
<1> QED BY <1>1, <1>2, <1>3, RelayStep

LEMMA LapseStep ==
    ASSUME IInv, NEW d \in Deliveries, Lapse(d)
    PROVE  IInv'
<1>1. /\ delivery' \in [Deliveries -> {"pending", "claimed", "acked", "expired"}]
      /\ \A c \in Deliveries : delivery'[c] = "acked" <=> delivery[c] = "acked"
  BY DEF Lapse, IInv, TypeOK
<1>2. /\ home' \in [Endpoints -> Scopes] /\ admits' \subseteq Scopes
      /\ UNCHANGED <<reg, disk, refused, intent, issued, worker, releases, bounds, history>>
  BY DEF Lapse, IInv, TypeOK, callbacks
<1> QED BY <1>1, <1>2, RelayStep

LEMMA AckStep ==
    ASSUME IInv, NEW d \in Deliveries, Ack(d)
    PROVE  IInv'
<1> USE DEF disk, bounds, history
<1>1. /\ delivery[d] = "claimed" /\ releases' = releases \cup {d}
      /\ delivery' = [delivery EXCEPT ![d] = "acked"]
      /\ UNCHANGED <<reg, disk, refused, intent, issued, home, worker, admits, bounds, history>>
  BY DEF Ack
<1>2. /\ delivery' \in [Deliveries -> {"pending", "claimed", "acked", "expired"}]
      /\ \A c \in Deliveries : delivery'[c] = IF c = d THEN "acked" ELSE delivery[c]
  BY <1>1 DEF IInv, TypeOK
<1>3. TypeOK'
  BY <1>1, <1>2 DEF IInv, TypeOK
<1>4. RowsSound' /\ FilesAgree' /\ Quiet'
  BY <1>1 DEF IInv, RowsSound, FilesAgree, Quiet
<1>5. WorkersSound' /\ BusyNotWoken'
  BY <1>1 DEF IInv, WorkersSound, WorkerBound, BusyNotWoken
<1>6. Acknowledged'
  BY <1>1, <1>2 DEF IInv, Acknowledged, TypeOK
<1>7. Fenced'
  BY <1>1, <1>2 DEF IInv, Fenced, HasFence
<1>8. NativeFence'
  BY <1>1, <1>2 DEF IInv, NativeFence
<1>9. NoStrandedReservation'
  BY <1>1, <1>2 DEF IInv, NoStrandedReservation
<1> QED BY <1>3, <1>4, <1>5, <1>6, <1>7, <1>8, <1>9 DEF IInv

LEMMA ReleaseStep ==
    ASSUME IInv, NEW d \in Deliveries, Release(d)
    PROVE  IInv'
<1>1. /\ Free /\ d \in releases /\ releases' = releases \ {d}
      /\ UNCHANGED <<intent, issued, relay, worker, admits, crashes, framed, working, stranded>>
  BY DEF Release
<1>2. delivery[d] = "acked"
  BY <1>1 DEF IInv, Acknowledged
<1>3. /\ admits' \subseteq Scopes /\ releases' \subseteq releases
      /\ intent' \in [Scopes -> IntentKinds \cup {"none"}] /\ working' \subseteq Scopes
      /\ UNCHANGED <<issued, relay, crashes, framed, stranded>>
  BY <1>1 DEF IInv, TypeOK
<1>4. CASE /\ \A s \in Scopes : reg[s] # Holding(d)
           /\ UNCHANGED <<reg, disk, refused, faults, torn>>
  <2>1. Saved /\ Quiet'
    BY <1>1, <1>4 DEF Saved, disk, IInv, Quiet
  <2>2. NoStrandedReservation'
    BY <1>1, <1>4 DEF IInv, NoStrandedReservation, relay
  <2>3. faults' \in 0..MaxFaults /\ reg' \in [Scopes -> Row]
    BY <1>4 DEF IInv, TypeOK
  <2> QED BY <1>1, <1>3, <1>4, <2>1, <2>2, <2>3, FreeWorkers, RowsStep
<1>5. ASSUME NEW s \in Scopes, NEW ok \in BOOLEAN, reg[s] = Holding(d), Written(ok),
             reg' = IF ok THEN Released(s) ELSE reg,
             IF ok THEN canonical' = reg' /\ UNCHANGED <<marker, refused, torn>> ELSE Quarantine
      PROVE  IInv'
  <2>1. Saved /\ faults' \in 0..MaxFaults
    BY <1>5, WrittenFaults DEF Saved, IInv
  <2>2. /\ Released(s) \in [Scopes -> Row]
        /\ \A t \in Scopes : Released(s)[t] = IF t = s THEN Plain("busy") ELSE reg[t]
    BY RowFacts DEF Released, IInv, TypeOK, RowStates
  <2>3. reg' \in [Scopes -> Row]
    BY <1>5, <2>2 DEF IInv, TypeOK
  <2>4. \A t \in Scopes : t # s \/ ~ok => reg'[t] = reg[t]
    BY <1>5, <2>2
  <2>5. ok => reg'[s] = Plain("busy")
    BY <1>5, <2>2
  <2>6. \A t \in Scopes : InFlight(reg', t) => reg'[t] = reg[t]
    BY <2>4, <2>5, RowFacts DEF InFlight, RowStates
  <2>7. \A t \in Scopes : InFlight(reg, t) =>
            reg'[t] = reg[t] \/ delivery[reg[t].delivery] = "acked"
    BY <1>2, <1>5, <2>4, RowFacts
  <2>8. reg # NoRows
    BY <1>5, RowFacts
  <2>9. torn => torn'
    <3>1. Sound(reg')
      BY <2>6 DEF IInv, RowsSound, Sound, Loadable, InFlight
    <3> QED BY <3>1, <2>1, <2>3, FilesStep
  <2>10. Quiet'
    BY <1>1, <2>4, <2>5, <2>9, RowFacts DEF IInv, Quiet, TypeOK, RowStates
  <2>11. NoStrandedReservation'
    <3>1. CASE ~ok
      BY <3>1, <1>5 DEF Quarantine, NoStrandedReservation
    <3>2. CASE ok
      <4> SUFFICES ASSUME NEW t \in Scopes, NEW c \in Deliveries, reg'[t] = Holding(c), delivery[c] = "acked"
                   PROVE  c \in releases' \cup stranded \/ refused' \/ torn'
        BY <1>1 DEF NoStrandedReservation, relay
      <4>1. t # s /\ reg[t] = Holding(c)
        BY <3>2, <2>4, <2>5, RowFacts DEF RowStates
      <4>2. c # d
        BY <4>1, <1>5, RowFacts DEF IInv, RowsSound, Sound, Loadable, InFlight
      <4>3. c \in releases \cup stranded \/ refused \/ torn
        BY <4>1 DEF IInv, NoStrandedReservation
      <4> QED BY <4>2, <4>3, <3>2, <1>1, <1>5
    <3> QED BY <3>1, <3>2
  <2> QED BY <1>1, <1>3, <2>1, <2>3, <2>6, <2>7, <2>8, <2>10, <2>11, FreeWorkers, RowsStep
<1> QED BY <1>4, <1>5 DEF Release

LEMMA ReleaseLostStep ==
    ASSUME IInv, NEW d \in Deliveries, ReleaseLost(d)
    PROVE  IInv'
<1> USE DEF disk, bounds, relay
<1>1. /\ d \in releases /\ releases' = releases \ {d} /\ stranded' = stranded \cup {d}
      /\ UNCHANGED <<reg, disk, refused, intent, issued, relay, worker, admits, bounds,
                     framed, torn, working>>
  BY DEF ReleaseLost
<1>2. TypeOK'
  BY <1>1 DEF IInv, TypeOK
<1>3. RowsSound' /\ FilesAgree' /\ Quiet' /\ WorkersSound' /\ BusyNotWoken'
  BY <1>1 DEF IInv, RowsSound, FilesAgree, Quiet, WorkersSound, WorkerBound, BusyNotWoken
<1>4. Acknowledged'
  BY <1>1 DEF IInv, Acknowledged
<1>5. Fenced' /\ NativeFence'
  BY <1>1 DEF IInv, Fenced, HasFence, NativeFence
<1>6. NoStrandedReservation'
  BY <1>1 DEF IInv, NoStrandedReservation
<1> QED BY <1>2, <1>3, <1>4, <1>5, <1>6 DEF IInv

LEMMA ScheduleStep ==
    ASSUME IInv, NEW s \in Scopes, NEW d \in Deliveries, Schedule(s, d)
    PROVE  IInv'
<1> DEFINE e == EndpointOf[s]
<1> DEFINE r == [phase |-> "scheduled", scope |-> s, delivery |-> d]
<1> USE DEF disk, bounds, history, callbacks, relay
<1>1. /\ worker' = [worker EXCEPT ![e] = r] /\ To[d] = e /\ e \in Endpoints
      /\ UNCHANGED <<reg, disk, refused, intent, issued, relay, callbacks, bounds, history>>
  BY ClaudeAssumption DEF Schedule, Pending
<1>2. r \in Worker
  BY DEF Worker
<1>3. TypeOK'
  BY <1>1, <1>2 DEF IInv, TypeOK
<1>4. \A f \in Endpoints : worker'[f] = IF f = e THEN r ELSE worker[f]
  BY <1>1 DEF IInv, TypeOK
<1>5. WorkersSound' /\ BusyNotWoken'
  BY <1>1, <1>4 DEF IInv, WorkersSound, WorkerBound, BusyNotWoken
<1>6. RowsSound' /\ FilesAgree' /\ Acknowledged' /\ Fenced' /\ NativeFence' /\ Quiet' /\ NoStrandedReservation'
  BY <1>1 DEF IInv, RowsSound, FilesAgree, Acknowledged, Fenced, HasFence, NativeFence, Quiet, NoStrandedReservation
<1> QED BY <1>3, <1>5, <1>6 DEF IInv

\* The worker's attempt: what it reserves was never framed, and its session was
\* not recorded as working.
LEMMA ReserveStep ==
    ASSUME IInv, NEW e \in Endpoints, Reserve(e)
    PROVE  IInv'
<1> DEFINE s == worker[e].scope
<1> DEFINE d == worker[e].delivery
<1> DEFINE rows == [reg EXCEPT ![s] = Holding(d)]
<1> USE DEF disk, bounds, history, callbacks, relay
<1>1. /\ Free /\ worker[e].phase = "scheduled"
      /\ UNCHANGED <<marker, refused, intent, issued, relay, callbacks, crashes, history>>
  BY DEF Reserve
<1>2. /\ s \in Scopes /\ EndpointOf[s] = e /\ d \in Deliveries /\ To[d] = e
  BY <1>1 DEF IInv, WorkersSound, WorkerBound
<1>3. CASE worker' = Done(e) /\ UNCHANGED <<reg, canonical>> /\ (Eligible(s, d) => faults < MaxFaults)
           /\ faults' = IF Eligible(s, d) THEN faults + 1 ELSE faults
  <2>1. /\ worker' \in [Endpoints -> Worker]
        /\ \A f \in Endpoints : worker'[f] \in {worker[f], NoWorker} /\ worker'[f].phase # "reserved"
    BY <1>1, <1>3, RowFacts DEF IInv, TypeOK, Done, Free
  <2>2. faults' \in 0..MaxFaults
    BY <1>3, ClaudeAssumption DEF IInv, TypeOK
  <2>3. Saved /\ Quiet' /\ NoStrandedReservation'
    BY <1>1, <1>3 DEF Saved, IInv, Quiet, NoStrandedReservation
  <2> QED BY <1>1, <1>3, <2>1, <2>2, <2>3, RowsStep DEF IInv, TypeOK
<1>4. CASE /\ Eligible(s, d)
           /\ reg' = rows /\ canonical' = rows
           /\ worker' = [worker EXCEPT ![e].phase = "reserved"]
           /\ UNCHANGED faults
  <2>1. /\ reg[s].state = "idle" /\ delivery[d] = "pending"
        /\ \A t \in Scopes : EndpointOf[t] = e => ~InFlight(reg, t)
    BY <1>2, <1>4 DEF Eligible, Pending
  <2>2. /\ rows \in [Scopes -> Row]
        /\ \A t \in Scopes : rows[t] = IF t = s THEN Holding(d) ELSE reg[t]
    BY <1>2, RowFacts DEF IInv, TypeOK
  <2>3. /\ worker' \in [Endpoints -> Worker]
        /\ \A f \in Endpoints : f # e => worker'[f] = worker[f] /\ worker[f].phase # "reserved"
        /\ worker'[e].phase = "reserved" /\ worker'[e].scope = s /\ worker'[e].delivery = d
    BY <1>1, <1>4 DEF IInv, TypeOK, Worker, Free
  <2> HIDE DEF rows, s, d
  <2>4. Sound(rows)
    <3>1. \A t \in Scopes : InFlight(rows, t) => t = s \/ (InFlight(reg, t) /\ EndpointOf[t] # e)
      BY <2>1, <2>2 DEF InFlight
    <3>2. rows[s].delivery = d
      BY <1>2, <2>2, RowFacts
    <3>3. \A t \in Scopes : InFlight(rows, t) => rows[t].delivery \in Deliveries
                                                 /\ To[rows[t].delivery] = EndpointOf[t]
      BY <1>2, <2>2, <3>1, <3>2 DEF IInv, RowsSound, Sound
    <3>4. Loadable(rows)
      <4> SUFFICES ASSUME NEW t \in Scopes, NEW u \in Scopes, InFlight(rows, t), InFlight(rows, u), t # u
                   PROVE  EndpointOf[t] # EndpointOf[u] /\ rows[t].delivery # rows[u].delivery
        BY DEF Loadable
      <4>1. EndpointOf[t] # EndpointOf[u]
        BY <1>2, <3>1 DEF IInv, RowsSound, Sound, Loadable
      <4> QED BY <4>1, <3>3
    <3> QED BY <3>3, <3>4 DEF Sound
  <2>5. TypeOK'
    BY <1>1, <1>4, <2>2, <2>3 DEF IInv, TypeOK
  <2>6. RowsSound'
    BY <1>4, <2>4 DEF RowsSound
  <2>7. FilesAgree' /\ Acknowledged'
    BY <1>1, <1>4 DEF IInv, FilesAgree, Acknowledged
  <2>8. torn \/ framed[d] = 0
    <3> SUFFICES ASSUME ~torn, framed[d] # 0 PROVE FALSE
      OBVIOUS
    <3>1. framed[d] > 0
      BY <1>2 DEF IInv, TypeOK
    <3>2. HasFence(d)
      BY <1>2, <2>1, <3>1 DEF IInv, Fenced
    <3> QED BY <1>2, <2>1, <3>2, RowFacts DEF HasFence, InFlight
  <2>9. WorkersSound'
    <3>1. \A f \in Endpoints : worker'[f].phase # "none" => WorkerBound(f)'
      BY <1>2, <2>3 DEF IInv, WorkersSound, WorkerBound
    <3>2. reg'[s] = Holding(d)
      BY <1>2, <1>4, <2>2
    <3> QED BY <3>1, <3>2, <2>3, <2>8, <1>1 DEF WorkersSound
  <2>10. Fenced'
    <3> SUFFICES ASSUME ~torn, NEW c \in Deliveries, framed[c] > 0, delivery[c] # "acked"
                 PROVE  HasFence(c)'
      BY <1>1 DEF Fenced
    <3>1. HasFence(c)
      BY DEF IInv, Fenced
    <3>2. reg # NoRows
      BY <1>2, <2>1, RowFacts
    <3>3. PICK t \in Scopes : EndpointOf[t] = To[c] /\ reg[t] = Holding(c)
      BY <3>1, <3>2 DEF HasFence
    <3>4. t # s
      BY <3>3, <2>1, RowFacts
    <3> QED BY <3>3, <3>4, <1>4, <2>2 DEF HasFence
  <2>11. NativeFence'
    BY <1>1 DEF IInv, NativeFence
  <2>12. Quiet' /\ BusyNotWoken'
    <3>1. torn \/ s \notin working
      BY <2>1 DEF IInv, Quiet
    <3>2. Quiet'
      <4> SUFFICES ASSUME ~torn, NEW t \in working PROVE reg'[t].state # "idle"
        BY <1>1 DEF IInv, Quiet
      <4>1. t \in Scopes /\ t # s
        BY <3>1 DEF IInv, TypeOK
      <4> QED BY <4>1, <1>4, <2>2 DEF IInv, Quiet
    <3> QED BY <3>1, <3>2, <1>1, <2>3 DEF BusyNotWoken
  <2>13. NoStrandedReservation'
    <3> SUFFICES ASSUME NEW t \in Scopes, NEW c \in Deliveries, reg'[t] = Holding(c), delivery[c] = "acked"
                 PROVE  c \in releases \cup stranded \/ refused \/ torn
      BY <1>1 DEF NoStrandedReservation
    <3>1. t # s
      BY <2>1, <1>2, <1>4, <2>2, RowFacts
    <3>2. reg[t] = Holding(c)
      BY <3>1, <1>4, <2>2
    <3> QED BY <3>2 DEF IInv, NoStrandedReservation
  <2> QED BY <2>5, <2>6, <2>7, <2>9, <2>10, <2>11, <2>12, <2>13 DEF IInv
<1> QED BY <1>3, <1>4 DEF Reserve

\* The frame of an attempt is the first one of its delivery, and the only one
\* of its endpoint without an acknowledgement.
LEMMA FrameFirst ==
    ASSUME IInv, ~torn, NEW e \in Endpoints, worker[e].phase = "reserved"
    PROVE  /\ worker[e].delivery \in Deliveries
           /\ framed[worker[e].delivery] = 0
           /\ \A c \in Deliveries \ {worker[e].delivery} :
                 To[c] = To[worker[e].delivery] /\ framed[c] > 0 => delivery[c] = "acked"
<1> DEFINE s == worker[e].scope
<1> DEFINE d == worker[e].delivery
<1>1. /\ s \in Scopes /\ EndpointOf[s] = e /\ d \in Deliveries /\ To[d] = e
      /\ reg[s] = Holding(d) /\ framed[d] = 0
  BY DEF IInv, WorkersSound, WorkerBound
<1>2. ASSUME NEW c \in Deliveries \ {d}, To[c] = To[d], framed[c] > 0, delivery[c] # "acked" PROVE FALSE
  <2>1. HasFence(c)
    BY <1>2 DEF IInv, Fenced
  <2>2. reg # NoRows
    BY <1>1, RowFacts
  <2>3. PICK t \in Scopes : EndpointOf[t] = To[c] /\ reg[t] = Holding(c)
    BY <2>1, <2>2 DEF HasFence
  <2>4. Sound(reg)
    BY DEF IInv, RowsSound
  <2> QED BY <1>1, <1>2, <2>3, <2>4, OneReservation
<1> QED BY <1>1, <1>2

\* One more frame of the delivery of an attempt keeps the native fence.
LEMMA FrameKeepsFence ==
    ASSUME IInv, NEW e \in Endpoints, worker[e].phase = "reserved", torn' = torn, UNCHANGED delivery,
           framed' = [framed EXCEPT ![worker[e].delivery] = @ + 1]
    PROVE  NativeFence' /\ framed' \in [Deliveries -> Nat]
<1> DEFINE d == worker[e].delivery
<1>1. /\ framed' \in [Deliveries -> Nat] /\ d \in Deliveries
      /\ \A c \in Deliveries : framed'[c] = IF c = d THEN framed[d] + 1 ELSE framed[c]
  BY DEF IInv, TypeOK, WorkersSound, WorkerBound
<1>2. CASE torn
  BY <1>1, <1>2 DEF NativeFence
<1>3. CASE ~torn
  <2>1. /\ framed[d] = 0
        /\ \A c \in Deliveries \ {d} : To[c] = To[d] /\ framed[c] > 0 => delivery[c] = "acked"
    BY <1>3, FrameFirst
  <2>2. /\ \A c \in Deliveries : framed[c] <= 1 /\ framed[c] \in Nat
        /\ \A b \in Deliveries : \A c \in Deliveries \ {b} :
              To[c] = To[b] /\ framed[b] = 1 /\ framed[c] = 1 => delivery[b] = "acked" \/ delivery[c] = "acked"
    BY <1>3 DEF IInv, NativeFence, TypeOK
  <2> HIDE DEF d
  <2>3. \A c \in Deliveries : framed'[c] <= 1
    BY <1>1, <2>1, <2>2
  <2>4. ASSUME NEW b \in Deliveries, NEW c \in Deliveries \ {b},
               To[c] = To[b], framed'[b] = 1, framed'[c] = 1
        PROVE  delivery[b] = "acked" \/ delivery[c] = "acked"
    <3>1. CASE b = d
      BY <3>1, <1>1, <2>1, <2>4
    <3>2. CASE c = d
      BY <3>2, <1>1, <2>1, <2>4
    <3>3. CASE b # d /\ c # d
      BY <3>3, <1>1, <2>2, <2>4
    <3> QED BY <3>1, <3>2, <3>3
  <2> QED BY <1>1, <2>3, <2>4 DEF NativeFence
<1> QED BY <1>2, <1>3

LEMMA SubmitStep ==
    ASSUME IInv, NEW e \in Endpoints, Submit(e)
    PROVE  IInv'
<1> DEFINE s == worker[e].scope
<1> DEFINE d == worker[e].delivery
<1> USE DEF disk, bounds, callbacks, relay
<1>1. /\ worker[e].phase = "reserved" /\ worker' = Done(e)
      /\ framed' = [framed EXCEPT ![d] = @ + 1]
      /\ UNCHANGED <<reg, disk, refused, intent, issued, relay, callbacks, bounds, torn, working, stranded>>
  BY DEF Submit
<1>2. NativeFence' /\ framed' \in [Deliveries -> Nat]
  BY <1>1, FrameKeepsFence
<1>3. /\ worker' \in [Endpoints -> Worker]
      /\ \A f \in Endpoints : worker'[f] \in {worker[f], NoWorker} /\ worker'[f].phase # "reserved"
  BY <1>1, RowFacts DEF IInv, TypeOK, WorkersSound, Done
<1>4. TypeOK'
  BY <1>1, <1>2, <1>3 DEF IInv, TypeOK
<1>5. RowsSound' /\ FilesAgree' /\ Acknowledged' /\ Quiet' /\ NoStrandedReservation'
  BY <1>1 DEF IInv, RowsSound, FilesAgree, Acknowledged, Quiet, NoStrandedReservation
<1>6. WorkersSound' /\ BusyNotWoken'
  BY <1>1, <1>3, RowFacts DEF IInv, WorkersSound, WorkerBound, BusyNotWoken
<1>7. Fenced'
  <2> SUFFICES ASSUME ~torn, NEW c \in Deliveries, framed'[c] > 0, delivery[c] # "acked"
               PROVE  HasFence(c)'
    BY <1>1 DEF Fenced
  <2>1. CASE c = d
    <3>1. s \in Scopes /\ EndpointOf[s] = To[d] /\ reg[s] = Holding(d)
      BY <1>1 DEF IInv, WorkersSound, WorkerBound
    <3> QED BY <3>1, <2>1, <1>1 DEF HasFence
  <2>2. CASE c # d
    <3>1. framed[c] > 0
      BY <2>2, <1>1 DEF IInv, TypeOK
    <3> QED BY <3>1, <1>1 DEF IInv, Fenced, HasFence
  <2> QED BY <2>1, <2>2
<1> QED BY <1>2, <1>4, <1>5, <1>6, <1>7 DEF IInv

LEMMA SafeFailStep ==
    ASSUME IInv, NEW e \in Endpoints, SafeFail(e)
    PROVE  IInv'
<1> DEFINE s == worker[e].scope
<1> DEFINE d == worker[e].delivery
<1>1. PICK ok \in BOOLEAN, state \in {"idle", "unreachable"} :
        /\ Written(ok)
        /\ reg' = IF ok THEN [reg EXCEPT ![s] = Plain(state)] ELSE reg
        /\ IF ok THEN canonical' = reg' /\ UNCHANGED <<marker, refused, torn>> ELSE Quarantine
  BY DEF SafeFail
<1>2. /\ worker[e].phase = "reserved" /\ worker' = Done(e)
      /\ UNCHANGED <<intent, issued, relay, callbacks, crashes, framed, working, stranded>>
  BY DEF SafeFail
<1>3. /\ s \in Scopes /\ d \in Deliveries /\ reg[s] = Holding(d) /\ (torn \/ framed[d] = 0)
  BY <1>2 DEF IInv, WorkersSound, WorkerBound
<1>4. torn \/ s \notin working
  BY <1>2 DEF IInv, BusyNotWoken
<1>5. /\ worker' \in [Endpoints -> Worker]
      /\ \A f \in Endpoints : worker'[f] \in {worker[f], NoWorker} /\ worker'[f].phase # "reserved"
  BY <1>2, RowFacts DEF IInv, TypeOK, WorkersSound, Done
<1>6. /\ reg' \in [Scopes -> Row]
      /\ \A t \in Scopes : t # s \/ ~ok => reg'[t] = reg[t]
      /\ ok => reg'[s] = Plain(state)
  BY <1>1, <1>3, RowFacts DEF IInv, TypeOK, RowStates
<1>7. Saved /\ faults' \in 0..MaxFaults
  BY <1>1, WrittenFaults DEF Saved, IInv
<1>8. reg # NoRows
  BY <1>3, RowFacts
<1> HIDE DEF s, d
<1>9. \A t \in Scopes : InFlight(reg', t) => reg'[t] = reg[t]
  BY <1>6, RowFacts DEF InFlight, RowStates
<1>10. \A t \in Scopes : InFlight(reg, t) =>
          reg'[t] = reg[t] \/ torn \/ framed[reg[t].delivery] = 0
  BY <1>3, <1>6, RowFacts
<1>11. (torn => torn') /\ (refused => refused')
  <2>1. Sound(reg')
    BY <1>9 DEF IInv, RowsSound, Sound, Loadable, InFlight
  <2> QED BY <2>1, <1>6, <1>7, FilesStep
<1>12. Quiet'
  <2> SUFFICES ASSUME ~torn', NEW t \in working PROVE reg'[t].state # "idle"
    BY <1>2 DEF IInv, Quiet
  <2>1. t # s /\ t \in Scopes
    BY <1>4, <1>11 DEF IInv, TypeOK
  <2> QED BY <2>1, <1>6, <1>11 DEF IInv, Quiet
<1>13. NoStrandedReservation'
  <2> SUFFICES ASSUME NEW t \in Scopes, NEW c \in Deliveries, reg'[t] = Holding(c), delivery[c] = "acked"
               PROVE  c \in releases \cup stranded \/ refused' \/ torn'
    BY <1>2 DEF NoStrandedReservation, relay, callbacks
  <2>1. reg[t] = Holding(c)
    BY <1>9, RowFacts DEF InFlight
  <2> QED BY <2>1, <1>11 DEF IInv, NoStrandedReservation
<1>14. /\ releases' \subseteq releases /\ admits' \subseteq Scopes
       /\ intent' \in [Scopes -> IntentKinds \cup {"none"}] /\ working' \subseteq Scopes
  BY <1>2 DEF IInv, TypeOK, callbacks
<1> QED BY <1>2, <1>5, <1>6, <1>7, <1>8, <1>9, <1>10, <1>12, <1>13, <1>14, RowsStep

LEMMA CrashStep ==
    ASSUME IInv, Crash
    PROVE  IInv'
<1> USE DEF disk, bounds, callbacks, relay
<1> DEFINE lost(d) == Cardinality({e \in Endpoints : worker[e].phase = "reserved" /\ worker[e].delivery = d})
<1>1. /\ crashes < MaxCrashes /\ crashes' = crashes + 1
      /\ refused' = (marker \/ ~Loadable(canonical))
      /\ reg' = IF refused' THEN NoRows ELSE canonical
      /\ worker' = [e \in Endpoints |-> NoWorker]
      /\ framed' \in {framed, [d \in Deliveries |-> framed[d] + lost(d)]}
      /\ admits' = {} /\ releases' = {} /\ stranded' = stranded \cup releases
      /\ UNCHANGED <<disk, intent, issued, relay, faults, torn, working>>
  BY DEF Crash
<1>2. refused' = marker
  <2>1. Loadable(canonical)
    BY DEF IInv, RowsSound, Sound
  <2>2. marker \in BOOLEAN
    BY DEF IInv, TypeOK
  <2> QED BY <1>1, <2>1, <2>2
<1>3. torn \/ refused' \/ reg' = reg
  BY <1>1, <1>2 DEF IInv, FilesAgree
<1>4. reg' \in [Scopes -> Row] /\ RowsSound'
  BY <1>1, NoRowsSound, RowFacts DEF IInv, TypeOK, RowsSound
<1>5. \/ framed' = framed
      \/ \E e \in Endpoints : /\ worker[e].phase = "reserved"
                              /\ framed' = [framed EXCEPT ![worker[e].delivery] = @ + 1]
  <2>1. CASE framed' = framed
    BY <2>1
  <2>2. CASE /\ framed' = [d \in Deliveries |-> framed[d] + lost(d)]
             /\ \A e \in Endpoints : worker[e].phase # "reserved"
    <3>1. \A d \in Deliveries : lost(d) = 0
      BY <2>2, FS_EmptySet
    <3>2. \A d \in Deliveries : framed'[d] = framed[d]
      BY <3>1, <2>2 DEF IInv, TypeOK
    <3> QED BY <3>2, <2>2 DEF IInv, TypeOK
  <2>3. ASSUME framed' = [d \in Deliveries |-> framed[d] + lost(d)],
               NEW e \in Endpoints, worker[e].phase = "reserved"
        PROVE  framed' = [framed EXCEPT ![worker[e].delivery] = @ + 1]
    <3>1. worker[e].delivery \in Deliveries
      BY <2>3 DEF IInv, WorkersSound, WorkerBound
    <3>2. lost(worker[e].delivery) = 1
      <4>1. {f \in Endpoints : worker[f].phase = "reserved" /\ worker[f].delivery = worker[e].delivery} = {e}
        BY <2>3 DEF IInv, WorkersSound
      <4> QED BY <4>1, FS_Singleton
    <3>3. ASSUME NEW d \in Deliveries, d # worker[e].delivery PROVE lost(d) = 0
      <4>1. {f \in Endpoints : worker[f].phase = "reserved" /\ worker[f].delivery = d} = {}
        BY <2>3, <3>3 DEF IInv, WorkersSound
      <4> QED BY <4>1, FS_EmptySet
    <3> HIDE DEF lost
    <3>4. \A d \in Deliveries :
            framed'[d] = IF d = worker[e].delivery THEN framed[d] + 1 ELSE framed[d]
      BY <2>3, <3>2, <3>3 DEF IInv, TypeOK
    <3> QED BY <3>1, <3>4, <2>3 DEF IInv, TypeOK
  <2> QED BY <1>1, <2>1, <2>2, <2>3
<1> HIDE DEF lost
<1>6. NativeFence' /\ framed' \in [Deliveries -> Nat]
  <2>1. CASE framed' = framed
    BY <2>1, <1>1 DEF IInv, NativeFence, TypeOK
  <2> QED BY <2>1, <1>1, <1>5, FrameKeepsFence
<1>7. TypeOK'
  <2>1. worker' \in [Endpoints -> Worker] /\ refused' \in BOOLEAN /\ crashes' \in 0..MaxCrashes
    BY <1>1, <1>2, RowFacts, ClaudeAssumption DEF IInv, TypeOK
  <2>2. stranded' \subseteq Deliveries
    BY <1>1 DEF IInv, TypeOK
  <2> QED BY <1>1, <1>4, <1>6, <2>1, <2>2 DEF IInv, TypeOK
<1>8. WorkersSound' /\ BusyNotWoken' /\ Acknowledged'
  BY <1>1, RowFacts DEF WorkersSound, BusyNotWoken, Acknowledged
<1>9. FilesAgree'
  BY <1>1, <1>2 DEF FilesAgree
<1>10. Fenced'
  <2> SUFFICES ASSUME ~torn, NEW c \in Deliveries, framed'[c] > 0, delivery[c] # "acked"
               PROVE  HasFence(c)'
    BY <1>1 DEF Fenced
  <2>1. CASE refused'
    BY <2>1, <1>1 DEF HasFence
  <2>2. CASE ~refused'
    <3>1. reg' = reg /\ ~refused
      BY <2>2, <1>2, <1>3 DEF IInv, FilesAgree
    <3>2. \E s \in Scopes : EndpointOf[s] = To[c] /\ reg[s] = Holding(c)
      <4>1. CASE framed[c] > 0
        BY <4>1, <3>1 DEF IInv, Fenced, HasFence
      <4>2. CASE ~(framed[c] > 0)
        <5>1. PICK e \in Endpoints : worker[e].phase = "reserved" /\ worker[e].delivery = c
          BY <4>2, <1>5 DEF IInv, TypeOK
        <5> QED BY <5>1 DEF IInv, WorkersSound, WorkerBound
      <4> QED BY <4>1, <4>2
    <3> QED BY <3>1, <3>2 DEF HasFence
  <2> QED BY <2>1, <2>2
<1>11. Quiet'
  BY <1>1, <1>3, RowFacts DEF IInv, Quiet, TypeOK
<1>12. NoStrandedReservation'
  <2> SUFFICES ASSUME ~torn, ~refused', NEW s \in Scopes, NEW d \in Deliveries,
                      reg'[s] = Holding(d), delivery[d] = "acked"
               PROVE  d \in releases \cup stranded
    BY <1>1 DEF NoStrandedReservation
  <2>1. reg[s] = Holding(d) /\ ~refused
    BY <1>2, <1>3 DEF IInv, FilesAgree
  <2> QED BY <2>1 DEF IInv, NoStrandedReservation
<1> QED BY <1>4, <1>6, <1>7, <1>8, <1>9, <1>10, <1>11, <1>12 DEF IInv

LEMMA StutterStep ==
    ASSUME IInv, UNCHANGED vars
    PROVE  IInv'
<1> USE DEF vars, disk, bounds, callbacks, relay, history
<1>1. TypeOK' /\ RowsSound' /\ FilesAgree' /\ Acknowledged' /\ Fenced'
  BY DEF IInv, TypeOK, RowsSound, FilesAgree, Acknowledged, Fenced, HasFence
<1>2. WorkersSound' /\ BusyNotWoken' /\ NativeFence' /\ Quiet' /\ NoStrandedReservation'
  BY DEF IInv, WorkersSound, WorkerBound, BusyNotWoken, NativeFence, Quiet, NoStrandedReservation
<1> QED BY <1>1, <1>2 DEF IInv

LEMMA NextHolds == IInv /\ [Next]_vars => IInv'
<1> SUFFICES ASSUME IInv, [Next]_vars PROVE IInv'
  OBVIOUS
<1>1. ASSUME NEW s \in Scopes, NEW kind \in IntentKinds, WriteIntent(s, kind) \/ Register(s, kind) PROVE IInv'
  BY <1>1, WriteIntentStep, RegisterStep
<1>2. ASSUME NEW s \in Scopes, Close(s) \/ RecoverLegacy(s) \/ Turn(s) \/ MarkBusy(s) PROVE IInv'
  BY <1>2, CloseStep, RecoverLegacyStep, TurnStep, MarkBusyStep
<1>3. ASSUME NEW s \in Scopes, NEW d \in Deliveries, Schedule(s, d) PROVE IInv'
  BY <1>3, ScheduleStep
<1>4. ASSUME NEW d \in Deliveries, Lapse(d) \/ Ack(d) \/ Release(d) \/ ReleaseLost(d) PROVE IInv'
  BY <1>4, LapseStep, AckStep, ReleaseStep, ReleaseLostStep
<1>5. ASSUME NEW e \in Endpoints, Reserve(e) \/ Submit(e) \/ SafeFail(e) PROVE IInv'
  BY <1>5, ReserveStep, SubmitStep, SafeFailStep
<1>6. CASE Crash
  BY <1>6, CrashStep
<1>7. CASE UNCHANGED vars
  BY <1>7, StutterStep
<1> QED BY <1>1, <1>2, <1>3, <1>4, <1>5, <1>6, <1>7 DEF Next

-----------------------------------------------------------------------------
(* The theorems. *)

LEMMA Invariance == Spec => []IInv
BY InitHolds, NextHolds, PTL DEF Spec

\* The registry, its files, callbacks and workers keep their shapes.
THEOREM TypeCorrect == Spec => []TypeOK
<1>1. IInv => TypeOK
  BY DEF IInv
<1> QED BY <1>1, Invariance, PTL

\* A frame that may have reached a session stays a fence until its delivery is
\* acknowledged (ClaudeWakeRegistry.attempt, _load, release_delivery), for any
\* number of sessions, crashes, failed writes and evictions.
THEOREM NativeFenceHolds == Spec => []NativeFence
<1>1. IInv => NativeFence
  BY DEF IInv
<1> QED BY <1>1, Invariance, PTL

\* What the registry writes, its _load accepts.
THEOREM WritesLoadableHolds == Spec => []WritesLoadable
<1>1. IInv => WritesLoadable
  BY DEF IInv, RowsSound, Sound, WritesLoadable
<1> QED BY <1>1, Invariance, PTL

\* A session recorded as working is not woken before its next idle intent.
THEOREM BusyNotWokenHolds == Spec => []BusyNotWoken
<1>1. IInv => BusyNotWoken
  BY DEF IInv
<1> QED BY <1>1, Invariance, PTL

\* A reservation of an acknowledged delivery has a callback to come, unless that
\* callback was lost before it reached the registry, or the store is refused:
\* nothing the registry itself does loses one.
THEOREM NoStrandedReservationHolds == Spec => []NoStrandedReservation
<1>1. IInv => NoStrandedReservation
  BY DEF IInv
<1> QED BY <1>1, Invariance, PTL

=============================================================================
