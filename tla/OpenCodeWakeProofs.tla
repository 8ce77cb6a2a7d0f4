------------------------- MODULE OpenCodeWakeProofs -------------------------
(***************************************************************************)
(* RecordTrue, NotResubmitted and OneAttempt of OpenCodeWake for any       *)
(* instances, directories, deliveries, retry limit and bounds.  What makes *)
(* them inductive: a generation is used for one native input only, inputs  *)
(* never get ahead of the record's generation, and the attempts an input   *)
(* was shown are the claim recorded for its generation.                    *)
(***************************************************************************)
EXTENDS OpenCodeWake, FiniteSetTheorems, TLAPS

WakeRow == [owner : Owners \cup {None}, leased : BOOLEAN,
            location : Locations \cup {None}, gen : Nat,
            delivery : Deliveries \cup {None}, claim : Nat, admitted : BOOLEAN,
            terminal : BOOLEAN, failures : 0..RetryLimit, backoff : BOOLEAN]
DeliveryRow == [leased : BOOLEAN, attempts : Nat,
                state : {"unsent", "pending", "claimed", "delivered", "expired"}]
InputRow == [delivery : Deliveries \cup {None}, seen : BOOLEAN, ack : Nat, by : Owners \cup {None},
             status : {"none", "queued", "running", "ended", "merged"}]
PluginRow == [state : {"new", "up", "gone"}, known : BOOLEAN, item : Item,
              step : {"idle", "submit", "admit", "wait"}, run : Item]

\* A wake in progress concerns a generation the record has reached.
RunsReached ==
    \A o \in Owners : plugin[o].step # "idle" =>
        /\ plugin[o].run.delivery \in Deliveries
        /\ plugin[o].run.gen \in 1 .. wake.gen

GenerationFits ==
    /\ wake.gen <= MaxGenerations
    /\ wake.delivery # None \/ wake.admitted \/ wake.terminal => wake.gen >= 1

\* Inputs exist for generations the record has reached, with a delivery.
InputsReached ==
    \A g \in Generations :
        /\ input[g].status = "none" => shown[g] = {}
        /\ g > wake.gen => input[g].status = "none"
        /\ input[g].status # "none" => input[g].delivery \in Deliveries

\* The attempts an input was shown: attempts its delivery has had; and for the
\* current generation, the recorded claim, which no other input was shown.
AttemptsReached ==
    /\ \A g \in Generations : \A k \in shown[g] :
          k \in 1 .. delivery[input[g].delivery].attempts
    /\ \A d \in Deliveries : delivery[d].state \in {"claimed", "delivered"} => delivery[d].attempts >= 1

ClaimShown ==
    /\ wake.gen >= 1 => shown[wake.gen] \subseteq {wake.claim}
    /\ wake.delivery # None => wake.claim <= delivery[wake.delivery].attempts
    /\ wake.delivery # None /\ wake.claim # 0 =>
          \A h \in Generations : h # wake.gen /\ input[h].delivery = wake.delivery => wake.claim \notin shown[h]

ShownOnce ==
    /\ \A g \in Generations : \A j, k \in shown[g] : j = k
    /\ \A g, h \in Generations :
          g # h /\ input[g].delivery = input[h].delivery => shown[g] \cap shown[h] = {}

IInv ==
    /\ TypeOK /\ shown \in [Generations -> SUBSET Nat]
    /\ RunsReached /\ GenerationFits /\ InputsReached /\ AttemptsReached
    /\ ClaimShown /\ ShownOnce /\ RecordTrue

Resubmits == wake.delivery # None /\ wake'.delivery = wake.delivery /\ wake'.gen # wake.gen
Careful == Resubmits => input[wake.gen].status = "ended"

-----------------------------------------------------------------------------
LEMMA Types ==
    TypeOK <=>
        /\ session \in {"active", "closed"} /\ home \in Locations
        /\ wake \in WakeRow /\ delivery \in [Deliveries -> DeliveryRow]
        /\ natural \in [Deliveries -> Nat] /\ input \in [Generations -> InputRow]
        /\ plugin \in [Owners -> PluginRow]
BY DEF TypeOK, WakeRow, DeliveryRow, InputRow, PluginRow

LEMMA NoItemType == NoItem \in Item /\ NoItem.delivery = None
BY OpenCodeAssumption DEF NoItem, Item

LEMMA FreshType ==
    ASSUME NEW st \in {"new", "up", "gone"}
    PROVE  Fresh(st) \in PluginRow /\ Fresh(st).step = "idle"
BY NoItemType DEF Fresh, PluginRow

LEMMA InitHolds == Init => IInv
<1> SUFFICES ASSUME Init PROVE IInv
  OBVIOUS
<1> USE OpenCodeAssumption DEF Init
<1>1. TypeOK
  <2>1. wake \in WakeRow
    BY DEF WakeRow
  <2>2. delivery \in [Deliveries -> DeliveryRow] /\ natural \in [Deliveries -> Nat]
    BY DEF DeliveryRow
  <2>3. input \in [Generations -> InputRow] /\ plugin \in [Owners -> PluginRow]
    BY FreshType DEF InputRow
  <2>4. session \in {"active", "closed"} /\ home \in Locations
    OBVIOUS
  <2> HIDE DEF Init
  <2> QED BY <2>1, <2>2, <2>3, <2>4, Types
<1>2. RunsReached
  BY FreshType DEF RunsReached
<1>3. GenerationFits /\ InputsReached /\ AttemptsReached /\ ClaimShown /\ ShownOnce /\ RecordTrue
  BY DEF GenerationFits, InputsReached, AttemptsReached, ClaimShown, ShownOnce, RecordTrue
<1>4. shown \in [Generations -> SUBSET Nat]
  OBVIOUS
<1> QED BY <1>1, <1>2, <1>3, <1>4 DEF IInv

-----------------------------------------------------------------------------
(* Steps that keep the generation, its claim and its delivery, submit no      *)
(* input and show none.                                                       *)

LEMMA SteadyStep ==
    ASSUME IInv, TypeOK', UNCHANGED shown,
           wake'.gen = wake.gen, wake'.claim = wake.claim, wake'.delivery = wake.delivery,
           wake'.admitted => wake.admitted \/ (wake.gen \in Generations /\ input[wake.gen].status # "none"),
           wake'.terminal => wake.terminal \/ (wake.gen \in Generations /\ input[wake.gen].status = "ended"),
           \A d \in Deliveries :
              /\ delivery'[d].attempts >= delivery[d].attempts
              /\ delivery'[d].state \in {"claimed", "delivered"} => delivery'[d].attempts >= 1,
           \A g \in Generations :
              /\ input'[g].delivery = input[g].delivery
              /\ input'[g].status = "none" <=> input[g].status = "none"
              /\ input[g].status = "ended" => input'[g].status = "ended",
           \A o \in Owners : plugin'[o].step # "idle" =>
              /\ plugin[o].step # "idle" /\ plugin'[o].run = plugin[o].run
    PROVE  IInv' /\ Careful
<1> USE OpenCodeAssumption DEF Generations
<1>t. /\ wake \in WakeRow /\ wake' \in WakeRow
      /\ input \in [Generations -> InputRow] /\ input' \in [Generations -> InputRow]
      /\ delivery \in [Deliveries -> DeliveryRow] /\ delivery' \in [Deliveries -> DeliveryRow]
      /\ shown \in [Generations -> SUBSET Nat]
  BY DEF IInv, TypeOK, WakeRow, InputRow, DeliveryRow
<1>1. RunsReached' /\ GenerationFits'
  BY DEF IInv, RunsReached, GenerationFits
<1>2. InputsReached'
  BY DEF IInv, InputsReached
<1>3. AttemptsReached'
  <2>1. ASSUME NEW g \in Generations, NEW k \in shown[g] PROVE k \in 1 .. delivery'[input'[g].delivery].attempts
    <3>1. input[g].delivery \in Deliveries /\ k \in 1 .. delivery[input[g].delivery].attempts
      BY <2>1 DEF IInv, InputsReached, AttemptsReached
    <3> DEFINE d == input[g].delivery
    <3>2. delivery[d].attempts \in Nat /\ delivery'[d].attempts \in Nat /\ delivery'[d].attempts >= delivery[d].attempts
      BY <3>1, <1>t DEF DeliveryRow
    <3>3. input'[g].delivery = d
      OBVIOUS
    <3> HIDE DEF d
    <3> QED BY <3>1, <3>2, <3>3
  <2> QED BY <2>1 DEF AttemptsReached
<1>4. ClaimShown'
  <2>1. wake.delivery # None => wake.claim <= delivery'[wake.delivery].attempts
    <3> SUFFICES ASSUME wake.delivery # None PROVE wake.claim <= delivery'[wake.delivery].attempts
      OBVIOUS
    <3>1. wake.delivery \in Deliveries
      BY <1>t DEF WakeRow
    <3>2. wake.claim <= delivery[wake.delivery].attempts /\ delivery'[wake.delivery].attempts >= delivery[wake.delivery].attempts
      BY <3>1 DEF IInv, ClaimShown
    <3>3. wake.claim \in Nat /\ delivery[wake.delivery].attempts \in Nat /\ delivery'[wake.delivery].attempts \in Nat
      BY <3>1, <1>t DEF WakeRow, DeliveryRow
    <3> QED BY <3>2, <3>3
  <2> QED BY <2>1 DEF IInv, ClaimShown
<1>5. ShownOnce'
  BY DEF IInv, ShownOnce
<1>6. RecordTrue'
  <2>1. wake'.admitted => wake.gen \in Generations /\ input'[wake.gen].status # "none"
    BY <1>t DEF IInv, RecordTrue, GenerationFits, WakeRow
  <2>2. wake'.terminal /\ wake'.delivery # None => input'[wake.gen].status = "ended"
    <3> SUFFICES ASSUME wake'.terminal, wake.delivery # None PROVE input'[wake.gen].status = "ended"
      OBVIOUS
    <3>1. wake.gen \in Generations
      BY <1>t DEF IInv, GenerationFits, WakeRow
    <3> QED BY <3>1 DEF IInv, RecordTrue
  <2> QED BY <2>1, <2>2 DEF RecordTrue
<1>7. Careful
  BY DEF Careful, Resubmits
<1> QED BY <1>1, <1>2, <1>3, <1>4, <1>5, <1>6, <1>7 DEF IInv

-----------------------------------------------------------------------------
(* Steps that change the generation, or let the delivery go.                  *)

LEMMA NewWakeStep ==
    ASSUME IInv, TypeOK', UNCHANGED <<shown, input, delivery>>, wake'.gen <= MaxGenerations,
           \/ /\ wake'.gen = wake.gen /\ wake'.claim = wake.claim
              /\ wake'.admitted = wake.admitted /\ wake'.terminal = wake.terminal
              /\ wake'.delivery \in {wake.delivery, None}
           \/ /\ wake'.gen = wake.gen + 1 /\ wake'.claim = 0
              /\ ~wake'.admitted /\ ~wake'.terminal,
           \A o \in Owners : plugin'[o].step # "idle" =>
              \/ plugin[o].step # "idle" /\ plugin'[o].run = plugin[o].run
              \/ /\ plugin'[o].run.delivery \in Deliveries
                 /\ plugin'[o].run.gen \in 1 .. wake'.gen
    PROVE  IInv'
<1> USE OpenCodeAssumption DEF Generations
<1>t. /\ wake \in WakeRow /\ wake' \in WakeRow
      /\ input \in [Generations -> InputRow] /\ delivery \in [Deliveries -> DeliveryRow]
      /\ shown \in [Generations -> SUBSET Nat]
  BY DEF IInv, TypeOK, WakeRow, InputRow, DeliveryRow
<1>n. wake.gen \in Nat /\ wake'.gen \in Nat /\ wake'.gen >= wake.gen
  BY <1>t DEF WakeRow
<1>1. RunsReached'
  BY <1>n DEF IInv, RunsReached
<1>2. GenerationFits'
  BY <1>n DEF IInv, GenerationFits
<1>3. InputsReached' /\ AttemptsReached' /\ ShownOnce'
  BY <1>n DEF IInv, InputsReached, AttemptsReached, ShownOnce
<1>4. ClaimShown'
  <2>1. CASE wake'.gen = wake.gen /\ wake'.claim = wake.claim /\ wake'.delivery \in {wake.delivery, None}
    BY <2>1 DEF IInv, ClaimShown
  <2>2. CASE wake'.gen = wake.gen + 1 /\ wake'.claim = 0
    <3>1. wake'.gen \in Generations /\ shown[wake'.gen] = {}
      BY <2>2, <1>n DEF IInv, InputsReached
    <3>2. wake'.delivery # None => wake'.claim <= delivery[wake'.delivery].attempts
      <4> SUFFICES ASSUME wake'.delivery # None PROVE 0 <= delivery[wake'.delivery].attempts
        BY <2>2
      <4>1. wake'.delivery \in Deliveries
        BY <1>t DEF WakeRow
      <4>2. delivery[wake'.delivery] \in DeliveryRow
        BY <4>1, <1>t
      <4> QED BY <4>2 DEF DeliveryRow
    <3> QED BY <2>2, <3>1, <3>2 DEF ClaimShown
  <2> QED BY <2>1, <2>2
<1>5. RecordTrue'
  <2>1. CASE ~wake'.admitted /\ ~wake'.terminal
    BY <2>1 DEF RecordTrue
  <2>2. CASE /\ wake'.gen = wake.gen /\ wake'.admitted = wake.admitted /\ wake'.terminal = wake.terminal
             /\ wake'.delivery \in {wake.delivery, None}
    BY <2>2 DEF IInv, RecordTrue
  <2> QED BY <2>1, <2>2
<1> QED BY <1>1, <1>2, <1>3, <1>4, <1>5 DEF IInv

\* What the operations make of the record.
Steady(w) ==
    /\ w.gen = wake.gen /\ w.claim = wake.claim
    /\ w.admitted = wake.admitted /\ w.terminal = wake.terminal
Renewed(w) == w.gen = wake.gen + 1 /\ w.claim = 0 /\ ~w.admitted /\ ~w.terminal

LEMMA WithGeneration ==
    ASSUME NEW w \in WakeRow
    PROVE  [w EXCEPT !.gen = @ + 1] \in WakeRow
BY DEF WakeRow

LEMMA WithFailures ==
    ASSUME NEW w \in WakeRow, NEW n \in 0..RetryLimit
    PROVE  [w EXCEPT !.failures = n] \in WakeRow
BY DEF WakeRow

LEMMA InvalidatedFacts ==
    ASSUME NEW w \in WakeRow
    PROVE  /\ Invalidated(w) \in WakeRow /\ Invalidated(w).gen = w.gen + 1
           /\ Invalidated(w).claim = 0 /\ ~Invalidated(w).admitted /\ ~Invalidated(w).terminal
           /\ Invalidated(w).delivery = None
<1>1. Invalidated(w) \in WakeRow
  <2> DEFINE a == [w EXCEPT !.gen = @ + 1]
  <2> DEFINE b == [a EXCEPT !.delivery = None, !.claim = 0]
  <2> DEFINE c == [b EXCEPT !.admitted = FALSE, !.terminal = FALSE]
  <2> DEFINE d == [c EXCEPT !.failures = 0]
  <2>1. a \in WakeRow
    BY WithGeneration
  <2>2. b \in WakeRow
    <3> HIDE DEF a
    <3> QED BY <2>1 DEF WakeRow
  <2>3. c \in WakeRow
    <3> HIDE DEF b
    <3> QED BY <2>2 DEF WakeRow
  <2>4. d \in WakeRow
    <3> HIDE DEF c
    <3> QED BY <2>3, WithFailures, OpenCodeAssumption
  <2>5. [d EXCEPT !.backoff = FALSE] \in WakeRow
    <3> HIDE DEF d
    <3> QED BY <2>4 DEF WakeRow
  <2>6. Invalidated(w) = [d EXCEPT !.backoff = FALSE]
    BY DEF Invalidated
  <2> QED BY <2>5, <2>6
<1>2. Invalidated(w).gen = w.gen + 1 /\ Invalidated(w).claim = 0 /\ Invalidated(w).delivery = None
  BY DEF Invalidated, WakeRow
<1>3. Invalidated(w).admitted = FALSE /\ Invalidated(w).terminal = FALSE
  BY DEF Invalidated, WakeRow
<1> QED BY <1>1, <1>2, <1>3

LEMMA AnchoredFacts ==
    ASSUME NEW w \in WakeRow
    PROVE  /\ Anchored(w) \in WakeRow
           /\ \/ Anchored(w) = w
              \/ /\ w.delivery = None
                 /\ Anchored(w).gen = w.gen + 1
                 /\ Anchored(w).claim = 0 /\ ~Anchored(w).admitted /\ ~Anchored(w).terminal
                 /\ Anchored(w).delivery \in Deliveries /\ Eligible(Anchored(w).delivery)
<1>1. CASE w.delivery # None \/ ~\E d \in Deliveries : First(d)
  BY <1>1 DEF Anchored
<1>2. CASE w.delivery = None /\ \E d \in Deliveries : First(d)
  <2>1. Oldest \in Deliveries /\ Eligible(Oldest)
    BY <1>2 DEF Oldest, First
  <2>2. Invalidated(w) \in WakeRow
    BY InvalidatedFacts
  <2>3. Anchored(w) = [Invalidated(w) EXCEPT !.delivery = Oldest]
    BY <1>2 DEF Anchored
  <2> QED BY <1>2, <2>1, <2>2, <2>3, InvalidatedFacts DEF WakeRow
<1> QED BY <1>1, <1>2

LEMMA PolledFacts ==
    ASSUME IInv
    PROVE  /\ Polled(wake) \in WakeRow
           /\ \/ Steady(Polled(wake)) /\ Polled(wake).delivery \in {wake.delivery, None}
              \/ Renewed(Polled(wake))
           /\ (/\ wake.delivery # None /\ Polled(wake).delivery = wake.delivery
               /\ Polled(wake).gen # wake.gen) => wake.terminal
<1>t. wake \in WakeRow
  BY DEF IInv, TypeOK, WakeRow
<1>1. CASE GivenUp(wake)
  <2> DEFINE w == [wake EXCEPT !.delivery = None, !.failures = 0]
  <2>1. w \in WakeRow /\ w.delivery = None /\ Steady(w)
    <3>1. w \in WakeRow
      <4> DEFINE a == [wake EXCEPT !.delivery = None]
      <4>1. a \in WakeRow
        BY <1>t DEF WakeRow
      <4>2. [a EXCEPT !.failures = 0] \in WakeRow
        <5> HIDE DEF a
        <5> QED BY <4>1, WithFailures, OpenCodeAssumption
      <4>3. w = [a EXCEPT !.failures = 0]
        OBVIOUS
      <4> QED BY <4>2, <4>3
    <3>2. w.delivery = None /\ w.gen = wake.gen /\ w.claim = wake.claim
      BY <1>t DEF WakeRow
    <3>3. w.admitted = wake.admitted /\ w.terminal = wake.terminal
      BY <1>t DEF WakeRow
    <3> QED BY <3>1, <3>2, <3>3 DEF Steady
  <2>2. Polled(wake) = Anchored(w)
    BY <1>1 DEF Polled
  <2>3. wake.terminal
    BY <1>1 DEF GivenUp
  <2> HIDE DEF w
  <2> QED BY <2>1, <2>2, <2>3, AnchoredFacts DEF Steady, Renewed
<1>2. CASE ~GivenUp(wake) /\ Retried(wake)
  <2>1. wake.terminal /\ wake.failures < RetryLimit
    BY <1>2 DEF Retried
  <2>2. Polled(wake) = [wake EXCEPT !.gen = @ + 1, !.claim = 0, !.admitted = FALSE, !.terminal = FALSE,
                                    !.failures = @ + 1, !.backoff = FALSE]
    BY <1>2 DEF Polled
  <2>3. Polled(wake) \in WakeRow
    <3> DEFINE a == [wake EXCEPT !.gen = @ + 1]
    <3> DEFINE b == [a EXCEPT !.claim = 0]
    <3> DEFINE c == [b EXCEPT !.admitted = FALSE, !.terminal = FALSE]
    <3> DEFINE d == [c EXCEPT !.failures = @ + 1]
    <3>1. a \in WakeRow
      BY <1>t, WithGeneration
    <3>2. b \in WakeRow /\ b.failures = wake.failures
      <4>1. a.failures = wake.failures
        BY <1>t DEF WakeRow
      <4> HIDE DEF a
      <4> QED BY <3>1, <4>1 DEF WakeRow
    <3>3. c \in WakeRow /\ c.failures = wake.failures
      <4> HIDE DEF b
      <4> QED BY <3>2 DEF WakeRow
    <3>4. d \in WakeRow
      <4> HIDE DEF c
      <4>1. wake.failures \in 0..RetryLimit
        BY <1>t DEF WakeRow
      <4>2. c.failures + 1 \in 0..RetryLimit
        BY <3>3, <4>1, <2>1, OpenCodeAssumption
      <4> QED BY <3>3, <4>2, WithFailures
    <3>5. [d EXCEPT !.backoff = FALSE] \in WakeRow
      <4> HIDE DEF d
      <4> QED BY <3>4 DEF WakeRow
    <3>6. Polled(wake) = [d EXCEPT !.backoff = FALSE]
      BY <2>2
    <3> QED BY <3>5, <3>6
  <2>4. Polled(wake).gen = wake.gen + 1 /\ Polled(wake).claim = 0
    BY <1>t, <2>2 DEF WakeRow
  <2>5. Polled(wake).admitted = FALSE /\ Polled(wake).terminal = FALSE
    BY <1>t, <2>2 DEF WakeRow
  <2> QED BY <2>1, <2>3, <2>4, <2>5 DEF Renewed
<1>3. CASE ~GivenUp(wake) /\ ~Retried(wake)
  <2>1. Polled(wake) = Anchored(wake)
    BY <1>3 DEF Polled
  <2> QED BY <1>t, <2>1, AnchoredFacts DEF Steady, Renewed
<1> QED BY <1>1, <1>2, <1>3

LEMMA EnrolledFacts ==
    ASSUME IInv, NEW o \in Owners
    PROVE  /\ Enrolled(o) \in WakeRow
           /\ \/ Steady(Enrolled(o)) /\ Enrolled(o).delivery = wake.delivery
              \/ Renewed(Enrolled(o)) /\ Enrolled(o).delivery = None
<1> DEFINE w == IF wake.location \in {None, LocationOf[o]} THEN wake ELSE Invalidated(wake)
<1>t. wake \in WakeRow
  BY DEF IInv, TypeOK, WakeRow
<1>1. /\ w \in WakeRow
      /\ \/ Steady(w) /\ w.delivery = wake.delivery
         \/ Renewed(w) /\ w.delivery = None
  BY <1>t, InvalidatedFacts DEF Steady, Renewed
<1>2. Enrolled(o) = [w EXCEPT !.owner = o, !.location = LocationOf[o], !.leased = TRUE]
  BY DEF Enrolled
<1> HIDE DEF w
<1> QED BY <1>1, <1>2, OpenCodeAssumption DEF WakeRow, Steady, Renewed

-----------------------------------------------------------------------------
(* The plugin. *)

LEMMA Shapes ==
    ASSUME IInv
    PROVE  /\ wake \in WakeRow /\ delivery \in [Deliveries -> DeliveryRow]
           /\ input \in [Generations -> InputRow] /\ plugin \in [Owners -> PluginRow]
           /\ shown \in [Generations -> SUBSET Nat]
           /\ session \in {"active", "closed"} /\ home \in Locations /\ natural \in [Deliveries -> Nat]
BY Types DEF IInv

LEMMA ViewFacts ==
    ASSUME NEW w \in WakeRow
    PROVE  View(w) \in Item /\ (w.delivery # None => View(w).gen = w.gen /\ View(w).delivery = w.delivery)
<1>1. CASE w.delivery = None
  BY <1>1, NoItemType DEF View
<1>2. CASE w.delivery # None
  BY <1>2 DEF View, WakeRow, Item
<1> QED BY <1>1, <1>2

\* A reply that renews, keeps or lets go the record starts a wake of its generation.
LEMMA RepliedFacts ==
    ASSUME IInv, NEW o \in Owners, NEW w \in WakeRow, w.delivery # None => w.gen >= 1, Replied(o, w)
    PROVE  /\ plugin' \in [Owners -> PluginRow]
           /\ \A u \in Owners : plugin'[u].step # "idle" =>
                 \/ plugin[u].step # "idle" /\ plugin'[u].run = plugin[u].run
                 \/ plugin'[u].run.delivery \in Deliveries /\ plugin'[u].run.gen \in 1 .. w.gen
<1> DEFINE r == [plugin[o] EXCEPT !.item = View(w),
                                  !.run = IF Wakes(o, w) THEN View(w) ELSE @,
                                  !.step = IF Wakes(o, w) THEN "submit" ELSE @]
<1>1. plugin[o] \in PluginRow /\ View(w) \in Item
  BY Shapes, ViewFacts
<1>2. r \in PluginRow /\ (~Wakes(o, w) => r.run = plugin[o].run /\ r.step = plugin[o].step)
      /\ (Wakes(o, w) => r.run = View(w))
  BY <1>1 DEF PluginRow
<1>3. plugin' = [plugin EXCEPT ![o] = r]
  BY DEF Replied
<1> HIDE DEF r
<1>4. plugin' \in [Owners -> PluginRow] /\ \A u \in Owners : plugin'[u] = IF u = o THEN r ELSE plugin[u]
  BY <1>2, <1>3, Shapes
<1>5. Wakes(o, w) => View(w).delivery \in Deliveries /\ View(w).gen \in 1 .. w.gen
  <2> SUFFICES ASSUME Wakes(o, w) PROVE View(w).delivery \in Deliveries /\ View(w).gen \in 1 .. w.gen
    OBVIOUS
  <2>1. w.delivery \in Deliveries /\ w.gen \in Nat /\ w.delivery # None
    BY OpenCodeAssumption DEF WakeRow, Wakes
  <2> QED BY <2>1, ViewFacts
<1> QED BY <1>2, <1>4, <1>5

LEMMA DiscoverStep ==
    ASSUME IInv, NEW o \in Owners, Discover(o)
    PROVE  IInv' /\ Careful
<1>1. /\ wake' = IF CanEnroll(o) THEN Enrolled(o) ELSE wake
      /\ wake'.gen <= MaxGenerations
      /\ plugin' = [plugin EXCEPT ![o].state = "up", ![o].known = TRUE,
                                  ![o].item = IF CanEnroll(o) THEN View(wake') ELSE @]
      /\ UNCHANGED <<session, delivery, home, natural, input, shown>>
  BY DEF Discover
<1>2. /\ wake' \in WakeRow
      /\ \/ Steady(wake') /\ wake'.delivery = wake.delivery
         \/ Renewed(wake') /\ wake'.delivery = None
  BY <1>1, EnrolledFacts, Shapes DEF Steady
<1>3. /\ plugin' \in [Owners -> PluginRow]
      /\ \A u \in Owners : plugin'[u].run = plugin[u].run /\ plugin'[u].step = plugin[u].step
  <2> DEFINE r == [plugin[o] EXCEPT !.state = "up", !.known = TRUE,
                                    !.item = IF CanEnroll(o) THEN View(wake') ELSE @]
  <2>1. View(wake') \in Item
    BY <1>2, ViewFacts
  <2>2. r \in PluginRow /\ r.run = plugin[o].run /\ r.step = plugin[o].step
    BY <2>1, Shapes DEF PluginRow
  <2>3. plugin' = [plugin EXCEPT ![o] = r]
    BY <1>1
  <2> HIDE DEF r
  <2> QED BY <2>2, <2>3, Shapes
<1>4. TypeOK'
  BY <1>1, <1>2, <1>3, Shapes DEF TypeOK, WakeRow, DeliveryRow, InputRow, PluginRow
<1>5. IInv'
  BY <1>1, <1>2, <1>3, <1>4, NewWakeStep DEF Steady, Renewed
<1>6. Careful
  BY <1>2 DEF Careful, Resubmits, Steady
<1> QED BY <1>5, <1>6

LEMMA PollStep ==
    ASSUME IInv, NEW o \in Owners, Poll(o)
    PROVE  IInv' /\ Careful
<1> DEFINE w == IF Bound(o) THEN Polled(wake) ELSE Enrolled(o)
<1>1. /\ wake' = [w EXCEPT !.leased = TRUE] /\ wake'.gen <= MaxGenerations
      /\ Replied(o, wake') \/ UNCHANGED plugin
      /\ UNCHANGED <<session, delivery, home, natural, input, shown>>
  BY DEF Poll
<1>2. /\ w \in WakeRow
      /\ \/ Steady(w) /\ w.delivery \in {wake.delivery, None}
         \/ Renewed(w)
      /\ wake.delivery # None /\ w.delivery = wake.delivery /\ w.gen # wake.gen => wake.terminal
  BY PolledFacts, EnrolledFacts DEF Steady
<1> HIDE DEF w
<1>3. /\ wake' \in WakeRow /\ wake'.gen = w.gen /\ wake'.claim = w.claim /\ wake'.delivery = w.delivery
      /\ wake'.admitted = w.admitted /\ wake'.terminal = w.terminal
  BY <1>1, <1>2 DEF WakeRow
<1>4. /\ \/ Steady(wake') /\ wake'.delivery \in {wake.delivery, None}
         \/ Renewed(wake')
      /\ wake.delivery # None /\ wake'.delivery = wake.delivery /\ wake'.gen # wake.gen => wake.terminal
  BY <1>2, <1>3 DEF Steady, Renewed
<1>5. wake'.delivery # None => wake'.gen >= 1
  BY <1>3, <1>4, Shapes DEF IInv, GenerationFits, Steady, Renewed, WakeRow
<1>6. /\ plugin' \in [Owners -> PluginRow]
      /\ \A u \in Owners : plugin'[u].step # "idle" =>
            \/ plugin[u].step # "idle" /\ plugin'[u].run = plugin[u].run
            \/ plugin'[u].run.delivery \in Deliveries /\ plugin'[u].run.gen \in 1 .. wake'.gen
  <2>1. CASE UNCHANGED plugin
    BY <2>1, Shapes
  <2>2. CASE Replied(o, wake')
    BY <2>2, <1>3, <1>5, RepliedFacts
  <2> QED BY <1>1, <2>1, <2>2
<1>7. TypeOK'
  BY <1>1, <1>3, <1>6, Shapes DEF TypeOK, WakeRow, DeliveryRow, InputRow, PluginRow
<1>8. IInv'
  BY <1>1, <1>4, <1>6, <1>7, NewWakeStep DEF Steady, Renewed
<1>9. Careful
  BY <1>4 DEF Careful, Resubmits, IInv, RecordTrue
<1> QED BY <1>8, <1>9

LEMMA CloseStep ==
    ASSUME IInv, Close
    PROVE  IInv' /\ Careful
<1>1. /\ session' = "closed" /\ wake'.gen <= MaxGenerations
      /\ wake' = [Invalidated(wake) EXCEPT !.owner = None, !.leased = FALSE]
      /\ UNCHANGED <<delivery, home, natural, input, plugin, shown>>
  BY DEF Close
<1>2. wake' \in WakeRow /\ Renewed(wake') /\ wake'.delivery = None
  BY <1>1, Shapes, InvalidatedFacts DEF WakeRow, Renewed
<1>3. TypeOK'
  BY <1>1, <1>2, Shapes DEF TypeOK, WakeRow, DeliveryRow, InputRow, PluginRow
<1>4. IInv'
  BY <1>1, <1>2, <1>3, NewWakeStep DEF Renewed
<1>5. Careful
  BY <1>2 DEF Careful, Resubmits
<1> QED BY <1>4, <1>5

LEMMA DetachedFacts ==
    ASSUME IInv, NEW o \in Owners
    PROVE  /\ Detached(o) \in WakeRow
           /\ Steady(Detached(o)) /\ Detached(o).delivery = wake.delivery
<1>1. wake \in WakeRow
  BY Shapes
<1> QED BY <1>1 DEF Detached, WakeRow, Steady

LEMMA DropStep ==
    ASSUME IInv, NEW o \in Owners, Drop(o)
    PROVE  IInv' /\ Careful
<1>1. /\ plugin' = [plugin EXCEPT ![o] = Fresh("up")] /\ wake' \in {wake, Detached(o)}
      /\ UNCHANGED <<session, delivery, home, natural, input, shown>>
  BY DEF Drop
<1>2. wake' \in WakeRow /\ Steady(wake') /\ wake'.delivery = wake.delivery
  BY <1>1, DetachedFacts, Shapes DEF Steady
<1>3. /\ plugin' \in [Owners -> PluginRow]
      /\ \A u \in Owners : plugin'[u].step # "idle" =>
            plugin[u].step # "idle" /\ plugin'[u].run = plugin[u].run
  BY <1>1, FreshType, Shapes
<1>4. TypeOK'
  BY <1>1, <1>2, <1>3, Shapes DEF TypeOK, WakeRow, DeliveryRow, InputRow, PluginRow
<1>5. \A d \in Deliveries : delivery[d].attempts \in Nat
  BY Shapes DEF DeliveryRow
<1>6. AttemptsReached
  BY DEF IInv
<1> QED BY <1>1, <1>2, <1>3, <1>4, <1>5, <1>6, SteadyStep DEF Steady, AttemptsReached

LEMMA StopStep ==
    ASSUME IInv, NEW o \in Owners, Stop(o)
    PROVE  IInv' /\ Careful
<1>1. /\ plugin' = [plugin EXCEPT ![o] = Fresh("gone")] /\ wake' \in {wake, Detached(o)}
      /\ input' = [g \in Generations |->
            IF input[g].by = o /\ input[g].status = "running"
            THEN [input[g] EXCEPT !.status = "queued", !.ack = 0] ELSE input[g]]
      /\ UNCHANGED <<session, delivery, home, natural, shown>>
  BY DEF Stop
<1>2. wake' \in WakeRow /\ Steady(wake') /\ wake'.delivery = wake.delivery
  <2>1. CASE wake' = wake
    BY <2>1, Shapes DEF Steady
  <2>2. CASE wake' = Detached(o)
    BY <2>2, DetachedFacts
  <2> QED BY <1>1, <2>1, <2>2
<1>3. /\ plugin' \in [Owners -> PluginRow]
      /\ \A u \in Owners : plugin'[u].step # "idle" =>
            plugin[u].step # "idle" /\ plugin'[u].run = plugin[u].run
  BY <1>1, FreshType, Shapes
<1>4. /\ input' \in [Generations -> InputRow]
      /\ \A g \in Generations :
            /\ input'[g].delivery = input[g].delivery
            /\ input'[g].status = "none" <=> input[g].status = "none"
            /\ input[g].status = "ended" => input'[g].status = "ended"
  BY <1>1, Shapes DEF InputRow
<1>5. TypeOK'
  BY <1>1, <1>2, <1>3, <1>4, Shapes DEF TypeOK, WakeRow, DeliveryRow, InputRow, PluginRow
<1>6. \A d \in Deliveries : delivery[d].attempts \in Nat
  BY Shapes DEF DeliveryRow
<1>7. AttemptsReached
  BY DEF IInv
<1>8. UNCHANGED <<delivery, shown>>
  BY <1>1
<1> QED BY <1>2, <1>3, <1>4, <1>5, <1>6, <1>7, <1>8, SteadyStep DEF Steady, AttemptsReached

\* A wake that has begun to run concerns a generation that has an input.
LEMMA RunFacts ==
    ASSUME IInv, NEW o \in Owners, plugin[o].step # "idle"
    PROVE  /\ plugin[o].run.gen \in Generations /\ plugin[o].run.delivery \in Deliveries
           /\ plugin[o].run.gen <= wake.gen
<1>1. wake.gen \in Nat
  BY Shapes DEF WakeRow
<1> QED BY <1>1, OpenCodeAssumption DEF IInv, RunsReached, GenerationFits, Generations

LEMMA GotoFacts ==
    ASSUME IInv, NEW o \in Owners, NEW step \in {"idle", "submit", "admit", "wait"}, Goto(o, step),
           plugin[o].step # "idle"
    PROVE  /\ plugin' \in [Owners -> PluginRow]
           /\ \A u \in Owners : plugin'[u].step # "idle" =>
                 plugin[u].step # "idle" /\ plugin'[u].run = plugin[u].run
<1> DEFINE r == [plugin[o] EXCEPT !.step = step, !.run = IF step = "idle" THEN NoItem ELSE @]
<1>1. plugin[o] \in PluginRow
  BY Shapes
<1>2. r \in PluginRow /\ r.step = step /\ (step # "idle" => r.run = plugin[o].run)
  BY <1>1, NoItemType DEF PluginRow
<1>3. plugin' = [plugin EXCEPT ![o] = r]
  BY DEF Goto
<1> HIDE DEF r
<1> QED BY <1>2, <1>3, Shapes

LEMMA SubmitStep ==
    ASSUME IInv, NEW o \in Owners, Submit(o)
    PROVE  IInv' /\ Careful
<1> DEFINE r == plugin[o].run
<1> DEFINE n == IF input[r.gen].status # "none" THEN input[r.gen]
                ELSE [input[r.gen] EXCEPT !.status = "queued", !.delivery = r.delivery, !.by = o]
<1>1. /\ plugin[o].step = "submit"
      /\ UNCHANGED input \/ input' = [input EXCEPT ![r.gen] = n]
      /\ \E step \in {"admit", "idle"} : Goto(o, step)
      /\ UNCHANGED <<store, home, natural, shown>>
  BY DEF Submit, Running
<1>2. r.gen \in Generations /\ r.delivery \in Deliveries /\ r.gen <= wake.gen
  BY <1>1, RunFacts
<1>3. /\ plugin' \in [Owners -> PluginRow]
      /\ \A u \in Owners : plugin'[u].step # "idle" =>
            plugin[u].step # "idle" /\ plugin'[u].run = plugin[u].run
  BY <1>1, GotoFacts
<1>4. n \in InputRow /\ n.status # "none" /\ n.delivery \in Deliveries
      /\ (input[r.gen].status # "none" => n = input[r.gen])
  <2>1. input[r.gen] \in InputRow /\ o \in Owners \cup {None}
    BY <1>2, Shapes
  <2>2. CASE input[r.gen].status # "none"
    BY <1>2, <2>1, <2>2 DEF IInv, InputsReached
  <2>3. CASE input[r.gen].status = "none"
    <3>1. n = [input[r.gen] EXCEPT !.status = "queued", !.delivery = r.delivery, !.by = o]
      BY <2>3
    <3> HIDE DEF n
    <3> QED BY <1>2, <2>1, <2>3, <3>1 DEF InputRow
  <2> QED BY <2>2, <2>3
<1> HIDE DEF n
<1>5. /\ input' \in [Generations -> InputRow]
      /\ \A g \in Generations : input'[g] = input[g]
            \/ (g = r.gen /\ input[g].status = "none" /\ input'[g] = n)
  BY <1>1, <1>2, <1>4, Shapes
<1>6. UNCHANGED <<session, wake, delivery, home, natural, shown>>
  BY <1>1 DEF store
<1> HIDE DEF r
<1>7. TypeOK'
  BY <1>3, <1>5, <1>6, Shapes DEF TypeOK, WakeRow, DeliveryRow, InputRow, PluginRow
<1>8. RunsReached' /\ GenerationFits'
  BY <1>3, <1>6 DEF IInv, RunsReached, GenerationFits
<1>9. InputsReached'
  BY <1>2, <1>4, <1>5, <1>6, Shapes DEF IInv, InputsReached, WakeRow, Generations
<1>10. \A g \in Generations : shown[g] # {} => input'[g] = input[g]
  BY <1>5 DEF IInv, InputsReached
<1>11. AttemptsReached'
  BY <1>6, <1>10 DEF IInv, AttemptsReached
<1>12. ClaimShown'
  BY <1>6, <1>10 DEF IInv, ClaimShown
<1>13. ShownOnce'
  <2> SUFFICES ASSUME NEW g \in Generations, NEW h \in Generations, g # h,
                      input'[g].delivery = input'[h].delivery
               PROVE  shown[g] \cap shown[h] = {}
    BY <1>6 DEF IInv, ShownOnce
  <2> QED BY <1>10 DEF IInv, ShownOnce
<1>14. RecordTrue'
  <2>1. \A g \in Generations : /\ input[g].status # "none" => input'[g].status # "none"
                               /\ input[g].status = "ended" => input'[g].status = "ended"
    BY <1>4, <1>5
  <2>2. wake.admitted \/ wake.delivery # None => wake.gen \in Generations
    BY Shapes, OpenCodeAssumption DEF IInv, GenerationFits, WakeRow, Generations
  <2>3. RecordTrue
    BY DEF IInv
  <2>4. ASSUME wake.admitted PROVE input'[wake.gen].status # "none"
    BY <2>1, <2>2, <2>3, <2>4 DEF RecordTrue
  <2>5. ASSUME wake.terminal, wake.delivery # None PROVE input'[wake.gen].status = "ended"
    BY <2>1, <2>2, <2>3, <2>5 DEF RecordTrue
  <2> QED BY <1>6, <2>4, <2>5 DEF RecordTrue
<1>15. Careful
  BY <1>6 DEF Careful, Resubmits
<1> QED BY <1>6, <1>7, <1>8, <1>9, <1>11, <1>12, <1>13, <1>14, <1>15 DEF IInv

\* What is reported of an input is true of it when it is reported.
LEMMA AdmitStep ==
    ASSUME IInv, NEW o \in Owners, Admit(o)
    PROVE  IInv' /\ Careful
<1> DEFINE r == plugin[o].run
<1>1. /\ plugin[o].step = "admit"
      /\ \E step \in {"wait", "idle"} : Goto(o, step)
      /\ \/ UNCHANGED wake
         \/ Observed(r) /\ Current(o, r) /\ wake' = [wake EXCEPT !.admitted = TRUE]
      /\ UNCHANGED <<session, delivery, home, natural, input, shown>>
  BY DEF Admit, Running
<1>2. r.gen \in Generations
  BY <1>1, RunFacts
<1>3. /\ plugin' \in [Owners -> PluginRow]
      /\ \A u \in Owners : plugin'[u].step # "idle" =>
            plugin[u].step # "idle" /\ plugin'[u].run = plugin[u].run
  BY <1>1, GotoFacts
<1>4. /\ wake' \in WakeRow /\ wake'.gen = wake.gen /\ wake'.claim = wake.claim
      /\ wake'.delivery = wake.delivery /\ wake'.terminal = wake.terminal
      /\ wake'.admitted => wake.admitted \/ (wake.gen \in Generations /\ input[wake.gen].status # "none")
  <2>1. CASE UNCHANGED wake
    BY <2>1, Shapes
  <2>2. CASE Observed(r) /\ Current(o, r) /\ wake' = [wake EXCEPT !.admitted = TRUE]
    <3>1. wake.gen = r.gen /\ input[wake.gen].status # "none"
      BY <2>2 DEF Observed, Current
    <3>2. wake' \in WakeRow /\ wake'.gen = wake.gen /\ wake'.claim = wake.claim
      BY <2>2, Shapes DEF WakeRow
    <3>3. wake'.delivery = wake.delivery /\ wake'.terminal = wake.terminal
      BY <2>2, Shapes DEF WakeRow
    <3> QED BY <1>2, <3>1, <3>2, <3>3
  <2> QED BY <1>1, <2>1, <2>2
<1>5. TypeOK'
  BY <1>1, <1>3, <1>4, Shapes DEF TypeOK, WakeRow, DeliveryRow, InputRow, PluginRow
<1>6. \A d \in Deliveries : delivery[d].attempts \in Nat
  BY Shapes DEF DeliveryRow
<1>7. UNCHANGED <<delivery, input, shown>>
  BY <1>1
<1> HIDE DEF r
<1> QED BY <1>3, <1>4, <1>5, <1>6, <1>7, SteadyStep DEF IInv, AttemptsReached

LEMMA FinishStep ==
    ASSUME IInv, NEW o \in Owners, Finish(o)
    PROVE  IInv' /\ Careful
<1> DEFINE r == plugin[o].run
<1>1. /\ plugin[o].step = "wait" /\ Goto(o, "idle")
      /\ \/ UNCHANGED wake
         \/ Settle(o, r) /\ Current(o, r) /\ wake' = [wake EXCEPT !.terminal = TRUE, !.backoff = TRUE]
      /\ UNCHANGED <<session, delivery, home, natural, input, shown>>
  BY DEF Finish, Running
<1>2. r.gen \in Generations
  BY <1>1, RunFacts
<1>3. /\ plugin' \in [Owners -> PluginRow]
      /\ \A u \in Owners : plugin'[u].step # "idle" =>
            plugin[u].step # "idle" /\ plugin'[u].run = plugin[u].run
  BY <1>1, GotoFacts
<1>4. /\ wake' \in WakeRow /\ wake'.gen = wake.gen /\ wake'.claim = wake.claim
      /\ wake'.delivery = wake.delivery /\ wake'.admitted = wake.admitted
      /\ wake'.terminal => wake.terminal \/ (wake.gen \in Generations /\ input[wake.gen].status = "ended")
  <2>1. CASE UNCHANGED wake
    BY <2>1, Shapes
  <2>2. CASE Settle(o, r) /\ Current(o, r) /\ wake' = [wake EXCEPT !.terminal = TRUE, !.backoff = TRUE]
    <3>1. wake.gen = r.gen /\ input[wake.gen].status = "ended"
      BY <2>2 DEF Settle, Current
    <3>2. wake' \in WakeRow /\ wake'.gen = wake.gen /\ wake'.claim = wake.claim
      BY <2>2, Shapes DEF WakeRow
    <3>3. wake'.delivery = wake.delivery /\ wake'.admitted = wake.admitted
      BY <2>2, Shapes DEF WakeRow
    <3> QED BY <1>2, <3>1, <3>2, <3>3
  <2> QED BY <1>1, <2>1, <2>2
<1>5. TypeOK'
  BY <1>1, <1>3, <1>4, Shapes DEF TypeOK, WakeRow, DeliveryRow, InputRow, PluginRow
<1>6. \A d \in Deliveries : delivery[d].attempts \in Nat
  BY Shapes DEF DeliveryRow
<1>7. UNCHANGED <<delivery, input, shown>>
  BY <1>1
<1> HIDE DEF r
<1> QED BY <1>3, <1>4, <1>5, <1>6, <1>7, SteadyStep DEF IInv, AttemptsReached

-----------------------------------------------------------------------------
(* The host, the other parties and time: steps that leave the record alone.   *)

DeliveriesAdvance ==
    /\ delivery' \in [Deliveries -> DeliveryRow]
    /\ \A d \in Deliveries :
          /\ delivery'[d].attempts >= delivery[d].attempts
          /\ delivery'[d].state \in {"claimed", "delivered"} => delivery'[d].attempts >= 1

InputsAdvance ==
    /\ input' \in [Generations -> InputRow]
    /\ \A g \in Generations :
          /\ input'[g].delivery = input[g].delivery
          /\ input'[g].status = "none" <=> input[g].status = "none"
          /\ input[g].status = "ended" => input'[g].status = "ended"

LEMMA Unmoved ==
    ASSUME IInv
    PROVE  (UNCHANGED delivery => DeliveriesAdvance) /\ (UNCHANGED input => InputsAdvance)
<1>1. \A d \in Deliveries : delivery[d].attempts \in Nat
  BY Shapes DEF DeliveryRow
<1>2. AttemptsReached
  BY DEF IInv
<1> QED BY <1>1, <1>2, Shapes DEF DeliveriesAdvance, InputsAdvance, AttemptsReached

LEMMA OutsideStep ==
    ASSUME IInv, DeliveriesAdvance, InputsAdvance, UNCHANGED <<wake, plugin, shown>>,
           session' \in {"active", "closed"}, home' \in Locations, natural' \in [Deliveries -> Nat]
    PROVE  IInv' /\ Careful
<1>1. TypeOK'
  BY Shapes DEF TypeOK, WakeRow, DeliveryRow, InputRow, PluginRow, DeliveriesAdvance, InputsAdvance
<1> QED BY <1>1, SteadyStep DEF DeliveriesAdvance, InputsAdvance

\* One input changes, not from or to "none".
LEMMA OneInput ==
    ASSUME IInv, NEW g \in Generations, NEW r \in InputRow, input' = [input EXCEPT ![g] = r],
           r.delivery = input[g].delivery, r.status = "none" <=> input[g].status = "none",
           input[g].status = "ended" => r.status = "ended"
    PROVE  InputsAdvance
BY Shapes DEF InputsAdvance

\* One delivery changes, without a new attempt.
LEMMA OneDelivery ==
    ASSUME IInv, NEW d \in Deliveries, NEW r \in DeliveryRow, delivery' = [delivery EXCEPT ![d] = r],
           r.attempts = delivery[d].attempts,
           r.state \in {"claimed", "delivered"} => delivery[d].state \in {"claimed", "delivered"}
    PROVE  DeliveriesAdvance
<1>1. \A e \in Deliveries : delivery[e].attempts \in Nat
  BY Shapes DEF DeliveryRow
<1>2. AttemptsReached
  BY DEF IInv
<1> QED BY <1>1, <1>2, Shapes DEF DeliveriesAdvance, AttemptsReached

LEMMA ContextOrdinaryStep ==
    ASSUME IInv, NEW o \in Owners, NEW g \in Generations, ContextOrdinary(o, g)
    PROVE  IInv' /\ Careful
<1> DEFINE r == [input[g] EXCEPT !.status = "running"]
<1>1. input[g].status = "queued" /\ input' = [input EXCEPT ![g] = r]
      /\ UNCHANGED <<session, wake, delivery, home, natural, plugin, shown>>
  BY DEF ContextOrdinary, store
<1>2. r \in InputRow /\ r.status = "running" /\ r.delivery = input[g].delivery
  BY Shapes DEF InputRow
<1> HIDE DEF r
<1>3. InputsAdvance
  BY <1>1, <1>2, OneInput
<1> QED BY <1>1, <1>3, Unmoved, OutsideStep, Shapes

LEMMA EndInputStep ==
    ASSUME IInv, NEW g \in Generations, EndInput(g)
    PROVE  IInv' /\ Careful
<1>1. PICK status \in {"ended", "merged"} : input' = [input EXCEPT ![g].status = status]
  BY DEF EndInput
<1>2. input[g].status = "running" /\ UNCHANGED <<session, wake, delivery, home, natural, plugin, shown>>
  BY DEF EndInput, store
<1> DEFINE r == [input[g] EXCEPT !.status = status]
<1>3. r \in InputRow /\ r.status = status /\ r.delivery = input[g].delivery
  BY Shapes DEF InputRow
<1>4. input' = [input EXCEPT ![g] = r]
  BY <1>1
<1> HIDE DEF r
<1>5. InputsAdvance
  BY <1>2, <1>3, <1>4, OneInput
<1> QED BY <1>2, <1>5, Unmoved, OutsideStep, Shapes

LEMMA CompactStep ==
    ASSUME IInv, NEW g \in Generations, Compact(g)
    PROVE  IInv' /\ Careful
<1> DEFINE r == [input[g] EXCEPT !.seen = FALSE]
<1>1. input' = [input EXCEPT ![g] = r]
      /\ UNCHANGED <<session, wake, delivery, home, natural, plugin, shown>>
  BY DEF Compact, store
<1>2. r \in InputRow /\ r.status = input[g].status /\ r.delivery = input[g].delivery
  BY Shapes DEF InputRow
<1> HIDE DEF r
<1>3. InputsAdvance
  BY <1>1, <1>2, OneInput
<1> QED BY <1>1, <1>3, Unmoved, OutsideStep, Shapes

LEMMA DeliveredRow ==
    ASSUME IInv, NEW d \in Deliveries, delivery[d].state = "claimed",
           delivery' = [delivery EXCEPT ![d].state = "delivered", ![d].leased = FALSE]
    PROVE  DeliveriesAdvance
<1> DEFINE r == [delivery[d] EXCEPT !.state = "delivered", !.leased = FALSE]
<1>1. r \in DeliveryRow /\ r.attempts = delivery[d].attempts
  BY Shapes DEF DeliveryRow
<1>2. delivery' = [delivery EXCEPT ![d] = r]
  OBVIOUS
<1> HIDE DEF r
<1> QED BY <1>1, <1>2, OneDelivery

LEMMA AckStep ==
    ASSUME IInv, NEW g \in Generations, Ack(g)
    PROVE  IInv' /\ Careful
<1> DEFINE d == input[g].delivery
<1> DEFINE r == [input[g] EXCEPT !.ack = 0]
<1>1. /\ input' = [input EXCEPT ![g] = r]
      /\ UNCHANGED <<session, wake, home, natural, plugin, shown>>
      /\ \/ UNCHANGED delivery
         \/ /\ delivery[d].state = "claimed"
            /\ delivery' = [delivery EXCEPT ![d].state = "delivered", ![d].leased = FALSE]
  BY DEF Ack
<1>2. r \in InputRow /\ r.status = input[g].status /\ r.delivery = input[g].delivery
  BY Shapes DEF InputRow
<1> HIDE DEF r
<1>3. InputsAdvance
  BY <1>1, <1>2, OneInput
<1>4. DeliveriesAdvance
  <2>1. CASE d \in Deliveries
    BY <1>1, <2>1, DeliveredRow, Unmoved
  <2>2. CASE d \notin Deliveries
    <3>1. UNCHANGED delivery
      BY <1>1, <2>2, Shapes
    <3> QED BY <3>1, Unmoved
  <2> QED BY <2>1, <2>2
<1> QED BY <1>1, <1>3, <1>4, OutsideStep, Shapes

LEMMA NaturalAckStep ==
    ASSUME IInv, NEW d \in Deliveries, NaturalAck(d)
    PROVE  IInv' /\ Careful
<1>1. /\ natural' = [natural EXCEPT ![d] = 0]
      /\ UNCHANGED <<session, wake, home, input, plugin, shown>>
      /\ \/ UNCHANGED delivery
         \/ /\ delivery[d].state = "claimed"
            /\ delivery' = [delivery EXCEPT ![d].state = "delivered", ![d].leased = FALSE]
  BY DEF NaturalAck
<1>2. DeliveriesAdvance
  BY <1>1, DeliveredRow, Unmoved
<1>3. natural' \in [Deliveries -> Nat]
  BY <1>1, Shapes
<1> QED BY <1>1, <1>2, <1>3, Unmoved, OutsideStep, Shapes

LEMMA DeliveryTimeStep ==
    ASSUME IInv, NEW d \in Deliveries, Send(d) \/ Expire(d) \/ ClaimLeaseEnds(d)
    PROVE  IInv' /\ Careful
<1>1. UNCHANGED <<session, wake, home, natural, input, plugin, shown>>
  BY DEF Send, Expire, ClaimLeaseEnds
<1>2. PICK r : /\ r \in DeliveryRow /\ r.attempts = delivery[d].attempts
               /\ r.state \in {"claimed", "delivered"} => delivery[d].state \in {"claimed", "delivered"}
               /\ delivery' = [delivery EXCEPT ![d] = r]
  <2>1. CASE Send(d)
    <3> WITNESS [delivery[d] EXCEPT !.state = "pending"]
    <3> QED BY <2>1, Shapes DEF Send, DeliveryRow
  <2>2. CASE Expire(d)
    <3> WITNESS [delivery[d] EXCEPT !.state = "expired", !.leased = FALSE]
    <3> QED BY <2>2, Shapes DEF Expire, DeliveryRow
  <2>3. CASE ClaimLeaseEnds(d)
    <3> WITNESS [delivery[d] EXCEPT !.leased = FALSE]
    <3> QED BY <2>3, Shapes DEF ClaimLeaseEnds, DeliveryRow
  <2> QED BY <2>1, <2>2, <2>3
<1>3. DeliveriesAdvance
  BY <1>2, OneDelivery
<1> QED BY <1>1, <1>3, Unmoved, OutsideStep, Shapes

LEMMA NaturalTurnStep ==
    ASSUME IInv, NaturalTurn
    PROVE  IInv' /\ Careful
<1>1. /\ session' = "active" /\ UNCHANGED <<wake, home, input, plugin, shown>>
      /\ delivery' = [d \in Deliveries |->
            IF Eligible(d) THEN [state |-> "claimed", leased |-> TRUE,
                                 attempts |-> delivery[d].attempts + 1]
            ELSE delivery[d]]
      /\ natural' = [d \in Deliveries |-> IF Eligible(d) THEN delivery'[d].attempts ELSE natural[d]]
  BY DEF NaturalTurn
<1>2. \A d \in Deliveries : delivery[d] \in DeliveryRow /\ delivery[d].attempts \in Nat
  BY Shapes DEF DeliveryRow
<1>3. DeliveriesAdvance
  <2>1. AttemptsReached
    BY DEF IInv
  <2>2. ASSUME NEW d \in Deliveries
        PROVE  /\ delivery'[d] \in DeliveryRow /\ delivery'[d].attempts >= delivery[d].attempts
               /\ delivery'[d].state \in {"claimed", "delivered"} => delivery'[d].attempts >= 1
    BY <1>1, <1>2, <2>1 DEF DeliveryRow, AttemptsReached
  <2> QED BY <1>1, <2>2 DEF DeliveriesAdvance
<1>4. natural' \in [Deliveries -> Nat]
  <2>1. \A d \in Deliveries : delivery'[d].attempts \in Nat /\ natural[d] \in Nat
    BY <1>3, Shapes DEF DeliveriesAdvance, DeliveryRow
  <2> QED BY <1>1, <2>1
<1> QED BY <1>1, <1>3, <1>4, Unmoved, OutsideStep, Shapes

LEMMA MoveStep ==
    ASSUME IInv, NEW l \in Locations, Move(l)
    PROVE  IInv' /\ Careful
<1>1. home' = l /\ UNCHANGED <<session, wake, delivery, natural, input, plugin, shown>>
  BY DEF Move, store
<1> QED BY <1>1, Unmoved, OutsideStep, Shapes

LEMMA WakeTimeStep ==
    ASSUME IInv, OwnerLeaseEnds \/ BackoffEnds
    PROVE  IInv' /\ Careful
<1>1. /\ wake' = [wake EXCEPT !.leased = FALSE] \/ wake' = [wake EXCEPT !.backoff = FALSE]
      /\ UNCHANGED <<session, delivery, home, natural, input, plugin, shown>>
  BY DEF OwnerLeaseEnds, BackoffEnds
<1>2. wake' \in WakeRow /\ Steady(wake') /\ wake'.delivery = wake.delivery
  BY <1>1, Shapes DEF WakeRow, Steady
<1>3. TypeOK'
  BY <1>1, <1>2, Shapes DEF TypeOK, WakeRow, DeliveryRow, InputRow, PluginRow
<1>4. DeliveriesAdvance /\ InputsAdvance
  BY <1>1, Unmoved
<1> QED BY <1>1, <1>2, <1>3, <1>4, SteadyStep DEF Steady, DeliveriesAdvance, InputsAdvance

LEMMA StutterStep ==
    ASSUME IInv, UNCHANGED vars
    PROVE  IInv' /\ Careful
BY Unmoved, OutsideStep, Shapes DEF vars, store

-----------------------------------------------------------------------------
(* The context hook of a wake.                                                *)

\* The hook claims, or has claimed, attempt wake'.claim for generation g, and
\* shows it to the input or refuses.
LEMMA ShowStep ==
    ASSUME IInv, TypeOK', NEW g \in Generations, NEW d \in Deliveries,
           UNCHANGED plugin, InputsAdvance, DeliveriesAdvance, input[g].status # "none",
           wake.gen = g, wake.delivery = d, input[g].delivery = d,
           wake'.gen = g, wake'.delivery = d,
           wake'.admitted = wake.admitted, wake'.terminal = wake.terminal,
           wake'.claim = delivery'[d].attempts, wake'.claim >= 1,
           wake'.claim = wake.claim \/ (wake.claim = 0 /\ wake'.claim = delivery[d].attempts + 1),
           UNCHANGED shown \/ shown' = [shown EXCEPT ![g] = @ \cup {wake'.claim}]
    PROVE  IInv' /\ Careful
<1> USE OpenCodeAssumption DEF Generations
<1>t. /\ wake \in WakeRow /\ wake' \in WakeRow /\ shown \in [Generations -> SUBSET Nat]
      /\ delivery \in [Deliveries -> DeliveryRow] /\ delivery' \in [Deliveries -> DeliveryRow]
      /\ input \in [Generations -> InputRow]
  BY Shapes DEF DeliveriesAdvance, TypeOK, WakeRow
<1>i. RunsReached /\ GenerationFits /\ InputsReached /\ AttemptsReached /\ ClaimShown /\ ShownOnce /\ RecordTrue
  BY DEF IInv
<1>n. wake.claim \in Nat /\ wake'.claim \in Nat /\ delivery[d].attempts \in Nat
  BY <1>t DEF WakeRow, DeliveryRow
<1>s. /\ shown' \in [Generations -> SUBSET Nat]
      /\ shown[g] \subseteq {wake'.claim}
      /\ shown'[g] \subseteq {wake'.claim}
      /\ \A h \in Generations : h # g => shown'[h] = shown[h]
  <2>1. shown[g] \subseteq {wake'.claim}
    <3>1. shown[g] \subseteq {wake.claim} /\ \A k \in shown[g] : k >= 1
      BY <1>i DEF ClaimShown, AttemptsReached
    <3> QED BY <3>1
  <2> QED BY <2>1, <1>t, <1>n
\* Nobody else was shown the claim.
<1>c. \A h \in Generations : h # g /\ input[h].delivery = d => wake'.claim \notin shown[h]
  <2>1. CASE wake'.claim = wake.claim
    BY <2>1, <1>i DEF ClaimShown
  <2>2. CASE wake'.claim = delivery[d].attempts + 1
    BY <2>2, <1>i, <1>n DEF AttemptsReached
  <2> QED BY <2>1, <2>2
<1>1. RunsReached' /\ GenerationFits'
  BY <1>i DEF RunsReached, GenerationFits
<1>2. InputsReached'
  BY <1>i, <1>s DEF InputsReached, InputsAdvance
<1>3. AttemptsReached'
  <2>1. ASSUME NEW h \in Generations, NEW k \in shown'[h]
        PROVE  k \in 1 .. delivery'[input'[h].delivery].attempts
    <3>1. CASE k \in shown[h]
      <4> DEFINE e == input[h].delivery
      <4>1. e \in Deliveries /\ k \in 1 .. delivery[e].attempts
        BY <3>1, <1>i DEF InputsReached, AttemptsReached
      <4>2. delivery[e].attempts \in Nat /\ delivery'[e].attempts \in Nat
            /\ delivery'[e].attempts >= delivery[e].attempts
        BY <4>1, <1>t DEF DeliveryRow, DeliveriesAdvance
      <4>3. input'[h].delivery = e
        BY DEF InputsAdvance
      <4> HIDE DEF e
      <4> QED BY <4>1, <4>2, <4>3
    <3>2. CASE k \notin shown[h]
      <4>1. h = g /\ k = wake'.claim
        BY <3>2, <2>1, <1>s
      <4>2. input'[h].delivery = d
        BY <4>1 DEF InputsAdvance
      <4> QED BY <4>1, <4>2, <1>n
    <3> QED BY <3>1, <3>2
  <2> QED BY <2>1 DEF AttemptsReached, DeliveriesAdvance
<1>4. ClaimShown'
  BY <1>s, <1>c, <1>n DEF ClaimShown, InputsAdvance
<1>5. ShownOnce'
  <2>1. \A h \in Generations : \A j, k \in shown'[h] : j = k
    BY <1>i, <1>s DEF ShownOnce
  <2>2. ASSUME NEW h \in Generations, NEW i \in Generations, h # i, input[h].delivery = input[i].delivery
        PROVE  shown'[h] \cap shown'[i] = {}
    <3>1. CASE h # g /\ i # g
      BY <3>1, <2>2, <1>i, <1>s DEF ShownOnce
    <3>2. CASE h = g
      BY <3>2, <2>2, <1>s, <1>c
    <3>3. CASE i = g
      BY <3>3, <2>2, <1>s, <1>c
    <3> QED BY <3>1, <3>2, <3>3
  <2> QED BY <2>1, <2>2 DEF ShownOnce, InputsAdvance
<1>6. RecordTrue'
  BY <1>i DEF RecordTrue, InputsAdvance
<1>7. Careful
  BY DEF Careful, Resubmits
<1> QED BY <1>1, <1>2, <1>3, <1>4, <1>5, <1>6, <1>7, <1>s DEF IInv

\* What the hook does to the native input.
LEMMA HookedInput ==
    ASSUME IInv, NEW g \in Generations, NEW d \in Deliveries, DeliveriesAdvance,
           input[g].status \in {"queued", "running"}, Attached(g, d) \/ Refused(g)
    PROVE  InputsAdvance
<1>1. CASE Refused(g)
  <2> DEFINE r == [input[g] EXCEPT !.status = "ended"]
  <2>1. r \in InputRow /\ r.status = "ended" /\ r.delivery = input[g].delivery
        /\ input' = [input EXCEPT ![g] = r]
    BY <1>1, Shapes DEF InputRow, Refused
  <2> HIDE DEF r
  <2> QED BY <2>1, OneInput
<1>2. CASE Attached(g, d)
  <2> DEFINE a == IF delivery'[d].state = "delivered" THEN 0 ELSE delivery'[d].attempts
  <2>0. a \in Nat
    BY DEF DeliveriesAdvance, DeliveryRow
  <2>1. input' = [input EXCEPT ![g].status = "running", ![g].ack = a]
    BY <1>2 DEF Attached
  <2> HIDE DEF a
  <2> DEFINE r == [input[g] EXCEPT !.status = "running", !.ack = a]
  <2>2. r \in InputRow /\ r.status = "running" /\ r.delivery = input[g].delivery
        /\ input' = [input EXCEPT ![g] = r]
    BY <2>0, <2>1, Shapes DEF InputRow
  <2> HIDE DEF r
  <2> QED BY <2>2, OneInput
<1> QED BY <1>1, <1>2

LEMMA ContextWakeStep ==
    ASSUME IInv, NEW o \in Owners, NEW g \in Generations, ContextWake(o, g)
    PROVE  IInv' /\ Careful
<1> DEFINE d == input[g].delivery
<1> DEFINE Claims == Current(o, Request(g)) /\ ~Used(d) /\ Eligible(d)
<1> DEFINE Shows == Current(o, Request(g)) /\ (IF Used(d) THEN Reusable(d) ELSE Eligible(d))
<1>1. /\ input[g].status \in {"queued", "running"}
      /\ Claims => /\ delivery' = [delivery EXCEPT ![d].state = "claimed", ![d].leased = TRUE,
                                                   ![d].attempts = @ + 1]
                   /\ wake' = [wake EXCEPT !.claim = delivery'[d].attempts]
      /\ ~Claims => UNCHANGED <<delivery, wake>>
      /\ (Shows /\ Attached(g, d)) \/ Refused(g)
      /\ UNCHANGED <<session, home, natural, plugin>>
  BY DEF ContextWake, Hooked
<1>2. d \in Deliveries
  BY <1>1 DEF IInv, InputsReached
<1>c. Current(o, Request(g)) => wake.gen = g /\ wake.delivery = d
  BY DEF Current, Request
<1>a. delivery[d] \in DeliveryRow /\ delivery[d].attempts \in Nat
  BY <1>2, Shapes DEF DeliveryRow
<1>3. CASE Claims
  <2> DEFINE r == [delivery[d] EXCEPT !.state = "claimed", !.leased = TRUE, !.attempts = @ + 1]
  <2>0. delivery' = [delivery EXCEPT ![d] = r]
    <3>1. delivery' = [delivery EXCEPT ![d].state = "claimed", ![d].leased = TRUE,
                                       ![d].attempts = @ + 1]
      BY <1>1, <1>3
    <3> HIDE DEF d
    <3> QED BY <3>1, <1>2, Shapes
  <2>1. r \in DeliveryRow /\ r.attempts = delivery[d].attempts + 1 /\ delivery' = [delivery EXCEPT ![d] = r]
    <3> DEFINE n == delivery[d].attempts + 1
    <3>1. n \in Nat
      BY <1>a
    <3>2. r = [delivery[d] EXCEPT !.state = "claimed", !.leased = TRUE, !.attempts = n]
      BY <1>a DEF DeliveryRow
    <3> HIDE DEF d, n, r
    <3>3. r \in DeliveryRow /\ r.attempts = n
      BY <1>a, <3>1, <3>2 DEF DeliveryRow
    <3> QED BY <2>0, <3>3 DEF n
  <2> HIDE DEF r
  <2>2. DeliveriesAdvance
    <3>1. \A e \in Deliveries : delivery[e].attempts \in Nat
      BY Shapes DEF DeliveryRow
    <3>2. AttemptsReached
      BY DEF IInv
    <3>3. \A e \in Deliveries : delivery'[e] = IF e = d THEN r ELSE delivery[e]
      BY <2>1, Shapes
    <3>4. delivery' \in [Deliveries -> DeliveryRow]
      BY <2>1, Shapes
    <3> HIDE DEF d
    <3> QED BY <1>a, <2>1, <3>1, <3>2, <3>3, <3>4 DEF DeliveriesAdvance, AttemptsReached
  <2>3. delivery'[d].attempts = delivery[d].attempts + 1
    BY <1>2, <2>1, Shapes
  <2>4. /\ wake' \in WakeRow /\ wake'.gen = wake.gen /\ wake'.delivery = wake.delivery
        /\ wake'.claim = delivery'[d].attempts
        /\ wake'.admitted = wake.admitted /\ wake'.terminal = wake.terminal
    <3>1. wake' = [wake EXCEPT !.claim = delivery[d].attempts + 1]
      BY <1>1, <1>3, <2>3
    <3> HIDE DEF d
    <3>2. wake' \in WakeRow
      BY <3>1, <1>a, Shapes DEF WakeRow
    <3>3. wake'.gen = wake.gen /\ wake'.delivery = wake.delivery /\ wake'.claim = delivery[d].attempts + 1
      BY <3>1, Shapes DEF WakeRow
    <3>4. wake'.admitted = wake.admitted /\ wake'.terminal = wake.terminal
      BY <3>1, Shapes DEF WakeRow
    <3> QED BY <3>2, <3>3, <3>4, <2>3
  <2>5. wake.claim = 0
    BY <1>3 DEF Used
  <2>6. InputsAdvance
    BY <1>1, <1>2, <2>2, HookedInput
  <2>7. UNCHANGED shown \/ shown' = [shown EXCEPT ![g] = @ \cup {wake'.claim}]
    BY <1>1, <2>4 DEF Attached, Refused
  <2>8. TypeOK'
    BY <1>1, <2>2, <2>4, <2>6, Shapes
    DEF TypeOK, WakeRow, DeliveryRow, InputRow, PluginRow, DeliveriesAdvance, InputsAdvance
  <2>9. wake.gen = g /\ wake.delivery = d
    BY <1>3, <1>c
  <2> HIDE DEF d
  <2>10. wake'.claim >= 1
    BY <1>a, <2>3, <2>4
  <2>11. input[g].delivery = d
    BY DEF d
  <2> QED BY <1>1, <1>2, <2>2, <2>3, <2>4, <2>5, <2>6, <2>7, <2>8, <2>9, <2>10, <2>11, ShowStep
<1>4. CASE ~Claims
  <2>1. UNCHANGED <<delivery, wake>> /\ DeliveriesAdvance
    BY <1>1, <1>4, Unmoved
  <2>2. InputsAdvance
    BY <1>1, <1>2, <2>1, HookedInput
  <2>3. CASE Shows /\ Attached(g, d)
    <3>1. wake.gen = g /\ wake.delivery = d /\ Reusable(d)
      BY <1>4, <2>3, <1>c
    <3>2. wake.claim = delivery[d].attempts /\ delivery[d].attempts >= 1
      BY <3>1, <1>2 DEF Reusable, IInv, AttemptsReached
    <3>3. shown' = [shown EXCEPT ![g] = @ \cup {wake'.claim}]
      BY <2>1, <2>3, <3>2 DEF Attached
    <3>4. TypeOK'
      BY <1>1, <2>1, <2>2, Shapes
      DEF TypeOK, WakeRow, DeliveryRow, InputRow, PluginRow, DeliveriesAdvance, InputsAdvance
    <3>5. input[g].delivery = d
      OBVIOUS
    <3> HIDE DEF d
    <3> QED BY <1>1, <1>2, <2>1, <2>2, <3>1, <3>2, <3>3, <3>4, <3>5, ShowStep
  <2>4. CASE Refused(g)
    BY <1>1, <2>1, <2>2, <2>4, OutsideStep, Shapes DEF Refused
  <2> QED BY <1>1, <2>3, <2>4
<1> QED BY <1>3, <1>4

-----------------------------------------------------------------------------
LEMMA NextHolds == IInv /\ [Next]_vars => IInv' /\ Careful
<1> SUFFICES ASSUME IInv, [Next]_vars PROVE IInv' /\ Careful
  OBVIOUS
<1>1. CASE UNCHANGED vars
  BY <1>1, StutterStep
<1>2. CASE \E o \in Owners : Discover(o) \/ Drop(o) \/ Stop(o)
  BY <1>2, DiscoverStep, DropStep, StopStep
<1>3. CASE \E o \in Owners : Poll(o) \/ Submit(o) \/ Admit(o) \/ Finish(o)
  BY <1>3, PollStep, SubmitStep, AdmitStep, FinishStep
<1>4. CASE \E g \in Generations : Ack(g) \/ EndInput(g) \/ Compact(g)
  BY <1>4, AckStep, EndInputStep, CompactStep
<1>5. CASE \E o \in Owners, g \in Generations : ContextOrdinary(o, g) \/ ContextWake(o, g)
  BY <1>5, ContextOrdinaryStep, ContextWakeStep
<1>6. CASE \E d \in Deliveries : Send(d) \/ NaturalAck(d) \/ Expire(d) \/ ClaimLeaseEnds(d)
  BY <1>6, DeliveryTimeStep, NaturalAckStep
<1>7. CASE NaturalTurn \/ OwnerLeaseEnds \/ BackoffEnds \/ Close
  BY <1>7, NaturalTurnStep, WakeTimeStep, CloseStep
<1>8. CASE \E l \in Locations : Move(l)
  BY <1>8, MoveStep
<1> QED BY <1>1, <1>2, <1>3, <1>4, <1>5, <1>6, <1>7, <1>8 DEF Next

LEMMA Invariance == Spec => []IInv
<1>1. IInv /\ [Next]_vars => IInv'
  BY NextHolds
<1> QED BY <1>1, InitHolds, PTL DEF Spec

\* The rows the plugin API writes, and the inputs and instances it deals with,
\* have their shapes; no wake is retried beyond RetryLimit.
THEOREM TypeCorrect == Spec => []TypeOK
<1>1. IInv => TypeOK
  BY DEF IInv
<1> QED BY <1>1, Invariance, PTL

\* An admitted or terminal wake record is true of the native input of its own
\* generation, for any number of competing instances.
THEOREM RecordTrueHolds == Spec => []RecordTrue
<1>1. IInv => RecordTrue
  BY DEF IInv
<1> QED BY <1>1, Invariance, PTL

\* relay_opencode_wake and relay_turn show an input one attempt of its delivery,
\* and never the same attempt to two inputs.
THEOREM OneAttemptHolds == Spec => []OneAttempt
<1>1. ASSUME IInv PROVE OneAttempt
  <2>1. ASSUME NEW g \in Generations PROVE Cardinality(shown[g]) <= 1
    <3>1. CASE shown[g] = {}
      BY <3>1, FS_EmptySet
    <3>2. CASE shown[g] # {}
      <4>1. PICK k : shown[g] = {k}
        BY <3>2, <1>1 DEF IInv, ShownOnce
      <4>2. Cardinality({k}) = 1
        BY FS_Singleton
      <4> QED BY <4>1, <4>2
    <3> QED BY <3>1, <3>2
  <2> QED BY <2>1, <1>1 DEF OneAttempt, IInv, ShownOnce
<1> QED BY <1>1, Invariance, PTL

\* A delivery gets a second native input only when its first one has ended.
THEOREM NotResubmittedHolds == Spec => NotResubmitted
<1>1. IInv /\ [Next]_vars =>
        [wake.delivery # None /\ wake'.delivery = wake.delivery /\ wake'.gen # wake.gen
            => input[wake.gen].status = "ended"]_vars
  BY NextHolds DEF Careful, Resubmits
<1> QED BY <1>1, Invariance, PTL DEF Spec, NotResubmitted

=============================================================================
