------------------------ MODULE VectorRebuildProofs ------------------------
(***************************************************************************)
(* TypeOK, SwapGuarded and Backed of VectorRebuild for any rows, batches   *)
(* and any number of requests, crashes, changes and exceptions.            *)
(*                                                                         *)
(* What makes the induction work is what is still to be done: in every     *)
(* phase the plan is what remains of one of five file plans, and how much  *)
(* of it remains says which files already have their new content.  The     *)
(* other thread, a request, has what remains of a save of the live index.  *)
(***************************************************************************)
EXTENDS VectorRebuild, TLAPS, FiniteSetTheorems, SequenceTheorems, WellFoundedInduction

-----------------------------------------------------------------------------
(* Sets of ids. *)

\* Sets of row ids are finite sets of numbers.
LEMMA IdSets ==
    ASSUME NEW S \in SUBSET Ids
    PROVE  /\ IsFiniteSet(S) /\ Cardinality(S) \in Nat /\ S \subseteq Nat
           /\ Cardinality(S) = 0 <=> S = {}
<1>1. IsFiniteSet(S) /\ S \subseteq Nat
  BY VectorAssumption, FS_Subset
<1> QED BY <1>1, FS_CardinalityType, FS_EmptySet

\* A finite set of numbers has a largest element: of its upper parts one is
\* minimal, and that one begins with it.
LEMMA LargestExists ==
    ASSUME NEW S \in SUBSET Ids, S # {}
    PROVE  \E i \in S : \A j \in S : j <= i
<1> DEFINE From(i) == {j \in S : i <= j}
           Parts == {U \in SUBSET S : \E i \in S : U = From(i)}
<1>1. S \subseteq Nat /\ IsFiniteSet(S)
  BY IdSets
<1>2. Parts \subseteq FiniteSubsetsOf(S)
  BY <1>1, FS_Subset DEF FiniteSubsetsOf
<1>3. Parts # {}
  <2>1. PICK i \in S : TRUE
    OBVIOUS
  <2>2. From(i) \in SUBSET S
    OBVIOUS
  <2> QED BY <2>1, <2>2
<1>4. PICK U \in Parts : \A T \in Parts : <<T, U>> \notin StrictSubsetOrdering(S)
  BY <1>2, <1>3, WFMin, FS_StrictSubsetOrderingWellFounded, Zenon
<1>5. PICK i \in S : U = From(i)
  OBVIOUS
<1>6. ASSUME NEW j \in S, i < j PROVE FALSE
  <2>1. From(j) \in Parts
    OBVIOUS
  <2>2. From(j) \subseteq U /\ i \in U /\ i \notin From(j)
    <3>1. i \in Nat /\ j \in Nat
      BY <1>1
    <3>2. \A n \in Nat : j <= n => i <= n
      BY <3>1, <1>6
    <3>3. i <= i /\ ~(j <= i)
      BY <3>1, <1>6
    <3> QED BY <1>1, <1>5, <3>2, <3>3
  <2>3. <<From(j), U>> \in StrictSubsetOrdering(S)
    BY <2>2 DEF StrictSubsetOrdering
  <2> QED BY <1>4, <2>1, <2>3
<1>7. \A j \in S : j <= i
  BY <1>1, <1>6
<1> QED BY <1>7

\* The last id of a page is one of its ids.
LEMMA LastIn ==
    ASSUME NEW S \in SUBSET Ids, S # {}
    PROVE  Last(S) \in S
BY LargestExists DEF Last

\* A page of rows is made of rows.
LEMMA PageIn == \A S, from, n : Page(S, from, n) \subseteq S
BY DEF Page

-----------------------------------------------------------------------------
(* Plans. *)

\* What is left of a plan after its first k operations.
Rest(s, k) == SubSeq(s, k + 1, Len(s))

\* Plans that are put together from parts, written out.
LEMMA Join31 ==
    ASSUME NEW a, NEW b, NEW c, NEW d
    PROVE  <<a, b, c>> \o <<d>> = <<a, b, c, d>>
<1> DEFINE S == {a, b, c, d}
           s == <<a, b, c>>
           t == <<d>>
           u == <<a, b, c, d>>
<1>1. /\ s \in Seq(S) /\ t \in Seq(S) /\ u \in Seq(S)
      /\ Len(s) = 3 /\ Len(t) = 1 /\ Len(u) = 4
  OBVIOUS
<1>2. \A n \in 1..4 : (s \o t)[n] = u[n]
  BY <1>1
<1>3. (s \o t) \in Seq(S) /\ Len(s \o t) = 4
  BY <1>1
<1> QED BY <1>1, <1>2, <1>3, SeqEqual

LEMMA Join13 ==
    ASSUME NEW a, NEW b, NEW c, NEW d
    PROVE  <<a>> \o <<b, c, d>> = <<a, b, c, d>>
<1> DEFINE S == {a, b, c, d}
           s == <<a>>
           t == <<b, c, d>>
           u == <<a, b, c, d>>
<1>1. /\ s \in Seq(S) /\ t \in Seq(S) /\ u \in Seq(S)
      /\ Len(s) = 1 /\ Len(t) = 3 /\ Len(u) = 4
  OBVIOUS
<1>2. \A n \in 1..4 : (s \o t)[n] = u[n]
  BY <1>1
<1>3. (s \o t) \in Seq(S) /\ Len(s \o t) = 4
  BY <1>1
<1> QED BY <1>1, <1>2, <1>3, SeqEqual

LEMMA Join33 ==
    ASSUME NEW a, NEW b, NEW c, NEW d, NEW e, NEW f
    PROVE  <<a, b, c>> \o <<d, e, f>> = <<a, b, c, d, e, f>>
<1> DEFINE S == {a, b, c, d, e, f}
           s == <<a, b, c>>
           t == <<d, e, f>>
           u == <<a, b, c, d, e, f>>
<1>1. /\ s \in Seq(S) /\ t \in Seq(S) /\ u \in Seq(S)
      /\ Len(s) = 3 /\ Len(t) = 3 /\ Len(u) = 6
  OBVIOUS
<1>2. \A n \in 1..6 : (s \o t)[n] = u[n]
  BY <1>1
<1>3. (s \o t) \in Seq(S) /\ Len(s \o t) = 6
  BY <1>1
<1> QED BY <1>1, <1>2, <1>3, SeqEqual

LEMMA Join63 ==
    ASSUME NEW a, NEW b, NEW c, NEW d, NEW e, NEW f, NEW g, NEW h, NEW i
    PROVE  <<a, b, c, d, e, f>> \o <<g, h, i>> = <<a, b, c, d, e, f, g, h, i>>
<1> DEFINE S == {a, b, c, d, e, f, g, h, i}
           s == <<a, b, c, d, e, f>>
           t == <<g, h, i>>
           u == <<a, b, c, d, e, f, g, h, i>>
<1>1. /\ s \in Seq(S) /\ t \in Seq(S) /\ u \in Seq(S)
      /\ Len(s) = 6 /\ Len(t) = 3 /\ Len(u) = 9
  OBVIOUS
<1>2. \A n \in 1..9 : (s \o t)[n] = u[n]
  BY <1>1
<1>3. (s \o t) \in Seq(S) /\ Len(s \o t) = 9
  BY <1>1
<1> QED BY <1>1, <1>2, <1>3, SeqEqual

LEMMA Join39 ==
    ASSUME NEW a, NEW b, NEW c, NEW d, NEW e, NEW f, NEW g, NEW h, NEW i, NEW j, NEW k, NEW l
    PROVE  <<a, b, c>> \o <<d, e, f, g, h, i, j, k, l>> = <<a, b, c, d, e, f, g, h, i, j, k, l>>
<1> DEFINE S == {a, b, c, d, e, f, g, h, i, j, k, l}
           s == <<a, b, c>>
           t == <<d, e, f, g, h, i, j, k, l>>
           u == <<a, b, c, d, e, f, g, h, i, j, k, l>>
<1>1. /\ s \in Seq(S) /\ t \in Seq(S) /\ u \in Seq(S)
      /\ Len(s) = 3 /\ Len(t) = 9 /\ Len(u) = 12
  OBVIOUS
<1>2. \A n \in 1..12 : (s \o t)[n] = u[n]
  BY <1>1
<1>3. (s \o t) \in Seq(S) /\ Len(s \o t) = 12
  BY <1>1
<1> QED BY <1>1, <1>2, <1>3, SeqEqual

\* Before the first operation all of a plan remains, after the last nothing.
LEMMA RestWhole ==
    ASSUME NEW S, NEW s \in Seq(S)
    PROVE  Rest(s, 0) = s /\ Rest(s, Len(s)) = <<>>
BY SeqEqual DEF Rest

\* Before the last operation it alone remains.
LEMMA RestLast ==
    ASSUME NEW S, NEW s \in Seq(S), NEW n \in Nat, n = Len(s) - 1
    PROVE  Rest(s, n) = <<s[n + 1]>>
<1>1. Rest(s, n) \in Seq(S) /\ Len(Rest(s, n)) = 1 /\ Rest(s, n)[1] = s[n + 1]
  BY DEF Rest
<1>2. <<s[n + 1]>> \in Seq(S) /\ Len(<<s[n + 1]>>) = 1 /\ <<s[n + 1]>>[1] = s[n + 1]
  OBVIOUS
<1> QED BY <1>1, <1>2, SeqEqual

\* Performing the first operation of what is left.
LEMMA RestStep ==
    ASSUME NEW S, NEW s \in Seq(S), NEW k \in 0 .. Len(s) - 1
    PROVE  /\ Rest(s, k) # <<>> /\ Head(Rest(s, k)) = s[k + 1]
           /\ Tail(Rest(s, k)) = Rest(s, k + 1)
<1>1. /\ Rest(s, k) \in Seq(S) /\ Len(Rest(s, k)) = Len(s) - k
      /\ \A i \in 1 .. Len(s) - k : Rest(s, k)[i] = s[k + i]
  BY DEF Rest
<1>2. /\ Rest(s, k + 1) \in Seq(S) /\ Len(Rest(s, k + 1)) = Len(s) - (k + 1)
      /\ \A i \in 1 .. Len(s) - (k + 1) : Rest(s, k + 1)[i] = s[k + 1 + i]
  BY DEF Rest
<1>3. Rest(s, k) # <<>> /\ Head(Rest(s, k)) = s[k + 1]
  BY <1>1
<1>4. /\ Tail(Rest(s, k)) \in Seq(S) /\ Len(Tail(Rest(s, k))) = Len(s) - (k + 1)
      /\ \A i \in 1 .. Len(s) - (k + 1) : Tail(Rest(s, k))[i] = s[k + (i + 1)]
  BY <1>1, <1>3
<1>5. \A i \in 1 .. Len(s) - (k + 1) : Tail(Rest(s, k))[i] = Rest(s, k + 1)[i]
  BY <1>2, <1>4
<1>6. Tail(Rest(s, k)) = Rest(s, k + 1)
  BY <1>2, <1>4, <1>5, SeqEqual
<1> QED BY <1>3, <1>6

\* One step of a plan, of which k operations have been performed.
LEMMA PlanStep ==
    ASSUME NEW S, NEW s \in Seq(S), NEW k \in 0 .. Len(s) - 1, plan = Rest(s, k), Perform
    PROVE  /\ FileStep(s[k + 1], served) /\ plan' = Rest(s, k + 1)
           /\ k = Len(s) - 1 => plan' = <<>>
           /\ leftover' = (leftover /\ ~EndsShadowSave(s[k + 1]))
<1>1. FileStep(Head(plan), served) /\ plan' = Tail(plan) /\ leftover' = (leftover /\ ~EndsShadowSave(Head(plan)))
  BY DEF Perform
<1>2. Head(plan) = s[k + 1] /\ Tail(plan) = Rest(s, k + 1)
  BY RestStep
<1>3. k = Len(s) - 1 => Rest(s, k + 1) = <<>>
  BY RestWhole
<1> QED BY <1>1, <1>2, <1>3

\* What Perform does to a plan of three operations, to its last one included.
LEMMA ThreeSteps ==
    ASSUME NEW a, NEW b, NEW c, NEW s, s = <<a, b, c>>
    PROVE  /\ Rest(s, 0) = s /\ Rest(s, 3) = <<>>
           /\ \A k \in 0..2 : plan = Rest(s, k) /\ Perform =>
                /\ FileStep(s[k + 1], served) /\ plan' = Rest(s, k + 1) /\ (k = 2 => plan' = <<>>)
                /\ leftover' = (leftover /\ ~EndsShadowSave(s[k + 1]))
<1>1. s \in Seq({a, b, c}) /\ Len(s) = 3
  OBVIOUS
<1>2. Rest(s, 0) = s /\ Rest(s, Len(s)) = <<>>
  BY <1>1, RestWhole
<1>3. ASSUME NEW k \in 0..2, plan = Rest(s, k), Perform
      PROVE  /\ FileStep(s[k + 1], served) /\ plan' = Rest(s, k + 1) /\ (k = 2 => plan' = <<>>)
             /\ leftover' = (leftover /\ ~EndsShadowSave(s[k + 1]))
  <2>1. k \in 0 .. Len(s) - 1
    BY <1>1
  <2>2. /\ FileStep(s[k + 1], served) /\ plan' = Rest(s, k + 1) /\ (k = Len(s) - 1 => plan' = <<>>)
        /\ leftover' = (leftover /\ ~EndsShadowSave(s[k + 1]))
    BY <1>1, <1>3, <2>1, PlanStep
  <2> QED BY <1>1, <2>2
<1> QED BY <1>1, <1>2, <1>3

\* The same for a plan of four.
LEMMA FourSteps ==
    ASSUME NEW a, NEW b, NEW c, NEW d, NEW s, s = <<a, b, c, d>>
    PROVE  /\ Rest(s, 0) = s /\ Rest(s, 4) = <<>>
           /\ \A k \in 0..3 : plan = Rest(s, k) /\ Perform =>
                /\ FileStep(s[k + 1], served) /\ plan' = Rest(s, k + 1) /\ (k = 3 => plan' = <<>>)
                /\ leftover' = (leftover /\ ~EndsShadowSave(s[k + 1]))
<1>1. s \in Seq({a, b, c, d}) /\ Len(s) = 4
  OBVIOUS
<1>2. Rest(s, 0) = s /\ Rest(s, Len(s)) = <<>>
  BY <1>1, RestWhole
<1>3. ASSUME NEW k \in 0..3, plan = Rest(s, k), Perform
      PROVE  /\ FileStep(s[k + 1], served) /\ plan' = Rest(s, k + 1) /\ (k = 3 => plan' = <<>>)
             /\ leftover' = (leftover /\ ~EndsShadowSave(s[k + 1]))
  <2>1. k \in 0 .. Len(s) - 1
    BY <1>1
  <2>2. /\ FileStep(s[k + 1], served) /\ plan' = Rest(s, k + 1) /\ (k = Len(s) - 1 => plan' = <<>>)
        /\ leftover' = (leftover /\ ~EndsShadowSave(s[k + 1]))
    BY <1>1, <1>3, <2>1, PlanStep
  <2> QED BY <1>1, <2>2
<1> QED BY <1>1, <1>2, <1>3

\* The same for a plan of twelve, the swap.
LEMMA TwelveSteps ==
    ASSUME NEW a, NEW b, NEW c, NEW d, NEW e, NEW f, NEW g, NEW h, NEW i,
           NEW j, NEW m, NEW n, NEW s, s = <<a, b, c, d, e, f, g, h, i, j, m, n>>
    PROVE  /\ Rest(s, 0) = s /\ Rest(s, 12) = <<>>
           /\ \A k \in 0..11 : plan = Rest(s, k) /\ Perform =>
                /\ FileStep(s[k + 1], served) /\ plan' = Rest(s, k + 1) /\ (k = 11 => plan' = <<>>)
                /\ leftover' = (leftover /\ ~EndsShadowSave(s[k + 1]))
<1>1. s \in Seq({a, b, c, d, e, f, g, h, i, j, m, n}) /\ Len(s) = 12
  OBVIOUS
<1>2. Rest(s, 0) = s /\ Rest(s, Len(s)) = <<>>
  BY <1>1, RestWhole
<1>3. ASSUME NEW k \in 0..11, plan = Rest(s, k), Perform
      PROVE  /\ FileStep(s[k + 1], served) /\ plan' = Rest(s, k + 1) /\ (k = 11 => plan' = <<>>)
             /\ leftover' = (leftover /\ ~EndsShadowSave(s[k + 1]))
  <2>1. k \in 0 .. Len(s) - 1
    BY <1>1
  <2>2. /\ FileStep(s[k + 1], served) /\ plan' = Rest(s, k + 1) /\ (k = Len(s) - 1 => plan' = <<>>)
        /\ leftover' = (leftover /\ ~EndsShadowSave(s[k + 1]))
    BY <1>1, <1>3, <2>1, PlanStep
  <2> QED BY <1>1, <2>2
<1> QED BY <1>1, <1>2, <1>3

\* The last operation of a plan of four.
LEMMA LastOfFour ==
    ASSUME NEW a, NEW b, NEW c, NEW d
    PROVE  Rest(<<a, b, c, d>>, 3) = <<d>>
<1> DEFINE s == <<a, b, c, d>>
<1>1. s \in Seq({a, b, c, d}) /\ Len(s) = 4 /\ s[4] = d
  OBVIOUS
<1>2. Rest(s, 3) = <<s[4]>>
  <2> HIDE DEF s
  <2>1. \A n \in Nat : n = Len(s) - 1 => Rest(s, n) = <<s[n + 1]>>
    BY <1>1, RestLast
  <2>2. Rest(s, 3) = <<s[3 + 1]>>
    BY <1>1, <2>1
  <2> QED BY <2>2
<1> QED BY <1>1, <1>2

-----------------------------------------------------------------------------
(* The inductive invariant of the files. *)

File == [bin : {Absent} \cup SUBSET Ids, idmap : {Absent} \cup SUBSET Ids,
         meta : {Absent} \cup Nat]
FilesType == files \in [Paths -> File]
HistoryType == raced \in BOOLEAN /\ leftover \in BOOLEAN /\ hollow \in BOOLEAN

NoShadow == files.shadow.bin = Absent /\ files.shadow.idmap = Absent /\ files.shadow.meta = Absent
LiveThere == files.live.bin # Absent /\ files.live.idmap # Absent /\ files.live.meta # Absent

\* The five plans.
ShadowSave == <<PutState(checkpoint)>> \o SavePlan("shadow", shadow)
Swapping == SavePlan("shadow", shadow) \o SwapPlan
Clearing == UnlinkPlan("shadow") \o <<PutState(Absent)>>
GivingUp(x, c) == SavePlan("shadow", x) \o <<PutState(c)>>

\* What remains of a save of the live index.
SaveTails == {SaveLive, <<Save("idmap"), Save("meta")>>, <<Save("meta")>>}

\* The served index is being saved.
SavingLive == served # Absent /\ plan \in SaveTails

\* Recovery only unlinks, and shadow files only when there are none.
DropPaths == IF state = Absent THEN {"old", "shadow"} ELSE {"old"}
Dropping == plan \in Seq({Unlink(p, n) : p \in DropPaths, n \in Names})

SavingShadow(k) ==
    /\ plan = Rest(ShadowSave, k)
    /\ k >= 1 => state # Absent
    /\ k >= 2 => files.shadow.bin = shadow.vecs
    /\ k >= 3 => files.shadow.idmap = shadow.ids

\* Every file of the shadow index is where the swap has brought it, and stays
\* there unless a request saves the index meanwhile.
Swap(k) ==
    /\ plan = Rest(Swapping, k)
    /\ state # Absent
    /\ k \in 1..6 => files.shadow.bin = shadow.vecs
    /\ k \in 2..8 => files.shadow.idmap = shadow.ids
    /\ k \in 3..7 => files.shadow.meta = Saved(shadow).meta
    /\ k >= 7 => /\ files.live.bin # Absent /\ files.shadow.bin = Absent
                 /\ ~raced => files.live.bin = shadow.vecs
    /\ k >= 8 => /\ files.live.meta # Absent /\ files.shadow.meta = Absent
                 /\ ~raced => files.live.meta = Saved(shadow).meta
    /\ k >= 9 => /\ files.live.idmap # Absent /\ files.shadow.idmap = Absent
                 /\ ~raced => files.live.idmap = shadow.ids

Clear(k) == plan = Rest(Clearing, k) /\ NoShadow /\ LiveThere

\* An invalid shadow index is saved before its rebuild is marked failed; a
\* rebuild that raised is only marked.
GiveUp(x, c, k) ==
    /\ plan = Rest(GivingUp(x, c), k)
    /\ k < 3 => state # Absent /\ x.ids = {}
    /\ k = 2 => files.shadow.idmap = {}

PlanOK ==
    /\ phase = "down" => plan = <<>>
    /\ phase = "opening" => SavingLive \/ plan = <<>>
    /\ phase = "recover" => SavingLive \/ (plan = <<>> /\ files.live.meta # Absent)
    /\ phase = "begin" => Dropping
    /\ phase = "rebuild" => \/ plan = <<>> /\ state # Absent
                            \/ plan = <<PutState(checkpoint)>>
                            \/ \E k \in 0..3 : SavingShadow(k)
    /\ phase = "swap" => \E k \in 0..12 : Swap(k)
    /\ phase = "serving" => \/ plan = <<>>
                            \/ SavingLive
                            \/ \E k \in 0..3 : Clear(k)
                            \/ \E x \in Index, c \in Checkpoint, k \in 0..3 : GiveUp(x, c, k)

ShadowOrder ==
    /\ state = Absent => NoShadow
    /\ files.shadow.meta # Absent => files.shadow.idmap # Absent

\* A request writes only what is served, and unless it raced neither in a swap
\* nor while reconciliation saves.
Alone == /\ replaced = Absent
         /\ saving # <<>> => phase # "swap" /\ (phase = "serving" => plan \notin SaveTails)
RequestOK ==
    /\ saving \in SaveTails \cup {<<>>}
    /\ embedding # 0 => saving = <<>>
    /\ embedding # 0 \/ saving # <<>> =>
        served # Absent /\ phase \in {"begin", "rebuild", "swap", "serving"}
    /\ ~raced => Alone

IInv == TypeOK /\ FilesType /\ HistoryType /\ PlanOK /\ RequestOK /\ ShadowOrder /\ SwapGuarded

-----------------------------------------------------------------------------
(* Operations on indexes and files. *)

\* A missing file or index is none of the values it may have.
LEMMA AbsentIsNone ==
    /\ \A S \in SUBSET Ids : S # Absent
    /\ \A n \in Nat : n # Absent
    /\ \A x \in Index : x # Absent
    /\ \A c \in Checkpoint : c # Absent
BY AbsentAssumption

\* What is saved to a file is a content that file may have.
LEMMA SavedType ==
    ASSUME NEW x \in Index
    PROVE  /\ Saved(x).bin = x.vecs /\ Saved(x).idmap = x.ids
           /\ Saved(x).meta = Cardinality(x.ids)
           /\ x.vecs \in SUBSET Ids /\ x.ids \in SUBSET Ids /\ Saved(x).meta \in Nat
<1>1. x.vecs \in SUBSET Ids /\ x.ids \in SUBSET Ids
  BY DEF Index
<1>2. Cardinality(x.ids) \in Nat
  BY <1>1, IdSets
<1> QED BY <1>1, <1>2 DEF Saved

\* A new index is an index.
LEMMA EmptyType == Empty \in Index /\ Empty.ids = {} /\ Empty.vecs = {}
BY DEF Empty, Index

\* So is one to which rows were added,
LEMMA AddType ==
    ASSUME NEW x \in Index, NEW new \in SUBSET Ids
    PROVE  /\ Add(x, new) \in Index
           /\ Add(x, new).ids = x.ids \cup new
           /\ Add(x, new).vecs = x.vecs \cup new
BY DEF Add, Index

\* one from which rows were removed,
LEMMA RemoveType ==
    ASSUME NEW x \in Index, NEW gone
    PROVE  /\ Remove(x, gone) \in Index
           /\ Remove(x, gone).ids = x.ids \ gone
           /\ Remove(x, gone).vecs = x.vecs \ gone
BY DEF Remove, Index

\* and what load returns.
LEMMA LoadedType ==
    ASSUME NEW f \in File, Complete(f), f.idmap # Absent
    PROVE  /\ Loaded(f) \in Index
           /\ Loaded(f).ids = f.idmap
           /\ f.meta > 0 => Loaded(f).vecs = f.bin \cap f.idmap
<1>1. f.idmap \in SUBSET Ids /\ f.bin \in SUBSET Ids /\ f.meta \in Nat
  BY DEF File, Complete
<1> QED BY <1>1 DEF Loaded, Index, Complete

\* Writing or removing the state file touches no index file.
LEMMA StateEffect ==
    ASSUME NEW c, FileStep(PutState(c), served)
    PROVE  state' = c /\ files' = files
BY DEF FileStep, PutState

\* One file gets a new content, the others keep theirs.
FileSet(n) == IF n = "bin" THEN {Absent} \cup SUBSET Ids
              ELSE IF n = "idmap" THEN {Absent} \cup SUBSET Ids
              ELSE {Absent} \cup Nat

LEMMA OneFile ==
    ASSUME FilesType, NEW p \in Paths, NEW n \in Names, NEW v \in FileSet(n),
           files' = [files EXCEPT ![p][n] = v]
    PROVE  /\ FilesType'
           /\ files'[p][n] = v
           /\ \A m \in Names : m # n => files'[p][m] = files[p][m]
           /\ \A q \in Paths : q # p => files'[q] = files[q]
<1>1. n = "bin" \/ n = "idmap" \/ n = "meta"
  BY DEF Names
<1>2. files[p] \in File
  BY DEF FilesType
<1>3. [files[p] EXCEPT ![n] = v] \in File
  <2>1. CASE n = "bin"
    BY <1>2, <2>1 DEF File, FileSet
  <2>2. CASE n = "idmap"
    BY <1>2, <2>2 DEF File, FileSet
  <2>3. CASE n = "meta"
    BY <1>2, <2>3 DEF File, FileSet
  <2> QED BY <1>1, <2>1, <2>2, <2>3
<1>4. FilesType'
  BY <1>3 DEF FilesType
<1>5. files'[p] = [files[p] EXCEPT ![n] = v] /\ \A q \in Paths : q # p => files'[q] = files[q]
  BY DEF FilesType
<1>6. files'[p][n] = v /\ \A m \in Names : m # n => files'[p][m] = files[p][m]
  BY <1>1, <1>2, <1>5 DEF File, Names
<1> QED BY <1>4, <1>5, <1>6

\* The three files a save writes, one at a time.
LEMMA PutBin ==
    ASSUME FilesType, NEW p \in Paths, NEW x \in Index, FileStep(Put(p, "bin", x), served)
    PROVE  /\ FilesType' /\ state' = state
           /\ files'[p].bin = x.vecs
           /\ files'[p].idmap = files[p].idmap /\ files'[p].meta = files[p].meta
           /\ \A q \in Paths : q # p => files'[q] = files[q]
<1>1. state' = state /\ files' = [files EXCEPT ![p]["bin"] = Saved(x)["bin"]]
  BY DEF FileStep, Put
<1>2. Saved(x)["bin"] = x.vecs /\ Saved(x)["bin"] \in FileSet("bin")
  BY SavedType DEF Saved, FileSet
<1>3. /\ FilesType' /\ files'[p]["bin"] = Saved(x)["bin"]
      /\ \A m \in Names : m # "bin" => files'[p][m] = files[p][m]
      /\ \A q \in Paths : q # p => files'[q] = files[q]
  BY <1>1, <1>2, OneFile DEF Names
<1> QED BY <1>1, <1>2, <1>3 DEF Names

LEMMA PutIdMap ==
    ASSUME FilesType, NEW p \in Paths, NEW x \in Index, FileStep(Put(p, "idmap", x), served)
    PROVE  /\ FilesType' /\ state' = state
           /\ files'[p].idmap = x.ids
           /\ files'[p].bin = files[p].bin /\ files'[p].meta = files[p].meta
           /\ \A q \in Paths : q # p => files'[q] = files[q]
<1>1. state' = state /\ files' = [files EXCEPT ![p]["idmap"] = Saved(x)["idmap"]]
  BY DEF FileStep, Put
<1>2. Saved(x)["idmap"] = x.ids /\ Saved(x)["idmap"] \in FileSet("idmap")
  BY SavedType DEF Saved, FileSet
<1>3. /\ FilesType' /\ files'[p]["idmap"] = Saved(x)["idmap"]
      /\ \A m \in Names : m # "idmap" => files'[p][m] = files[p][m]
      /\ \A q \in Paths : q # p => files'[q] = files[q]
  BY <1>1, <1>2, OneFile DEF Names
<1> QED BY <1>1, <1>2, <1>3 DEF Names

LEMMA PutMeta ==
    ASSUME FilesType, NEW p \in Paths, NEW x \in Index, FileStep(Put(p, "meta", x), served)
    PROVE  /\ FilesType' /\ state' = state
           /\ files'[p].meta = Saved(x).meta
           /\ files'[p].bin = files[p].bin /\ files'[p].idmap = files[p].idmap
           /\ \A q \in Paths : q # p => files'[q] = files[q]
<1>1. state' = state /\ files' = [files EXCEPT ![p]["meta"] = Saved(x)["meta"]]
  BY DEF FileStep, Put
<1>2. Saved(x)["meta"] = Saved(x).meta /\ Saved(x)["meta"] \in FileSet("meta")
  BY SavedType DEF Saved, FileSet
<1>3. /\ FilesType' /\ files'[p]["meta"] = Saved(x)["meta"]
      /\ \A m \in Names : m # "meta" => files'[p][m] = files[p][m]
      /\ \A q \in Paths : q # p => files'[q] = files[q]
  BY <1>1, <1>2, OneFile DEF Names
<1> QED BY <1>1, <1>2, <1>3 DEF Names

\* Removing one file of a set.
LEMMA UnlinkOne ==
    ASSUME FilesType, NEW p \in Paths, NEW n \in Names, FileStep(Unlink(p, n), served)
    PROVE  /\ FilesType' /\ state' = state
           /\ files'[p][n] = Absent
           /\ \A m \in Names : m # n => files'[p][m] = files[p][m]
           /\ \A q \in Paths : q # p => files'[q] = files[q]
<1>1. state' = state /\ files' = [files EXCEPT ![p][n] = Absent]
  BY DEF FileStep, Unlink
<1>2. Absent \in FileSet(n)
  BY DEF FileSet
<1> QED BY <1>1, <1>2, OneFile

\* Renaming one file from a set to another.
LEMMA MoveOne ==
    ASSUME FilesType, NEW p \in Paths, NEW q \in Paths, p # q, NEW n \in Names,
           FileStep(Move(p, q, n), served)
    PROVE  /\ FilesType' /\ state' = state
           /\ files'[p][n] = Absent
           /\ files[p][n] # Absent => files'[q][n] = files[p][n]
           /\ \A m \in Names : m # n => files'[p][m] = files[p][m] /\ files'[q][m] = files[q][m]
           /\ \A r \in Paths : r # p /\ r # q => files'[r] = files[r]
<1>1. /\ state' = state
      /\ files' = IF files[p][n] = Absent THEN files
                  ELSE [files EXCEPT ![q][n] = files[p][n], ![p][n] = Absent]
  BY DEF FileStep, Move
<1>2. CASE files[p][n] = Absent
  BY <1>1, <1>2 DEF FilesType
<1>3. CASE files[p][n] # Absent
  <2> DEFINE g == [files EXCEPT ![q][n] = files[p][n]]
  <2>1. n = "bin" \/ n = "idmap" \/ n = "meta"
    BY DEF Names
  <2>2. files[p] \in File /\ files[q] \in File
    BY DEF FilesType
  <2>3. files[p][n] \in FileSet(n) /\ Absent \in FileSet(n)
    BY <2>1, <2>2 DEF File, FileSet
  <2>4. [files[p] EXCEPT ![n] = Absent] \in File /\ [files[q] EXCEPT ![n] = files[p][n]] \in File
    <3>1. CASE n = "bin"
      BY <2>2, <2>3, <3>1 DEF File, FileSet
    <3>2. CASE n = "idmap"
      BY <2>2, <2>3, <3>2 DEF File, FileSet
    <3>3. CASE n = "meta"
      BY <2>2, <2>3, <3>3 DEF File, FileSet
    <3> QED BY <2>1, <3>1, <3>2, <3>3
  <2>5. /\ files' \in [Paths -> File]
        /\ files'[q] = [files[q] EXCEPT ![n] = files[p][n]]
        /\ files'[p] = [files[p] EXCEPT ![n] = Absent]
        /\ \A r \in Paths : r # p /\ r # q => files'[r] = files[r]
    BY <1>1, <1>3, <2>4 DEF FilesType
  <2>6. DOMAIN files[p] = Names /\ DOMAIN files[q] = Names
    BY <2>2 DEF File, Names
  <2> QED BY <1>1, <1>3, <2>5, <2>6 DEF FilesType
<1> QED BY <1>2, <1>3

\* Only the metadata of the shadow index ends a save of it.
LEMMA EndsSave ==
    /\ \A p, n, x : EndsShadowSave(Put(p, n, x)) <=> p = "shadow" /\ n = "meta"
    /\ \A p, n : ~EndsShadowSave(Unlink(p, n))
    /\ \A p, q, n : ~EndsShadowSave(Move(p, q, n))
    /\ \A c : ~EndsShadowSave(PutState(c))
BY DEF EndsShadowSave, Put, Unlink, Move, PutState

-----------------------------------------------------------------------------
(* One step of each plan. *)

Kept == UNCHANGED <<entries, deleted, phase, served, shadow, checkpoint, request, raced, hollow>>

\* A file operation changes no row, no index in memory and no phase.
LEMMA PerformKeeps == Perform => Kept
BY DEF Perform, Kept, rows, rebuild

\* What is left of a save, and what is left of it then.
LEMMA SaveShapes ==
    /\ \A s \in SaveTails :
        \/ s = SaveLive /\ Head(s) = Save("bin") /\ Tail(s) = <<Save("idmap"), Save("meta")>>
        \/ s = <<Save("idmap"), Save("meta")>> /\ Head(s) = Save("idmap") /\ Tail(s) = <<Save("meta")>>
        \/ s = <<Save("meta")>> /\ Head(s) = Save("meta") /\ Tail(s) = <<>>
    /\ \A s \in SaveTails :
        /\ s # <<>> /\ Head(s).op = "save" /\ Tail(s) \in SaveTails \cup {<<>>}
        /\ s[Len(s)] = Save("meta")
    /\ \A n : Save(n).op = "save" /\ Save(n).name = n
<1>1. /\ Tail(SaveLive) = <<Save("idmap"), Save("meta")>> /\ Head(SaveLive) = Save("bin")
      /\ SaveLive # <<>> /\ SaveLive[Len(SaveLive)] = Save("meta")
  BY DEF SaveLive
<1>2. ASSUME NEW a, NEW b
      PROVE  Tail(<<a, b>>) = <<b>> /\ Head(<<a, b>>) = a /\ <<a, b>> # <<>> /\ <<a, b>>[Len(<<a, b>>)] = b
  OBVIOUS
<1>3. ASSUME NEW a PROVE Tail(<<a>>) = <<>> /\ Head(<<a>>) = a /\ <<a>> # <<>> /\ <<a>>[Len(<<a>>)] = a
  OBVIOUS
<1>4. \A n : Save(n).op = "save" /\ Save(n).name = n
  BY DEF Save
<1> QED BY <1>1, <1>2, <1>3, <1>4 DEF SaveTails

\* One file of the live index is written from the index x.
LEMMA SaveOne ==
    ASSUME FilesType, NEW x \in Index, NEW n \in Names, FileStep(Save(n), x)
    PROVE  /\ FilesType' /\ state' = state
           /\ files'.live[n] = Saved(x)[n] /\ files'.live[n] # Absent
           /\ \A m \in Names : m # n => files'.live[m] = files.live[m]
           /\ files'.shadow = files.shadow /\ files'.old = files.old
<1>1. state' = state /\ files' = [files EXCEPT !["live"][n] = Saved(x)[n]]
  BY DEF FileStep, Save
<1>2. Saved(x)[n] \in FileSet(n) /\ Saved(x)[n] # Absent
  <2>1. /\ Saved(x).bin \in SUBSET Ids /\ Saved(x).idmap \in SUBSET Ids /\ Saved(x).meta \in Nat
    BY SavedType
  <2> QED BY <2>1, AbsentIsNone DEF Names, FileSet
<1>3. /\ FilesType' /\ files'["live"][n] = Saved(x)[n]
      /\ \A m \in Names : m # n => files'["live"][m] = files["live"][m]
      /\ \A q \in Paths : q # "live" => files'[q] = files[q]
  BY <1>1, <1>2, OneFile DEF Paths
<1>4. files'["live"][n] = Saved(x)[n] /\ files'["live"][n] # Absent
  BY <1>2, <1>3
<1>5. files'["shadow"] = files["shadow"] /\ files'["old"] = files["old"]
  BY <1>3 DEF Paths
<1> QED BY <1>1, <1>3, <1>4, <1>5

\* The same, of whatever is next of a save.
LEMMA SaveNext ==
    ASSUME FilesType, NEW x \in Index, NEW s \in SaveTails, FileStep(Head(s), x)
    PROVE  /\ FilesType' /\ state' = state
           /\ files'.shadow = files.shadow /\ files'.old = files.old
           /\ files'.live.bin = IF Head(s) = Save("bin") THEN x.vecs ELSE files.live.bin
           /\ files'.live.idmap = IF Head(s) = Save("idmap") THEN x.ids ELSE files.live.idmap
           /\ files'.live.meta = IF Head(s) = Save("meta") THEN Saved(x).meta ELSE files.live.meta
<1>1. Save("bin") # Save("idmap") /\ Save("bin") # Save("meta") /\ Save("idmap") # Save("meta")
  BY DEF Save
<1>2. ASSUME NEW n \in Names, Head(s) = Save(n)
      PROVE  /\ FilesType' /\ state' = state
             /\ files'.live[n] = Saved(x)[n]
             /\ \A m \in Names : m # n => files'.live[m] = files.live[m]
             /\ files'.shadow = files.shadow /\ files'.old = files.old
  BY <1>2, SaveOne
<1>3. Saved(x)["bin"] = x.vecs /\ Saved(x)["idmap"] = x.ids
  BY DEF Saved
<1>4. CASE Head(s) = Save("bin")
  BY <1>1, <1>2, <1>3, <1>4 DEF Names
<1>5. CASE Head(s) = Save("idmap")
  BY <1>1, <1>2, <1>3, <1>5 DEF Names
<1>6. CASE Head(s) = Save("meta")
  BY <1>1, <1>2, <1>3, <1>6 DEF Names
<1> QED BY <1>4, <1>5, <1>6, SaveShapes

\* A file that is written is there.
LEMMA SaveStays ==
    ASSUME FilesType, NEW x \in Index, NEW s \in SaveTails, FileStep(Head(s), x)
    PROVE  /\ files.live.bin # Absent => files'.live.bin # Absent
           /\ files.live.idmap # Absent => files'.live.idmap # Absent
           /\ files.live.meta # Absent => files'.live.meta # Absent
BY SaveNext, SavedType, AbsentIsNone

\* One operation of the running thread's save of the live index.
LEMMA LiveSaveStep ==
    ASSUME FilesType, served \in Index, HistoryType, SavingLive, Perform
    PROVE  /\ FileStep(Head(plan), served) /\ leftover' = leftover
           /\ plan' = Tail(plan) /\ (plan' = <<>> \/ SavingLive')
<1>1. /\ FileStep(Head(plan), served) /\ plan' = Tail(plan) /\ served' = served
      /\ leftover' = (leftover /\ ~EndsShadowSave(Head(plan)))
  BY DEF Perform
<1>2. Head(plan).op = "save" /\ Tail(plan) \in SaveTails \cup {<<>>}
  BY SaveShapes DEF SavingLive
<1>3. ~EndsShadowSave(Head(plan))
  BY <1>2 DEF EndsShadowSave
<1>4. (SaveTails)' = SaveTails
  BY DEF SaveTails, SaveLive, Save
<1> QED BY <1>1, <1>2, <1>3, <1>4 DEF SavingLive, HistoryType

\* The plans of four operations, written out.
LEMMA FourShapes ==
    /\ ShadowSave = <<PutState(checkpoint), Put("shadow", "bin", shadow),
                      Put("shadow", "idmap", shadow), Put("shadow", "meta", shadow)>>
    /\ Clearing = <<Unlink("shadow", "bin"), Unlink("shadow", "meta"), Unlink("shadow", "idmap"),
                    PutState(Absent)>>
    /\ \A x, c : GivingUp(x, c) = <<Put("shadow", "bin", x), Put("shadow", "idmap", x),
                                   Put("shadow", "meta", x), PutState(c)>>
BY Join13, Join31 DEF ShadowSave, Clearing, GivingUp, SavePlan, UnlinkPlan

\* One operation of the checkpoint and the save of the shadow index.
LEMMA ShadowSaveStep ==
    ASSUME FilesType, shadow \in Index, HistoryType, NEW k \in 0..3, plan = Rest(ShadowSave, k), Perform
    PROVE  /\ FilesType' /\ state' = IF k = 0 THEN checkpoint ELSE state
           /\ (k = 3 => ~leftover') /\ (k # 3 => leftover' = leftover)
           /\ IF k = 3 THEN plan' = <<>> ELSE plan' = Rest(ShadowSave, k + 1)'
           /\ files'.live = files.live /\ files'.old = files.old
           /\ files'.shadow.bin = IF k = 1 THEN shadow.vecs ELSE files.shadow.bin
           /\ files'.shadow.idmap = IF k = 2 THEN shadow.ids ELSE files.shadow.idmap
           /\ files'.shadow.meta = IF k = 3 THEN Saved(shadow).meta ELSE files.shadow.meta
<1> DEFINE s == <<PutState(checkpoint), Put("shadow", "bin", shadow),
                  Put("shadow", "idmap", shadow), Put("shadow", "meta", shadow)>>
<1>1. /\ FileStep(s[k + 1], served) /\ plan' = Rest(s, k + 1) /\ (k = 3 => plan' = <<>>)
      /\ leftover' = (leftover /\ ~EndsShadowSave(s[k + 1]))
  BY FourShapes, FourSteps
<1>2. Rest(ShadowSave, k + 1)' = Rest(s, k + 1)
  BY PerformKeeps, FourShapes DEF Kept, Rest, ShadowSave, SavePlan, Put, Saved, PutState
<1>3. k = 0 \/ k = 1 \/ k = 2 \/ k = 3
  OBVIOUS
<1> DEFINE Effect ==
        /\ FilesType' /\ state' = IF k = 0 THEN checkpoint ELSE state
        /\ (k = 3 => ~leftover') /\ (k # 3 => leftover' = leftover)
        /\ files'.live = files.live /\ files'.old = files.old
        /\ files'.shadow.bin = IF k = 1 THEN shadow.vecs ELSE files.shadow.bin
        /\ files'.shadow.idmap = IF k = 2 THEN shadow.ids ELSE files.shadow.idmap
        /\ files'.shadow.meta = IF k = 3 THEN Saved(shadow).meta ELSE files.shadow.meta
<1> SUFFICES Effect
  BY <1>1, <1>2
<1>4. CASE k = 0
  <2>1. s[k + 1] = PutState(checkpoint)
    BY <1>4
  <2>2. leftover' = leftover
    BY <1>1, <2>1, EndsSave DEF HistoryType
  <2>3. FileStep(PutState(checkpoint), served)
    BY <1>1, <2>1
  <2> QED BY <1>4, <2>2, <2>3, StateEffect DEF FilesType
<1>5. CASE k = 1
  <2>1. s[k + 1] = Put("shadow", "bin", shadow)
    BY <1>5
  <2>2. leftover' = leftover
    BY <1>1, <2>1, EndsSave DEF HistoryType
  <2>3. FileStep(Put("shadow", "bin", shadow), served)
    BY <1>1, <2>1
  <2> QED BY <1>5, <2>2, <2>3, PutBin DEF Paths
<1>6. CASE k = 2
  <2>1. s[k + 1] = Put("shadow", "idmap", shadow)
    BY <1>6
  <2>2. leftover' = leftover
    BY <1>1, <2>1, EndsSave DEF HistoryType
  <2>3. FileStep(Put("shadow", "idmap", shadow), served)
    BY <1>1, <2>1
  <2> QED BY <1>6, <2>2, <2>3, PutIdMap DEF Paths
<1>7. CASE k = 3
  <2>1. s[k + 1] = Put("shadow", "meta", shadow)
    BY <1>7
  <2>2. ~leftover'
    BY <1>1, <2>1, EndsSave
  <2>3. FileStep(Put("shadow", "meta", shadow), served)
    BY <1>1, <2>1
  <2> QED BY <1>7, <2>2, <2>3, PutMeta DEF Paths
<1> QED BY <1>3, <1>4, <1>5, <1>6, <1>7

\* One operation of the clean-up after a swap.
LEMMA ClearStep ==
    ASSUME FilesType, HistoryType, NEW k \in 0..3, Clear(k), Perform
    PROVE  /\ FilesType' /\ NoShadow' /\ leftover' = leftover /\ files'.live = files.live
           /\ IF k = 3 THEN plan' = <<>> /\ state' = Absent
              ELSE Clear(k + 1)' /\ state' = state
<1> DEFINE s == <<Unlink("shadow", "bin"), Unlink("shadow", "meta"), Unlink("shadow", "idmap"),
                  PutState(Absent)>>
<1>1. /\ FileStep(s[k + 1], served) /\ plan' = Rest(s, k + 1) /\ (k = 3 => plan' = <<>>)
      /\ leftover' = (leftover /\ ~EndsShadowSave(s[k + 1]))
  BY FourShapes, FourSteps DEF Clear
<1>2. (Clearing)' = s
  BY FourShapes DEF Clearing, UnlinkPlan, Unlink, PutState
<1> DEFINE Effect ==
        /\ FilesType' /\ NoShadow' /\ leftover' = leftover /\ files'.live = files.live
        /\ state' = IF k = 3 THEN Absent ELSE state
<1>3. ASSUME Effect
      PROVE  IF k = 3 THEN plan' = <<>> /\ state' = Absent ELSE Clear(k + 1)' /\ state' = state
  BY <1>1, <1>2, <1>3 DEF Clear, LiveThere
<1> SUFFICES Effect
  BY <1>3
<1>4. CASE k = 3
  <2>1. s[k + 1] = PutState(Absent)
    BY <1>4
  <2>2. leftover' = leftover
    BY <1>1, <2>1, EndsSave DEF HistoryType
  <2>3. FileStep(PutState(Absent), served)
    BY <1>1, <2>1
  <2> QED BY <1>4, <2>2, <2>3, StateEffect DEF FilesType, Clear, NoShadow
<1>5. CASE k # 3
  <2>1. PICK n \in Names : s[k + 1] = Unlink("shadow", n)
    <3>1. k = 0 \/ k = 1 \/ k = 2
      BY <1>5
    <3> QED BY <3>1 DEF Names
  <2>2. leftover' = leftover
    BY <1>1, <2>1, EndsSave DEF HistoryType
  <2>3. /\ FilesType' /\ state' = state /\ files'["shadow"][n] = Absent
        /\ \A m \in Names : m # n => files'["shadow"][m] = files["shadow"][m]
        /\ \A q \in Paths : q # "shadow" => files'[q] = files[q]
    BY <1>1, <2>1, UnlinkOne DEF Paths
  <2> QED BY <1>5, <2>2, <2>3 DEF Clear, NoShadow, Names, Paths
<1> QED BY <1>4, <1>5

\* One operation of a rebuild that gives up.
LEMMA GiveUpStep ==
    ASSUME FilesType, HistoryType, NEW x \in Index, NEW c \in Checkpoint, NEW k \in 0..3,
           GiveUp(x, c, k), Perform
    PROVE  /\ FilesType' /\ state' = IF k = 3 THEN c ELSE state
           /\ (k = 2 => ~leftover') /\ (k # 2 => leftover' = leftover)
           /\ IF k = 3 THEN plan' = <<>> ELSE GiveUp(x, c, k + 1)'
           /\ files'.live = files.live /\ files'.old = files.old
           /\ files'.shadow.bin = IF k = 0 THEN x.vecs ELSE files.shadow.bin
           /\ files'.shadow.idmap = IF k = 1 THEN {} ELSE files.shadow.idmap
           /\ files'.shadow.meta = IF k = 2 THEN Saved(x).meta ELSE files.shadow.meta
<1> DEFINE s == <<Put("shadow", "bin", x), Put("shadow", "idmap", x), Put("shadow", "meta", x),
                  PutState(c)>>
<1>1. /\ FileStep(s[k + 1], served) /\ plan' = Rest(s, k + 1) /\ (k = 3 => plan' = <<>>)
      /\ leftover' = (leftover /\ ~EndsShadowSave(s[k + 1]))
  BY FourShapes, FourSteps DEF GiveUp
<1>2. GivingUp(x, c)' = s
  BY FourShapes DEF GivingUp, SavePlan, Put, Saved, PutState
<1> DEFINE Effect ==
        /\ FilesType' /\ state' = IF k = 3 THEN c ELSE state
        /\ (k = 2 => ~leftover') /\ (k # 2 => leftover' = leftover)
        /\ files'.live = files.live /\ files'.old = files.old
        /\ files'.shadow.bin = IF k = 0 THEN x.vecs ELSE files.shadow.bin
        /\ files'.shadow.idmap = IF k = 1 THEN {} ELSE files.shadow.idmap
        /\ files'.shadow.meta = IF k = 2 THEN Saved(x).meta ELSE files.shadow.meta
<1>3. ASSUME Effect
      PROVE  IF k = 3 THEN plan' = <<>> ELSE GiveUp(x, c, k + 1)'
  BY <1>1, <1>2, <1>3 DEF GiveUp
<1> SUFFICES Effect
  BY <1>3
<1>4. k = 0 \/ k = 1 \/ k = 2 \/ k = 3
  OBVIOUS
<1>5. CASE k = 0
  <2>1. s[k + 1] = Put("shadow", "bin", x)
    BY <1>5
  <2>2. leftover' = leftover
    BY <1>1, <2>1, EndsSave DEF HistoryType
  <2>3. FileStep(Put("shadow", "bin", x), served)
    BY <1>1, <2>1
  <2> QED BY <1>5, <2>2, <2>3, PutBin DEF Paths
<1>6. CASE k = 1
  <2>1. s[k + 1] = Put("shadow", "idmap", x) /\ x.ids = {}
    BY <1>6 DEF GiveUp
  <2>2. leftover' = leftover
    BY <1>1, <2>1, EndsSave DEF HistoryType
  <2>3. FileStep(Put("shadow", "idmap", x), served)
    BY <1>1, <2>1
  <2> QED BY <1>6, <2>1, <2>2, <2>3, PutIdMap DEF Paths
<1>7. CASE k = 2
  <2>1. s[k + 1] = Put("shadow", "meta", x)
    BY <1>7
  <2>2. ~leftover'
    BY <1>1, <2>1, EndsSave
  <2>3. FileStep(Put("shadow", "meta", x), served)
    BY <1>1, <2>1
  <2> QED BY <1>7, <2>2, <2>3, PutMeta DEF Paths
<1>8. CASE k = 3
  <2>1. s[k + 1] = PutState(c)
    BY <1>8
  <2>2. leftover' = leftover
    BY <1>1, <2>1, EndsSave DEF HistoryType
  <2>3. FileStep(PutState(c), served)
    BY <1>1, <2>1
  <2> QED BY <1>8, <2>2, <2>3, StateEffect DEF FilesType
<1> QED BY <1>4, <1>5, <1>6, <1>7, <1>8

\* The swap, written out.
LEMMA SwapShape ==
    Swapping = <<Put("shadow", "bin", shadow), Put("shadow", "idmap", shadow), Put("shadow", "meta", shadow),
                    Move("live", "old", "bin"), Move("live", "old", "meta"), Move("live", "old", "idmap"),
                    Move("shadow", "live", "bin"), Move("shadow", "live", "meta"), Move("shadow", "live", "idmap"),
                    Unlink("old", "bin"), Unlink("old", "meta"), Unlink("old", "idmap")>>
<1>1. MovePlan("live", "old") \o MovePlan("shadow", "live")
        = <<Move("live", "old", "bin"), Move("live", "old", "meta"), Move("live", "old", "idmap"),
            Move("shadow", "live", "bin"), Move("shadow", "live", "meta"), Move("shadow", "live", "idmap")>>
  BY Join33 DEF MovePlan
<1>2. SwapPlan
        = <<Move("live", "old", "bin"), Move("live", "old", "meta"), Move("live", "old", "idmap"),
            Move("shadow", "live", "bin"), Move("shadow", "live", "meta"), Move("shadow", "live", "idmap"),
            Unlink("old", "bin"), Unlink("old", "meta"), Unlink("old", "idmap")>>
  <2>1. SwapPlan = (MovePlan("live", "old") \o MovePlan("shadow", "live")) \o UnlinkPlan("old")
    BY DEF SwapPlan
  <2>2. UnlinkPlan("old") = <<Unlink("old", "bin"), Unlink("old", "meta"), Unlink("old", "idmap")>>
    BY DEF UnlinkPlan
  <2>3. <<Move("live", "old", "bin"), Move("live", "old", "meta"), Move("live", "old", "idmap"),
          Move("shadow", "live", "bin"), Move("shadow", "live", "meta"), Move("shadow", "live", "idmap")>>
          \o <<Unlink("old", "bin"), Unlink("old", "meta"), Unlink("old", "idmap")>>
        = <<Move("live", "old", "bin"), Move("live", "old", "meta"), Move("live", "old", "idmap"),
            Move("shadow", "live", "bin"), Move("shadow", "live", "meta"), Move("shadow", "live", "idmap"),
            Unlink("old", "bin"), Unlink("old", "meta"), Unlink("old", "idmap")>>
    BY Join63
  <2> QED BY <1>1, <2>1, <2>2, <2>3
<1> QED BY <1>2, Join39 DEF Swapping, SavePlan

\* One operation of the swap.
LEMMA SwapStep ==
    ASSUME FilesType, shadow \in Index, HistoryType, NEW k \in 0..11, Swap(k), Perform
    PROVE  /\ FilesType' /\ state' = state /\ Swap(k + 1)'
           /\ (k = 2 => ~leftover') /\ (k # 2 => leftover' = leftover)
           /\ files'.shadow.bin = IF k = 0 THEN shadow.vecs ELSE IF k = 6 THEN Absent ELSE files.shadow.bin
           /\ files'.shadow.idmap = IF k = 1 THEN shadow.ids ELSE IF k = 8 THEN Absent ELSE files.shadow.idmap
           /\ files'.shadow.meta = IF k = 2 THEN Saved(shadow).meta ELSE IF k = 7 THEN Absent ELSE files.shadow.meta
           /\ files'.live.bin = IF k = 3 THEN Absent ELSE IF k = 6 THEN shadow.vecs ELSE files.live.bin
           /\ files'.live.idmap = IF k = 5 THEN Absent ELSE IF k = 8 THEN shadow.ids ELSE files.live.idmap
<1> DEFINE s == <<Put("shadow", "bin", shadow), Put("shadow", "idmap", shadow), Put("shadow", "meta", shadow),
                    Move("live", "old", "bin"), Move("live", "old", "meta"), Move("live", "old", "idmap"),
                    Move("shadow", "live", "bin"), Move("shadow", "live", "meta"), Move("shadow", "live", "idmap"),
                    Unlink("old", "bin"), Unlink("old", "meta"), Unlink("old", "idmap")>>
<1>1. /\ FileStep(s[k + 1], served) /\ plan' = Rest(s, k + 1)
      /\ leftover' = (leftover /\ ~EndsShadowSave(s[k + 1]))
  <2>1. plan = Rest(s, k)
    BY SwapShape DEF Swap
  <2> QED BY <2>1, TwelveSteps
<1>2. (Swapping)' = s
  BY PerformKeeps, SwapShape DEF Kept, Swapping, SwapPlan, SavePlan, MovePlan, UnlinkPlan, Put, Saved, Move, Unlink
<1> DEFINE Effect ==
        /\ FilesType' /\ state' = state
        /\ (k = 2 => ~leftover') /\ (k # 2 => leftover' = leftover)
        /\ files'.shadow.bin = IF k = 0 THEN shadow.vecs ELSE IF k = 6 THEN Absent ELSE files.shadow.bin
        /\ files'.shadow.idmap = IF k = 1 THEN shadow.ids ELSE IF k = 8 THEN Absent ELSE files.shadow.idmap
        /\ files'.shadow.meta = IF k = 2 THEN Saved(shadow).meta ELSE IF k = 7 THEN Absent ELSE files.shadow.meta
        /\ files'.live.bin = IF k = 3 THEN Absent ELSE IF k = 6 THEN shadow.vecs ELSE files.live.bin
        /\ files'.live.meta = IF k = 4 THEN Absent ELSE IF k = 7 THEN Saved(shadow).meta ELSE files.live.meta
        /\ files'.live.idmap = IF k = 5 THEN Absent ELSE IF k = 8 THEN shadow.ids ELSE files.live.idmap
<1>3. ASSUME Effect PROVE Swap(k + 1)'
  <2>1. shadow' = shadow /\ Saved(shadow)' = Saved(shadow)
    BY PerformKeeps DEF Kept, Saved
  <2>2. plan' = Rest(Swapping, k + 1)'
    BY <1>1, <1>2 DEF Rest
  <2>3. shadow.vecs # Absent /\ shadow.ids # Absent /\ Saved(shadow).meta # Absent /\ raced' = raced
    BY SavedType, AbsentIsNone, PerformKeeps DEF Kept
  <2>4. k + 1 \in 1..12 /\ state' # Absent
    BY <1>3 DEF Swap
  <2>5. /\ k + 1 \in 1..6 => files'.shadow.bin = shadow.vecs
        /\ k + 1 \in 2..8 => files'.shadow.idmap = shadow.ids
        /\ k + 1 \in 3..7 => files'.shadow.meta = Saved(shadow).meta
    BY <1>3 DEF Swap
  <2>6. k + 1 >= 7 => /\ files'.live.bin # Absent /\ files'.shadow.bin = Absent
                      /\ ~raced => files'.live.bin = shadow.vecs
    BY <1>3, <2>3 DEF Swap
  <2>7. k + 1 >= 8 => /\ files'.live.meta # Absent /\ files'.shadow.meta = Absent
                      /\ ~raced => files'.live.meta = Saved(shadow).meta
    BY <1>3, <2>3 DEF Swap
  <2>8. k + 1 >= 9 => /\ files'.live.idmap # Absent /\ files'.shadow.idmap = Absent
                      /\ ~raced => files'.live.idmap = shadow.ids
    BY <1>3, <2>3 DEF Swap
  <2> HIDE DEF Effect
  <2> QED BY <2>1, <2>2, <2>3, <2>4, <2>5, <2>6, <2>7, <2>8 DEF Swap
<1> SUFFICES Effect
  BY <1>3
<1>4. /\ k = 6 => files.shadow.bin = shadow.vecs /\ files.shadow.bin # Absent
      /\ k = 7 => files.shadow.meta = Saved(shadow).meta /\ files.shadow.meta # Absent
      /\ k = 8 => files.shadow.idmap = shadow.ids /\ files.shadow.idmap # Absent
  <2>1. shadow.vecs # Absent /\ shadow.ids # Absent /\ Saved(shadow).meta # Absent
    BY SavedType, AbsentIsNone
  <2> QED BY <2>1 DEF Swap
<1>5. CASE k = 0
  <2>1. s[k + 1] = Put("shadow", "bin", shadow)
    BY <1>5
  <2>2. FileStep(Put("shadow", "bin", shadow), served)
    BY <1>1, <2>1
  <2>3. leftover' = leftover
    BY <1>1, <2>1, EndsSave DEF HistoryType
  <2> QED BY <1>5, <2>2, <2>3, PutBin DEF Paths
<1>6. CASE k = 1
  <2>1. s[k + 1] = Put("shadow", "idmap", shadow)
    BY <1>6
  <2>2. FileStep(Put("shadow", "idmap", shadow), served)
    BY <1>1, <2>1
  <2>3. leftover' = leftover
    BY <1>1, <2>1, EndsSave DEF HistoryType
  <2> QED BY <1>6, <2>2, <2>3, PutIdMap DEF Paths
<1>7. CASE k = 2
  <2>1. s[k + 1] = Put("shadow", "meta", shadow)
    BY <1>7
  <2>2. FileStep(Put("shadow", "meta", shadow), served)
    BY <1>1, <2>1
  <2>3. ~leftover'
    BY <1>1, <2>1, EndsSave
  <2> QED BY <1>7, <2>2, <2>3, PutMeta DEF Paths
<1>8. CASE k = 3
  <2>1. s[k + 1] = Move("live", "old", "bin")
    BY <1>8
  <2>2. FileStep(Move("live", "old", "bin"), served)
    BY <1>1, <2>1
  <2>3. leftover' = leftover
    BY <1>1, <2>1, EndsSave DEF HistoryType
  <2>4. /\ FilesType' /\ state' = state /\ files'["live"]["bin"] = Absent
        /\ files["live"]["bin"] # Absent => files'["old"]["bin"] = files["live"]["bin"]
        /\ \A m \in Names : m # "bin" => /\ files'["live"][m] = files["live"][m]
                                         /\ files'["old"][m] = files["old"][m]
        /\ files'["shadow"] = files["shadow"]
    BY <2>2, MoveOne DEF Paths, Names
  <2> QED BY <1>4, <1>8, <2>3, <2>4 DEF Names
<1>9. CASE k = 4
  <2>1. s[k + 1] = Move("live", "old", "meta")
    BY <1>9
  <2>2. FileStep(Move("live", "old", "meta"), served)
    BY <1>1, <2>1
  <2>3. leftover' = leftover
    BY <1>1, <2>1, EndsSave DEF HistoryType
  <2>4. /\ FilesType' /\ state' = state /\ files'["live"]["meta"] = Absent
        /\ files["live"]["meta"] # Absent => files'["old"]["meta"] = files["live"]["meta"]
        /\ \A m \in Names : m # "meta" => /\ files'["live"][m] = files["live"][m]
                                         /\ files'["old"][m] = files["old"][m]
        /\ files'["shadow"] = files["shadow"]
    BY <2>2, MoveOne DEF Paths, Names
  <2> QED BY <1>4, <1>9, <2>3, <2>4 DEF Names
<1>10. CASE k = 5
  <2>1. s[k + 1] = Move("live", "old", "idmap")
    BY <1>10
  <2>2. FileStep(Move("live", "old", "idmap"), served)
    BY <1>1, <2>1
  <2>3. leftover' = leftover
    BY <1>1, <2>1, EndsSave DEF HistoryType
  <2>4. /\ FilesType' /\ state' = state /\ files'["live"]["idmap"] = Absent
        /\ files["live"]["idmap"] # Absent => files'["old"]["idmap"] = files["live"]["idmap"]
        /\ \A m \in Names : m # "idmap" => /\ files'["live"][m] = files["live"][m]
                                         /\ files'["old"][m] = files["old"][m]
        /\ files'["shadow"] = files["shadow"]
    BY <2>2, MoveOne DEF Paths, Names
  <2> QED BY <1>4, <1>10, <2>3, <2>4 DEF Names
<1>11. CASE k = 6
  <2>1. s[k + 1] = Move("shadow", "live", "bin")
    BY <1>11
  <2>2. FileStep(Move("shadow", "live", "bin"), served)
    BY <1>1, <2>1
  <2>3. leftover' = leftover
    BY <1>1, <2>1, EndsSave DEF HistoryType
  <2>4. /\ FilesType' /\ state' = state /\ files'["shadow"]["bin"] = Absent
        /\ files["shadow"]["bin"] # Absent => files'["live"]["bin"] = files["shadow"]["bin"]
        /\ \A m \in Names : m # "bin" => /\ files'["shadow"][m] = files["shadow"][m]
                                         /\ files'["live"][m] = files["live"][m]
        /\ files'["old"] = files["old"]
    BY <2>2, MoveOne DEF Paths, Names
  <2> QED BY <1>4, <1>11, <2>3, <2>4 DEF Names
<1>12. CASE k = 7
  <2>1. s[k + 1] = Move("shadow", "live", "meta")
    BY <1>12
  <2>2. FileStep(Move("shadow", "live", "meta"), served)
    BY <1>1, <2>1
  <2>3. leftover' = leftover
    BY <1>1, <2>1, EndsSave DEF HistoryType
  <2>4. /\ FilesType' /\ state' = state /\ files'["shadow"]["meta"] = Absent
        /\ files["shadow"]["meta"] # Absent => files'["live"]["meta"] = files["shadow"]["meta"]
        /\ \A m \in Names : m # "meta" => /\ files'["shadow"][m] = files["shadow"][m]
                                         /\ files'["live"][m] = files["live"][m]
        /\ files'["old"] = files["old"]
    BY <2>2, MoveOne DEF Paths, Names
  <2> QED BY <1>4, <1>12, <2>3, <2>4 DEF Names
<1>13. CASE k = 8
  <2>1. s[k + 1] = Move("shadow", "live", "idmap")
    BY <1>13
  <2>2. FileStep(Move("shadow", "live", "idmap"), served)
    BY <1>1, <2>1
  <2>3. leftover' = leftover
    BY <1>1, <2>1, EndsSave DEF HistoryType
  <2>4. /\ FilesType' /\ state' = state /\ files'["shadow"]["idmap"] = Absent
        /\ files["shadow"]["idmap"] # Absent => files'["live"]["idmap"] = files["shadow"]["idmap"]
        /\ \A m \in Names : m # "idmap" => /\ files'["shadow"][m] = files["shadow"][m]
                                         /\ files'["live"][m] = files["live"][m]
        /\ files'["old"] = files["old"]
    BY <2>2, MoveOne DEF Paths, Names
  <2> QED BY <1>4, <1>13, <2>3, <2>4 DEF Names
<1>14. CASE k = 9
  <2>1. s[k + 1] = Unlink("old", "bin")
    BY <1>14
  <2>2. FileStep(Unlink("old", "bin"), served)
    BY <1>1, <2>1
  <2>3. leftover' = leftover
    BY <1>1, <2>1, EndsSave DEF HistoryType
  <2>4. FilesType' /\ state' = state /\ \A q \in Paths : q # "old" => files'[q] = files[q]
    BY <2>2, UnlinkOne DEF Paths, Names
  <2> QED BY <1>14, <2>3, <2>4 DEF Paths
<1>15. CASE k = 10
  <2>1. s[k + 1] = Unlink("old", "meta")
    BY <1>15
  <2>2. FileStep(Unlink("old", "meta"), served)
    BY <1>1, <2>1
  <2>3. leftover' = leftover
    BY <1>1, <2>1, EndsSave DEF HistoryType
  <2>4. FilesType' /\ state' = state /\ \A q \in Paths : q # "old" => files'[q] = files[q]
    BY <2>2, UnlinkOne DEF Paths, Names
  <2> QED BY <1>15, <2>3, <2>4 DEF Paths
<1>16. CASE k = 11
  <2>1. s[k + 1] = Unlink("old", "idmap")
    BY <1>16
  <2>2. FileStep(Unlink("old", "idmap"), served)
    BY <1>1, <2>1
  <2>3. leftover' = leftover
    BY <1>1, <2>1, EndsSave DEF HistoryType
  <2>4. FilesType' /\ state' = state /\ \A q \in Paths : q # "old" => files'[q] = files[q]
    BY <2>2, UnlinkOne DEF Paths, Names
  <2> QED BY <1>16, <2>3, <2>4 DEF Paths
<1> QED
  <2>1. k \in {0, 1, 2, 3, 4, 5, 6, 7, 8, 9, 10, 11}
    OBVIOUS
  <2> QED BY <2>1, <1>5, <1>6, <1>7, <1>8, <1>9, <1>10, <1>11, <1>12, <1>13, <1>14, <1>15, <1>16

\* One operation of the recovery that drops the backup.
LEMMA DropStep ==
    ASSUME FilesType, HistoryType, ShadowOrder, Dropping, Perform
    PROVE  /\ FilesType' /\ state' = state /\ leftover' = leftover /\ Dropping'
           /\ files'.live = files.live
           /\ files'.shadow.bin = files.shadow.bin /\ files'.shadow.idmap = files.shadow.idmap
           /\ files'.shadow.meta = files.shadow.meta
<1> DEFINE S == {Unlink(p, n) : p \in DropPaths, n \in Names}
<1>1. plan \in Seq(S) /\ plan # <<>>
  BY DEF Perform, Dropping
<1>2. Head(plan) \in S /\ Tail(plan) \in Seq(S)
  <2> HIDE DEF S
  <2> QED BY <1>1
<1>3. PICK p \in DropPaths, n \in Names : Head(plan) = Unlink(p, n)
  BY <1>2
<1>4. p \in Paths /\ p # "live" /\ (p = "shadow" => state = Absent)
  BY DEF DropPaths, Paths
<1>5. FileStep(Unlink(p, n), served) /\ plan' = Tail(plan) /\ leftover' = (leftover /\ ~EndsShadowSave(Unlink(p, n)))
  BY <1>3 DEF Perform
<1>6. leftover' = leftover
  BY <1>5, EndsSave DEF HistoryType
<1>7. /\ FilesType' /\ state' = state /\ files'[p][n] = Absent
      /\ \A m \in Names : m # n => files'[p][m] = files[p][m]
      /\ \A q \in Paths : q # p => files'[q] = files[q]
  BY <1>4, <1>5, UnlinkOne
<1>8. Dropping'
  BY <1>2, <1>5, <1>7 DEF Dropping, DropPaths, Unlink
<1>9. files'.live = files.live
  BY <1>4, <1>7 DEF Paths
<1>10. /\ files'.shadow.bin = files.shadow.bin /\ files'.shadow.idmap = files.shadow.idmap
       /\ files'.shadow.meta = files.shadow.meta
  <2>1. CASE p = "shadow"
    BY <1>4, <1>7, <2>1 DEF ShadowOrder, NoShadow, Names
  <2>2. CASE p # "shadow"
    BY <1>7, <2>2 DEF Paths
  <2> QED BY <2>1, <2>2
<1> QED BY <1>6, <1>7, <1>8, <1>9, <1>10

\* The state file alone is written.
LEMMA StateStep ==
    ASSUME HistoryType, NEW c, plan = <<PutState(c)>>, Perform
    PROVE  plan' = <<>> /\ state' = c /\ files' = files /\ leftover' = leftover
<1>1. Head(plan) = PutState(c) /\ Tail(plan) = <<>>
  OBVIOUS
<1>2. FileStep(PutState(c), served) /\ plan' = <<>> /\ leftover' = (leftover /\ ~EndsShadowSave(PutState(c)))
  BY <1>1 DEF Perform
<1> QED BY <1>2, StateEffect, EndsSave DEF HistoryType

-----------------------------------------------------------------------------
(* Which plan it is shows at its end. *)

\* The last operation removes the state file: the rebuild is done.
Finishing == plan # <<>> /\ plan[Len(plan)] = PutState(Absent)

\* Whatever remains of a plan ends as the plan does.
LEMMA RestEnd ==
    ASSUME NEW S, NEW s \in Seq(S), NEW k \in 0 .. Len(s) - 1
    PROVE  /\ Rest(s, k) # <<>> /\ Len(Rest(s, k)) = Len(s) - k
           /\ Rest(s, k)[Len(Rest(s, k))] = s[Len(s)]
<1>1. /\ Rest(s, k) \in Seq(S) /\ Len(Rest(s, k)) = Len(s) - k
      /\ \A i \in 1 .. Len(s) - k : Rest(s, k)[i] = s[k + i]
  BY DEF Rest
<1>2. PICK n \in Nat : n = Len(s) - k
  OBVIOUS
<1>3. n \in 1..n /\ k + n = Len(s)
  BY <1>2
<1>4. Rest(s, k)[n] = s[k + n] /\ Len(Rest(s, k)) = n
  BY <1>1, <1>2, <1>3
<1>5. Rest(s, k) # <<>>
  BY RestStep
<1> QED BY <1>2, <1>3, <1>4, <1>5

\* How the clean-up and the plan that gives a rebuild up end.
LEMMA Ends ==
    /\ \A k \in 0..3 : plan = Rest(Clearing, k) => Finishing
    /\ \A x, c : \A k \in 0..3 :
        plan = Rest(GivingUp(x, c), k) => /\ plan # <<>> /\ plan[Len(plan)] = PutState(c)
                                          /\ Len(plan) = 4 - k
<1>1. ASSUME NEW a, NEW b, NEW c, NEW d, NEW k \in 0..3, plan = Rest(<<a, b, c, d>>, k)
      PROVE  plan # <<>> /\ plan[Len(plan)] = d /\ Len(plan) = 4 - k
  <2> DEFINE s == <<a, b, c, d>>
  <2>1. s \in Seq({a, b, c, d}) /\ Len(s) = 4 /\ s[4] = d
    OBVIOUS
  <2>2. plan = Rest(s, k)
    BY <1>1
  <2> HIDE DEF s
  <2>3. k \in 0 .. Len(s) - 1
    BY <2>1
  <2>4. plan # <<>> /\ plan[Len(plan)] = s[Len(s)] /\ Len(plan) = Len(s) - k
    BY <2>1, <2>2, <2>3, RestEnd
  <2> QED BY <2>1, <2>4
<1>2. ASSUME NEW k \in 0..3, plan = Rest(Clearing, k) PROVE Finishing
  <2>1. plan = Rest(<<Unlink("shadow", "bin"), Unlink("shadow", "meta"), Unlink("shadow", "idmap"),
                      PutState(Absent)>>, k)
    BY <1>2, FourShapes
  <2> QED BY <1>1, <2>1 DEF Finishing
<1>3. ASSUME NEW x, NEW c, NEW k \in 0..3, plan = Rest(GivingUp(x, c), k)
      PROVE  plan # <<>> /\ plan[Len(plan)] = PutState(c) /\ Len(plan) = 4 - k
  <2>1. plan = Rest(<<Put("shadow", "bin", x), Put("shadow", "idmap", x),
                      Put("shadow", "meta", x), PutState(c)>>, k)
    BY <1>3, FourShapes
  <2> QED BY <1>1, <2>1
<1> QED BY <1>2, <1>3

\* A plan that gives a rebuild up is no save of the live index and does not
\* finish; one that saves the live index does not finish either.
Exclusive ==
    /\ plan \in SaveTails => plan # <<>> /\ ~Finishing
    /\ \A k \in 0..3 : plan = Rest(Clearing, k) => Finishing
    /\ \A x \in Index, c \in Checkpoint : \A k \in 0..3 :
        plan = Rest(GivingUp(x, c), k) => plan # <<>> /\ ~Finishing /\ plan \notin SaveTails
    /\ \A x \in Index, c \in Checkpoint :
        plan = GivingUp(x, c) =>
            /\ plan # <<>> /\ ~Finishing /\ plan \notin SaveTails
            /\ \A y, d : \A k \in 1..3 : plan # Rest(GivingUp(y, d), k)
    /\ plan = <<>> => ~Finishing

\* No plan that remains is of two kinds.
LEMMA PlansExclude == Exclusive
<1>1. ASSUME plan \in SaveTails
      PROVE  plan # <<>> /\ plan[Len(plan)].op = "save"
  BY <1>1, SaveShapes
<1>2. \A c : PutState(c).op = "state" /\ PutState(c).value = c
  BY DEF PutState
<1>3. ASSUME NEW x \in Index, NEW c \in Checkpoint, NEW k \in 0..3, plan = Rest(GivingUp(x, c), k)
      PROVE  plan # <<>> /\ ~Finishing /\ plan \notin SaveTails
  <2>1. plan # <<>> /\ plan[Len(plan)] = PutState(c) /\ c # Absent
    BY <1>3, Ends, AbsentIsNone
  <2>2. plan \notin SaveTails
    BY <1>1, <1>2, <2>1
  <2>3. ~Finishing
    <3>1. PutState(c) # PutState(Absent)
      BY <1>2, <2>1
    <3> QED BY <2>1, <3>1 DEF Finishing
  <2> QED BY <2>1, <2>2, <2>3
<1>4. ASSUME NEW x \in Index, NEW c \in Checkpoint, plan = GivingUp(x, c)
      PROVE  /\ plan # <<>> /\ ~Finishing /\ plan \notin SaveTails
             /\ \A y, d : \A k \in 1..3 : plan # Rest(GivingUp(y, d), k)
  <2>1. plan = Rest(GivingUp(x, c), 0)
    BY <1>4, FourShapes, FourSteps
  <2>2. Len(plan) = 4
    BY <2>1, Ends
  <2>3. ASSUME NEW y, NEW d, NEW k \in 1..3, plan = Rest(GivingUp(y, d), k) PROVE FALSE
    <3>1. Len(plan) = 4 - k
      BY <2>3, Ends
    <3>2. 4 - k # 4
      OBVIOUS
    <3> QED BY <2>2, <3>1, <3>2, Zenon
  <2> QED BY <1>3, <2>1, <2>3
<1>5. plan \in SaveTails => ~Finishing
  BY <1>1, <1>2 DEF Finishing
<1>6. plan = <<>> => ~Finishing
  BY DEF Finishing
<1> QED BY <1>1, <1>3, <1>4, <1>5, <1>6, Ends DEF Exclusive

\* The same of the next state.
LEMMA PlansExcludeNext == Exclusive'
BY PlansExclude, PTL

\* What a save may have left is the same in every state.
LEMMA SameSaves == (SaveTails)' = SaveTails /\ <<>> \notin SaveTails
<1>1. <<>> \notin SaveTails
  BY SaveShapes
<1> QED BY <1>1 DEF SaveTails, SaveLive, Save

\* A plan of which something is left is not done.
LEMMA Unfinished ==
    /\ \A k \in 0..3 : Rest(ShadowSave, k) # <<>> /\ Rest(Clearing, k) # <<>>
    /\ \A x, c : \A k \in 0..3 : Rest(GivingUp(x, c), k) # <<>>
    /\ \A k \in 0..11 : Rest(Swapping, k) # <<>>
<1>1. ASSUME NEW a, NEW b, NEW c, NEW d, NEW k \in 0..3 PROVE Rest(<<a, b, c, d>>, k) # <<>>
  <2> DEFINE s == <<a, b, c, d>>
  <2>1. s \in Seq({a, b, c, d}) /\ k \in 0 .. Len(s) - 1
    OBVIOUS
  <2> HIDE DEF s
  <2>2. Rest(s, k) # <<>>
    BY <2>1, RestStep
  <2> QED BY <2>2 DEF s
<1>2. ASSUME NEW k \in 0..3 PROVE Rest(ShadowSave, k) # <<>> /\ Rest(Clearing, k) # <<>>
  BY <1>1, FourShapes
<1>3. ASSUME NEW x, NEW c, NEW k \in 0..3 PROVE Rest(GivingUp(x, c), k) # <<>>
  BY <1>1, FourShapes
<1>4. ASSUME NEW k \in 0..11 PROVE Rest(Swapping, k) # <<>>
  <2>1. PICK S : Swapping \in Seq(S) /\ Len(Swapping) = 12
    <3> DEFINE S == {Swapping[i] : i \in 1..12}
    <3>1. Swapping \in Seq(S) /\ Len(Swapping) = 12
      BY SwapShape
    <3> QED BY <3>1
  <2>2. k \in 0 .. Len(Swapping) - 1
    BY <2>1
  <2>3. Rest(Swapping, k) # <<>>
    <3> HIDE DEF Swapping
    <3> QED BY <2>1, <2>2, RestStep
  <2> QED BY <2>3
<1> QED BY <1>2, <1>3, <1>4

\* A handler leaves a plan of which all remains.
LEMMA WholePlans ==
    /\ Rest(ShadowSave, 0) = ShadowSave
    /\ Rest(Clearing, 0) = Clearing /\ Rest(Swapping, 0) = Swapping
    /\ \A x, c : Rest(GivingUp(x, c), 0) = GivingUp(x, c)
<1>1. Rest(Swapping, 0) = Swapping
  BY SwapShape, TwelveSteps
<1> QED BY <1>1, FourShapes, FourSteps

\* The same of the next state.
LEMMA WholePlansNext ==
    /\ Rest(ShadowSave, 0)' = (ShadowSave)'
    /\ Rest(Clearing, 0)' = (Clearing)' /\ Rest(Swapping, 0)' = (Swapping)'
<1>1. (/\ Rest(ShadowSave, 0) = ShadowSave
       /\ Rest(Clearing, 0) = Clearing /\ Rest(Swapping, 0) = Swapping
       /\ \A x, c : Rest(GivingUp(x, c), 0) = GivingUp(x, c))'
  BY WholePlans, PTL
<1> QED BY <1>1

-----------------------------------------------------------------------------
(* The invariant of the files holds at the start and through every step. *)

Memory ==
    /\ entries \subseteq Ids /\ deleted \subseteq Ids
    /\ state = Absent \/ state \in Checkpoint
    /\ phase \in {"down", "opening", "recover", "begin", "rebuild", "swap", "serving"}
    /\ served = Absent \/ served \in Index
    /\ phase \in {"rebuild", "swap"} => shadow \in Index /\ checkpoint \in Checkpoint
    /\ embedding \in Ids \cup {0}
    /\ replaced = Absent \/ replaced \in Index

\* What TypeOK adds to the types of the files is about memory.
LEMMA TypeParts == FilesType => (TypeOK <=> Memory)
<1> SUFFICES ASSUME FilesType PROVE TypeOK <=> Memory
  OBVIOUS
<1>1. \A p \in Paths : files[p] \in File
  BY DEF FilesType
<1>2. \A p \in Paths :
        /\ files[p].bin = Absent \/ files[p].bin \subseteq Ids
        /\ files[p].idmap = Absent \/ files[p].idmap \subseteq Ids
        /\ files[p].meta = Absent \/ files[p].meta \in Nat
  BY <1>1 DEF File
<1> QED BY <1>2 DEF TypeOK, Memory

\* SwapGuarded, of the live files alone.
LEMMA GuardParts == SwapGuarded <=> (state = Absent => LiveThere)
BY DEF SwapGuarded, LiveThere, Names

\* The parts the steps work with.
Parts == /\ Memory /\ FilesType /\ HistoryType /\ PlanOK /\ RequestOK /\ ShadowOrder
         /\ (state = Absent => LiveThere)

\* The invariant in the parts the steps are shown to keep.
LEMMA InvParts == IInv <=> Parts
BY TypeParts, GuardParts DEF IInv, Parts

\* The same of the next state.
LEMMA InvPartsNext == IInv' <=> Parts'
BY InvParts, PTL

\* The invariant holds initially, for any rows and any saved index.
LEMMA InitHolds == Init => IInv
<1> SUFFICES ASSUME Init PROVE Parts
  BY InvParts
<1>1. PICK S \in SUBSET entries :
        files = [p \in Paths |-> IF p = "live" THEN Saved(Add(Empty, S)) ELSE NoFiles]
  BY DEF Init
<1>2. entries \subseteq Ids /\ S \in SUBSET Ids
  BY DEF Init
<1> DEFINE x == Add(Empty, S)
<1>3. x \in Index
  BY <1>2, EmptyType, AddType
<1>4. Saved(x) \in File
  <2>1. x.vecs \in SUBSET Ids /\ x.ids \in SUBSET Ids /\ Saved(x).meta \in Nat
    BY <1>3, SavedType
  <2>2. Saved(x) = [bin |-> x.vecs, idmap |-> x.ids, meta |-> Saved(x).meta]
    BY DEF Saved
  <2> HIDE DEF x
  <2> QED BY <2>1, <2>2 DEF File
<1>5. NoFiles \in File
  BY DEF NoFiles, File
<1>6. FilesType
  BY <1>1, <1>4, <1>5 DEF FilesType
<1>7. files.live = Saved(x) /\ files.shadow = NoFiles
  BY <1>1 DEF Paths
<1>8. NoShadow
  BY <1>7 DEF NoShadow, NoFiles
<1>9. LiveThere
  <2>1. /\ Saved(x).bin \in SUBSET Ids /\ Saved(x).idmap \in SUBSET Ids /\ Saved(x).meta \in Nat
    BY <1>3, SavedType
  <2> HIDE DEF x
  <2> QED BY <1>7, <2>1, AbsentIsNone DEF LiveThere
<1>10. Memory /\ RequestOK
  BY <1>2 DEF Init, Memory, RequestOK, Alone
<1>11. PlanOK
  BY DEF Init, PlanOK
<1> QED BY <1>6, <1>8, <1>9, <1>10, <1>11 DEF Parts, ShadowOrder, HistoryType, Init, NoShadow

\* The request is as it was, and goes on alone unless it raced.
LEMMA RequestStays ==
    ASSUME RequestOK, UNCHANGED request, raced => raced',
           embedding # 0 \/ saving # <<>> =>
               served' # Absent /\ phase' \in {"begin", "rebuild", "swap", "serving"},
           ~raced' /\ saving # <<>> =>
               phase' # "swap" /\ (phase' = "serving" => plan' \notin SaveTails)
    PROVE  RequestOK'
<1>1. embedding' = embedding /\ saving' = saving /\ replaced' = replaced
  BY DEF request
<1> QED BY <1>1, SameSaves DEF RequestOK, Alone

\* Each file operation keeps the invariant, wherever its plan stands.
LEMMA PerformHolds == IInv /\ Perform => IInv'
<1> SUFFICES ASSUME Parts, Perform PROVE Parts'
  BY InvParts, InvPartsNext
<1> USE DEF Parts
<1>1. Kept /\ plan # <<>>
  BY PerformKeeps DEF Perform
<1>2. Kept => Memory' <=> (state' = Absent \/ state' \in Checkpoint)
  BY DEF Kept, Memory, request
<1>3. HistoryType'
  <2>1. leftover' \in BOOLEAN
    BY DEF Perform
  <2> QED BY <1>1, <2>1 DEF Kept, HistoryType
<1> DEFINE Goal == /\ FilesType' /\ PlanOK' /\ ShadowOrder'
                   /\ state' = Absent \/ state' \in Checkpoint
                   /\ state' = Absent => LiveThere'
                   /\ phase = "serving" /\ plan \notin SaveTails => plan' \notin SaveTails
<1> SUFFICES Goal
  <2>1. RequestOK'
    <3>1. embedding # 0 \/ saving # <<>> =>
            served' # Absent /\ phase' \in {"begin", "rebuild", "swap", "serving"}
      BY <1>1 DEF RequestOK, Kept
    <3>2. ~raced' /\ saving # <<>> =>
            phase' # "swap" /\ (phase' = "serving" => plan' \notin SaveTails)
      BY <1>1 DEF RequestOK, Alone, Kept
    <3> QED BY <1>1, <3>1, <3>2, RequestStays DEF Kept
  <2> QED BY <1>1, <1>2, <1>3, <2>1
<1>4. ASSUME SavingLive, phase \in {"opening", "recover", "serving"} PROVE Goal
  <2>1. served \in Index /\ plan \in SaveTails
    BY <1>4 DEF Memory, SavingLive
  <2>2. /\ FileStep(Head(plan), served)
        /\ plan' = Tail(plan) /\ (plan' = <<>> \/ SavingLive')
    BY <1>4, <2>1, LiveSaveStep
  <2>3. /\ FilesType' /\ state' = state /\ files'.shadow = files.shadow
        /\ files'.live.meta = IF Head(plan) = Save("meta") THEN Saved(served).meta ELSE files.live.meta
    BY <2>1, <2>2, SaveNext
  <2>4. plan' = <<>> => files'.live.meta # Absent
    <3>1. Tail(plan) = <<>> => Head(plan) = Save("meta")
      <4>1. \A a, b : Tail(<<a, b>>) # <<>>
        OBVIOUS
      <4>2. plan = SaveLive => Tail(plan) # <<>>
        BY DEF SaveLive
      <4> QED BY <2>1, <4>1, <4>2, SaveShapes
    <3>2. Saved(served).meta # Absent
      BY <2>1, SavedType, AbsentIsNone
    <3> QED BY <2>2, <2>3, <3>1, <3>2
  <2>5. PlanOK'
    BY <1>1, <1>4, <2>2, <2>4 DEF PlanOK, Kept
  <2>6. ShadowOrder'
    BY <2>3 DEF ShadowOrder, NoShadow
  <2>7. state' = Absent => LiveThere'
    BY <2>1, <2>2, <2>3, SaveStays DEF LiveThere
  <2> QED BY <2>1, <2>3, <2>5, <2>6, <2>7 DEF Memory
<1>5. CASE phase = "down"
  BY <1>1, <1>5 DEF PlanOK
<1>6. CASE phase \in {"opening", "recover"}
  BY <1>1, <1>4, <1>6 DEF PlanOK
<1>7. CASE phase = "begin"
  <2>1. Dropping
    BY <1>7 DEF PlanOK
  <2>2. /\ FilesType' /\ state' = state /\ leftover' = leftover /\ Dropping'
        /\ files'.live = files.live
        /\ files'.shadow.bin = files.shadow.bin /\ files'.shadow.idmap = files.shadow.idmap
        /\ files'.shadow.meta = files.shadow.meta
    BY <2>1, DropStep
  <2>3. PlanOK'
    BY <1>1, <1>7, <2>2 DEF PlanOK, Kept
  <2>4. ShadowOrder'
    BY <2>2 DEF ShadowOrder, NoShadow
  <2>5. state' = Absent => LiveThere'
    BY <2>2 DEF LiveThere
  <2> QED BY <1>7, <2>2, <2>3, <2>4, <2>5 DEF Memory
<1>8. CASE phase = "rebuild"
  <2>1. shadow \in Index /\ checkpoint \in Checkpoint /\ checkpoint # Absent
    BY <1>8, AbsentIsNone DEF Memory
  <2>2. CASE plan = <<PutState(checkpoint)>>
    <3>1. plan' = <<>> /\ state' = checkpoint /\ files' = files
      BY <2>2, StateStep
    <3>2. PlanOK'
      BY <1>1, <1>8, <2>1, <3>1 DEF PlanOK, Kept
    <3>3. ShadowOrder'
      BY <2>1, <3>1 DEF ShadowOrder
    <3> QED BY <1>8, <2>1, <3>1, <3>2, <3>3 DEF FilesType
  <2>3. ASSUME NEW k \in 0..3, SavingShadow(k) PROVE Goal
    <3>1. /\ FilesType' /\ state' = IF k = 0 THEN checkpoint ELSE state
          /\ IF k = 3 THEN plan' = <<>> ELSE plan' = Rest(ShadowSave, k + 1)'
          /\ files'.live = files.live /\ files'.old = files.old
          /\ files'.shadow.bin = IF k = 1 THEN shadow.vecs ELSE files.shadow.bin
          /\ files'.shadow.idmap = IF k = 2 THEN shadow.ids ELSE files.shadow.idmap
          /\ files'.shadow.meta = IF k = 3 THEN Saved(shadow).meta ELSE files.shadow.meta
      BY <2>1, <2>3, ShadowSaveStep DEF SavingShadow
    <3>2. shadow.vecs # Absent /\ shadow.ids # Absent /\ shadow' = shadow
      BY <1>1, <2>1, SavedType, AbsentIsNone DEF Kept
    <3>3. state' # Absent
      BY <2>1, <2>3, <3>1 DEF SavingShadow
    <3>4. ShadowOrder'
      BY <2>3, <3>1, <3>2, <3>3 DEF ShadowOrder, SavingShadow
    <3>5. PlanOK'
      <4>1. CASE k = 3
        BY <1>1, <1>8, <3>1, <3>3, <4>1 DEF PlanOK, Kept
      <4>2. CASE k # 3
        <5>1. k + 1 \in 0..3
          BY <4>2
        <5>2. SavingShadow(k + 1)'
          BY <2>3, <3>1, <3>2, <3>3, <4>2 DEF SavingShadow
        <5> QED BY <1>1, <1>8, <5>1, <5>2 DEF PlanOK, Kept
      <4> QED BY <4>1, <4>2
    <3> QED BY <1>8, <2>1, <3>1, <3>3, <3>4, <3>5 DEF Memory
  <2> QED BY <1>1, <1>8, <2>2, <2>3 DEF PlanOK
<1>9. CASE phase = "swap"
  <2>1. shadow \in Index
    BY <1>9 DEF Memory
  <2>2. PICK k \in 0..12 : Swap(k)
    BY <1>9 DEF PlanOK
  <2>3. k # 12
    <3>1. Rest(Swapping, 12) = <<>>
      BY SwapShape, TwelveSteps
    <3> QED BY <1>1, <2>2, <3>1 DEF Swap
  <2>4. k \in 0..11 /\ k + 1 \in 0..12
    BY <2>3
  <2>5. /\ FilesType' /\ state' = state /\ Swap(k + 1)'
        /\ files'.shadow.idmap = IF k = 1 THEN shadow.ids ELSE IF k = 8 THEN Absent ELSE files.shadow.idmap
        /\ files'.shadow.meta = IF k = 2 THEN Saved(shadow).meta ELSE IF k = 7 THEN Absent ELSE files.shadow.meta
    BY <2>1, <2>2, <2>4, SwapStep
  <2>6. PlanOK'
    BY <1>1, <1>9, <2>4, <2>5 DEF PlanOK, Kept
  <2>7. state # Absent
    BY <2>2 DEF Swap
  <2>8. ShadowOrder'
    <3>1. shadow.ids # Absent
      BY <2>1, SavedType, AbsentIsNone
    <3>2. k = 2 => files.shadow.idmap = shadow.ids
      BY <2>2 DEF Swap
    <3>3. k = 8 => files.shadow.meta = Absent
      BY <2>2 DEF Swap
    <3> QED BY <2>5, <2>7, <3>1, <3>2, <3>3 DEF ShadowOrder
  <2> QED BY <1>9, <2>5, <2>6, <2>7, <2>8 DEF Memory
<1>10. CASE phase = "serving"
  <2>1. ASSUME NEW k \in 0..3, Clear(k) PROVE Goal
    <3>1. /\ FilesType' /\ NoShadow' /\ leftover' = leftover /\ files'.live = files.live
          /\ IF k = 3 THEN plan' = <<>> /\ state' = Absent
             ELSE Clear(k + 1)' /\ state' = state
      BY <2>1, ClearStep
    <3>2. PlanOK' /\ plan' \notin SaveTails
      <4>1. CASE k = 3
        BY <1>1, <1>10, <3>1, <4>1, SameSaves DEF PlanOK, Kept
      <4>2. CASE k # 3
        <5>1. k + 1 \in 0..3 /\ Clear(k + 1)'
          BY <3>1, <4>2
        <5>2. plan' \notin SaveTails
          BY <5>1, PlansExcludeNext, SameSaves DEF Exclusive, Clear
        <5> QED BY <1>1, <1>10, <5>1, <5>2 DEF PlanOK, Kept
      <4> QED BY <4>1, <4>2
    <3>3. ShadowOrder'
      BY <3>1 DEF ShadowOrder, NoShadow
    <3>4. LiveThere'
      BY <2>1, <3>1 DEF Clear, LiveThere
    <3> QED BY <3>1, <3>2, <3>3, <3>4 DEF Memory
  <2>2. ASSUME NEW x \in Index, NEW c \in Checkpoint, NEW k \in 0..3, GiveUp(x, c, k) PROVE Goal
    <3>1. /\ FilesType' /\ state' = IF k = 3 THEN c ELSE state
          /\ IF k = 3 THEN plan' = <<>> ELSE GiveUp(x, c, k + 1)'
          /\ files'.shadow.idmap = IF k = 1 THEN {} ELSE files.shadow.idmap
          /\ files'.shadow.meta = IF k = 2 THEN Saved(x).meta ELSE files.shadow.meta
      BY <2>2, GiveUpStep
    <3>2. PlanOK' /\ plan' \notin SaveTails
      <4>1. CASE k = 3
        BY <1>1, <1>10, <3>1, <4>1, SameSaves DEF PlanOK, Kept
      <4>2. CASE k # 3
        <5>1. k + 1 \in 0..3 /\ GiveUp(x, c, k + 1)'
          BY <3>1, <4>2
        <5>2. plan' \notin SaveTails
          <6>1. plan' = Rest(GivingUp(x, c), k + 1)'
            BY <5>1 DEF GiveUp
          <6>2. Index' = Index /\ Checkpoint' = Checkpoint
            BY DEF Index, Checkpoint
          <6>3. plan' \notin (SaveTails)'
            BY <5>1, <6>1, <6>2, PlansExcludeNext DEF Exclusive
          <6> QED BY <6>3, SameSaves
        <5> QED BY <1>1, <1>10, <5>1, <5>2 DEF PlanOK, Kept
      <4> QED BY <4>1, <4>2
    <3>3. state' # Absent
      BY <2>2, <3>1, AbsentIsNone DEF GiveUp
    <3>4. ShadowOrder'
      <4>1. {} # Absent
        BY AbsentIsNone
      <4>2. k = 2 => files.shadow.idmap = {}
        BY <2>2 DEF GiveUp
      <4> QED BY <3>1, <3>3, <4>1, <4>2 DEF ShadowOrder
    <3> QED BY <3>1, <3>2, <3>3, <3>4 DEF Memory
  <2>3. CASE SavingLive
    BY <1>4, <1>10, <2>3
  <2> QED BY <1>1, <1>10, <2>1, <2>2, <2>3 DEF PlanOK
<1> QED BY <1>5, <1>6, <1>7, <1>8, <1>9, <1>10 DEF Memory

\* Where a handler goes on, its plan done, the files are in order.
LEMMA ReadyParts ==
    ASSUME Parts, plan = <<>>
    PROVE  /\ phase = "recover" => files.live.meta # Absent
           /\ phase = "rebuild" => state # Absent
           /\ phase = "swap" => Swap(12)
<1>1. ASSUME phase = "recover" PROVE files.live.meta # Absent
  BY <1>1, SameSaves DEF Parts, PlanOK, SavingLive
<1>2. ASSUME phase = "rebuild" PROVE state # Absent
  BY <1>2, Unfinished DEF Parts, PlanOK, SavingShadow
<1>3. ASSUME phase = "swap" PROVE Swap(12)
  <2>1. PICK k \in 0..12 : Swap(k)
    BY <1>3 DEF Parts, PlanOK
  <2>2. k \notin 0..11
    BY <2>1, Unfinished DEF Swap
  <2>3. k = 12
    BY <2>2
  <2> QED BY <2>1, <2>3
<1> QED BY <1>1, <1>2, <1>3

\* The three sets of files.
LEMMA FileTypes ==
    ASSUME FilesType
    PROVE  files.live \in File /\ files.old \in File /\ files.shadow \in File
BY DEF FilesType, Paths

\* Startup serves an index or nothing.
LEMMA StartIndexType ==
    ASSUME Parts
    PROVE  StartIndex = Absent \/ StartIndex \in Index
<1>1. files.live \in File
  BY FileTypes DEF Parts
<1> QED BY <1>1, LoadedType, EmptyType DEF StartIndex

\* The disk is as it was.
LEMMA SameDisk ==
    ASSUME Parts, UNCHANGED disk
    PROVE  FilesType' /\ ShadowOrder' /\ (state' = Absent => LiveThere')
           /\ (state' = Absent \/ state' \in Checkpoint)
BY DEF Parts, disk, FilesType, ShadowOrder, LiveThere, NoShadow, Memory

\* Startup keeps the invariant,
LEMMA StartHolds == ASSUME NEW outdated PROVE IInv /\ Start(outdated) => IInv'
<1> SUFFICES ASSUME Parts, Start(outdated) PROVE Parts'
  BY InvParts, InvPartsNext
<1>1. /\ UNCHANGED <<rows, disk, rebuild, cursors, request, bounds, raced, leftover>>
      /\ phase = "down" /\ phase' \in {"recover", "opening"} /\ served' = StartIndex
      /\ plan' = IF Complete(files.live) THEN <<>> ELSE SaveLive
  BY DEF Start, Ready
<1>2. FilesType' /\ ShadowOrder' /\ (state' = Absent => LiveThere')
      /\ (state' = Absent \/ state' \in Checkpoint)
  BY <1>1, SameDisk
<1>3. Memory'
  BY <1>1, <1>2, StartIndexType DEF Parts, Memory, rows, request
<1>4. HistoryType'
  <2>1. hollow' \in BOOLEAN
    BY DEF Start
  <2> QED BY <1>1, <2>1 DEF Parts, HistoryType
<1>5. PlanOK'
  <2>1. CASE Complete(files.live)
    BY <1>1, <2>1 DEF PlanOK, Complete, disk
  <2>2. CASE ~Complete(files.live)
    <3>1. served' # Absent
      BY <1>1, <2>2, EmptyType, AbsentIsNone DEF StartIndex
    <3>2. plan' \in (SaveTails)'
      BY <1>1, <2>2, SameSaves DEF SaveTails
    <3> QED BY <1>1, <3>1, <3>2 DEF PlanOK, SavingLive
  <2> QED BY <2>1, <2>2
<1>6. RequestOK'
  <2>1. embedding = 0 /\ saving = <<>>
    BY <1>1 DEF Parts, RequestOK
  <2> QED BY <1>1, <2>1, RequestStays DEF Parts
<1> QED BY <1>2, <1>3, <1>4, <1>5, <1>6 DEF Parts

\* so does the opening of the gate,
LEMMA OpenHolds == IInv /\ Open => IInv'
<1> SUFFICES ASSUME Parts, Open PROVE Parts'
  BY InvParts, InvPartsNext
<1>1. /\ UNCHANGED <<rows, disk, plan, served, rebuild, cursors, request, bounds, history>>
      /\ phase = "opening" /\ plan = <<>> /\ phase' = "serving"
  BY DEF Open, Ready
<1>2. FilesType' /\ ShadowOrder' /\ (state' = Absent => LiveThere')
      /\ (state' = Absent \/ state' \in Checkpoint)
  BY <1>1, SameDisk
<1>3. Memory' /\ HistoryType'
  BY <1>1, <1>2 DEF Parts, Memory, rows, history, HistoryType, request
<1>4. PlanOK'
  BY <1>1 DEF PlanOK
<1>5. RequestOK'
  <2>1. embedding = 0 /\ saving = <<>>
    BY <1>1 DEF Parts, RequestOK
  <2> QED BY <1>1, <2>1, RequestStays DEF Parts, history
<1> QED BY <1>2, <1>3, <1>4, <1>5 DEF Parts

\* the recovery of an interrupted swap,
LEMMA RecoverHolds == IInv /\ Recover => IInv'
<1> SUFFICES ASSUME Parts, Recover PROVE Parts'
  BY InvParts, InvPartsNext
<1>1. /\ UNCHANGED <<rows, disk, served, rebuild, cursors, request, bounds, history>>
      /\ phase = "recover" /\ plan = <<>> /\ phase' = "begin"
  BY DEF Recover, Ready
<1>2. FilesType' /\ ShadowOrder' /\ (state' = Absent => LiveThere')
      /\ (state' = Absent \/ state' \in Checkpoint)
  BY <1>1, SameDisk
<1>3. Memory' /\ HistoryType'
  BY <1>1, <1>2 DEF Parts, Memory, rows, history, HistoryType, request
<1>4. Dropping'
  <2> DEFINE S == {Unlink(p, n) : p \in DropPaths, n \in Names}
             s == IF files.old.meta = Absent THEN <<>> ELSE UnlinkPlan("old")
             t == IF state = Absent THEN UnlinkPlan("shadow") ELSE <<>>
  <2>1. plan' = s \o t
    <3>1. files.live.meta # Absent
      BY <1>1, ReadyParts
    <3> QED BY <3>1 DEF Recover
  <2>2. \A n \in Names : Unlink("old", n) \in S /\ (state = Absent => Unlink("shadow", n) \in S)
    BY DEF DropPaths
  <2>3. s \in Seq(S)
    <3> HIDE DEF S
    <3> QED BY <2>2 DEF UnlinkPlan, Names
  <2>4. t \in Seq(S)
    <3> HIDE DEF S
    <3> QED BY <2>2 DEF UnlinkPlan, Names
  <2>5. s \o t \in Seq(S)
    <3> HIDE DEF S, s, t
    <3> QED BY <2>3, <2>4
  <2>6. plan' \in Seq(S)
    BY <2>1, <2>5
  <2> QED BY <1>1, <2>6 DEF Dropping, DropPaths, Unlink, disk
<1>5. PlanOK'
  BY <1>1, <1>4 DEF PlanOK
<1>6. RequestOK'
  <2>1. embedding = 0 /\ saving = <<>>
    BY <1>1 DEF Parts, RequestOK
  <2> QED BY <1>1, <2>1, RequestStays DEF Parts, history
<1> QED BY <1>2, <1>3, <1>5, <1>6 DEF Parts

\* a rebuild that starts or resumes,
LEMMA StartOrResumeHolds ==
    ASSUME NEW added \in SUBSET (Ids \ (entries \cup deleted))
    PROVE  IInv /\ StartOrResume(added) => IInv'
<1> SUFFICES ASSUME Parts, StartOrResume(added) PROVE Parts'
  BY InvParts, InvPartsNext
<1>1. /\ UNCHANGED <<deleted, disk, served, cursors, request, faults, requests, raced>>
      /\ phase = "begin" /\ plan = <<>> /\ phase' = "rebuild" /\ entries' = entries \cup added
      /\ checkpoint' = IF Resumes(added) THEN state ELSE NewCheckpoint
      /\ shadow' = IF Resumes(added) THEN Loaded(files.shadow) ELSE Empty
      /\ plan' = IF InProgress(state) THEN <<>> ELSE <<PutState(checkpoint')>>
  BY DEF StartOrResume, Ready
<1>2. FilesType' /\ ShadowOrder' /\ (state' = Absent => LiveThere')
      /\ (state' = Absent \/ state' \in Checkpoint)
  BY <1>1, SameDisk
<1>3. entries' \in SUBSET Ids
  BY <1>1 DEF Parts, Memory
<1>4. checkpoint' \in Checkpoint
  <2>1. CASE Resumes(added)
    BY <1>1, <2>1 DEF Resumes, InProgress, Parts, Memory
  <2>2. CASE ~Resumes(added)
    <3>1. Cardinality(entries') \in Nat
      BY <1>3, IdSets
    <3> QED BY <1>1, <2>2, <3>1 DEF NewCheckpoint, Checkpoint
  <2> QED BY <2>1, <2>2
<1>5. shadow' \in Index
  <2>1. CASE Resumes(added)
    <3>1. files.shadow \in File /\ Complete(files.shadow) /\ files.shadow.idmap # Absent
      BY <2>1, FileTypes DEF Resumes, Complete, Parts, ShadowOrder
    <3> QED BY <1>1, <2>1, <3>1, LoadedType
  <2>2. CASE ~Resumes(added)
    BY <1>1, <2>2, EmptyType
  <2> QED BY <2>1, <2>2
<1>6. Memory'
  BY <1>1, <1>2, <1>3, <1>4, <1>5 DEF Parts, Memory, request
<1>7. HistoryType'
  <2>1. leftover' \in BOOLEAN
    BY DEF StartOrResume, Parts, HistoryType
  <2>2. hollow' \in BOOLEAN
    BY DEF StartOrResume
  <2> QED BY <1>1, <2>1, <2>2 DEF Parts, HistoryType
<1>8. PlanOK'
  <2>1. CASE InProgress(state)
    BY <1>1, <2>1 DEF PlanOK, InProgress, disk
  <2>2. CASE ~InProgress(state)
    BY <1>1, <2>2 DEF PlanOK, PutState
  <2> QED BY <2>1, <2>2
<1>9. RequestOK'
  BY <1>1, RequestStays DEF Parts, RequestOK
<1> QED BY <1>2, <1>6, <1>7, <1>8, <1>9 DEF Parts

\* A batch is made of rows.
LEMMA BatchRowsIn ==
    ASSUME Parts
    PROVE  BatchRows \in SUBSET Ids /\ BatchRows \subseteq entries
BY PageIn DEF BatchRows, Parts, Memory

\* A batch keeps the invariant,
LEMMA BatchHolds == IInv /\ Batch => IInv'
<1> SUFFICES ASSUME Parts, Batch PROVE Parts'
  BY InvParts, InvPartsNext
<1>1. /\ UNCHANGED <<rows, disk, phase, served, cursors, request, bounds, history>>
      /\ phase = "rebuild" /\ plan = <<>> /\ BatchRows # {}
      /\ shadow' = Add(shadow, BatchRows)
      /\ checkpoint' = [checkpoint EXCEPT !.last = Last(BatchRows),
                                          !.processed = @ + Cardinality(BatchRows)]
  BY DEF Batch, Ready
<1>2. FilesType' /\ ShadowOrder' /\ (state' = Absent => LiveThere')
      /\ (state' = Absent \/ state' \in Checkpoint)
  BY <1>1, SameDisk
<1>3. shadow \in Index /\ checkpoint \in Checkpoint
  BY <1>1 DEF Parts, Memory
<1>4. shadow' \in Index
  BY <1>1, <1>3, BatchRowsIn, AddType
<1>5. checkpoint' \in Checkpoint
  <2>1. Last(BatchRows) \in Ids /\ Cardinality(BatchRows) \in Nat
    BY <1>1, BatchRowsIn, LastIn, IdSets
  <2>2. checkpoint.processed + Cardinality(BatchRows) \in Nat
    BY <1>3, <2>1 DEF Checkpoint
  <2> HIDE DEF BatchRows
  <2> QED BY <1>1, <1>3, <2>1, <2>2 DEF Checkpoint
<1>6. Memory' /\ HistoryType'
  BY <1>1, <1>2, <1>4, <1>5 DEF Parts, Memory, rows, history, HistoryType, request
<1>7. PlanOK'
  <2>1. state # Absent
    BY <1>1, ReadyParts
  <2>2. CASE checkpoint'.processed % SaveInterval < BatchSize
    <3>1. plan' = <<PutState(checkpoint')>> \o SavePlan("shadow", shadow')
      BY <2>2 DEF Batch
    <3>2. plan' = (ShadowSave)'
      BY <3>1 DEF ShadowSave, SavePlan, Put, Saved, PutState
    <3>3. SavingShadow(0)'
      BY <3>2, WholePlansNext DEF SavingShadow
    <3> QED BY <1>1, <3>3 DEF PlanOK
  <2>3. CASE ~(checkpoint'.processed % SaveInterval < BatchSize)
    <3>1. plan' = <<PutState(checkpoint')>> \o <<>>
      BY <2>3 DEF Batch
    <3>2. plan' = <<PutState(checkpoint)>>'
      <4>1. <<PutState(checkpoint')>> \in Seq({PutState(checkpoint')})
        OBVIOUS
      <4>2. plan' = <<PutState(checkpoint')>>
        BY <3>1, <4>1, ConcatEmptySeq
      <4> QED BY <4>2 DEF PutState
    <3> QED BY <1>1, <3>2 DEF PlanOK
  <2> QED BY <2>2, <2>3
<1>8. RequestOK'
  BY <1>1, RequestStays DEF Parts, RequestOK, history
<1> QED BY <1>2, <1>6, <1>7, <1>8 DEF Parts

\* so does the validation that ends in the swap or a failed rebuild,
LEMMA FinalizeHolds == IInv /\ Finalize => IInv'
<1> SUFFICES ASSUME Parts, Finalize PROVE Parts'
  BY InvParts, InvPartsNext
<1>1. /\ UNCHANGED <<rows, disk, served, cursors, request, bounds, leftover, hollow>>
      /\ phase = "rebuild" /\ plan = <<>> /\ phase' = (IF Invalid THEN "serving" ELSE "swap")
      /\ raced' = (raced \/ (~Invalid /\ saving # <<>>))
  BY DEF Finalize, Ready
<1>2. FilesType' /\ ShadowOrder' /\ (state' = Absent => LiveThere')
      /\ (state' = Absent \/ state' \in Checkpoint)
  BY <1>1, SameDisk
<1>3. shadow \in Index /\ checkpoint \in Checkpoint /\ state # Absent
  BY <1>1, ReadyParts DEF Parts, Memory
<1>4. HistoryType'
  <2>1. raced' \in BOOLEAN
    BY DEF Finalize
  <2> QED BY <1>1, <2>1 DEF Parts, HistoryType
<1>5. CASE Invalid
  <2> DEFINE c == [checkpoint EXCEPT !.status = "failed"]
  <2>1. c \in Checkpoint
    BY <1>3 DEF Checkpoint
  <2>2. phase' = "serving" /\ plan' = SavePlan("shadow", shadow) \o <<PutState(c)>>
    BY <1>1, <1>5 DEF Finalize
  <2>3. PICK x \in Index : x = shadow
    BY <1>3
  <2>4. plan' = GivingUp(x, c)
    BY <2>2, <2>3 DEF GivingUp
  <2>5. PICK d \in Checkpoint : d = c
    BY <2>1
  <2> HIDE DEF c
  <2>6. plan' = Rest(GivingUp(x, d), 0)
    BY <2>4, <2>5, WholePlans
  <2>7. GivingUp(x, d)' = GivingUp(x, d)
    BY DEF GivingUp, SavePlan, Put, Saved, PutState
  <2>8. GiveUp(x, d, 0)'
    BY <1>1, <1>3, <1>5, <2>3, <2>6, <2>7 DEF GiveUp, Invalid, disk
  <2>9. PlanOK'
    BY <2>2, <2>8 DEF PlanOK
  <2>10. Memory'
    BY <1>1, <1>2, <2>2 DEF Parts, Memory, rows, request
  <2>11. plan' \notin SaveTails
    <3>1. plan' = GivingUp(x, d)' /\ Index' = Index /\ Checkpoint' = Checkpoint
      BY <2>4, <2>5, <2>7 DEF Index, Checkpoint
    <3> QED BY <3>1, PlansExcludeNext, SameSaves DEF Exclusive
  <2>12. RequestOK'
    BY <1>1, <2>2, <2>11, RequestStays DEF Parts, RequestOK
  <2> QED BY <1>2, <1>4, <2>9, <2>10, <2>12 DEF Parts
<1>6. CASE ~Invalid
  <2>1. phase' = "swap" /\ plan' = Swapping /\ shadow' = shadow /\ checkpoint' = checkpoint
    BY <1>1, <1>6 DEF Finalize, Swapping, rebuild
  <2>2. (Swapping)' = Swapping
    BY <2>1 DEF Swapping, SavePlan, SwapPlan, MovePlan, UnlinkPlan, Put, Saved, Move, Unlink
  <2>3. Swap(0)'
    BY <1>1, <1>3, <2>1, <2>2, WholePlansNext DEF Swap, disk
  <2>4. PlanOK'
    BY <2>1, <2>3 DEF PlanOK
  <2>5. Memory'
    BY <1>1, <1>2, <1>3, <2>1 DEF Parts, Memory, rows, request
  <2>6. RequestOK'
    BY <1>1, <1>6, <2>1, RequestStays DEF Parts, RequestOK
  <2> QED BY <1>2, <1>4, <2>4, <2>5, <2>6 DEF Parts
<1> QED BY <1>5, <1>6

\* At the end of the swap the live files are the saved shadow index, unless a
\* request wrote some of them.
LEMMA Swapped ==
    ASSUME Parts, phase = "swap", plan = <<>>
    PROVE  /\ shadow \in Index /\ state # Absent /\ NoShadow /\ LiveThere
           /\ ~raced => /\ files.live.bin = shadow.vecs /\ files.live.idmap = shadow.ids
                        /\ files.live.meta = Saved(shadow).meta
           /\ Loaded(files.live) \in Index /\ Loaded(files.live).ids = files.live.idmap
<1>1. Swap(12) /\ shadow \in Index /\ files.live \in File
  BY ReadyParts, FileTypes DEF Parts, Memory
<1>2. state # Absent /\ NoShadow /\ LiveThere
  BY <1>1 DEF Swap, NoShadow, LiveThere
<1>3. ~raced => /\ files.live.bin = shadow.vecs /\ files.live.idmap = shadow.ids
                /\ files.live.meta = Saved(shadow).meta
  BY <1>1 DEF Swap
<1>4. Loaded(files.live) \in Index /\ Loaded(files.live).ids = files.live.idmap
  BY <1>1, <1>2, LoadedType DEF LiveThere, Complete
<1> QED BY <1>1, <1>2, <1>3, <1>4

\* the swap in memory,
LEMMA AdoptHolds == IInv /\ Adopt => IInv'
<1> SUFFICES ASSUME Parts, Adopt PROVE Parts'
  BY InvParts, InvPartsNext
<1>1. /\ UNCHANGED <<rows, disk, embedding, saving, bounds, history>>
      /\ phase = "swap" /\ plan = <<>> /\ phase' = "serving" /\ plan' = Clearing
      /\ served' = IF served = Absent THEN Absent ELSE Loaded(files.live)
      /\ replaced' = IF saving \in {<<>>, SaveLive} THEN replaced ELSE served
  BY DEF Adopt, Ready, Clearing
<1>2. FilesType' /\ ShadowOrder' /\ (state' = Absent => LiveThere')
      /\ (state' = Absent \/ state' \in Checkpoint)
  BY <1>1, SameDisk
<1>3. Memory' /\ HistoryType'
  BY <1>1, <1>2, Swapped DEF Parts, Memory, rows, history, HistoryType
<1>4. Clear(0)'
  <2>1. plan' = (Clearing)'
    BY <1>1 DEF Clearing, UnlinkPlan, Unlink, PutState
  <2> QED BY <1>1, <2>1, Swapped, WholePlansNext DEF Clear, NoShadow, LiveThere, disk
<1>5. PlanOK'
  BY <1>1, <1>4 DEF PlanOK
<1>6. RequestOK'
  <2>1. raced' = raced
    BY <1>1 DEF history
  <2>2. ~raced => saving = <<>> /\ replaced' = Absent
    BY <1>1 DEF Parts, RequestOK, Alone
  <2>3. served # Absent => served' # Absent
    BY <1>1, Swapped, AbsentIsNone
  <2> QED BY <1>1, <2>1, <2>2, <2>3, SameSaves DEF Parts, RequestOK, Alone
<1> QED BY <1>2, <1>3, <1>5, <1>6 DEF Parts

\* a rebuild that raises,
LEMMA FailHolds == IInv /\ Fail => IInv'
<1> SUFFICES ASSUME Parts, Fail PROVE Parts'
  BY InvParts, InvPartsNext
<1>1. /\ UNCHANGED <<rows, disk, served, cursors, request, changes, requests, history>>
      /\ phase \in {"begin", "rebuild", "swap"} /\ phase' = "serving"
      /\ plan' = IF phase = "begin" THEN <<>>
                 ELSE <<PutState([checkpoint EXCEPT !.status = "failed"])>>
  BY DEF Fail
<1>2. FilesType' /\ ShadowOrder' /\ (state' = Absent => LiveThere')
      /\ (state' = Absent \/ state' \in Checkpoint)
  BY <1>1, SameDisk
<1>3. Memory' /\ HistoryType'
  BY <1>1, <1>2 DEF Parts, Memory, rows, HistoryType, history, request
<1>4. PlanOK' /\ plan' \notin SaveTails
  <2>1. CASE phase = "begin"
    BY <1>1, <2>1, SameSaves DEF PlanOK
  <2>2. CASE phase # "begin"
    <3>1. PICK c \in Checkpoint : c = [checkpoint EXCEPT !.status = "failed"]
      <4>1. checkpoint \in Checkpoint
        BY <1>1, <2>2 DEF Parts, Memory
      <4>2. [checkpoint EXCEPT !.status = "failed"] \in Checkpoint
        BY <4>1 DEF Checkpoint
      <4> QED BY <4>2
    <3>2. PICK x \in Index : x = Empty
      BY EmptyType
    <3>3. plan' = <<PutState(c)>>
      BY <1>1, <2>2, <3>1
    <3>4. plan' = Rest(GivingUp(x, c), 3)
      BY <3>3, FourShapes, LastOfFour
    <3>5. GivingUp(x, c)' = GivingUp(x, c) /\ Index' = Index /\ Checkpoint' = Checkpoint
      BY DEF GivingUp, SavePlan, Put, Saved, PutState, Index, Checkpoint
    <3>6. plan' = Rest(GivingUp(x, c), 3)'
      BY <3>4, <3>5 DEF Rest
    <3>7. GiveUp(x, c, 3)'
      BY <3>6 DEF GiveUp
    <3>8. plan' \notin SaveTails
      BY <3>5, <3>6, PlansExcludeNext, SameSaves DEF Exclusive
    <3> QED BY <1>1, <3>7, <3>8 DEF PlanOK
  <2> QED BY <2>1, <2>2
<1>5. RequestOK'
  BY <1>1, <1>4, RequestStays DEF Parts, RequestOK, history
<1> QED BY <1>2, <1>3, <1>4, <1>5 DEF Parts

\* What reconciliation removes are no rows, what it adds are.
LEMMA ReconciledType ==
    ASSUME Parts, served # Absent
    PROVE  /\ Reconciled \in Index
           /\ \E stale, fresh \in SUBSET Ids :
                /\ stale \cap entries = {} /\ fresh \subseteq entries
                /\ Reconciled.ids = (served.ids \ stale) \cup fresh
                /\ Reconciled.vecs = (served.vecs \ stale) \cup fresh
<1> DEFINE stale == StalePage \ entries
           kept == Remove(served, stale)
           fresh == ForwardPage \ kept.ids
<1>1. served \in Index /\ entries \in SUBSET Ids
  BY DEF Parts, Memory
<1>2. StalePage \subseteq served.ids /\ ForwardPage \subseteq entries
  BY PageIn DEF StalePage, ForwardPage
<1>3. stale \in SUBSET Ids /\ fresh \in SUBSET Ids /\ fresh \subseteq entries /\ stale \cap entries = {}
  BY <1>1, <1>2 DEF Index
<1>4. kept \in Index /\ kept.ids = served.ids \ stale /\ kept.vecs = served.vecs \ stale
  BY <1>1, RemoveType
<1>5. Reconciled = Add(kept, fresh)
  BY DEF Reconciled
<1> HIDE DEF kept, stale, fresh
<1>6. Reconciled \in Index /\ Reconciled.ids = kept.ids \cup fresh /\ Reconciled.vecs = kept.vecs \cup fresh
  BY <1>3, <1>4, <1>5, AddType
<1> QED BY <1>3, <1>4, <1>6

\* What a pass of reconciliation does: unless it changes the index, it saves nothing.
LEMMA ReconcileEffect ==
    ASSUME Reconcile
    PROVE  /\ UNCHANGED <<rows, disk, phase, rebuild, request, bounds, leftover, hollow>>
           /\ phase = "serving" /\ plan = <<>> /\ served # Absent
           /\ (raced => raced') /\ (raced \in BOOLEAN => raced' \in BOOLEAN)
           /\ \/ served' = served /\ plan' = <<>> /\ (raced' <=> raced)
              \/ /\ served' = Reconciled /\ plan' = SaveLive
                 /\ raced' <=> raced \/ saving # <<>>
              \/ served' = Reconciled /\ served' = served /\ plan' = <<>> /\ (raced' <=> raced)
<1>1. CASE InStep
  BY <1>1 DEF Reconcile, ReconcileDue, Ready
<1>2. CASE ~InStep /\ Reconciled = served
  BY <1>2 DEF Reconcile, ReconcileDue, Ready
<1>3. CASE ~InStep /\ Reconciled # served
  BY <1>3 DEF Reconcile, ReconcileDue, Ready
<1> QED BY <1>1, <1>2, <1>3

\* A pass of reconciliation keeps the invariant,
LEMMA ReconcileHolds == IInv /\ Reconcile => IInv'
<1> SUFFICES ASSUME Parts, Reconcile PROVE Parts'
  BY InvParts, InvPartsNext
<1>1. /\ UNCHANGED <<rows, disk, phase, rebuild, request, bounds, leftover, hollow>>
      /\ phase = "serving" /\ plan = <<>> /\ served # Absent
      /\ raced => raced'
  BY ReconcileEffect
<1>2. FilesType' /\ ShadowOrder' /\ (state' = Absent => LiveThere')
      /\ (state' = Absent \/ state' \in Checkpoint)
  BY <1>1, SameDisk
<1>3. served' \in Index /\ served' # Absent
  BY <1>1, ReconcileEffect, ReconciledType, AbsentIsNone DEF Parts, Memory
<1>4. Memory' /\ HistoryType'
  <2>1. raced' \in BOOLEAN
    BY ReconcileEffect DEF Parts, HistoryType
  <2> QED BY <1>1, <1>2, <1>3, <2>1 DEF Parts, Memory, rows, HistoryType, request
<1>5. PlanOK'
  <2>1. CASE plan' = <<>>
    BY <1>1, <2>1 DEF PlanOK
  <2>2. CASE plan' = SaveLive
    <3>1. plan' \in (SaveTails)'
      BY <2>2, SameSaves DEF SaveTails
    <3> QED BY <1>1, <1>3, <3>1 DEF PlanOK, SavingLive
  <2> QED BY <2>1, <2>2, ReconcileEffect
<1>6. RequestOK'
  <2>1. ~raced' /\ saving # <<>> => plan' \notin SaveTails
    BY ReconcileEffect, SameSaves
  <2> QED BY <1>1, <1>3, <2>1, RequestStays DEF Parts
<1> QED BY <1>2, <1>4, <1>5, <1>6 DEF Parts

\* so does one that fails to save.
LEMMA ReconcileFailsHolds == IInv /\ ReconcileFails => IInv'
<1> SUFFICES ASSUME Parts, ReconcileFails PROVE Parts'
  BY InvParts, InvPartsNext
<1>1. /\ UNCHANGED <<rows, disk, phase, served, rebuild, cursors, request, changes, requests, history>>
      /\ phase = "serving" /\ plan' = <<>>
  BY DEF ReconcileFails
<1>2. FilesType' /\ ShadowOrder' /\ (state' = Absent => LiveThere')
      /\ (state' = Absent \/ state' \in Checkpoint)
  BY <1>1, SameDisk
<1>3. Memory' /\ HistoryType'
  BY <1>1, <1>2 DEF Parts, Memory, rows, history, HistoryType, request
<1>4. PlanOK'
  BY <1>1 DEF PlanOK
<1>5. RequestOK'
  BY <1>1, RequestStays, SameSaves DEF Parts, RequestOK, history
<1> QED BY <1>2, <1>3, <1>4, <1>5 DEF Parts

\* The plan is as it was, and so is what it is a plan of.
SamePlan == /\ UNCHANGED <<files, state, phase, plan, shadow, checkpoint>>
            /\ raced => raced'
            /\ served # Absent => served' # Absent

\* The plans depend on the plan, the files and the indexes alone.
LEMMA SamePlans ==
    ASSUME SamePlan
    PROVE  /\ SavingLive => SavingLive'
           /\ \A k : SavingShadow(k) => SavingShadow(k)'
           /\ \A k : Swap(k) => Swap(k)'
           /\ \A k : Clear(k) => Clear(k)'
           /\ \A x, c, k : GiveUp(x, c, k) => GiveUp(x, c, k)'
           /\ Dropping => Dropping'
<1> USE DEF SamePlan
<1>1. SavingLive => SavingLive'
  BY SameSaves DEF SavingLive
<1>2. ASSUME NEW k, SavingShadow(k) PROVE SavingShadow(k)'
  BY <1>2 DEF SavingShadow, ShadowSave, SavePlan, Put, Saved, PutState, Rest
<1>3. ASSUME NEW k, Swap(k) PROVE Swap(k)'
  <2>1. Rest(Swapping, k)' = Rest(Swapping, k) /\ Saved(shadow)' = Saved(shadow)
    BY DEF Swapping, SwapPlan, MovePlan, UnlinkPlan, Move, Unlink, SavePlan, Put, Saved, Rest
  <2> QED BY <1>3, <2>1 DEF Swap
<1>4. ASSUME NEW k, Clear(k) PROVE Clear(k)'
  BY <1>4 DEF Clear, Clearing, UnlinkPlan, Unlink, PutState, NoShadow, LiveThere, Rest
<1>5. ASSUME NEW x, NEW c, NEW k, GiveUp(x, c, k) PROVE GiveUp(x, c, k)'
  BY <1>5 DEF GiveUp, GivingUp, SavePlan, Put, Saved, PutState, Rest
<1>6. Dropping => Dropping'
  BY DEF Dropping, DropPaths, Unlink
<1> QED BY <1>1, <1>2, <1>3, <1>4, <1>5, <1>6

\* Where these stay, a plan in order stays in order.
LEMMA SamePlanHolds ==
    ASSUME Parts, SamePlan
    PROVE  PlanOK'
<1>1. PlanOK
  BY DEF Parts
<1>2. Index' = Index /\ Checkpoint' = Checkpoint /\ PutState(checkpoint)' = PutState(checkpoint)
  BY DEF Index, Checkpoint, PutState, SamePlan
<1>3. phase' = phase /\ plan' = plan /\ files' = files /\ state' = state
  BY DEF SamePlan
<1>4. phase = "rebuild" => (\/ plan = <<>> /\ state # Absent
                            \/ plan = <<PutState(checkpoint)>>
                            \/ \E k \in 0..3 : SavingShadow(k)')
  BY <1>1, SamePlans DEF PlanOK
<1>5. phase = "swap" => \E k \in 0..12 : Swap(k)'
  BY <1>1, SamePlans DEF PlanOK
<1>6. phase = "serving" => \/ plan = <<>>
                           \/ SavingLive'
                           \/ \E k \in 0..3 : Clear(k)'
                           \/ \E x \in Index, c \in Checkpoint, k \in 0..3 : GiveUp(x, c, k)'
  BY <1>1, SamePlans DEF PlanOK
<1>7. /\ phase = "down" => plan = <<>>
      /\ phase = "opening" => SavingLive' \/ plan = <<>>
      /\ phase = "recover" => SavingLive' \/ (plan = <<>> /\ files.live.meta # Absent)
      /\ phase = "begin" => Dropping'
  BY <1>1, SamePlans DEF PlanOK
<1> QED BY <1>2, <1>3, <1>4, <1>5, <1>6, <1>7 DEF PlanOK

\* A request that begins to write the index keeps the invariant,
LEMMA WriteHolds ==
    ASSUME Parts, served' \in Index, Writes, embedding' = 0, replaced' = replaced,
           served # Absent, phase \in {"begin", "rebuild", "swap", "serving"},
           UNCHANGED <<rows, disk, phase, plan, rebuild, leftover, hollow>>
    PROVE  Parts'
<1>1. raced' = (raced \/ phase = "swap" \/ SavesLive) /\ saving' = SaveLive /\ served' # Absent
  BY AbsentIsNone DEF Writes
<1>2. FilesType' /\ ShadowOrder' /\ (state' = Absent => LiveThere')
      /\ (state' = Absent \/ state' \in Checkpoint)
  BY SameDisk
<1>3. raced' \in BOOLEAN
  BY DEF Writes
<1>4. Memory' /\ HistoryType'
  BY <1>1, <1>2, <1>3 DEF Parts, Memory, rows, HistoryType, rebuild
<1>5. PlanOK'
  BY <1>1, SamePlanHolds DEF SamePlan, disk, rebuild
<1>6. RequestOK'
  <2>1. ~raced' => phase # "swap" /\ plan \notin SaveTails /\ replaced = Absent
    BY <1>1, SaveShapes DEF SavesLive, Parts, RequestOK, Alone
  <2>2. saving' \in (SaveTails)'
    BY <1>1, SameSaves DEF SaveTails
  <2>3. SaveLive # <<>>
    BY DEF SaveLive
  <2> QED BY <1>1, <2>1, <2>2, <2>3, SameSaves DEF RequestOK, Alone
<1> QED BY <1>2, <1>4, <1>5, <1>6 DEF Parts

\* one that computes a vector, and one that fails,
LEMMA RequestHolds ==
    ASSUME IInv, (\E i \in Ids : Embed(i) \/ DropVector(i)) \/ AddVector \/ RequestFails
    PROVE  IInv'
<1> SUFFICES ASSUME Parts PROVE Parts'
  BY InvParts, InvPartsNext
<1>1. ASSUME NEW i \in Ids, Embed(i) PROVE Parts'
  <2>1. /\ Answering /\ saving = <<>> /\ embedding' = i
        /\ UNCHANGED <<rows, disk, phase, plan, served, rebuild, cursors, saving, replaced,
                       changes, faults, history>>
    BY <1>1 DEF Embed, Free
  <2>2. FilesType' /\ ShadowOrder' /\ (state' = Absent => LiveThere')
        /\ (state' = Absent \/ state' \in Checkpoint)
    BY <2>1, SameDisk
  <2>3. Memory' /\ HistoryType'
    BY <2>1, <2>2 DEF Parts, Memory, rows, history, HistoryType, rebuild
  <2>4. PlanOK'
    BY <2>1, SamePlanHolds DEF SamePlan, disk, rebuild, history
  <2>5. RequestOK'
    BY <2>1, SameSaves DEF Parts, RequestOK, Alone, Answering, history
  <2> QED BY <2>2, <2>3, <2>4, <2>5 DEF Parts
<1>2. ASSUME NEW i \in Ids, DropVector(i) PROVE Parts'
  <2>1. /\ Answering /\ embedding = 0 /\ served' = Remove(served, {i}) /\ Writes
        /\ UNCHANGED <<rows, disk, phase, plan, rebuild, cursors, embedding, replaced,
                       changes, faults, leftover, hollow>>
    BY <1>2 DEF DropVector, Free
  <2>2. served' \in Index
    BY <2>1, RemoveType DEF Answering, Parts, Memory
  <2> QED BY <2>1, <2>2, WriteHolds DEF Answering
<1>3. CASE AddVector
  <2>1. /\ embedding # 0 /\ served' = Add(served, {embedding}) /\ embedding' = 0 /\ Writes
        /\ UNCHANGED <<rows, disk, phase, plan, rebuild, cursors, replaced,
                       bounds, leftover, hollow>>
    BY <1>3 DEF AddVector
  <2>2. served # Absent /\ phase \in {"begin", "rebuild", "swap", "serving"}
    BY <2>1 DEF Parts, RequestOK
  <2>3. served' \in Index
    <3>1. served \in Index /\ {embedding} \in SUBSET Ids
      BY <2>1, <2>2 DEF Parts, Memory
    <3> QED BY <2>1, <3>1, AddType
  <2> QED BY <2>1, <2>2, <2>3, WriteHolds
<1>4. CASE RequestFails
  <2>1. /\ embedding' = 0 /\ saving' = <<>> /\ replaced' = Absent
        /\ UNCHANGED <<rows, disk, phase, plan, served, rebuild, cursors, changes, requests, history>>
    BY <1>4 DEF RequestFails
  <2>2. FilesType' /\ ShadowOrder' /\ (state' = Absent => LiveThere')
        /\ (state' = Absent \/ state' \in Checkpoint)
    BY <2>1, SameDisk
  <2>3. Memory' /\ HistoryType'
    BY <2>1, <2>2 DEF Parts, Memory, rows, history, HistoryType, rebuild
  <2>4. PlanOK'
    BY <2>1, SamePlanHolds DEF SamePlan, disk, rebuild, history
  <2>5. RequestOK'
    BY <2>1 DEF RequestOK, Alone
  <2> QED BY <2>2, <2>3, <2>4, <2>5 DEF Parts
<1> QED BY <1>1, <1>2, <1>3, <1>4

\* What one step of a request's save writes.
LEMMA PersistEffect ==
    ASSUME Parts, Persist
    PROVE  \E x \in Index :
             /\ x = (IF replaced = Absent THEN served ELSE replaced)
             /\ saving \in SaveTails /\ FileStep(Head(saving), x)
<1>1. saving \in SaveTails /\ served \in Index /\ (replaced = Absent \/ replaced \in Index)
  BY DEF Persist, Parts, RequestOK, Memory
<1> QED BY <1>1 DEF Persist

\* one step of its save, and of what the plan of the other thread relies on
\* it takes nothing away.
LEMMA PersistHolds == IInv /\ Persist => IInv'
<1> SUFFICES ASSUME Parts, Persist PROVE Parts'
  BY InvParts, InvPartsNext
<1>1. /\ saving' = Tail(saving) /\ saving # <<>>
      /\ replaced' = IF saving' = <<>> THEN Absent ELSE replaced
      /\ UNCHANGED <<rows, phase, plan, served, rebuild, cursors, embedding, bounds, history>>
  BY DEF Persist
<1>2. PICK x \in Index : saving \in SaveTails /\ FileStep(Head(saving), x)
  BY PersistEffect
<1>3. FilesType' /\ state' = state /\ files'.shadow = files.shadow
  BY <1>2, SaveNext DEF Parts
<1>4. /\ files.live.bin # Absent => files'.live.bin # Absent
      /\ files.live.idmap # Absent => files'.live.idmap # Absent
      /\ files.live.meta # Absent => files'.live.meta # Absent
  BY <1>2, SaveStays DEF Parts
<1>5. ShadowOrder' /\ (state' = Absent => LiveThere')
  BY <1>3, <1>4 DEF Parts, ShadowOrder, NoShadow, LiveThere
<1>6. Memory' /\ HistoryType'
  BY <1>1, <1>3 DEF Parts, Memory, rows, history, HistoryType, rebuild
<1>7. saving' \in SaveTails \cup {<<>>}
  BY <1>1, <1>2, SaveShapes
<1>8. RequestOK'
  BY <1>1, <1>7, SameSaves DEF Parts, RequestOK, Alone, history
<1>9. /\ phase' = phase /\ plan' = plan /\ shadow' = shadow /\ checkpoint' = checkpoint
      /\ raced' = raced /\ served' = served
  BY <1>1 DEF rebuild, history
<1>10. phase \in {"begin", "rebuild", "swap", "serving"} /\ (phase = "swap" => raced)
  BY <1>1 DEF Parts, RequestOK, Alone
<1>11. PlanOK
  BY DEF Parts
<1>12. CASE phase = "begin"
  <2>1. Dropping'
    BY <1>3, <1>9, <1>11, <1>12 DEF PlanOK, Dropping, DropPaths, Unlink
  <2>2. PlanOK'
    BY <1>9, <1>12, <2>1 DEF PlanOK
  <2> QED BY <1>3, <1>5, <1>6, <1>8, <2>2 DEF Parts
<1>13. CASE phase = "rebuild"
  <2>1. ASSUME NEW k \in 0..3, SavingShadow(k) PROVE SavingShadow(k)'
    BY <1>3, <1>9, <2>1 DEF SavingShadow, ShadowSave, SavePlan, Put, Saved, PutState, Rest
  <2>2. PutState(checkpoint)' = PutState(checkpoint)
    BY <1>9 DEF PutState
  <2>3. PlanOK'
    <3>1. \/ plan = <<>> /\ state # Absent
          \/ plan = <<PutState(checkpoint)>>
          \/ \E k \in 0..3 : SavingShadow(k)'
      BY <1>11, <1>13, <2>1 DEF PlanOK
    <3> QED BY <1>3, <1>9, <1>13, <2>2, <3>1 DEF PlanOK
  <2> QED BY <1>3, <1>5, <1>6, <1>8, <2>3 DEF Parts
<1>14. CASE phase = "swap"
  <2>1. PICK k \in 0..12 : Swap(k)
    BY <1>11, <1>14 DEF PlanOK
  <2>2. Rest(Swapping, k)' = Rest(Swapping, k) /\ Saved(shadow)' = Saved(shadow)
    BY <1>9 DEF Swapping, SwapPlan, MovePlan, UnlinkPlan, Move, Unlink, SavePlan, Put, Saved, Rest
  <2>3. raced'
    BY <1>9, <1>10, <1>14
  <2>4. Swap(k)'
    BY <1>3, <1>4, <1>9, <2>1, <2>2, <2>3 DEF Swap
  <2>5. PlanOK'
    BY <1>9, <1>14, <2>4 DEF PlanOK
  <2> QED BY <1>3, <1>5, <1>6, <1>8, <2>5 DEF Parts
<1>15. CASE phase = "serving"
  <2>1. SavingLive => SavingLive'
    BY <1>9, SameSaves DEF SavingLive
  <2>2. ASSUME NEW k \in 0..3, Clear(k) PROVE Clear(k)'
    BY <1>3, <1>4, <1>9, <2>2 DEF Clear, Clearing, UnlinkPlan, Unlink, PutState, NoShadow, LiveThere, Rest
  <2>3. ASSUME NEW y \in Index, NEW c \in Checkpoint, NEW k \in 0..3, GiveUp(y, c, k)
        PROVE  GiveUp(y, c, k)'
    BY <1>3, <1>9, <2>3 DEF GiveUp, GivingUp, SavePlan, Put, Saved, PutState, Rest
  <2>4. Index' = Index /\ Checkpoint' = Checkpoint
    BY DEF Index, Checkpoint
  <2>5. PlanOK'
    <3>1. \/ plan = <<>>
          \/ SavingLive'
          \/ \E k \in 0..3 : Clear(k)'
          \/ \E y \in Index, c \in Checkpoint, k \in 0..3 : GiveUp(y, c, k)'
      BY <1>11, <1>15, <2>1, <2>2, <2>3 DEF PlanOK
    <3> QED BY <1>9, <1>15, <2>4, <3>1 DEF PlanOK
  <2> QED BY <1>3, <1>5, <1>6, <1>8, <2>5 DEF Parts
<1> QED BY <1>10, <1>12, <1>13, <1>14, <1>15

\* Changed rows and crashes keep the invariant.
LEMMA EnvironmentHolds ==
    ASSUME IInv, (\E i \in Ids : ChangeRow(i)) \/ Crash \/ UNCHANGED vars
    PROVE  IInv'
<1> SUFFICES ASSUME Parts PROVE Parts'
  BY InvParts, InvPartsNext
<1>1. UNCHANGED disk
  BY DEF ChangeRow, Crash, vars
<1>2. FilesType' /\ ShadowOrder' /\ (state' = Absent => LiveThere')
      /\ (state' = Absent \/ state' \in Checkpoint)
  BY <1>1, SameDisk
<1>3. CASE Crash
  <2>1. /\ phase' = "down" /\ plan' = <<>> /\ served' = Absent
        /\ embedding' = 0 /\ saving' = <<>> /\ replaced' = Absent
        /\ UNCHANGED <<rows, history>>
    BY <1>3 DEF Crash
  <2>2. Memory' /\ HistoryType'
    BY <1>2, <2>1 DEF Parts, Memory, HistoryType, history, rows
  <2>3. PlanOK' /\ RequestOK'
    BY <2>1 DEF PlanOK, RequestOK, Alone
  <2> QED BY <1>2, <2>2, <2>3 DEF Parts
<1>4. ASSUME SamePlan, entries' \subseteq Ids, deleted' \subseteq Ids, UNCHANGED <<served, request, history>>
      PROVE  Parts'
  <2>1. PlanOK'
    BY <1>4, SamePlanHolds
  <2>2. Memory' /\ HistoryType'
    BY <1>2, <1>4 DEF Parts, Memory, SamePlan, HistoryType, history, request
  <2>3. RequestOK'
    BY <1>4, RequestStays DEF Parts, RequestOK, Alone, SamePlan, history
  <2> QED BY <1>2, <2>1, <2>2, <2>3 DEF Parts
<1>5. ASSUME NEW i \in Ids, ChangeRow(i) PROVE Parts'
  <2>1. entries' \subseteq Ids /\ deleted' \subseteq Ids
    BY <1>5 DEF ChangeRow, Parts, Memory
  <2> QED BY <1>4, <1>5, <2>1 DEF ChangeRow, SamePlan, disk, rebuild, history
<1>6. CASE UNCHANGED vars
  BY <1>4, <1>6 DEF vars, SamePlan, disk, rebuild, rows, history, Parts, Memory
<1> QED BY <1>3, <1>5, <1>6

\* Every step keeps the invariant.
LEMMA StepHolds == IInv /\ [Next]_vars => IInv'
BY PerformHolds, StartHolds, OpenHolds, RecoverHolds, StartOrResumeHolds, BatchHolds,
   FinalizeHolds, AdoptHolds, FailHolds, ReconcileHolds, ReconcileFailsHolds, RequestHolds,
   PersistHolds, EnvironmentHolds DEF Next

\* It holds in every reachable state.
LEMMA Inductive == Spec => []IInv
BY InitHolds, StepHolds, PTL DEF Spec

\* The files, the checkpoint and the indexes have the shapes load, save and the
\* rebuild coordinator give them, whatever crash, exception or write by a
\* request falls between two file operations.
THEOREM VectorTypes == Spec => []TypeOK
<1>1. IInv => TypeOK
  BY DEF IInv
<1> QED BY <1>1, Inductive, PTL

\* While a file of the live index is missing, in _atomic_swap_files or after a
\* crash in it, the rebuild's state file is there: the next start rebuilds.
\* Requests that save the served index meanwhile take nothing from this.
THEOREM SwapsAreGuarded == Spec => []SwapGuarded
<1>1. IInv => SwapGuarded
  BY DEF IInv
<1> QED BY <1>1, Inductive, PTL

-----------------------------------------------------------------------------
(* Backed.  An id map never knows an id that is still to come, so a new row
   cannot be taken for one that has its vector; and the served index covers
   its own ids and those of the saved id map, so that a native index saved
   from it fits either. *)

\* No rebuild is unfinished: what the live files hold is the index.
Settled == state = Absent \/ (phase = "serving" /\ Finishing)

\* Ids that are or were rows.
Known == entries \cup deleted
KnownOK ==
    /\ files.live.idmap # Absent => files.live.idmap \subseteq Known
    /\ files.shadow.idmap # Absent => files.shadow.idmap \subseteq Known
    /\ served # Absent => served.ids \subseteq Known
    /\ phase \in {"rebuild", "swap"} => shadow.ids \subseteq Known
    /\ embedding # 0 => embedding \in Known
    /\ replaced # Absent => replaced.ids \subseteq Known

\* Every one of these ids that is a row has a vector.
Covers(ids, vecs, E) == ids \cap E \subseteq vecs

\* One of the threads has this left of a save of the live index.
Writing(s) ==
    /\ s \in SaveTails
    /\ saving = s \/ (phase \in {"opening", "recover", "serving"} /\ plan = s)

LiveFits == files.live.meta > 0 => Covers(files.live.idmap, files.live.bin, entries)
ServedFits ==
    served # Absent =>
        /\ Covers(served.ids, served.vecs, entries)
        /\ Covers(files.live.idmap, served.vecs, entries)
        /\ \A s \in SaveTails : Writing(s) =>
            /\ Head(s) = Save("idmap") => Covers(served.ids, files.live.bin, entries)
            /\ Head(s) = Save("meta") => Covers(files.live.idmap, files.live.bin, entries)
ShadowFits ==
    phase \in {"rebuild", "swap"} =>
        /\ Covers(shadow.ids, shadow.vecs, entries)
        /\ ~leftover /\ files.shadow.meta # Absent => Covers(files.shadow.idmap, shadow.vecs, entries)
ShadowFilesFit ==
    ~leftover /\ files.shadow.meta # Absent /\ files.shadow.bin # Absent
        => Covers(files.shadow.idmap, files.shadow.bin, entries)
GiveUpFits ==
    \A x \in Index, c \in Checkpoint :
        phase = "serving" /\ plan = GivingUp(x, c) /\ ~leftover /\ files.shadow.meta # Absent
            => Covers(files.shadow.idmap, x.vecs, entries)

Fits == /\ Settled => LiveFits /\ ServedFits
        /\ ShadowFits /\ ShadowFilesFit /\ GiveUpFits
BInv == KnownOK /\ (~hollow /\ ~raced => Fits)

\* Fewer ids are covered if more are.
LEMMA CoversFewer ==
    ASSUME NEW ids, NEW more, NEW vecs, NEW E, ids \subseteq more, Covers(more, vecs, E)
    PROVE  Covers(ids, vecs, E)
BY DEF Covers

\* No ids are covered by any vectors.
LEMMA CoversNone == \A vecs, E : Covers({}, vecs, E)
BY DEF Covers

\* Added rows are covered by their new vectors.
LEMMA CoversAdd ==
    ASSUME NEW x \in Index, NEW new \in SUBSET Ids, NEW ids, NEW E, Covers(ids, x.vecs, E)
    PROVE  Covers(ids \cup new, Add(x, new).vecs, E)
BY AddType DEF Covers

\* An index loaded from files that are not hollow covers its ids.
LEMMA CoversLoaded ==
    ASSUME NEW f \in File, Complete(f), f.idmap # Absent, ~Hollow(f), NEW E,
           f.meta > 0 => Covers(f.idmap, f.bin, E)
    PROVE  Covers(f.idmap, Loaded(f).vecs, E)
<1>1. f.idmap \in SUBSET Ids /\ f.bin \in SUBSET Ids /\ f.meta \in Nat
  BY DEF File, Complete
<1>2. CASE f.meta = 0
  <2>1. f.idmap = {}
    BY <1>2 DEF Hollow, Complete
  <2> QED BY <2>1, CoversNone
<1>3. CASE f.meta > 0
  <2>1. Loaded(f).vecs = f.bin \cap f.idmap
    BY <1>3, LoadedType
  <2> QED BY <1>3, <2>1 DEF Covers
<1> QED BY <1>1, <1>2, <1>3

\* Rows that come are not known yet.
LEMMA CoversLater ==
    ASSUME NEW ids, NEW vecs, NEW E, NEW F, NEW K, ids \subseteq K, F \cap K \subseteq E,
           Covers(ids, vecs, E)
    PROVE  Covers(ids, vecs, F)
BY DEF Covers

\* The second layer holds initially.
LEMMA InitFits == Init => BInv
<1> SUFFICES ASSUME Init PROVE BInv
  OBVIOUS
<1>1. PICK S \in SUBSET entries :
        files = [p \in Paths |-> IF p = "live" THEN Saved(Add(Empty, S)) ELSE NoFiles]
  BY DEF Init
<1>2. entries \subseteq Ids /\ S \in SUBSET Ids
  BY DEF Init
<1>3. PICK y \in Index : y = Add(Empty, S)
  BY <1>2, AddType, EmptyType
<1>4. y.ids = S /\ y.vecs = S
  <2>1. Empty \in Index /\ Empty.ids = {} /\ Empty.vecs = {}
    BY EmptyType
  <2>2. Add(Empty, S).ids = Empty.ids \cup S /\ Add(Empty, S).vecs = Empty.vecs \cup S
    BY <1>2, <2>1, AddType
  <2> QED BY <1>3, <2>1, <2>2
<1>5. /\ files.live.bin = y.vecs /\ files.live.idmap = y.ids
      /\ files.shadow.idmap = Absent /\ files.shadow.meta = Absent
  BY <1>1, <1>3 DEF Paths, Saved, NoFiles
<1>6. KnownOK
  BY <1>4, <1>5 DEF Init, KnownOK, Known
<1>7. LiveFits
  BY <1>4, <1>5 DEF LiveFits, Covers
<1> QED BY <1>5, <1>6, <1>7 DEF BInv, Fits, ServedFits, ShadowFits, ShadowFilesFit, GiveUpFits, Init

\* One step of a save of the served index: the native index it writes covers
\* the id map it finds, and then the one that follows.
LEMMA SaveFits ==
    ASSUME FilesType, served \in Index, LiveFits, ServedFits, NEW s \in SaveTails, Writing(s),
           FileStep(Head(s), served), served' = served, entries' = entries,
           \A t : Writing(t)' => t = Tail(s)
    PROVE  LiveFits' /\ ServedFits'
<1>1. /\ files'.live.bin = IF Head(s) = Save("bin") THEN served.vecs ELSE files.live.bin
      /\ files'.live.idmap = IF Head(s) = Save("idmap") THEN served.ids ELSE files.live.idmap
      /\ files'.live.meta = IF Head(s) = Save("meta") THEN Saved(served).meta ELSE files.live.meta
  BY SaveNext
<1>2. /\ Covers(served.ids, served.vecs, entries)
      /\ Covers(files.live.idmap, served.vecs, entries)
      /\ Head(s) = Save("idmap") => Covers(served.ids, files.live.bin, entries)
      /\ Head(s) = Save("meta") => Covers(files.live.idmap, files.live.bin, entries)
  BY AbsentIsNone DEF ServedFits
<1>3. Save("bin") # Save("idmap") /\ Save("bin") # Save("meta") /\ Save("idmap") # Save("meta")
  BY DEF Save
<1>4. CASE Head(s) = Save("bin")
  <2>1. LiveFits'
    BY <1>1, <1>2, <1>3, <1>4 DEF LiveFits
  <2>2. ASSUME NEW t, Writing(t)' PROVE Head(t) = Save("idmap")
    <3>1. Tail(s) = <<Save("idmap"), Save("meta")>>
      BY <1>3, <1>4, SaveShapes
    <3>2. t = Tail(s)
      BY <2>2
    <3>3. Head(<<Save("idmap"), Save("meta")>>) = Save("idmap")
      OBVIOUS
    <3> QED BY <3>1, <3>2, <3>3
  <2>3. ServedFits'
    BY <1>1, <1>2, <1>3, <1>4, <2>2, SameSaves DEF ServedFits, Save
  <2> QED BY <2>1, <2>3
<1>5. CASE Head(s) = Save("idmap")
  <2>1. LiveFits'
    BY <1>1, <1>2, <1>3, <1>5 DEF LiveFits
  <2>2. ASSUME NEW t, Writing(t)' PROVE Head(t) = Save("meta")
    <3>1. Tail(s) = <<Save("meta")>>
      BY <1>3, <1>5, SaveShapes
    <3>2. t = Tail(s)
      BY <2>2
    <3>3. Head(<<Save("meta")>>) = Save("meta")
      OBVIOUS
    <3> QED BY <3>1, <3>2, <3>3
  <2>3. ServedFits'
    BY <1>1, <1>2, <1>3, <1>5, <2>2, SameSaves DEF ServedFits, Save
  <2> QED BY <2>1, <2>3
<1>6. CASE Head(s) = Save("meta")
  <2>1. LiveFits'
    BY <1>1, <1>2, <1>3, <1>6 DEF LiveFits
  <2>2. ASSUME NEW t, Writing(t)' PROVE FALSE
    <3>1. Tail(s) = <<>>
      BY <1>3, <1>6, SaveShapes
    <3>2. t \in (SaveTails)' /\ t = <<>>
      BY <2>2, <3>1 DEF Writing
    <3> QED BY <3>2, SameSaves
  <2>3. ServedFits'
    BY <1>1, <1>2, <1>3, <1>6, <2>2, SameSaves DEF ServedFits
  <2> QED BY <2>1, <2>3
<1> QED BY <1>4, <1>5, <1>6, SaveShapes

\* Where nobody begins to write, and files and rows stay, all fits as before.
LEMMA StillFits ==
    ASSUME LiveFits, ServedFits, files'.live = files.live, entries' = entries,
           served' = served \/ served' = Absent,
           \A s \in SaveTails : Writing(s)' => Writing(s)
    PROVE  LiveFits' /\ ServedFits'
<1>1. LiveFits'
  BY DEF LiveFits
<1>2. CASE served' = Absent
  BY <1>1, <1>2 DEF ServedFits
<1>3. CASE served' = served /\ served # Absent
  BY <1>1, <1>3, SameSaves DEF ServedFits, Save
<1> QED BY <1>1, <1>2, <1>3

\* A save of the live index keeps the second layer,
LEMMA LiveSaveFits ==
    ASSUME Parts, BInv, Perform, phase \in {"opening", "recover", "serving"}, SavingLive
    PROVE  BInv'
<1>1. Kept /\ served \in Index /\ plan \in SaveTails
  BY PerformKeeps DEF SavingLive, Parts, Memory
<1>2. /\ FileStep(Head(plan), served) /\ leftover' = leftover
      /\ plan' = Tail(plan) /\ (plan' = <<>> \/ SavingLive')
  BY <1>1, LiveSaveStep DEF Parts
<1>3. /\ state' = state /\ files'.shadow = files.shadow
      /\ files'.live.idmap = files.live.idmap \/ files'.live.idmap = served.ids
  BY <1>1, <1>2, SaveNext DEF Parts
<1>4. KnownOK'
  BY <1>1, <1>3, AbsentIsNone DEF BInv, KnownOK, Known, Kept, request
<1>5. ASSUME ~hollow, ~raced PROVE Fits'
  <2>1. Fits
    BY <1>5 DEF BInv
  <2>2. ShadowFits' /\ ShadowFilesFit'
    BY <1>1, <1>2, <1>3, <2>1 DEF Fits, ShadowFits, ShadowFilesFit, Kept
  <2>3. ~Finishing'
    BY <1>2, PlansExcludeNext DEF Exclusive, SavingLive
  <2>4. GiveUpFits'
    <3>1. \A x \in Index, c \in Checkpoint : plan' # GivingUp(x, c)'
      <4>1. Index' = Index /\ Checkpoint' = Checkpoint
        BY DEF Index, Checkpoint
      <4> QED BY <1>2, <4>1, PlansExcludeNext DEF Exclusive, SavingLive
    <3> QED BY <3>1 DEF GiveUpFits
  <2>5. ASSUME Settled' PROVE LiveFits' /\ ServedFits'
    <3>1. LiveFits /\ ServedFits
      BY <1>3, <2>1, <2>3, <2>5 DEF Fits, Settled
    <3>2. saving = <<>>
      BY <1>1, <1>5 DEF Parts, RequestOK, Alone
    <3>3. Writing(plan)
      BY <1>1 DEF Writing
    <3>4. ASSUME NEW t, Writing(t)' PROVE t = Tail(plan)
      BY <1>1, <1>2, <3>2, <3>4, SameSaves DEF Writing, Kept, request
    <3> QED BY <1>1, <1>2, <3>1, <3>3, <3>4, SaveFits DEF Parts, Kept
  <2> QED BY <2>2, <2>4, <2>5 DEF Fits
<1> QED BY <1>1, <1>4, <1>5 DEF BInv, Kept

\* The shadow files after a step of a save of an index, the native index first.
LEMMA ShadowSaveFits ==
    ASSUME Parts, BInv, Perform, phase = "rebuild", NEW k \in 0..3, SavingShadow(k)
    PROVE  BInv'
<1>1. Kept /\ shadow \in Index /\ checkpoint # Absent
  BY PerformKeeps, AbsentIsNone DEF Parts, Memory
<1>2. /\ state' = IF k = 0 THEN checkpoint ELSE state
      /\ (k = 3 => ~leftover') /\ (k # 3 => leftover' = leftover)
      /\ files'.live = files.live
      /\ files'.shadow.bin = IF k = 1 THEN shadow.vecs ELSE files.shadow.bin
      /\ files'.shadow.idmap = IF k = 2 THEN shadow.ids ELSE files.shadow.idmap
      /\ files'.shadow.meta = IF k = 3 THEN Saved(shadow).meta ELSE files.shadow.meta
  BY <1>1, ShadowSaveStep DEF SavingShadow, Parts
<1>3. KnownOK'
  BY <1>1, <1>2 DEF BInv, KnownOK, Known, Kept, request
<1>4. ASSUME ~hollow, ~raced PROVE Fits'
  <2>1. ShadowFits /\ ShadowFilesFit
    BY <1>4 DEF BInv, Fits
  <2>2. (k \in {2, 3} => files.shadow.bin = shadow.vecs) /\ (k = 3 => files.shadow.idmap = shadow.ids)
    BY DEF SavingShadow
  <2>3. ShadowFits'
    BY <1>1, <1>2, <2>1, <2>2 DEF ShadowFits, Kept
  <2>4. ShadowFilesFit'
    BY <1>1, <1>2, <2>1, <2>2 DEF ShadowFits, ShadowFilesFit, Kept
  <2>5. state' # Absent /\ phase' = "rebuild"
    BY <1>1, <1>2 DEF SavingShadow, Kept
  <2> QED BY <2>3, <2>4, <2>5 DEF Fits, Settled, GiveUpFits
<1> QED BY <1>1, <1>3, <1>4 DEF BInv, Kept

\* so does each operation of the swap,
LEMMA SwapFits ==
    ASSUME Parts, BInv, Perform, phase = "swap"
    PROVE  BInv'
<1>1. Kept /\ shadow \in Index /\ plan # <<>>
  BY PerformKeeps DEF Parts, Memory, Perform
<1>2. PICK k \in 0..12 : Swap(k)
  BY DEF Parts, PlanOK
<1>3. k \in 0..11
  <2>1. k # 12
    BY <1>1, <1>2, SwapShape, TwelveSteps DEF Swap
  <2> QED BY <2>1
<1>4. /\ state' = state
      /\ (k = 2 => ~leftover') /\ (k # 2 => leftover' = leftover)
      /\ files'.shadow.bin = IF k = 0 THEN shadow.vecs ELSE IF k = 6 THEN Absent ELSE files.shadow.bin
      /\ files'.shadow.idmap = IF k = 1 THEN shadow.ids ELSE IF k = 8 THEN Absent ELSE files.shadow.idmap
      /\ files'.shadow.meta = IF k = 2 THEN Saved(shadow).meta ELSE IF k = 7 THEN Absent ELSE files.shadow.meta
      /\ files'.live.idmap = IF k = 5 THEN Absent ELSE IF k = 8 THEN shadow.ids ELSE files.live.idmap
  BY <1>1, <1>2, <1>3, SwapStep DEF Parts
<1>5. KnownOK'
  BY <1>1, <1>4 DEF BInv, KnownOK, Known, Kept, request
<1>6. ASSUME ~hollow, ~raced PROVE Fits'
  <2>1. ShadowFits /\ ShadowFilesFit
    BY <1>6 DEF BInv, Fits
  <2>2. /\ k \in 1..6 => files.shadow.bin = shadow.vecs
        /\ k \in 2..8 => files.shadow.idmap = shadow.ids
        /\ k >= 8 => files.shadow.meta = Absent
        /\ state # Absent
    BY <1>2 DEF Swap
  <2>3. ShadowFits'
    BY <1>1, <1>3, <1>4, <2>1, <2>2 DEF ShadowFits, Kept
  <2>4. ShadowFilesFit'
    BY <1>1, <1>3, <1>4, <2>1, <2>2 DEF ShadowFits, ShadowFilesFit, Kept
  <2>5. state' # Absent /\ phase' = "swap"
    BY <1>1, <1>4, <2>2 DEF Kept
  <2> QED BY <2>3, <2>4, <2>5 DEF Fits, Settled, GiveUpFits
<1> QED BY <1>1, <1>5, <1>6 DEF BInv, Kept

\* of the clean-up,
LEMMA ClearFits ==
    ASSUME Parts, BInv, Perform, phase = "serving", NEW k \in 0..3, Clear(k)
    PROVE  BInv'
<1>1. Kept
  BY PerformKeeps
<1>2. /\ NoShadow' /\ leftover' = leftover /\ files'.live = files.live
      /\ IF k = 3 THEN plan' = <<>> /\ state' = Absent ELSE Clear(k + 1)' /\ state' = state
  BY ClearStep DEF Parts
<1>3. KnownOK'
  BY <1>1, <1>2 DEF BInv, KnownOK, Known, Kept, NoShadow, request
<1>4. ASSUME ~hollow, ~raced PROVE Fits'
  <2>1. Finishing
    BY Ends DEF Clear
  <2>2. LiveFits /\ ServedFits
    BY <1>4, <2>1 DEF BInv, Fits, Settled
  <2>3. plan' \notin SaveTails
    <3>1. CASE k = 3
      BY <1>2, <3>1, SameSaves
    <3>2. CASE k # 3
      <4>1. k + 1 \in 0..3 /\ Clear(k + 1)'
        BY <1>2, <3>2
      <4> QED BY <4>1, PlansExcludeNext, SameSaves DEF Exclusive, Clear
    <3> QED BY <3>1, <3>2
  <2>4. LiveFits' /\ ServedFits'
    BY <1>1, <1>2, <2>2, <2>3, SameSaves, StillFits DEF Writing, Kept, request
  <2> QED BY <1>1, <1>2, <2>4 DEF Fits, ShadowFits, ShadowFilesFit, GiveUpFits, NoShadow, Kept
<1> QED BY <1>1, <1>3, <1>4 DEF BInv, Kept

\* and of a rebuild that gives up.
LEMMA GiveUpStepFits ==
    ASSUME Parts, BInv, Perform, phase = "serving", NEW x \in Index, NEW c \in Checkpoint,
           NEW k \in 0..3, GiveUp(x, c, k)
    PROVE  BInv'
<1>1. Kept
  BY PerformKeeps
<1>2. /\ state' = IF k = 3 THEN c ELSE state
      /\ (k = 2 => ~leftover') /\ (k # 2 => leftover' = leftover)
      /\ IF k = 3 THEN plan' = <<>> ELSE GiveUp(x, c, k + 1)'
      /\ files'.live = files.live
      /\ files'.shadow.bin = IF k = 0 THEN x.vecs ELSE files.shadow.bin
      /\ files'.shadow.idmap = IF k = 1 THEN {} ELSE files.shadow.idmap
      /\ files'.shadow.meta = IF k = 2 THEN Saved(x).meta ELSE files.shadow.meta
  BY GiveUpStep DEF Parts
<1>3. KnownOK'
  BY <1>1, <1>2 DEF BInv, KnownOK, Known, Kept, request
<1>4. state' # Absent
  BY <1>2, AbsentIsNone DEF GiveUp
<1>5. ~Finishing' /\ \A y \in Index, d \in Checkpoint : plan' # GivingUp(y, d)'
  <2>1. Index' = Index /\ Checkpoint' = Checkpoint
    BY DEF Index, Checkpoint
  <2>2. CASE k = 3
    BY <1>2, <2>1, <2>2, PlansExcludeNext DEF Exclusive
  <2>3. CASE k # 3
    <3>1. k + 1 \in 0..3 /\ k + 1 \in 1..3 /\ plan' = Rest(GivingUp(x, c), k + 1)'
      BY <1>2, <2>3 DEF GiveUp
    <3> QED BY <2>1, <3>1, PlansExcludeNext DEF Exclusive
  <2> QED BY <2>2, <2>3
<1>6. ASSUME ~hollow, ~raced PROVE Fits'
  <2>1. ShadowFilesFit /\ GiveUpFits
    BY <1>6 DEF BInv, Fits
  <2>2. k = 0 /\ ~leftover /\ files.shadow.meta # Absent => Covers(files.shadow.idmap, x.vecs, entries)
    <3>1. k = 0 => plan = GivingUp(x, c)
      BY WholePlans DEF GiveUp
    <3> QED BY <2>1, <3>1 DEF GiveUpFits
  <2>3. k = 2 => files.shadow.idmap = {}
    BY DEF GiveUp
  <2>4. ShadowFilesFit'
    <3>1. entries' = entries
      BY <1>1 DEF Kept
    <3>2. CASE k = 0
      BY <1>2, <2>2, <3>1, <3>2 DEF ShadowFilesFit
    <3>3. CASE k \in {1, 2}
      <4>1. files'.shadow.idmap = {}
        BY <1>2, <2>3, <3>3
      <4> QED BY <4>1, CoversNone DEF ShadowFilesFit
    <3>4. CASE k = 3
      BY <1>2, <2>1, <3>1, <3>4 DEF ShadowFilesFit
    <3> QED BY <3>2, <3>3, <3>4
  <2> QED BY <1>1, <1>4, <1>5, <2>4 DEF Fits, Settled, ShadowFits, GiveUpFits, Kept
<1> QED BY <1>1, <1>3, <1>6 DEF BInv, Kept

\* Each file operation keeps the second layer.
LEMMA PerformFits ==
    ASSUME Parts, BInv, Perform
    PROVE  BInv'
<1>1. Kept /\ plan # <<>>
  BY PerformKeeps DEF Perform
<1>2. CASE phase \in {"opening", "recover"}
  <2>1. SavingLive
    BY <1>1, <1>2 DEF Parts, PlanOK
  <2> QED BY <1>2, <2>1, LiveSaveFits
<1>3. CASE phase = "begin"
  <2>1. /\ state' = state /\ leftover' = leftover /\ files'.live = files.live
        /\ files'.shadow.bin = files.shadow.bin /\ files'.shadow.idmap = files.shadow.idmap
        /\ files'.shadow.meta = files.shadow.meta
    BY <1>3, DropStep DEF Parts, PlanOK
  <2>2. KnownOK'
    BY <1>1, <2>1 DEF BInv, KnownOK, Known, Kept, request
  <2>3. ASSUME ~hollow, ~raced PROVE Fits'
    <3>1. Fits
      BY <2>3 DEF BInv
    <3>2. Settled' <=> Settled
      BY <1>1, <1>3, <2>1 DEF Settled, Kept
    <3>3. ASSUME NEW s \in SaveTails, Writing(s)' PROVE Writing(s)
      BY <1>1, <1>3, <3>3, SameSaves DEF Writing, Kept, request
    <3>4. LiveFits /\ ServedFits => LiveFits' /\ ServedFits'
      BY <1>1, <2>1, <3>3, StillFits DEF Kept
    <3> QED BY <1>1, <1>3, <2>1, <3>1, <3>2, <3>4
            DEF Fits, ShadowFits, ShadowFilesFit, GiveUpFits, Kept
  <2> QED BY <1>1, <2>2, <2>3 DEF BInv, Kept
<1>4. CASE phase = "rebuild"
  <2>1. CASE plan = <<PutState(checkpoint)>>
    <3>1. state' = checkpoint /\ files' = files /\ leftover' = leftover
      BY <2>1, StateStep DEF Parts
    <3>2. state' # Absent
      BY <1>4, <3>1, AbsentIsNone DEF Parts, Memory
    <3>3. KnownOK'
      BY <1>1, <3>1 DEF BInv, KnownOK, Known, Kept, request
    <3>4. ASSUME ~hollow, ~raced PROVE Fits'
      BY <1>1, <1>4, <3>1, <3>2, <3>4
         DEF BInv, Fits, Settled, ShadowFits, ShadowFilesFit, GiveUpFits, Kept
    <3> QED BY <1>1, <3>3, <3>4 DEF BInv, Kept
  <2>2. ASSUME NEW k \in 0..3, SavingShadow(k) PROVE BInv'
    BY <1>4, <2>2, ShadowSaveFits
  <2> QED BY <1>1, <1>4, <2>1, <2>2 DEF Parts, PlanOK
<1>5. CASE phase = "swap"
  BY <1>5, SwapFits
<1>6. CASE phase = "serving"
  <2>1. CASE SavingLive
    BY <1>6, <2>1, LiveSaveFits
  <2>2. ASSUME NEW k \in 0..3, Clear(k) PROVE BInv'
    BY <1>6, <2>2, ClearFits
  <2>3. ASSUME NEW x \in Index, NEW c \in Checkpoint, NEW k \in 0..3, GiveUp(x, c, k) PROVE BInv'
    BY <1>6, <2>3, GiveUpStepFits
  <2> QED BY <1>1, <1>6, <2>1, <2>2, <2>3 DEF Parts, PlanOK
<1> QED BY <1>1, <1>2, <1>3, <1>4, <1>5, <1>6 DEF Parts, PlanOK, Memory

\* Plans that are done, and those of startup and failure, neither finish a
\* rebuild nor give up one whose shadow is still to be saved.
LEMMA PlainPlans ==
    ASSUME plan' = <<>> \/ plan' \in SaveTails
    PROVE  ~Finishing' /\ \A x \in Index, c \in Checkpoint : plan' # GivingUp(x, c)'
<1>1. Index' = Index /\ Checkpoint' = Checkpoint
  BY DEF Index, Checkpoint
<1>2. ~Finishing'
  BY PlansExcludeNext, SameSaves DEF Exclusive
<1>3. ASSUME NEW x \in Index, NEW c \in Checkpoint, plan' = GivingUp(x, c)' PROVE FALSE
  <2>1. plan' # <<>> /\ plan' \notin (SaveTails)'
    BY <1>1, <1>3, PlansExcludeNext DEF Exclusive
  <2> QED BY <2>1, SameSaves
<1> QED BY <1>2, <1>3

\* Startup keeps the second layer: a hollow index is remembered.
LEMMA StartFits ==
    ASSUME Parts, BInv, NEW outdated, Start(outdated)
    PROVE  BInv'
<1>1. /\ UNCHANGED <<rows, disk, rebuild, cursors, request, bounds, raced, leftover>>
      /\ phase = "down" /\ phase' \in {"recover", "opening"} /\ served' = StartIndex
      /\ plan' = (IF Complete(files.live) THEN <<>> ELSE SaveLive)
      /\ hollow' = (hollow \/ Hollow(files.live))
  BY DEF Start, Ready
<1>2. /\ files' = files /\ state' = state /\ entries' = entries /\ deleted' = deleted
      /\ embedding' = embedding /\ saving' = saving /\ replaced' = replaced
  BY <1>1 DEF disk, rows, request
<1>3. KnownOK'
  <2>1. served' # Absent => served'.ids \subseteq Known
    <3>1. CASE ~Complete(files.live)
      BY <1>1, <3>1 DEF StartIndex, Empty
    <3>2. CASE Complete(files.live)
      BY <1>1, <3>2 DEF StartIndex, Loaded, BInv, KnownOK
    <3> QED BY <3>1, <3>2
  <2> QED BY <1>1, <1>2, <2>1 DEF BInv, KnownOK, Known
<1>4. ~Finishing' /\ \A x \in Index, c \in Checkpoint : plan' # GivingUp(x, c)'
  <2>1. plan' = <<>> \/ plan' \in SaveTails
    BY <1>1 DEF SaveTails
  <2> QED BY <2>1, PlainPlans
<1>5. ASSUME ~hollow', ~raced PROVE Fits'
  <2>1. Fits /\ ~Hollow(files.live)
    BY <1>1, <1>5 DEF BInv
  <2>2. ASSUME state = Absent PROVE LiveFits' /\ ServedFits'
    <3>1. LiveThere /\ LiveFits
      BY <2>1, <2>2 DEF Parts, Fits, Settled
    <3>2. /\ files.live \in File /\ Complete(files.live) /\ files.live.idmap # Absent
          /\ served' = Loaded(files.live) /\ plan' = <<>>
      BY <1>1, <3>1, FileTypes DEF Parts, LiveThere, Complete, StartIndex
    <3>3. served'.ids = files.live.idmap
      BY <3>2 DEF Loaded
    <3>4. Covers(files.live.idmap, served'.vecs, entries)
      BY <2>1, <3>1, <3>2, CoversLoaded DEF LiveFits
    <3>5. saving' = <<>>
      BY <1>1, <1>2 DEF Parts, RequestOK
    <3>6. \A s \in SaveTails : ~Writing(s)'
      BY <3>2, <3>5, SameSaves DEF Writing
    <3>7. LiveFits'
      BY <1>2, <3>1 DEF LiveFits
    <3> QED BY <1>2, <3>3, <3>4, <3>6, <3>7, SameSaves DEF ServedFits
  <2>3. Settled' => state = Absent
    BY <1>2, <1>4 DEF Settled
  <2> QED BY <1>1, <1>2, <1>4, <2>1, <2>2, <2>3 DEF Fits, ShadowFits, ShadowFilesFit, GiveUpFits
<1> QED BY <1>1, <1>3, <1>5 DEF BInv

\* A step of the threads that leaves the files, the rows and the served index
\* alone, with a plan that is done, keeps the second layer.
LEMMA QuietFits ==
    ASSUME Parts, BInv, UNCHANGED <<rows, disk, leftover, hollow, raced>>,
           served' = served \/ served' = Absent,
           embedding' \in {0, embedding}, saving' \in {<<>>, saving},
           replaced' \in {Absent, replaced},
           plan' = <<>>, phase' \notin {"rebuild", "swap"}
    PROVE  BInv'
<1>1. files' = files /\ state' = state /\ entries' = entries /\ deleted' = deleted
  BY DEF disk, rows
<1>2. KnownOK'
  BY <1>1 DEF BInv, KnownOK, Known
<1>3. ~Finishing' /\ \A x \in Index, c \in Checkpoint : plan' # GivingUp(x, c)'
  BY PlainPlans
<1>4. ASSUME ~hollow, ~raced PROVE Fits'
  <2>1. Fits
    BY <1>4 DEF BInv
  <2>2. ASSUME Settled' PROVE LiveFits' /\ ServedFits'
    <3>1. LiveFits /\ ServedFits
      BY <1>1, <1>3, <2>1, <2>2 DEF Fits, Settled
    <3>2. ASSUME NEW s \in SaveTails, Writing(s)' PROVE Writing(s)
      BY <3>2, SameSaves DEF Writing
    <3> QED BY <1>1, <3>1, <3>2, StillFits
  <2> QED BY <1>1, <1>3, <2>1, <2>2 DEF Fits, ShadowFits, ShadowFilesFit, GiveUpFits
<1> QED BY <1>2, <1>4 DEF BInv

\* The opening of the gate, recovery (its plan aside), a reconciliation that
\* fails to save and a crash are such steps.
LEMMA QuietSteps ==
    ASSUME Parts, BInv, Open \/ ReconcileFails \/ Crash
    PROVE  BInv'
<1>1. CASE Open
  BY <1>1, QuietFits DEF Open, Ready, request, history
<1>2. CASE ReconcileFails
  BY <1>2, QuietFits DEF ReconcileFails, request, history
<1>3. CASE Crash
  BY <1>3, QuietFits DEF Crash, history
<1> QED BY <1>1, <1>2, <1>3

\* Recovery does,
LEMMA RecoverFits ==
    ASSUME Parts, BInv, Recover
    PROVE  BInv'
<1>1. /\ phase = "recover" /\ plan = <<>> /\ phase' = "begin"
      /\ UNCHANGED <<rows, disk, served, rebuild, request, history>>
  BY DEF Recover, Ready
<1>2. /\ files' = files /\ state' = state /\ entries' = entries /\ deleted' = deleted
      /\ served' = served /\ leftover' = leftover /\ hollow' = hollow /\ raced' = raced
      /\ embedding' = embedding /\ saving' = saving /\ replaced' = replaced
  BY <1>1 DEF disk, rows, history, request
<1>3. KnownOK'
  BY <1>1, <1>2 DEF BInv, KnownOK, Known
<1>4. ASSUME ~hollow, ~raced PROVE Fits'
  <2>1. Fits
    BY <1>4 DEF BInv
  <2>2. ASSUME Settled' PROVE LiveFits' /\ ServedFits'
    <3>1. LiveFits /\ ServedFits
      BY <1>1, <1>2, <2>1, <2>2 DEF Fits, Settled
    <3>2. ASSUME NEW s \in SaveTails, Writing(s)' PROVE Writing(s)
      BY <1>1, <1>2, <3>2, SameSaves DEF Writing
    <3> QED BY <1>2, <3>1, <3>2, StillFits
  <2> QED BY <1>1, <1>2, <2>1, <2>2 DEF Fits, ShadowFits, ShadowFilesFit, GiveUpFits
<1> QED BY <1>2, <1>3, <1>4 DEF BInv

\* What the files and the served index are to fit is unharmed by new rows.
LEMMA RowsServed ==
    ASSUME BInv, LiveThere, LiveFits, ServedFits,
           files'.live = files.live, served' = served,
           entries' \cap Known \subseteq entries,
           \A s \in SaveTails : Writing(s)' => Writing(s)
    PROVE  LiveFits' /\ ServedFits'
<1>1. ASSUME NEW ids, NEW vecs, ids \subseteq Known, Covers(ids, vecs, entries)
      PROVE  Covers(ids, vecs, entries')
  BY <1>1, CoversLater
<1>2. files.live.idmap \subseteq Known /\ (served # Absent => served.ids \subseteq Known)
  BY DEF BInv, KnownOK, LiveThere
<1>3. LiveFits'
  BY <1>1, <1>2 DEF LiveFits
<1>4. ASSUME served # Absent PROVE ServedFits'
  <2>1. Covers(served.ids, served.vecs, entries')
    BY <1>1, <1>2, <1>4 DEF ServedFits
  <2>2. Covers(files.live.idmap, served.vecs, entries')
    BY <1>1, <1>2, <1>4 DEF ServedFits
  <2>3. ASSUME NEW s \in SaveTails, Writing(s)'
        PROVE  /\ Head(s) = Save("idmap") => Covers(served.ids, files.live.bin, entries')
               /\ Head(s) = Save("meta") => Covers(files.live.idmap, files.live.bin, entries')
    <3>1. Writing(s)
      BY <2>3
    <3> QED BY <1>1, <1>2, <1>4, <3>1 DEF ServedFits
  <2> QED BY <2>1, <2>2, <2>3, SameSaves DEF ServedFits, Save
<1> QED BY <1>3, <1>4 DEF ServedFits

\* a rebuild that starts or resumes (resumed leftovers are remembered),
LEMMA StartOrResumeFits ==
    ASSUME Parts, BInv, NEW added \in SUBSET (Ids \ (entries \cup deleted)), StartOrResume(added)
    PROVE  BInv'
<1>1. /\ UNCHANGED <<deleted, disk, served, request, raced>>
      /\ phase = "begin" /\ plan = <<>> /\ phase' = "rebuild" /\ entries' = entries \cup added
      /\ shadow' = (IF Resumes(added) THEN Loaded(files.shadow) ELSE Empty)
      /\ leftover' = (IF Resumes(added) THEN leftover ELSE files.shadow.meta # Absent)
      /\ hollow' = (hollow \/ (Resumes(added) /\ (leftover \/ Hollow(files.shadow))))
  BY DEF StartOrResume, Ready
<1>2. /\ files' = files /\ state' = state /\ deleted' = deleted /\ served' = served
      /\ embedding' = embedding /\ saving' = saving /\ replaced' = replaced
  BY <1>1 DEF disk, request
<1>3. Known \subseteq Known' /\ entries' \cap Known \subseteq entries
  BY <1>1 DEF Known
<1>4. shadow'.ids \subseteq Known
  <2>1. CASE Resumes(added)
    BY <1>1, <2>1 DEF Resumes, Complete, Loaded, Parts, ShadowOrder, BInv, KnownOK
  <2>2. CASE ~Resumes(added)
    BY <1>1, <2>2 DEF Empty
  <2> QED BY <2>1, <2>2
<1>5. KnownOK'
  BY <1>1, <1>2, <1>3, <1>4 DEF BInv, KnownOK
<1>6. ASSUME ~hollow', ~raced PROVE Fits'
  <2>1. Fits /\ ~hollow
    BY <1>1, <1>6 DEF BInv
  <2>2. ASSUME NEW ids, NEW vecs, ids \subseteq Known, Covers(ids, vecs, entries)
        PROVE  Covers(ids, vecs, entries')
    BY <1>3, <2>2, CoversLater
  <2>3. ASSUME Settled' PROVE LiveFits' /\ ServedFits'
    <3>1. LiveFits /\ ServedFits /\ LiveThere
      BY <1>1, <1>2, <2>1, <2>3 DEF Fits, Settled, Parts
    <3>2. ASSUME NEW s \in SaveTails, Writing(s)' PROVE Writing(s)
      BY <1>1, <1>2, <3>2, SameSaves DEF Writing
    <3> QED BY <1>2, <1>3, <3>1, <3>2, RowsServed
  <2>4. ShadowFits' /\ ShadowFilesFit'
    <3>1. CASE Resumes(added)
      <4>1. ~leftover /\ ~Hollow(files.shadow) /\ leftover' = leftover
        BY <1>1, <1>6, <3>1
      <4>2. files.shadow \in File /\ Complete(files.shadow) /\ files.shadow.idmap # Absent
        BY <3>1, FileTypes DEF Resumes, Complete, Parts, ShadowOrder
      <4>3. Covers(files.shadow.idmap, files.shadow.bin, entries)
        BY <2>1, <4>1, <4>2 DEF Fits, ShadowFilesFit, Complete
      <4>4. Covers(files.shadow.idmap, Loaded(files.shadow).vecs, entries)
        BY <4>1, <4>2, <4>3, CoversLoaded
      <4>5. /\ Covers(files.shadow.idmap, files.shadow.bin, entries')
            /\ Covers(files.shadow.idmap, shadow'.vecs, entries')
        BY <1>1, <2>2, <3>1, <4>2, <4>3, <4>4 DEF BInv, KnownOK
      <4>6. shadow'.ids = files.shadow.idmap
        BY <1>1, <3>1 DEF Loaded
      <4> QED BY <1>2, <4>5, <4>6 DEF ShadowFits, ShadowFilesFit
    <3>2. CASE ~Resumes(added)
      <4>1. shadow'.ids = {} /\ leftover' = (files.shadow.meta # Absent)
        BY <1>1, <3>2 DEF Empty
      <4> QED BY <1>2, <4>1, CoversNone DEF ShadowFits, ShadowFilesFit
    <3> QED BY <3>1, <3>2
  <2> QED BY <1>1, <2>3, <2>4 DEF Fits, GiveUpFits
<1> QED BY <1>1, <1>5, <1>6 DEF BInv

\* a batch,
LEMMA BatchFits ==
    ASSUME Parts, BInv, Batch
    PROVE  BInv'
<1>1. /\ phase = "rebuild" /\ plan = <<>> /\ phase' = phase
      /\ UNCHANGED <<rows, disk, served, request, history>>
      /\ shadow' = Add(shadow, BatchRows)
  BY DEF Batch, Ready
<1>2. /\ files' = files /\ state' = state /\ entries' = entries /\ deleted' = deleted
      /\ served' = served /\ leftover' = leftover /\ hollow' = hollow /\ raced' = raced
      /\ embedding' = embedding /\ replaced' = replaced
  BY <1>1 DEF disk, rows, history, request
<1>3. shadow \in Index /\ state # Absent
  BY <1>1, ReadyParts DEF Parts, Memory
<1>4. BatchRows \in SUBSET Ids /\ BatchRows \subseteq entries
  BY BatchRowsIn
<1>5. shadow'.ids = shadow.ids \cup BatchRows
  BY <1>1, <1>3, <1>4, AddType
<1>6. KnownOK'
  BY <1>1, <1>2, <1>4, <1>5 DEF BInv, KnownOK, Known
<1>7. ASSUME ~hollow, ~raced PROVE Fits'
  <2>1. Fits
    BY <1>7 DEF BInv
  <2>2. Covers(shadow'.ids, shadow'.vecs, entries)
    BY <1>1, <1>3, <1>4, <1>5, <2>1, CoversAdd DEF Fits, ShadowFits
  <2>3. ASSUME ~leftover, files.shadow.meta # Absent
        PROVE  Covers(files.shadow.idmap, shadow'.vecs, entries)
    <3>1. Covers(files.shadow.idmap, shadow.vecs, entries)
      BY <1>1, <2>1, <2>3 DEF Fits, ShadowFits
    <3>2. Covers(files.shadow.idmap \cup BatchRows, shadow'.vecs, entries)
      BY <1>1, <1>3, <1>4, <3>1, CoversAdd
    <3> QED BY <3>2, CoversFewer
  <2> QED BY <1>1, <1>2, <1>3, <2>1, <2>2, <2>3 DEF Fits, Settled, ShadowFits, ShadowFilesFit, GiveUpFits
<1> QED BY <1>2, <1>6, <1>7 DEF BInv

\* the validation that ends in the swap or a failed rebuild,
LEMMA FinalizeFits ==
    ASSUME Parts, BInv, Finalize
    PROVE  BInv'
<1>1. /\ phase = "rebuild" /\ plan = <<>> /\ phase' = (IF Invalid THEN "serving" ELSE "swap")
      /\ UNCHANGED <<rows, disk, served, request, leftover, hollow>>
      /\ ~Invalid => shadow' = shadow
      /\ raced => raced'
  BY DEF Finalize, Ready, rebuild
<1>2. /\ files' = files /\ state' = state /\ entries' = entries /\ deleted' = deleted
      /\ embedding' = embedding /\ replaced' = replaced
  BY <1>1 DEF disk, rows, request
<1>3. shadow \in Index /\ checkpoint \in Checkpoint /\ state # Absent
  BY <1>1, ReadyParts DEF Parts, Memory
<1>4. KnownOK'
  BY <1>1, <1>2 DEF BInv, KnownOK, Known
<1>5. ASSUME ~hollow, ~raced PROVE Fits'
  <2>1. Fits
    BY <1>5 DEF BInv
  <2>2. ShadowFilesFit' /\ ShadowFits'
    BY <1>1, <1>2, <2>1 DEF Fits, ShadowFilesFit, ShadowFits
  <2>3. CASE ~Invalid
    BY <1>1, <1>2, <1>3, <2>2, <2>3 DEF Fits, Settled, GiveUpFits
  <2>4. CASE Invalid
    <3>1. PICK c \in Checkpoint : c = [checkpoint EXCEPT !.status = "failed"]
      <4>1. [checkpoint EXCEPT !.status = "failed"] \in Checkpoint
        BY <1>3 DEF Checkpoint
      <4> QED BY <4>1
    <3>2. plan' = GivingUp(shadow, c)
      BY <2>4, <3>1 DEF Finalize, GivingUp
    <3>3. plan' = <<Put("shadow", "bin", shadow), Put("shadow", "idmap", shadow),
                    Put("shadow", "meta", shadow), PutState(c)>>
      BY <3>2, FourShapes
    <3>4. ~Finishing'
      <4>1. plan' # <<>> /\ plan'[Len(plan')] = PutState(c)
        BY <3>3
      <4>2. PutState(c) # PutState(Absent)
        BY AbsentIsNone DEF PutState
      <4> QED BY <4>1, <4>2 DEF Finishing, PutState
    <3>5. ASSUME NEW y \in Index, NEW d \in Checkpoint, plan' = GivingUp(y, d)'
          PROVE  y.vecs = shadow.vecs
      <4>1. GivingUp(y, d)' = GivingUp(y, d)
        BY DEF GivingUp, SavePlan, Put, Saved, PutState
      <4>2. plan' = <<Put("shadow", "bin", y), Put("shadow", "idmap", y),
                      Put("shadow", "meta", y), PutState(d)>>
        BY <3>5, <4>1, FourShapes
      <4>3. Put("shadow", "bin", y) = Put("shadow", "bin", shadow)
        BY <3>3, <4>2
      <4> QED BY <4>3 DEF Put, Saved
    <3>6. ~leftover /\ files.shadow.meta # Absent => Covers(files.shadow.idmap, shadow.vecs, entries)
      BY <1>1, <2>1 DEF Fits, ShadowFits
    <3>7. GiveUpFits'
      <4>1. Index' = Index /\ Checkpoint' = Checkpoint
        BY DEF Index, Checkpoint
      <4> QED BY <1>1, <1>2, <3>5, <3>6, <4>1 DEF GiveUpFits
    <3> QED BY <1>2, <1>3, <2>2, <3>4, <3>7 DEF Fits, Settled
  <2> QED BY <2>3, <2>4
<1> QED BY <1>1, <1>4, <1>5 DEF BInv

\* the swap in memory: what is loaded is the saved shadow index,
LEMMA AdoptFits ==
    ASSUME Parts, BInv, Adopt
    PROVE  BInv'
<1>1. /\ phase = "swap" /\ plan = <<>> /\ phase' = "serving" /\ plan' = Clearing
      /\ UNCHANGED <<rows, disk, embedding, saving, history>>
      /\ served' = (IF served = Absent THEN Absent ELSE Loaded(files.live))
      /\ replaced' = (IF saving \in {<<>>, SaveLive} THEN replaced ELSE served)
  BY DEF Adopt, Ready, Clearing
<1>2. /\ files' = files /\ state' = state /\ entries' = entries /\ deleted' = deleted
      /\ leftover' = leftover /\ hollow' = hollow /\ raced' = raced
  BY <1>1 DEF disk, rows, history
<1>3. shadow \in Index /\ NoShadow /\ LiveThere /\ files.live \in File
  BY <1>1, Swapped, FileTypes DEF Parts
<1>4. served' # Absent => served'.ids = files.live.idmap
  BY <1>1 DEF Loaded
<1>5. KnownOK'
  BY <1>1, <1>2, <1>3, <1>4 DEF BInv, KnownOK, Known, LiveThere
<1>6. Clear(0)'
  <2>1. plan' = (Clearing)'
    BY <1>1 DEF Clearing, UnlinkPlan, Unlink, PutState
  <2> QED BY <1>2, <1>3, <2>1, WholePlansNext DEF Clear, NoShadow, LiveThere
<1>7. plan' \notin SaveTails /\ \A x \in Index, c \in Checkpoint : plan' # GivingUp(x, c)'
  <2>1. Index' = Index /\ Checkpoint' = Checkpoint
    BY DEF Index, Checkpoint
  <2>2. Finishing'
    BY <1>6, PlansExcludeNext DEF Exclusive, Clear
  <2> QED BY <2>1, <2>2, PlansExcludeNext, SameSaves DEF Exclusive
<1>8. ASSUME ~hollow, ~raced PROVE Fits'
  <2>1. /\ files.live.bin = shadow.vecs /\ files.live.idmap = shadow.ids
        /\ files.live.meta = Saved(shadow).meta
    BY <1>1, <1>8, Swapped
  <2>2. ~Hollow(files.live) /\ Complete(files.live)
    <3>1. files.live.meta = Cardinality(shadow.ids) /\ shadow.ids \in SUBSET Ids
      BY <1>3, <2>1, SavedType
    <3>2. files.live.meta = 0 => files.live.idmap = {}
      BY <2>1, <3>1, IdSets
    <3> QED BY <1>3, <3>2 DEF Hollow, LiveThere, Complete
  <2>3. Covers(shadow.ids, shadow.vecs, entries)
    BY <1>1, <1>8 DEF BInv, Fits, ShadowFits
  <2>4. LiveFits'
    BY <1>2, <2>1, <2>3 DEF LiveFits
  <2>5. Covers(files.live.idmap, Loaded(files.live).vecs, entries)
    BY <1>3, <2>1, <2>2, <2>3, CoversLoaded DEF LiveThere
  <2>6. saving' = <<>>
    BY <1>1, <1>8 DEF Parts, RequestOK, Alone
  <2>7. \A s \in SaveTails : ~Writing(s)'
    BY <1>7, <2>6, SameSaves DEF Writing
  <2>8. ServedFits'
    BY <1>1, <1>2, <1>4, <2>5, <2>7, SameSaves DEF ServedFits
  <2> QED BY <1>1, <1>2, <1>3, <1>7, <2>4, <2>8
          DEF Fits, ShadowFits, ShadowFilesFit, GiveUpFits, NoShadow
<1> QED BY <1>2, <1>5, <1>8 DEF BInv

\* a rebuild that raises,
LEMMA FailFits ==
    ASSUME Parts, BInv, Fail
    PROVE  BInv'
<1>1. /\ phase \in {"begin", "rebuild", "swap"} /\ phase' = "serving"
      /\ UNCHANGED <<rows, disk, served, request, history>>
      /\ plan' = IF phase = "begin" THEN <<>>
                 ELSE <<PutState([checkpoint EXCEPT !.status = "failed"])>>
  BY DEF Fail
<1>2. /\ files' = files /\ state' = state /\ entries' = entries /\ deleted' = deleted
      /\ leftover' = leftover /\ hollow' = hollow /\ raced' = raced
      /\ embedding' = embedding /\ saving' = saving /\ replaced' = replaced
  BY <1>1 DEF disk, rows, history, request
<1>3. KnownOK'
  BY <1>1, <1>2 DEF BInv, KnownOK, Known
<1>4. /\ ~Finishing' /\ plan' \notin SaveTails
      /\ \A x \in Index, c \in Checkpoint : plan' # GivingUp(x, c)'
  <2>1. CASE phase = "begin"
    BY <1>1, <2>1, PlainPlans, SameSaves
  <2>2. CASE phase # "begin"
    <3>1. PICK c \in Checkpoint : c = [checkpoint EXCEPT !.status = "failed"]
      <4>1. checkpoint \in Checkpoint
        BY <1>1, <2>2 DEF Parts, Memory
      <4>2. [checkpoint EXCEPT !.status = "failed"] \in Checkpoint
        BY <4>1 DEF Checkpoint
      <4> QED BY <4>2
    <3>2. PICK x \in Index : x = Empty
      BY EmptyType
    <3>3. plan' = <<PutState(c)>>
      BY <1>1, <2>2, <3>1
    <3>4. plan' = Rest(GivingUp(x, c), 3)
      BY <3>3, FourShapes, LastOfFour
    <3>5. GivingUp(x, c)' = GivingUp(x, c) /\ Index' = Index /\ Checkpoint' = Checkpoint
      BY DEF GivingUp, SavePlan, Put, Saved, PutState, Index, Checkpoint
    <3>6. plan' = Rest(GivingUp(x, c), 3)'
      BY <3>4, <3>5 DEF Rest
    <3> QED BY <3>5, <3>6, PlansExcludeNext, SameSaves DEF Exclusive
  <2> QED BY <2>1, <2>2
<1>5. ASSUME ~hollow, ~raced PROVE Fits'
  <2>1. Fits
    BY <1>5 DEF BInv
  <2>2. ASSUME Settled' PROVE LiveFits' /\ ServedFits'
    <3>1. LiveFits /\ ServedFits
      BY <1>2, <1>4, <2>1, <2>2 DEF Fits, Settled
    <3>2. ASSUME NEW s \in SaveTails, Writing(s)' PROVE Writing(s)
      BY <1>2, <1>4, <3>2, SameSaves DEF Writing
    <3> QED BY <1>1, <1>2, <3>1, <3>2, StillFits
  <2> QED BY <1>1, <1>2, <1>4, <2>1, <2>2 DEF Fits, ShadowFits, ShadowFilesFit, GiveUpFits
<1> QED BY <1>2, <1>3, <1>5 DEF BInv

\* Where the served index loses ids that are no rows and gains rows with their
\* vectors, a save that begins then writes what fits.
LEMMA BeginFits ==
    ASSUME LiveFits, ServedFits, served # Absent, NEW stale, NEW fresh,
           stale \cap entries = {},
           served'.ids = (served.ids \ stale) \cup fresh,
           served'.vecs = (served.vecs \ stale) \cup fresh,
           files'.live = files.live, entries' = entries,
           \A s \in SaveTails : Writing(s)' => s = SaveLive
    PROVE  LiveFits' /\ ServedFits'
<1>1. LiveFits'
  BY DEF LiveFits
<1>2. /\ Covers(served'.ids, served'.vecs, entries)
      /\ Covers(files.live.idmap, served'.vecs, entries)
  BY DEF ServedFits, Covers
<1>3. Head(SaveLive) = Save("bin") /\ Save("bin") # Save("idmap") /\ Save("bin") # Save("meta")
  <2>1. Head(<<Save("bin"), Save("idmap"), Save("meta")>>) = Save("bin")
    OBVIOUS
  <2> QED BY <2>1 DEF SaveLive, Save
<1>4. ASSUME NEW s \in SaveTails, Writing(s)'
      PROVE  Head(s) # Save("idmap") /\ Head(s) # Save("meta")
  BY <1>3, <1>4
<1> QED BY <1>1, <1>2, <1>4, SameSaves DEF ServedFits, Save

\* Where the other thread stands still, the rest fits as before: a row that
\* comes has an id that no file knows.
LEMMA OthersFit ==
    ASSUME Parts, BInv,
           UNCHANGED <<state, phase, plan, shadow, checkpoint, leftover, hollow>>,
           files'.shadow = files.shadow, raced => raced', entries' \cap Known \subseteq entries,
           KnownOK', ~hollow /\ ~raced' /\ Settled => LiveFits' /\ ServedFits'
    PROVE  BInv'
<1>1. ASSUME NEW ids, NEW vecs, ids \subseteq Known, Covers(ids, vecs, entries)
      PROVE  Covers(ids, vecs, entries')
  BY <1>1, CoversLater
<1>2. ASSUME ~hollow, ~raced' PROVE Fits'
  <2>1. Fits /\ KnownOK
    BY <1>2 DEF BInv
  <2>2. Settled' <=> Settled
    BY DEF Settled, Finishing, PutState
  <2>3. files.shadow.meta # Absent => files.shadow.idmap # Absent
    BY DEF Parts, ShadowOrder
  <2>4. ASSUME NEW vecs, files.shadow.meta # Absent, Covers(files.shadow.idmap, vecs, entries)
        PROVE  Covers(files.shadow.idmap, vecs, entries')
    BY <1>1, <2>1, <2>3, <2>4 DEF KnownOK
  <2>5. ShadowFits'
    BY <1>1, <2>1, <2>4 DEF Fits, ShadowFits, KnownOK
  <2>6. ShadowFilesFit'
    BY <2>1, <2>4 DEF Fits, ShadowFilesFit
  <2>7. GiveUpFits'
    <3>1. ASSUME NEW x \in Index, NEW c \in Checkpoint PROVE GivingUp(x, c)' = GivingUp(x, c)
      BY DEF GivingUp, SavePlan, Put, Saved, PutState
    <3>2. Index' = Index /\ Checkpoint' = Checkpoint
      BY DEF Index, Checkpoint
    <3> QED BY <2>1, <2>4, <3>1, <3>2 DEF Fits, GiveUpFits
  <2> QED BY <1>2, <2>2, <2>5, <2>6, <2>7 DEF Fits
<1> QED BY <1>2 DEF BInv

\* and a pass of reconciliation.
LEMMA ReconcileFits ==
    ASSUME Parts, BInv, Reconcile
    PROVE  BInv'
<1>1. /\ UNCHANGED <<rows, disk, phase, rebuild, request, bounds, leftover, hollow>>
      /\ phase = "serving" /\ plan = <<>> /\ served # Absent /\ (raced => raced')
      /\ \/ served' = served /\ plan' = <<>>
         \/ served' = Reconciled /\ plan' = SaveLive /\ (raced' <=> raced \/ saving # <<>>)
  BY ReconcileEffect
<1>2. /\ files' = files /\ state' = state /\ entries' = entries /\ deleted' = deleted
      /\ embedding' = embedding /\ saving' = saving /\ replaced' = replaced
  BY <1>1 DEF disk, rows, request
<1>3. PICK stale \in SUBSET Ids, fresh \in SUBSET Ids :
        /\ stale \cap entries = {} /\ fresh \subseteq entries
        /\ Reconciled.ids = (served.ids \ stale) \cup fresh
        /\ Reconciled.vecs = (served.vecs \ stale) \cup fresh
  BY <1>1, ReconciledType
<1>4. KnownOK'
  BY <1>1, <1>2, <1>3 DEF BInv, KnownOK, Known
<1>5. ~Finishing' /\ \A x \in Index, c \in Checkpoint : plan' # GivingUp(x, c)'
  BY <1>1, PlainPlans DEF SaveTails
<1>6. ASSUME ~hollow, ~raced' PROVE Fits'
  <2>1. Fits
    BY <1>1, <1>6 DEF BInv
  <2>2. ASSUME Settled' PROVE LiveFits' /\ ServedFits'
    <3>1. LiveFits /\ ServedFits
      BY <1>1, <1>2, <1>5, <2>1, <2>2 DEF Fits, Settled
    <3>2. CASE served' = served /\ plan' = <<>>
      <4>1. ASSUME NEW s \in SaveTails, Writing(s)' PROVE Writing(s)
        BY <1>2, <3>2, <4>1, SameSaves DEF Writing
      <4> QED BY <1>2, <3>1, <3>2, <4>1, StillFits
    <3>3. CASE served' = Reconciled /\ plan' = SaveLive /\ saving = <<>>
      <4>1. \A s \in SaveTails : Writing(s)' => s = SaveLive
        BY <1>2, <3>3, SameSaves DEF Writing
      <4> QED BY <1>1, <1>2, <1>3, <3>1, <3>3, <4>1, BeginFits
    <3> QED BY <1>1, <1>6, <3>2, <3>3
  <2> QED BY <1>1, <1>2, <1>5, <2>1, <2>2 DEF Fits, ShadowFits, ShadowFilesFit, GiveUpFits
<1> QED BY <1>1, <1>4, <1>6 DEF BInv

\* So does a request: one that writes the served index alone,
LEMMA WriteFits ==
    ASSUME Parts, BInv, Writes, embedding' = 0, replaced' = replaced, served # Absent,
           NEW stale, NEW fresh, stale \cap entries = {}, fresh \subseteq Known,
           served'.ids = (served.ids \ stale) \cup fresh,
           served'.vecs = (served.vecs \ stale) \cup fresh,
           phase \in {"begin", "rebuild", "swap", "serving"},
           UNCHANGED <<rows, disk, phase, plan, rebuild, leftover, hollow>>
    PROVE  BInv'
<1>1. /\ files' = files /\ state' = state /\ entries' = entries /\ deleted' = deleted
      /\ shadow' = shadow /\ checkpoint' = checkpoint
  BY DEF disk, rows, rebuild
<1>2. saving' = SaveLive /\ (raced => raced') /\ (~raced' => ~SavesLive)
  BY DEF Writes
<1>3. KnownOK'
  BY <1>1 DEF BInv, KnownOK, Known
<1>4. ASSUME ~hollow, ~raced', Settled PROVE LiveFits' /\ ServedFits'
  <2>1. LiveFits /\ ServedFits
    BY <1>2, <1>4 DEF BInv, Fits
  <2>2. plan \notin SaveTails
    BY <1>2, <1>4, SaveShapes DEF SavesLive
  <2>3. \A s \in SaveTails : Writing(s)' => s = SaveLive
    BY <1>2, <2>2, SameSaves DEF Writing
  <2> QED BY <1>1, <2>1, <2>3, BeginFits
<1> QED BY <1>1, <1>2, <1>3, <1>4, OthersFit

\* one that computes a vector, one that adds or drops it, one that fails,
LEMMA RequestFits ==
    ASSUME Parts, BInv, (\E i \in Ids : Embed(i) \/ DropVector(i)) \/ AddVector \/ RequestFails
    PROVE  BInv'
<1>1. ASSUME UNCHANGED <<rows, disk, phase, plan, served, rebuild, history>>,
             saving' \in {saving, <<>>}, KnownOK'
      PROVE  BInv'
  <2>1. /\ files' = files /\ state' = state /\ entries' = entries
        /\ shadow' = shadow /\ checkpoint' = checkpoint
        /\ raced' = raced /\ leftover' = leftover /\ hollow' = hollow
    BY <1>1 DEF disk, rows, rebuild, history
  <2>2. ASSUME NEW s \in SaveTails, Writing(s)' PROVE Writing(s)
    BY <1>1, <2>2, SameSaves DEF Writing
  <2>3. ASSUME ~hollow, ~raced', Settled PROVE LiveFits' /\ ServedFits'
    <3>1. LiveFits /\ ServedFits
      BY <2>1, <2>3 DEF BInv, Fits
    <3> QED BY <1>1, <2>1, <2>2, <3>1, StillFits
  <2> QED BY <1>1, <2>1, <2>3, OthersFit
<1>2. ASSUME NEW i \in Ids, Embed(i) PROVE BInv'
  <2>1. /\ i \in entries /\ embedding' = i
        /\ UNCHANGED <<rows, disk, phase, plan, served, rebuild, saving, replaced, history>>
    BY <1>2 DEF Embed
  <2>2. KnownOK'
    BY <2>1 DEF BInv, KnownOK, Known, rows, disk, rebuild
  <2> QED BY <1>1, <2>1, <2>2
<1>3. ASSUME NEW i \in Ids, DropVector(i) PROVE BInv'
  <2>1. /\ Answering /\ embedding = 0 /\ i \notin entries
        /\ served' = Remove(served, {i}) /\ Writes
        /\ UNCHANGED <<rows, disk, phase, plan, rebuild, embedding, replaced, leftover, hollow>>
    BY <1>3 DEF DropVector, Free
  <2>2. served \in Index
    BY <2>1 DEF Answering, Parts, Memory
  <2>3. served'.ids = (served.ids \ {i}) \cup {} /\ served'.vecs = (served.vecs \ {i}) \cup {}
    BY <2>1, <2>2, RemoveType
  <2>4. {i} \cap entries = {} /\ {} \subseteq Known
    BY <2>1
  <2> QED BY <2>1, <2>3, <2>4, WriteFits DEF Answering
<1>4. CASE AddVector
  <2>1. /\ embedding # 0 /\ served' = Add(served, {embedding}) /\ embedding' = 0 /\ Writes
        /\ UNCHANGED <<rows, disk, phase, plan, rebuild, replaced, leftover, hollow>>
    BY <1>4 DEF AddVector
  <2>2. served # Absent /\ phase \in {"begin", "rebuild", "swap", "serving"}
    BY <2>1 DEF Parts, RequestOK
  <2>3. /\ served'.ids = (served.ids \ {}) \cup {embedding}
        /\ served'.vecs = (served.vecs \ {}) \cup {embedding}
    <3>1. served \in Index /\ {embedding} \in SUBSET Ids
      BY <2>1, <2>2 DEF Parts, Memory
    <3> QED BY <2>1, <3>1, AddType
  <2>4. {} \cap entries = {} /\ {embedding} \subseteq Known
    BY <2>1 DEF BInv, KnownOK
  <2> QED BY <2>1, <2>2, <2>3, <2>4, WriteFits
<1>5. CASE RequestFails
  <2>1. /\ embedding' = 0 /\ saving' = <<>> /\ replaced' = Absent
        /\ UNCHANGED <<rows, disk, phase, plan, served, rebuild, history>>
    BY <1>5 DEF RequestFails
  <2>2. KnownOK'
    BY <2>1 DEF BInv, KnownOK, Known, rows, disk, rebuild
  <2> QED BY <1>1, <2>1, <2>2
<1> QED BY <1>2, <1>3, <1>4, <1>5

\* and one step of its save.
LEMMA PersistFits ==
    ASSUME Parts, BInv, Persist
    PROVE  BInv'
<1>1. /\ saving' = Tail(saving) /\ replaced' = IF saving' = <<>> THEN Absent ELSE replaced
      /\ saving # <<>>
      /\ UNCHANGED <<rows, phase, plan, served, rebuild, embedding, history>>
  BY DEF Persist
<1>2. PICK x \in Index :
        /\ x = (IF replaced = Absent THEN served ELSE replaced)
        /\ saving \in SaveTails /\ FileStep(Head(saving), x)
  BY PersistEffect
<1>3. /\ state' = state /\ files'.shadow = files.shadow
      /\ files'.live.idmap = files.live.idmap \/ files'.live.idmap = x.ids
  BY <1>2, SaveNext DEF Parts
<1>4. /\ entries' = entries /\ deleted' = deleted /\ shadow' = shadow /\ checkpoint' = checkpoint
      /\ raced' = raced /\ leftover' = leftover /\ hollow' = hollow
  BY <1>1 DEF rows, rebuild, history
<1>5. x.ids \subseteq Known
  BY <1>2, AbsentIsNone DEF BInv, KnownOK
<1>6. KnownOK'
  BY <1>1, <1>3, <1>4, <1>5 DEF BInv, KnownOK, Known
<1>7. ASSUME ~hollow, ~raced, Settled PROVE LiveFits' /\ ServedFits'
  <2>1. LiveFits /\ ServedFits
    BY <1>7 DEF BInv, Fits
  <2>2. x = served /\ phase # "swap" /\ (phase = "serving" => plan \notin SaveTails)
    BY <1>1, <1>2, <1>7 DEF Parts, RequestOK, Alone
  <2>3. phase \in {"begin", "rebuild", "swap", "serving"}
    BY <1>1 DEF Parts, RequestOK
  <2>4. Writing(saving)
    BY <1>2 DEF Writing
  <2>5. ASSUME NEW t, Writing(t)' PROVE t = Tail(saving)
    BY <1>1, <2>2, <2>3, <2>5, SameSaves DEF Writing
  <2> QED BY <1>1, <1>2, <1>4, <2>1, <2>2, <2>4, <2>5, SaveFits DEF Parts
<1> QED BY <1>1, <1>3, <1>4, <1>6, <1>7, OthersFit

\* Outside a rebuild the live files are there.
LEMMA SettledLive ==
    ASSUME Parts, Settled
    PROVE  LiveThere
<1>1. CASE state = Absent
  BY <1>1 DEF Parts
<1>2. CASE phase = "serving" /\ Finishing
  <2>1. PICK k \in 0..3 : Clear(k)
    BY <1>2, PlansExclude DEF Parts, PlanOK, Exclusive, GiveUp, SavingLive
  <2> QED BY <2>1 DEF Clear
<1> QED BY <1>1, <1>2 DEF Settled

\* Rows that come and go keep the second layer: an id does not return.
LEMMA RowsFit ==
    ASSUME Parts, BInv, (\E i \in Ids : ChangeRow(i)) \/ UNCHANGED vars
    PROVE  BInv'
<1>1. /\ UNCHANGED <<disk, phase, plan, served, rebuild, request, history>>
      /\ Known \subseteq Known' /\ entries' \cap Known \subseteq entries
  BY DEF ChangeRow, vars, rows, Known
<1>2. /\ files' = files /\ state' = state /\ shadow' = shadow /\ checkpoint' = checkpoint
      /\ embedding' = embedding /\ saving' = saving /\ replaced' = replaced
      /\ raced' = raced /\ leftover' = leftover /\ hollow' = hollow
  BY <1>1 DEF disk, rebuild, request, history
<1>3. KnownOK'
  BY <1>1, <1>2 DEF BInv, KnownOK
<1>4. ASSUME ~hollow, ~raced, Settled PROVE LiveFits' /\ ServedFits'
  <2>1. LiveFits /\ ServedFits /\ LiveThere
    BY <1>4, SettledLive DEF BInv, Fits
  <2>2. ASSUME NEW s \in SaveTails, Writing(s)' PROVE Writing(s)
    BY <1>1, <1>2, <2>2, SameSaves DEF Writing
  <2> QED BY <1>1, <1>2, <2>1, <2>2, RowsServed
<1> QED BY <1>1, <1>2, <1>3, <1>4, OthersFit

\* Every step keeps the second layer.
LEMMA StepFits == IInv /\ BInv /\ [Next]_vars => BInv'
BY InvParts, PerformFits, StartFits, QuietSteps, RecoverFits, StartOrResumeFits, BatchFits,
   FinalizeFits, AdoptFits, FailFits, ReconcileFits, RequestFits, PersistFits, RowsFit DEF Next

\* Outside a rebuild, a row that the saved id map knows has its vector in the
\* saved native index, at every point of VectorIndex.save, of the swap, of
\* reconciliation and of a request's save where the service may die.  It is not
\* said of files that two threads wrote at once (raced), nor once an index was
\* loaded whose metadata counts nothing (hollow).
THEOREM VectorsAreBacked == Spec => []Backed
<1>1. IInv /\ BInv => Backed
  BY DEF BInv, Fits, Settled, LiveFits, Covers, Backed
<1>2. Spec => []BInv
  BY InitFits, StepFits, Inductive, PTL DEF Spec
<1> QED BY <1>1, <1>2, Inductive, PTL
=============================================================================
