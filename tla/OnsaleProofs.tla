---------------------------- MODULE OnsaleProofs ----------------------------
(***************************************************************************)
(* Theorems about OnsaleActivity, OnsaleWares and OnsaleQuote, for every   *)
(* value of their constants.                                               *)
(***************************************************************************)
EXTENDS OnsaleWares, OnsaleQuote, CentsProofs, SequenceTheorems

-----------------------------------------------------------------------------
(***************************************************************************)
(* The table of activities.                                                *)
(***************************************************************************)

\* A row that exists is the one element of its set.
LEMMA RowOf ==
  ASSUME TypeOK, NEW g \in Exist
  PROVE  /\ g \in Ids /\ Row(g) \in Activity /\ row[g] = {Row(g)}
         /\ Row(g).slug \in {NoSlug} \cup Ids /\ Row(g).label \in {NoLabel} \cup Labels
         /\ Row(g).status \in {Pending, Online, Refused}
         /\ Row(g).start \in Int /\ Row(g).end \in Int
<1>1. g \in Ids /\ row[g] # {} /\ row[g] \subseteq Activity /\ \A a, b \in row[g] : a = b
  BY DEF TypeOK, Exist
<1>2. Row(g) \in row[g]
  BY <1>1 DEF Row
<1>3. QED
  BY <1>1, <1>2 DEF Activity

\* Ids count up.
LEMMA ExistIs ==
  ASSUME TypeOK
  PROVE  /\ Cardinality(Exist) \in 0..MaxId /\ Exist = 1..Cardinality(Exist)
         /\ IsFiniteSet(Exist)
<1>1. PICK n \in 0..MaxId : Exist = 1..n
  BY DEF TypeOK
<1>2. MaxId \in Nat
  BY ActivityAssumption
<1>3. Cardinality(1..n) = n /\ IsFiniteSet(1..n)
  BY <1>2, FS_Interval
<1>4. QED
  BY <1>1, <1>3

\* What the table looks like after a row has been written.
LEMMA RowWritten ==
  ASSUME TypeOK, NEW k \in Ids, NEW a \in Activity, row' = [row EXCEPT ![k] = {a}]
  PROVE  /\ Exist' = Exist \cup {k} /\ Row(k)' = a
         /\ \A h \in Exist : h # k => Row(h)' = Row(h)
         /\ row' \in [Ids -> SUBSET Activity]
         /\ \A h \in Ids : \A b, c \in row'[h] : b = c
  BY DEF TypeOK, Exist, Row

LEMMA RowKept ==
  ASSUME UNCHANGED row
  PROVE  Exist' = Exist /\ \A g \in Exist : Row(g)' = Row(g)
  BY DEF Exist, Row

\* The activity created next.
LEMMA NextId ==
  ASSUME TypeOK, NEW w \in Workers, DoInsert(w)
  PROVE  \E k \in Ids, a \in Activity :
           /\ k = Cardinality(Exist) + 1 /\ a = page[w]
           /\ k \notin Exist /\ \A g \in Exist : g < k
           /\ Exist' = Exist \cup {k} /\ Exist' = 1..k /\ Row(k)' = a
           /\ \A h \in Exist : Row(h)' = Row(h)
           /\ row' \in [Ids -> SUBSET Activity]
           /\ \A h \in Ids : \A b, c \in row'[h] : b = c
<1>1. Exist = 1..Cardinality(Exist) /\ Cardinality(Exist) \in Nat
  BY ExistIs, ActivityAssumption
<1>2. scene.maxId \in 1..MaxId /\ MaxId \in Nat
  BY ActivityAssumption DEF TypeOK, Scene
<1>3. Cardinality(Exist) + 1 \in Ids
  BY <1>1, <1>2 DEF DoInsert, Ids
<1>4. PICK k \in Ids, a \in Activity : k = Cardinality(Exist) + 1 /\ a = page[w]
  BY <1>3 DEF TypeOK
<1>5. k \notin Exist /\ \A g \in Exist : g < k
  BY <1>1, <1>4
<1>6. row' = [row EXCEPT ![k] = {a}]
  BY <1>4 DEF DoInsert
<1>7. /\ Exist' = Exist \cup {k} /\ Row(k)' = a
      /\ \A h \in Exist : h # k => Row(h)' = Row(h)
      /\ row' \in [Ids -> SUBSET Activity]
      /\ \A h \in Ids : \A b, c \in row'[h] : b = c
  BY <1>6, RowWritten
<1>8. Exist' = 1..k
  BY <1>1, <1>4, <1>7
<1>9. QED
  BY <1>4, <1>5, <1>7, <1>8

-----------------------------------------------------------------------------
(***************************************************************************)
(* Types.                                                                  *)
(***************************************************************************)

PCs == {"idle", "count", "insert", "maxId", "readRow", "name",
        "recount", "verify", "update", "close"}

\* A step of the activities, or one that only wears out the failures.
Step == [Next]_vars \/ (UNCHANGED <<table, now, local, scene>> /\ faults' \in 0..MaxFaults)

LEMMA SceneOf ==
  ASSUME TypeOK
  PROVE  /\ scene.labels \subseteq Labels /\ scene.labels \subseteq Nat \ {NoLabel}
         /\ scene.sent \subseteq Activity /\ scene.serial \in BOOLEAN
         /\ \A a \in scene.sent : a.slug = NoSlug
         /\ scene.maxId \in 1..MaxId /\ scene.maxTime \in 0..MaxTime
         /\ scene \in Scenes /\ Proper(scene)
<1>1. scene \in Scenes /\ scene \in Scene /\ Proper(scene)
  BY ActivityAssumption DEF TypeOK
<1>2. scene.labels \subseteq Labels
  BY <1>1 DEF Labels
<1>3. QED
  BY <1>1, <1>2 DEF Scene, Proper

LEMMA ClosedTyped ==
  ASSUME TypeOK, NEW a \in Activity
  PROVE  /\ Closed(a) \in Activity /\ Closed(a).end = now
         /\ Closed(a).slug = a.slug /\ Closed(a).label = a.label
         /\ Closed(a).status = a.status
<1>1. now \in Int /\ now - 1 \in Int
  BY ActivityAssumption DEF TypeOK
<1>2. (IF a.start > now THEN now - 1 ELSE a.start) \in Int
  BY <1>1 DEF Activity
<1>3. QED
  BY <1>1, <1>2 DEF Closed, Activity

LEMMA BlankTyped == Blank \in Activity
  BY DEF Blank, Activity, NoSlug, NoLabel, Pending

LEMMA SentPage ==
  ASSUME TypeOK, NEW a \in scene.sent, NEW g \in Exist
  PROVE  /\ [a EXCEPT !.slug = Row(g).slug] \in Activity
         /\ [a EXCEPT !.slug = Row(g).slug].slug = Row(g).slug
         /\ [a EXCEPT !.slug = Row(g).slug].label = a.label
<1>1. a \in Activity
  BY SceneOf
<1>2. Row(g).slug \in {NoSlug} \cup Ids
  BY RowOf
<1>3. QED
  BY <1>1, <1>2 DEF Activity

LocalOK ==
  /\ pc \in [Workers -> PCs] /\ id \in [Workers -> {NoId} \cup Ids]
  /\ page \in [Workers -> Activity] /\ mine \in [Workers -> {NoId} \cup Ids]

\* What the other workers hold.
Others(w) ==
  \A v \in Workers : v # w => /\ pc'[v] = pc[v] /\ id'[v] = id[v]
                              /\ page'[v] = page[v] /\ mine'[v] = mine[v]

LEMMA DoneShape ==
  ASSUME TypeOK, NEW w \in Workers, Done(w)
  PROVE  /\ pc'[w] = "idle" /\ id'[w] = NoId /\ page'[w] = Blank /\ mine'[w] = NoId
         /\ Others(w) /\ LocalOK'
  BY BlankTyped DEF TypeOK, LocalOK, PCs, Done, Goto, Others

LEMMA TakeShape ==
  ASSUME TypeOK, NEW w \in Workers, NEW g \in {NoId} \cup Ids, NEW a \in Activity,
         NEW step \in PCs, Take(w, g, a, step)
  PROVE  /\ pc[w] = "idle" /\ pc'[w] = step /\ id'[w] = g /\ page'[w] = a
         /\ mine'[w] = mine[w] /\ Others(w) /\ LocalOK'
         /\ UNCHANGED <<table, now, scene, faults>>
         /\ scene.serial => \A v \in Workers : pc[v] = "idle"
  BY DEF TypeOK, LocalOK, PCs, Take, Goto, At, Keep, Others, env

\* Three of the requests, as what they take along.
LEMMA CreateShape ==
  ASSUME TypeOK, NEW w \in Workers, Create(w)
  PROVE  \E a \in Activity :
           /\ a.slug = NoSlug
           /\ Take(w, NoId, a, IF a.label = NoLabel THEN "insert" ELSE "count")
<1>1. PICK a \in scene.sent : Take(w, NoId, a, IF a.label = NoLabel THEN "insert" ELSE "count")
  BY DEF Create
<1>2. a \in Activity /\ a.slug = NoSlug
  BY SceneOf
<1>3. QED
  BY <1>1, <1>2

LEMMA UpdateShape ==
  ASSUME TypeOK, NEW w \in Workers, Update(w)
  PROVE  \E g \in Exist, a \in Activity :
           /\ a.slug = Row(g).slug /\ \A v \in Workers : mine[v] # g
           /\ Take(w, g, a, IF a.label \in {NoLabel, Row(g).label} THEN "verify"
                                                                   ELSE "recount")
<1>1. PICK g \in Exist, b \in scene.sent :
        /\ \A v \in Workers : mine[v] # g
        /\ Take(w, g, [b EXCEPT !.slug = Row(g).slug],
                IF b.label \in {NoLabel, Row(g).label} THEN "verify" ELSE "recount")
  BY DEF Update
<1>2. PICK a \in Activity : a = [b EXCEPT !.slug = Row(g).slug]
  BY SentPage
<1>3. a.slug = Row(g).slug /\ a.label = b.label
  BY <1>2, SentPage
<1>4. Take(w, g, a, IF a.label \in {NoLabel, Row(g).label} THEN "verify" ELSE "recount")
  BY <1>1, <1>2, <1>3
<1>5. QED
  BY <1>1, <1>3, <1>4

LEMMA OfflineShape ==
  ASSUME TypeOK, NEW w \in Workers, Offline(w)
  PROVE  \E g \in Exist, a \in Activity :
           /\ a.end = now /\ a.slug = Row(g).slug /\ a.label = Row(g).label
           /\ a.status = Row(g).status /\ Take(w, g, a, "close")
<1>1. PICK g \in Exist : Take(w, g, Closed(Row(g)), "close")
  BY DEF Offline
<1>2. PICK r \in Activity : r = Row(g)
  BY RowOf
<1>3. PICK a \in Activity : a = Closed(r)
  BY ClosedTyped
<1>4. a.end = now /\ a.slug = r.slug /\ a.label = r.label /\ a.status = r.status
  BY <1>3, ClosedTyped
<1>5. QED
  BY <1>1, <1>2, <1>3, <1>4

-----------------------------------------------------------------------------
(***************************************************************************)
(* Creating an activity.                                                   *)
(***************************************************************************)

Creating(w) == pc[w] \in {"maxId", "readRow", "name"}

\* What a worker holds at a step: the activity it has inserted, and no other,
\* until that is named; nothing about a slug before; an end that has passed when
\* it takes an activity offline.
WorkerOK(w) ==
  /\ mine[w] # NoId <=> Creating(w)
  /\ pc[w] \in {"recount", "verify", "update", "close"} => id[w] \in Exist
  /\ pc[w] \in {"idle", "count", "insert", "maxId"} => id[w] = NoId
  /\ pc[w] \in {"count", "insert"} => page[w].slug = NoSlug
  /\ pc[w] = "close" => page[w].end <= now
  /\ pc[w] \in {"readRow", "name"} => id[w] = mine[w]
  /\ pc[w] = "name" => page[w].slug = mine[w]

\* A row without its slug is the last, keeps other creations out, and can only be
\* written by one who takes it offline and has seen no slug either.
NewRow(w) == Creating(w) =>
  /\ mine[w] \in Exist /\ \A g \in Exist : g <= mine[w]
  /\ Row(mine[w]).slug = NoSlug
  /\ \A v \in Workers : Creating(v) => v = w
  /\ \A v \in Workers : id[v] = mine[w] /\ v # w =>
       pc[v] = "close" /\ page[v].slug = NoSlug

Slugs == \A g, h \in Exist : Row(g).slug = Row(h).slug => g = h

Inv == TypeOK /\ Slugs /\ \A w \in Workers : WorkerOK(w) /\ NewRow(w)

TableOK ==
  /\ row \in [Ids -> SUBSET Activity]
  /\ \A g \in Ids : \A a, b \in row[g] : a = b
  /\ \E n \in 0..MaxId : Exist = 1..n
  /\ steps \subseteq Exist
  /\ approved \subseteq Exist

EnvOK == now \in 0..MaxTime /\ scene \in Scenes /\ faults \in 0..MaxFaults

LEMMA TypeParts == TypeOK <=> TableOK /\ LocalOK /\ EnvOK
  BY DEF TypeOK, TableOK, LocalOK, EnvOK, PCs

LEMMA TypePartsNext == (TableOK /\ LocalOK /\ EnvOK)' => TypeOK'
  BY TypeParts, PTL

LEMMA TableKept == TableOK /\ UNCHANGED table => TableOK'
  BY DEF TableOK, table, Exist

\* A row written back.
LEMMA WriteShape ==
  ASSUME Inv, NEW w \in Workers, pc[w] \in {"name", "update", "close"}, DoWrite(w)
  PROVE  \E g \in Exist, a \in Activity :
           /\ g = id[w] /\ a = page[w] /\ SlugFree(g, a.slug)
           /\ Exist' = Exist /\ Row(g)' = a /\ \A h \in Exist : h # g => Row(h)' = Row(h)
           /\ TableOK'
<1>1. TypeOK /\ WorkerOK(w) /\ NewRow(w)
  BY DEF Inv
<1>2. id[w] \in Exist
  BY <1>1 DEF WorkerOK, NewRow, Creating
<1>3. PICK g \in Exist, a \in Activity : g = id[w] /\ a = page[w]
  BY <1>1, <1>2 DEF TypeOK
<1>4. g \in Ids /\ row' = [row EXCEPT ![g] = {a}] /\ SlugFree(g, a.slug)
  BY <1>3 DEF DoWrite, Exist
<1>5. /\ Exist' = Exist \cup {g} /\ Row(g)' = a
      /\ \A h \in Exist : h # g => Row(h)' = Row(h)
      /\ row' \in [Ids -> SUBSET Activity]
      /\ \A h \in Ids : \A b, c \in row'[h] : b = c
  BY <1>1, <1>4, RowWritten
<1>6. Exist' = Exist
  BY <1>5
<1>7. steps' = steps /\ approved' \subseteq approved \cup {g}
  BY <1>3 DEF DoWrite
<1>8. TableOK'
  BY <1>1, <1>5, <1>6, <1>7 DEF TypeOK, TableOK
<1>9. QED
  BY <1>3, <1>4, <1>5, <1>6, <1>8

LEMMA InsertTyped ==
  ASSUME TypeOK, NEW w \in Workers, DoInsert(w)
  PROVE  TableOK'
<1>1. PICK k \in Ids :
           /\ k = Cardinality(Exist) + 1
           /\ Exist' = Exist \cup {k} /\ Exist' = 1..k
           /\ row' \in [Ids -> SUBSET Activity]
           /\ \A h \in Ids : \A b, c \in row'[h] : b = c
  BY NextId
<1>2. k \in 0..MaxId
  BY ActivityAssumption DEF Ids
<1>3. steps' = steps /\ approved' \subseteq approved \cup {k}
  BY <1>1 DEF DoInsert
<1>4. QED
  BY <1>1, <1>2, <1>3 DEF TableOK, TypeOK

\* The largest id is the one just given out.
LEMMA LargestIsMine ==
  ASSUME Inv, NEW w \in Workers, pc[w] = "maxId"
  PROVE  Max(Exist) = mine[w] /\ mine[w] \in Exist
<1>1. /\ mine[w] \in Exist /\ \A g \in Exist : g <= mine[w]
      /\ \A g \in Exist : g \in Int
  BY DEF Inv, NewRow, Creating, Exist, Ids
<1>2. PICK m \in Exist : m = mine[w]
  BY <1>1
<1>3. \A x \in Exist : (\A y \in Exist : x >= y) => x = m
  BY <1>1, <1>2
<1>4. \A y \in Exist : m >= y
  BY <1>1, <1>2
<1>5. Max(Exist) \in Exist /\ \A y \in Exist : Max(Exist) >= y
  BY <1>4 DEF Max
<1>6. QED
  BY <1>2, <1>3, <1>5

\* The steps of a worker, apart by what they write: nothing, a new row, an old one.
Passes(w) ==
  /\ pc[w] \in {"count", "recount"} /\ LabelFree(page[w].label)
  /\ Goto(w, IF At(w, "count") THEN "insert" ELSE "verify")
  /\ UNCHANGED <<id, page, mine, table>>

Accepts(w) ==
  /\ At(w, "verify")
  /\ page[w].status = Online => id[w] \in steps
  /\ page' = [page EXCEPT ![w] = IF @.status = Refused THEN Closed(@) ELSE @]
  /\ Goto(w, "update")
  /\ UNCHANGED <<id, mine, table>>

Inserts(w) ==
  /\ At(w, "insert") /\ DoInsert(w)
  /\ \/ Done(w)
     \/ /\ mine' = [mine EXCEPT ![w] = Cardinality(Exist) + 1]
        /\ Goto(w, "maxId") /\ UNCHANGED <<id, page>>

Writes(w) == pc[w] \in {"name", "update", "close"} /\ DoWrite(w) /\ Done(w)

Finishes(w) == pc[w] # "idle" /\ UNCHANGED table /\ Done(w)

Acts(w) ==
  \/ Create(w) \/ Update(w) \/ Offline(w)
  \/ Passes(w) \/ Accepts(w) \/ ReadMaxId(w) \/ ReadRow(w)
  \/ Inserts(w) \/ Writes(w) \/ Finishes(w)

Idles == UNCHANGED <<row, approved, local>> /\ steps' \subseteq Exist

LEMMA StepCases ==
  ASSUME TypeOK, Step
  PROVE  /\ scene' = scene /\ now <= now' /\ EnvOK'
         /\ Idles \/ (now' = now /\ \E w \in Workers : Acts(w))
<1>0. now \in Nat /\ faults \in Nat /\ EnvOK /\ scene.maxTime \in 0..MaxTime
  BY ActivityAssumption, SceneOf DEF TypeOK, EnvOK
<1>1. ASSUME NEW w \in Workers,
             \/ Create(w) \/ CountLabel(w) \/ Insert(w) \/ ReadMaxId(w) \/ ReadRow(w)
             \/ Update(w) \/ Verify(w) \/ Offline(w) \/ Write(w) \/ Fail(w)
      PROVE  scene' = scene /\ now' = now /\ EnvOK' /\ Acts(w)
  <2>1. CASE Create(w) \/ Update(w) \/ Offline(w)
    BY <1>0, <2>1 DEF Acts, Create, Update, Offline, Take, Keep, env, EnvOK
  <2>2. CASE CountLabel(w)
    <3>1. scene' = scene /\ now' = now /\ EnvOK' /\ UNCHANGED table
      BY <1>0, <2>2 DEF CountLabel, Keep, env, EnvOK
    <3>2. CASE Done(w)
      BY <2>2, <3>1, <3>2 DEF CountLabel, Acts, Finishes
    <3>3. CASE ~ Done(w)
      BY <2>2, <3>1, <3>3 DEF CountLabel, Acts, Passes
    <3>4. QED
      BY <3>1, <3>2, <3>3
  <2>3. CASE Insert(w)
    BY <1>0, <2>3 DEF Insert, At, Keep, env, EnvOK, Acts, Inserts, Finishes
  <2>4. CASE ReadMaxId(w) \/ ReadRow(w)
    BY <1>0, <2>4 DEF Acts, ReadMaxId, ReadRow, Keep, env, EnvOK
  <2>5. CASE Verify(w)
    BY <1>0, <2>5 DEF Verify, At, Keep, env, EnvOK, Acts, Accepts, Finishes
  <2>6. CASE Write(w)
    BY <1>0, <2>6 DEF Write, Keep, env, EnvOK, Acts, Writes, Finishes
  <2>7. CASE Fail(w)
    <3>1. faults' \in 0..MaxFaults
      BY <1>0, <2>7, ActivityAssumption DEF Fail
    <3>2. QED
      BY <1>0, <2>7, <3>1 DEF Fail, At, EnvOK, Acts, Inserts, Writes, Finishes
  <2>8. QED
    BY <1>1, <2>1, <2>2, <2>3, <2>4, <2>5, <2>6, <2>7
<1>2. ASSUME NEW g \in Ids, AddStep(g) \/ DelStep(g)
      PROVE  scene' = scene /\ now' = now /\ EnvOK' /\ Idles
  BY <1>0, <1>2 DEF AddStep, DelStep, Idles, EnvOK, env, TypeOK
<1>3. CASE Tick
  BY <1>0, <1>3, ActivityAssumption DEF Tick, Idles, EnvOK, env, TypeOK, table
<1>4. CASE UNCHANGED <<table, now, local, scene>> /\ faults' \in 0..MaxFaults
  BY <1>0, <1>4 DEF Idles, EnvOK, table, TypeOK
<1>5. CASE UNCHANGED vars
  BY <1>0, <1>5 DEF Idles, EnvOK, table, TypeOK, vars, env
<1>6. QED
  <2>1. now' = now => now <= now'
    BY <1>0
  <2>2. CASE \E w \in Workers :
               \/ Create(w) \/ CountLabel(w) \/ Insert(w) \/ ReadMaxId(w) \/ ReadRow(w)
               \/ Update(w) \/ Verify(w) \/ Offline(w) \/ Write(w) \/ Fail(w)
    BY <1>1, <2>1, <2>2
  <2>3. CASE \E g \in Ids : AddStep(g) \/ DelStep(g)
    BY <1>2, <2>1, <2>3
  <2>4. QED
    BY <1>3, <1>4, <1>5, <2>2, <2>3 DEF Step, Next

\* What each step leaves of the other workers, and of types.
LEMMA ActTyped ==
  ASSUME Inv, NEW w \in Workers, Acts(w)
  PROVE  LocalOK' /\ TableOK' /\ Others(w)
<1>0. TypeOK /\ TableOK /\ LocalOK /\ WorkerOK(w) /\ NewRow(w)
  BY TypeParts DEF Inv
<1>1. CASE Create(w)
  <2>1. PICK a \in Activity : Take(w, NoId, a, IF a.label = NoLabel THEN "insert" ELSE "count")
    BY <1>0, <1>1, CreateShape
  <2>2. PICK step \in PCs : step = IF a.label = NoLabel THEN "insert" ELSE "count"
    BY DEF PCs
  <2>3. Take(w, NoId, a, step)
    BY <2>1, <2>2
  <2>4. QED
    BY <1>0, <2>3, TakeShape, TableKept
<1>2. CASE Update(w)
  <2>1. PICK g \in Exist, a \in Activity :
          Take(w, g, a, IF a.label \in {NoLabel, Row(g).label} THEN "verify" ELSE "recount")
    BY <1>0, <1>2, UpdateShape
  <2>2. PICK step \in PCs :
          step = IF a.label \in {NoLabel, Row(g).label} THEN "verify" ELSE "recount"
    BY DEF PCs
  <2>3. Take(w, g, a, step) /\ g \in {NoId} \cup Ids
    BY <2>1, <2>2 DEF Exist
  <2>4. QED
    BY <1>0, <2>3, TakeShape, TableKept
<1>3. CASE Offline(w)
  <2>1. PICK g \in Exist, a \in Activity : Take(w, g, a, "close")
    BY <1>0, <1>3, OfflineShape
  <2>2. g \in {NoId} \cup Ids /\ "close" \in PCs
    BY DEF Exist, PCs
  <2>3. QED
    BY <1>0, <2>1, <2>2, TakeShape, TableKept
<1>4. CASE Passes(w)
  <2>1. UNCHANGED table /\ LocalOK' /\ Others(w)
    BY <1>0, <1>4 DEF Passes, LocalOK, PCs, Goto, Others
  <2>2. QED
    BY <1>0, <2>1, TableKept
<1>5. CASE Accepts(w)
  <2>1. PICK a \in Activity : a = IF page[w].status = Refused THEN Closed(page[w]) ELSE page[w]
    <3>1. PICK b \in Activity : b = page[w]
      BY <1>0 DEF LocalOK
    <3>2. (IF b.status = Refused THEN Closed(b) ELSE b) \in Activity
      BY <1>0, ClosedTyped
    <3>3. QED
      BY <3>1, <3>2
  <2>2. page' = [page EXCEPT ![w] = a] /\ UNCHANGED <<id, mine, table>> /\ Goto(w, "update")
    BY <1>5, <2>1 DEF Accepts, table
  <2>3. LocalOK' /\ Others(w) /\ UNCHANGED table
    BY <1>0, <2>2 DEF LocalOK, PCs, Goto, Others
  <2>4. QED
    BY <1>0, <2>3, TableKept
<1>6. CASE ReadMaxId(w)
  <2>1. PICK m \in {NoId} \cup Ids : m = Max(Exist)
    BY <1>6, LargestIsMine DEF ReadMaxId, At, Exist
  <2>2. UNCHANGED <<table, page, mine>> /\ id' = [id EXCEPT ![w] = m] /\ Goto(w, "readRow")
    BY <1>6, <2>1 DEF ReadMaxId
  <2>3. LocalOK' /\ Others(w) /\ UNCHANGED table
    BY <1>0, <2>2 DEF LocalOK, PCs, Goto, Others
  <2>4. QED
    BY <1>0, <2>3, TableKept
<1>7. CASE ReadRow(w)
  <2>1. PICK g \in Exist : g = id[w]
    BY <1>0, <1>7 DEF ReadRow, At, WorkerOK, NewRow, Creating
  <2>2. PICK r \in Activity : r = Row(g)
    BY <1>0, RowOf
  <2>3. [r EXCEPT !.slug = g] \in Activity
    BY DEF Activity, Exist
  <2>4. PICK a \in Activity : a = [r EXCEPT !.slug = g]
    BY <2>3
  <2>5. UNCHANGED <<table, id, mine>> /\ page' = [page EXCEPT ![w] = a] /\ Goto(w, "name")
    BY <1>7, <2>1, <2>2, <2>4 DEF ReadRow
  <2>6. LocalOK' /\ Others(w) /\ UNCHANGED table
    BY <1>0, <2>5 DEF LocalOK, PCs, Goto, Others
  <2>7. QED
    BY <1>0, <2>6, TableKept
<1>8. CASE Inserts(w)
  <2>1. TableOK'
    BY <1>0, <1>8, InsertTyped DEF Inserts
  <2>2. CASE Done(w)
    BY <1>0, <2>1, <2>2, DoneShape
  <2>3. CASE /\ mine' = [mine EXCEPT ![w] = Cardinality(Exist) + 1]
             /\ Goto(w, "maxId") /\ UNCHANGED <<id, page>>
    <3>1. PICK k \in Ids : k = Cardinality(Exist) + 1
      BY <1>0, <1>8, NextId DEF Inserts
    <3>2. mine' = [mine EXCEPT ![w] = k]
      BY <2>3, <3>1
    <3>3. QED
      BY <1>0, <2>1, <2>3, <3>2 DEF LocalOK, PCs, Goto, Others
  <2>4. QED
    BY <1>8, <2>2, <2>3 DEF Inserts
<1>9. CASE Writes(w)
  <2>1. TableOK'
    BY <1>9, WriteShape DEF Writes
  <2>2. QED
    BY <1>0, <1>9, <2>1, DoneShape DEF Writes
<1>10. CASE Finishes(w)
  BY <1>0, <1>10, DoneShape, TableKept DEF Finishes
<1>11. QED
  BY <1>1, <1>2, <1>3, <1>4, <1>5, <1>6, <1>7, <1>8, <1>9, <1>10 DEF Acts

LEMMA RowWriters ==
  ASSUME NEW w \in Workers, Acts(w), ~ Inserts(w), ~ Writes(w)
  PROVE  UNCHANGED <<row, steps, approved>>
  BY DEF Acts, Create, Update, Offline, Take, Passes, Accepts, ReadMaxId, ReadRow,
         Finishes, table

\* A creation that has got past the unique index is the only one.
LEMMA InsertAlone ==
  ASSUME Inv, NEW w \in Workers, Inserts(w)
  PROVE  /\ \A g \in Exist : Row(g).slug # NoSlug
         /\ \A v \in Workers : ~ Creating(v)
         /\ page[w].slug = NoSlug
<1>1. \A g \in Exist : g # NoId
  BY DEF Exist, Ids, NoId
<1>2. SlugFree(NoId, NoSlug)
  BY DEF Inserts, DoInsert
<1>3. \A g \in Exist : Row(g).slug # NoSlug
  BY <1>1, <1>2 DEF SlugFree
<1>4. \A v \in Workers : ~ Creating(v)
  BY <1>3 DEF Inv, NewRow
<1>5. QED
  BY <1>3, <1>4 DEF Inv, WorkerOK, Inserts, At

LEMMA ExistGrows ==
  ASSUME Inv, NEW w \in Workers, Acts(w)
  PROVE  Exist \subseteq Exist'
<1>1. CASE Inserts(w)
  BY <1>1, NextId DEF Inv, Inserts
<1>2. CASE Writes(w)
  BY <1>2, WriteShape DEF Writes
<1>3. CASE ~ Inserts(w) /\ ~ Writes(w)
  BY <1>3, RowWriters, RowKept
<1>4. QED
  BY <1>1, <1>2, <1>3

LEMMA SlugsStep ==
  ASSUME Inv, NEW w \in Workers, Acts(w)
  PROVE  Slugs'
<1>0. Slugs
  BY DEF Inv
<1>1. CASE Inserts(w)
  <2>1. PICK k \in Ids, a \in Activity :
           /\ a = page[w] /\ Exist' = Exist \cup {k} /\ Row(k)' = a
           /\ \A h \in Exist : Row(h)' = Row(h)
    BY <1>1, NextId DEF Inv, Inserts
  <2>2. a.slug = NoSlug /\ \A g \in Exist : Row(g).slug # NoSlug
    BY <1>1, <2>1, InsertAlone
  <2>3. QED
    BY <1>0, <2>1, <2>2 DEF Slugs
<1>2. CASE Writes(w)
  <2>1. PICK g \in Exist, a \in Activity :
           /\ SlugFree(g, a.slug) /\ Exist' = Exist /\ Row(g)' = a
           /\ \A h \in Exist : h # g => Row(h)' = Row(h)
    BY <1>2, WriteShape DEF Writes
  <2>2. \A h \in Exist : h # g => Row(h)'.slug # a.slug
    BY <2>1 DEF SlugFree
  <2>3. QED
    BY <1>0, <2>1, <2>2 DEF Slugs
<1>3. CASE ~ Inserts(w) /\ ~ Writes(w)
  <2>1. Exist' = Exist /\ \A g \in Exist : Row(g)' = Row(g)
    BY <1>3, RowWriters, RowKept
  <2>2. QED
    BY <1>0, <2>1 DEF Slugs
<1>4. QED
  BY <1>1, <1>2, <1>3

LEMMA OtherWorkerOK ==
  ASSUME NEW v \in Workers, WorkerOK(v), Exist \subseteq Exist', now \in Int, now' \in Int,
         now <= now', page[v] \in Activity,
         pc'[v] = pc[v], id'[v] = id[v], page'[v] = page[v], mine'[v] = mine[v]
  PROVE  WorkerOK(v)'
<1>1. page[v].end \in Int
  BY DEF Activity
<1>2. page[v].end <= now => page[v].end <= now'
  BY <1>1
<1>3. QED
  BY <1>2 DEF WorkerOK, Creating

LEMMA WorkerStep ==
  ASSUME Inv, NEW w \in Workers, Acts(w), now' = now
  PROVE  WorkerOK(w)'
<1>0. TypeOK /\ WorkerOK(w) /\ NewRow(w) /\ Exist \subseteq Exist' /\ now \in Int
  BY ExistGrows, ActivityAssumption DEF Inv, TypeOK
<1>1. CASE Create(w)
  <2>1. PICK a \in Activity :
           /\ a.slug = NoSlug
           /\ Take(w, NoId, a, IF a.label = NoLabel THEN "insert" ELSE "count")
    BY <1>0, <1>1, CreateShape
  <2>2. PICK step \in PCs : /\ step = IF a.label = NoLabel THEN "insert" ELSE "count"
                            /\ step \in {"insert", "count"}
    BY DEF PCs
  <2>3. Take(w, NoId, a, step)
    BY <2>1, <2>2
  <2>4. /\ pc[w] = "idle" /\ pc'[w] = step /\ id'[w] = NoId /\ page'[w] = a
        /\ mine'[w] = mine[w]
    BY <1>0, <2>3, TakeShape
  <2>5. QED
    BY <1>0, <2>1, <2>2, <2>4 DEF WorkerOK, Creating
<1>2. CASE Update(w)
  <2>1. PICK g \in Exist, a \in Activity :
          Take(w, g, a, IF a.label \in {NoLabel, Row(g).label} THEN "verify" ELSE "recount")
    BY <1>0, <1>2, UpdateShape
  <2>2. PICK step \in PCs :
          /\ step = IF a.label \in {NoLabel, Row(g).label} THEN "verify" ELSE "recount"
          /\ step \in {"verify", "recount"}
    BY DEF PCs
  <2>3. Take(w, g, a, step) /\ g \in {NoId} \cup Ids
    BY <2>1, <2>2 DEF Exist
  <2>4. /\ pc[w] = "idle" /\ pc'[w] = step /\ id'[w] = g /\ page'[w] = a
        /\ mine'[w] = mine[w]
    BY <1>0, <2>3, TakeShape
  <2>5. QED
    BY <1>0, <2>1, <2>2, <2>4 DEF WorkerOK, Creating
<1>3. CASE Offline(w)
  <2>1. PICK g \in Exist, a \in Activity : a.end = now /\ Take(w, g, a, "close")
    BY <1>0, <1>3, OfflineShape
  <2>2. g \in {NoId} \cup Ids /\ "close" \in PCs
    BY DEF Exist, PCs
  <2>3. /\ pc[w] = "idle" /\ pc'[w] = "close" /\ id'[w] = g /\ page'[w] = a
        /\ mine'[w] = mine[w]
    BY <1>0, <2>1, <2>2, TakeShape
  <2>4. QED
    BY <1>0, <2>1, <2>3 DEF WorkerOK, Creating
<1>4. CASE Passes(w)
  <2>1. UNCHANGED <<id, page, mine>>
        /\ pc'[w] = IF pc[w] = "count" THEN "insert" ELSE "verify"
    BY <1>0, <1>4 DEF Passes, Goto, At, TypeOK
  <2>2. pc[w] \in {"count", "recount"}
    BY <1>4 DEF Passes
  <2>3. QED
    BY <1>0, <2>1, <2>2 DEF WorkerOK, Creating
<1>5. CASE Accepts(w)
  <2>1. UNCHANGED <<id, mine>> /\ pc'[w] = "update" /\ pc[w] = "verify"
    BY <1>0, <1>5 DEF Accepts, Goto, At, TypeOK
  <2>2. QED
    BY <1>0, <2>1 DEF WorkerOK, Creating
<1>6. CASE ReadMaxId(w)
  <2>1. UNCHANGED <<page, mine>> /\ pc'[w] = "readRow" /\ pc[w] = "maxId"
    BY <1>0, <1>6 DEF ReadMaxId, Goto, At, TypeOK
  <2>2. id'[w] = mine[w]
    BY <1>0, <1>6, LargestIsMine DEF ReadMaxId, TypeOK, At
  <2>3. QED
    BY <1>0, <2>1, <2>2 DEF WorkerOK, Creating
<1>7. CASE ReadRow(w)
  <2>1. PICK g \in Exist : g = id[w] /\ g = mine[w]
    BY <1>0, <1>7 DEF ReadRow, At, WorkerOK, NewRow, Creating
  <2>2. PICK r \in Activity : r = Row(g)
    BY <1>0, RowOf
  <2>4. [r EXCEPT !.slug = g].slug = g
    BY DEF Activity
  <2>5. page'[w] = [r EXCEPT !.slug = g]
    BY <1>0, <1>7, <2>1, <2>2 DEF ReadRow, TypeOK
  <2>6. UNCHANGED <<id, mine>> /\ pc'[w] = "name" /\ pc[w] = "readRow"
    BY <1>0, <1>7 DEF ReadRow, Goto, At, TypeOK
  <2>7. QED
    BY <1>0, <2>1, <2>4, <2>5, <2>6 DEF WorkerOK, Creating
<1>8. CASE Inserts(w) /\ ~ Done(w)
  <2>1. PICK k \in Ids : k = Cardinality(Exist) + 1
    BY <1>0, <1>8, NextId DEF Inserts
  <2>2. /\ mine'[w] = k /\ pc'[w] = "maxId" /\ id'[w] = id[w] /\ pc[w] = "insert"
    BY <1>0, <1>8, <2>1 DEF Inserts, Goto, At, TypeOK
  <2>3. k # NoId
    BY DEF Ids, NoId
  <2>4. QED
    BY <1>0, <2>2, <2>3 DEF WorkerOK, Creating
<1>9. CASE Done(w)
  <2>1. pc'[w] = "idle" /\ id'[w] = NoId /\ mine'[w] = NoId
    BY <1>0, <1>9, DoneShape
  <2>2. QED
    BY <2>1 DEF WorkerOK, Creating
<1>10. QED
  BY <1>1, <1>2, <1>3, <1>4, <1>5, <1>6, <1>7, <1>8, <1>9 DEF Acts, Writes, Finishes

\* The row u has inserted stays what it is while somebody else steps.
LEMMA NewRowOfOther ==
  ASSUME Inv, NEW w \in Workers, Acts(w), NEW u \in Workers, u # w, Creating(u)
  PROVE  NewRow(u)'
<1>0. /\ TypeOK /\ WorkerOK(w) /\ WorkerOK(u) /\ NewRow(u) /\ ~ Creating(w)
      /\ Others(w) /\ mine[u] \in Exist
  BY ActTyped DEF Inv, NewRow
<1>1. PICK m \in Exist :
        /\ m = mine[u] /\ \A g \in Exist : g <= m
        /\ Row(m).slug = NoSlug
        /\ \A v \in Workers : Creating(v) => v = u
        /\ \A v \in Workers : id[v] = m /\ v # u =>
             pc[v] = "close" /\ page[v].slug = NoSlug
  BY <1>0 DEF NewRow
<1>2. m # NoId /\ m \in Ids /\ mine'[u] = m /\ pc'[u] = pc[u]
  BY <1>0, <1>1 DEF Exist, Ids, NoId, Others
<1>3. ~ Inserts(w)
  BY <1>0, InsertAlone
<1>4. Exist' = Exist /\ Row(m)'.slug = NoSlug
  <2>1. CASE Writes(w)
    <3>1. PICK g \in Exist, a \in Activity :
           /\ g = id[w] /\ a = page[w]
           /\ Exist' = Exist /\ Row(g)' = a /\ \A h \in Exist : h # g => Row(h)' = Row(h)
      BY <2>1, WriteShape DEF Writes
    <3>2. CASE g = m
      BY <1>0, <1>1, <3>1, <3>2
    <3>3. CASE g # m
      BY <1>1, <3>1, <3>3
    <3>4. QED
      BY <3>1, <3>2, <3>3
  <2>2. CASE ~ Writes(w)
    BY <1>1, <1>3, <2>2, RowWriters, RowKept
  <2>3. QED
    BY <2>1, <2>2
<1>5. ~ Creating(w)'
  <2>1. pc[w] \notin {"maxId", "readRow"}
    BY <1>0 DEF Creating
  <2>2. CASE Create(w)
    BY <1>0, <2>2 DEF Create, Take, Goto, At, TypeOK, Creating
  <2>3. CASE Update(w)
    BY <1>0, <2>3 DEF Update, Take, Goto, At, TypeOK, Creating
  <2>4. CASE Offline(w)
    BY <1>0, <2>4 DEF Offline, Take, Goto, At, TypeOK, Creating
  <2>5. CASE Passes(w) \/ Accepts(w)
    BY <1>0, <2>5 DEF Passes, Accepts, Goto, At, TypeOK, Creating
  <2>6. CASE Done(w)
    BY <1>0, <2>6, DoneShape DEF Creating
  <2>7. QED
    BY <1>3, <2>1, <2>2, <2>3, <2>4, <2>5, <2>6
    DEF Acts, ReadMaxId, ReadRow, At, Writes, Finishes
<1>6. id'[w] = m =>
        pc'[w] = "close" /\ page'[w].slug = NoSlug
  <2>1. CASE Create(w)
    BY <1>0, <1>2, <2>1 DEF Create, Take, TypeOK
  <2>2. CASE Update(w)
    <3>1. PICK g \in Exist, a \in Activity :
            /\ \A v \in Workers : mine[v] # g
            /\ Take(w, g, a, IF a.label \in {NoLabel, Row(g).label} THEN "verify"
                                                                    ELSE "recount")
      BY <1>0, <2>2, UpdateShape
    <3>2. id'[w] = g /\ g # m
      BY <1>0, <1>1, <3>1 DEF Take, TypeOK
    <3>3. QED
      BY <3>2
  <2>3. CASE Offline(w)
    <3>1. PICK g \in Exist, a \in Activity :
           /\ a.slug = Row(g).slug /\ Take(w, g, a, "close")
      BY <1>0, <2>3, OfflineShape
    <3>2. g \in {NoId} \cup Ids /\ "close" \in PCs
      BY DEF Exist, PCs
    <3>3. pc'[w] = "close" /\ id'[w] = g /\ page'[w] = a
      BY <1>0, <3>1, <3>2, TakeShape
    <3>4. QED
      BY <1>1, <3>1, <3>3
  <2>4. CASE Passes(w)
    BY <1>0, <1>1, <2>4 DEF Passes
  <2>5. CASE Accepts(w)
    BY <1>0, <1>1, <2>5 DEF Accepts, At
  <2>6. CASE Done(w)
    BY <1>0, <1>2, <2>6, DoneShape
  <2>7. QED
    BY <1>0, <1>3, <2>1, <2>2, <2>3, <2>4, <2>5, <2>6
    DEF Acts, ReadMaxId, ReadRow, At, Writes, Finishes, Creating
<1>7. \A v \in Workers : Creating(v)' => v = u
  BY <1>0, <1>1, <1>5 DEF Others, Creating
<1>8. \A v \in Workers : id'[v] = m /\ v # u =>
        pc'[v] = "close" /\ page'[v].slug = NoSlug
  BY <1>0, <1>1, <1>6 DEF Others
<1>9. QED
  <2>1. /\ m \in Exist' /\ \A g \in Exist' : g <= m
        /\ Row(m)'.slug = NoSlug
    BY <1>1, <1>4
  <2>2. Row(mine[u])' = Row(m)'
    BY <1>2 DEF Row
  <2>3. QED
    BY <1>2, <1>7, <1>8, <2>1, <2>2 DEF NewRow

LEMMA NewRowOfSelf ==
  ASSUME Inv, NEW w \in Workers, Acts(w)
  PROVE  NewRow(w)'
<1>0. TypeOK /\ WorkerOK(w) /\ NewRow(w) /\ Others(w)
  BY ActTyped DEF Inv
<1>1. CASE Inserts(w) /\ ~ Done(w)
  <2>1. PICK k \in Ids, a \in Activity :
           /\ k = Cardinality(Exist) + 1 /\ a = page[w] /\ k \notin Exist
           /\ \A g \in Exist : g < k
           /\ Exist' = Exist \cup {k} /\ Row(k)' = a
    BY <1>0, <1>1, NextId DEF Inserts
  <2>2. mine'[w] = k /\ pc'[w] = "maxId"
    BY <1>0, <1>1, <2>1 DEF Inserts, Goto, At, TypeOK
  <2>3. a.slug = NoSlug /\ \A v \in Workers : ~ Creating(v)
    BY <1>1, <2>1, InsertAlone
  <2>4. \A v \in Workers : Creating(v)' => v = w
    BY <1>0, <2>3 DEF Others, Creating
  <2>5. \A v \in Workers : v # w => id'[v] # k
    <3>1. SUFFICES ASSUME NEW v \in Workers, v # w PROVE id[v] # k
      BY <1>0 DEF Others
    <3>2. WorkerOK(v) /\ ~ Creating(v) /\ pc[v] \in PCs
      BY <1>0, <2>3 DEF Inv, TypeOK, PCs
    <3>3. id[v] \in Exist \/ id[v] = NoId
      BY <3>2 DEF WorkerOK, Creating, PCs
    <3>4. QED
      BY <2>1, <3>3 DEF Ids, NoId
  <2>6. k \in Exist' /\ \A g \in Exist' : g <= k
    <3>1. k \in Int /\ \A g \in Exist : g \in Int
      BY DEF Exist, Ids
    <3>2. \A g \in Exist : g <= k
      BY <2>1, <3>1
    <3>3. QED
      BY <2>1, <3>1, <3>2
  <2>7. Row(mine[w])' = Row(k)'
    BY <2>2 DEF Row
  <2>8. QED
    BY <2>1, <2>2, <2>3, <2>4, <2>5, <2>6, <2>7 DEF NewRow
<1>2. CASE ReadMaxId(w) \/ ReadRow(w)
  <2>1. UNCHANGED <<row, mine>> /\ Creating(w) /\ mine'[w] = mine[w]
    BY <1>2 DEF ReadMaxId, ReadRow, At, table, Creating
  <2>2. Exist' = Exist /\ Row(mine[w])' = Row(mine[w])
    BY <2>1 DEF Exist, Row
  <2>3. /\ \A v \in Workers : Creating(v)' => v = w
        /\ \A v \in Workers : id'[v] = mine[w] /\ v # w =>
             pc'[v] = "close" /\ page'[v].slug = NoSlug
    BY <1>0, <2>1 DEF Others, Creating, NewRow
  <2>4. QED
    BY <1>0, <2>1, <2>2, <2>3 DEF NewRow
<1>3. CASE Done(w)
  BY <1>0, <1>3, DoneShape DEF NewRow, Creating
<1>4. CASE Create(w) \/ Update(w) \/ Offline(w)
  BY <1>0, <1>4 DEF Create, Update, Offline, Take, Goto, TypeOK, NewRow, Creating
<1>5. CASE Passes(w) \/ Accepts(w)
  BY <1>0, <1>5 DEF Passes, Accepts, Goto, TypeOK, NewRow, Creating
<1>6. QED
  BY <1>1, <1>2, <1>3, <1>4, <1>5 DEF Acts, Writes, Finishes

LEMMA InvStep == Inv /\ Step => Inv'
<1> SUFFICES ASSUME Inv, Step PROVE Inv'
  OBVIOUS
<1>0. TypeOK /\ TableOK /\ LocalOK /\ now \in Int
  BY TypeParts, ActivityAssumption DEF Inv, TypeOK
<1>1. scene' = scene /\ now <= now' /\ EnvOK'
  BY <1>0, StepCases
<1>2. now' \in Int
  BY <1>1, ActivityAssumption DEF EnvOK
<1>3. CASE Idles
  <2>1. Exist' = Exist /\ (\A g \in Exist : Row(g)' = Row(g)) /\ UNCHANGED <<pc, id, page, mine>>
    BY <1>3, RowKept DEF Idles, local
  <2>2. TypeOK'
    <3>1. TableOK' /\ LocalOK'
      BY <1>0, <1>3, <2>1 DEF Idles, TableOK, LocalOK
    <3>2. QED
      BY <1>1, <3>1, TypePartsNext
  <2>3. Slugs'
    BY <2>1 DEF Inv, Slugs
  <2>4. ASSUME NEW w \in Workers PROVE WorkerOK(w)'
    BY <1>0, <1>1, <1>2, <2>1, OtherWorkerOK DEF Inv, TypeOK
  <2>5. ASSUME NEW w \in Workers PROVE NewRow(w)'
    BY <2>1 DEF Inv, NewRow, Creating
  <2>6. QED
    BY <2>2, <2>3, <2>4, <2>5 DEF Inv
<1>4. ASSUME NEW w \in Workers, Acts(w), now' = now PROVE Inv'
  <2>1. LocalOK' /\ TableOK' /\ Others(w) /\ Exist \subseteq Exist'
    BY <1>4, ActTyped, ExistGrows
  <2>2. TypeOK'
    BY <1>1, <2>1, TypePartsNext
  <2>3. Slugs'
    BY <1>4, SlugsStep
  <2>4. ASSUME NEW v \in Workers PROVE WorkerOK(v)' /\ NewRow(v)'
    <3>1. CASE v = w
      BY <1>4, <3>1, WorkerStep, NewRowOfSelf
    <3>2. CASE v # w
      <4>1. WorkerOK(v)'
        BY <1>0, <1>1, <1>2, <2>1, <3>2, OtherWorkerOK DEF Inv, TypeOK, Others
      <4>2. CASE Creating(v)
        BY <1>4, <3>2, <4>1, <4>2, NewRowOfOther
      <4>3. CASE ~ Creating(v)
        BY <2>1, <3>2, <4>1, <4>3 DEF NewRow, Creating, Others
      <4>4. QED
        BY <4>1, <4>2, <4>3
    <3>3. QED
      BY <3>1, <3>2
  <2>5. QED
    BY <2>2, <2>3, <2>4 DEF Inv
<1>5. QED
  BY <1>0, <1>3, <1>4, StepCases

LEMMA InitInv == Init => Inv
<1> SUFFICES ASSUME Init PROVE Inv
  OBVIOUS
<1>1. scene \in Scenes /\ scene \in Scene /\ Proper(scene) /\ row = scene.rows
  BY ActivityAssumption DEF Init
<1>2. row \in [Ids -> SUBSET Activity] /\ \A g \in Ids : \A a, b \in row[g] : a = b
  BY <1>1 DEF Scene, Proper
<1>3. PICK n \in 0..MaxId : \A g \in Ids : row[g] # {} <=> g <= n
  BY <1>1 DEF Proper
<1>4. Exist = 1..n
  BY <1>3, ActivityAssumption DEF Exist, Ids
<1>5. TypeOK
  BY <1>1, <1>2, <1>4, BlankTyped, ActivityAssumption DEF Init, TypeOK
<1>6. Slugs
  <2>1. SUFFICES ASSUME NEW g \in Exist, NEW h \in Exist, g # h
        PROVE  Row(g).slug # Row(h).slug
    BY DEF Slugs
  <2>2. Row(g) \in row[g] /\ Row(h) \in row[h] /\ g \in Ids /\ h \in Ids
    BY DEF Exist, Row
  <2>3. QED
    BY <1>1, <2>1, <2>2 DEF Proper
<1>7. ASSUME NEW w \in Workers PROVE WorkerOK(w) /\ NewRow(w)
  BY DEF Init, WorkerOK, NewRow, Creating
<1>8. QED
  BY <1>5, <1>6, <1>7 DEF Inv

LEMMA SpecStep == [Next]_vars => Step
  BY DEF Step

\* What is filed or sold does not touch the activities.
LEMMA WaresStep == TypeOK /\ [WaresNext]_<<vars, wares>> => Step
<1> SUFFICES ASSUME TypeOK, [WaresNext]_<<vars, wares>> PROVE Step
  OBVIOUS
<1>1. ASSUME NEW f \in Filers, FilerFails(f) PROVE Step
  <2>1. faults < MaxFaults /\ faults' = faults + 1
    BY <1>1, Zenon DEF FilerFails
  <2>2. faults' \in 0..MaxFaults
    BY <2>1, ActivityAssumption DEF TypeOK
  <2>3. UNCHANGED <<table, now, local, scene>>
    BY <1>1 DEF FilerFails
  <2>4. QED
    BY <2>2, <2>3 DEF Step
<1>2. ASSUME NEW f \in Filers, ReadGroup(f) \/ ReadLabels(f) \/ TestGroups(f) \/ InsertWare(f)
      PROVE  UNCHANGED vars
  BY <1>2 DEF ReadGroup, ReadLabels, TestGroups, InsertWare
<1>3. ASSUME NEW w \in Workers, ListWare(w) \/ DeleteWare(w) \/ BanWare(w)
      PROVE  UNCHANGED vars
  BY <1>3 DEF ListWare, DeleteWare, BanWare
<1>4. CASE Pop \/ ReadSizes \/ ReadMembers
  BY <1>4 DEF Pop, ReadSizes, ReadMembers, Step
<1>5. ASSUME NEW l \in scene.labels,
             \/ \E k \in Lists(l), x \in scene.wares : CacheNameList(l, k, x)
             \/ CreateNameList(l)
             \/ \E w \in Workers, S \in (SUBSET (scene.labels \X scene.wares)) \ {{}},
                   op \in scene.asks \cap {"add", "del"} : Asks(w, l, S, op)
      PROVE  UNCHANGED vars
  BY <1>5 DEF CacheNameList, CreateNameList, Asks
<1>6. CASE NextOfActivities \/ UNCHANGED <<vars, wares>>
  BY <1>6 DEF Step, NextOfActivities
<1>7. QED
  BY <1>1, <1>2, <1>3, <1>4, <1>5, <1>6 DEF WaresNext, NextOfFilers, Step

\* The invariant holds of activities by themselves, and with their wares.
LEMMA InvAlways == Spec => []Inv
  BY InitInv, InvStep, SpecStep, PTL DEF Spec

LEMMA InvOfWares == WaresSpec => []Inv
<1>1. WaresInit => Inv
  BY InitInv DEF WaresInit
<1>2. Inv /\ [WaresNext]_<<vars, wares>> => Inv'
  BY InvStep, WaresStep DEF Inv
<1>3. QED
  BY <1>1, <1>2, PTL DEF WaresSpec

\* Types; the ids are given out in order, and a slug has one activity.
THEOREM ActivitiesTyped == Spec => []TypeOK
<1>1. Inv => TypeOK
  BY DEF Inv
<1>2. QED
  BY <1>1, InvAlways, PTL

\* A creation names the activity it has inserted: the statement that asks for the
\* largest id finds no other, whatever the workers and failures, because the unique
\* index on slug lets no second creation in before the first has its slug.
LEMMA InvNames == Inv => OwnSlug
  BY DEF Inv, OwnSlug, WorkerOK, At

\* In every behaviour of the admin server with its label server, a creation of an activity
\* gives the slug to the row it has itself inserted.
THEOREM CreationNamesItsOwn == WaresSpec => []OwnSlug
  BY InvOfWares, InvNames, PTL

-----------------------------------------------------------------------------
(***************************************************************************)
(* An activity that has no slug.                                           *)
(***************************************************************************)

LEMMA NamelessStep ==
  ASSUME Inv, NEW w \in Workers, Acts(w), NEW g \in Ids, Nameless(g)
  PROVE  Nameless(g)' /\ Exist' = Exist
<1>0. /\ TypeOK /\ Others(w) /\ g \in Exist /\ Row(g).slug = NoSlug /\ g # NoId
      /\ \A v \in Workers : pc[v] \notin {"maxId", "readRow", "name"}
      /\ \A v \in Workers : id[v] = g => page[v].slug = NoSlug
  BY ActTyped DEF Inv, Nameless, Ids, NoId
<1>1. ~ Inserts(w)
  BY <1>0, InsertAlone
<1>2. Exist' = Exist /\ Row(g)'.slug = NoSlug
  <2>1. CASE Writes(w)
    <3>1. PICK h \in Exist, a \in Activity :
           /\ h = id[w] /\ a = page[w]
           /\ Exist' = Exist /\ Row(h)' = a /\ \A i \in Exist : i # h => Row(i)' = Row(i)
      BY <2>1, WriteShape DEF Writes
    <3>2. QED
      BY <1>0, <3>1
  <2>2. CASE ~ Writes(w)
    BY <1>0, <1>1, <2>2, RowWriters, RowKept
  <2>3. QED
    BY <2>1, <2>2
<1>3. pc'[w] \notin {"maxId", "readRow", "name"} /\ (id'[w] = g => page'[w].slug = NoSlug)
  <2>1. CASE Create(w)
    BY <1>0, <2>1 DEF Create, Take, Goto, TypeOK
  <2>2. CASE Update(w)
    <3>1. PICK h \in Exist, a \in Activity :
            /\ a.slug = Row(h).slug
            /\ Take(w, h, a, IF a.label \in {NoLabel, Row(h).label} THEN "verify"
                                                                    ELSE "recount")
      BY <1>0, <2>2, UpdateShape
    <3>2. id'[w] = h /\ page'[w] = a /\ pc'[w] \in {"verify", "recount"}
      BY <1>0, <3>1 DEF Take, Goto, TypeOK
    <3>3. QED
      BY <1>0, <3>1, <3>2
  <2>3. CASE Offline(w)
    <3>1. PICK h \in Exist, a \in Activity : a.slug = Row(h).slug /\ Take(w, h, a, "close")
      BY <1>0, <2>3, OfflineShape
    <3>2. id'[w] = h /\ page'[w] = a /\ pc'[w] = "close"
      BY <1>0, <3>1 DEF Take, Goto, TypeOK
    <3>3. QED
      BY <1>0, <3>1, <3>2
  <2>4. CASE Passes(w)
    BY <1>0, <2>4 DEF Passes, Goto, TypeOK
  <2>5. CASE Accepts(w)
    <3>1. PICK b \in Activity : b = page[w]
      BY <1>0 DEF TypeOK
    <3>2. page'[w] = (IF b.status = Refused THEN Closed(b) ELSE b) /\ id'[w] = id[w]
          /\ pc'[w] = "update"
      BY <1>0, <2>5, <3>1 DEF Accepts, Goto, TypeOK
    <3>3. page'[w].slug = b.slug
      BY <1>0, <3>2, ClosedTyped
    <3>4. QED
      BY <1>0, <3>1, <3>2, <3>3
  <2>6. CASE Done(w)
    BY <1>0, <2>6, DoneShape
  <2>7. QED
    BY <1>0, <1>1, <2>1, <2>2, <2>3, <2>4, <2>5, <2>6
    DEF Acts, ReadMaxId, ReadRow, At, Writes, Finishes
<1>4. QED
  BY <1>0, <1>2, <1>3 DEF Nameless, Others

LEMMA NamelessKept ==
  ASSUME Inv, Step
  PROVE  \A g \in Ids : Nameless(g) => Nameless(g)' /\ Exist' = Exist
<1>1. CASE Idles
  <2>1. Exist' = Exist /\ (\A g \in Exist : Row(g)' = Row(g)) /\ UNCHANGED <<pc, id, page>>
    BY <1>1, RowKept DEF Idles, local
  <2>2. QED
    BY <2>1 DEF Nameless
<1>2. CASE \E w \in Workers : Acts(w)
  BY <1>2, NamelessStep
<1>3. QED
  BY <1>1, <1>2, StepCases DEF Inv

\* Without its slug an activity stays without, and no other is ever created: what
\* a creation leaves that dies before it names its activity, or an old page that
\* takes the slug away again, only the database's administrator can mend.
THEOREM NamelessBlocksForGood == WaresSpec => NamelessBlocks
<1>1. Inv /\ [WaresNext]_<<vars, wares>> => [\A g \in Ids : Nameless(g) => Nameless(g)' /\ Exist' = Exist]_vars
  BY WaresStep, NamelessKept DEF Inv
<1>2. QED
  BY <1>1, InvOfWares, PTL DEF WaresSpec, NamelessBlocks

-----------------------------------------------------------------------------
(***************************************************************************)
(* What has been decided about an activity.                                *)
(***************************************************************************)

Decided == \A g \in Exist : Row(g).status = Online /\ now < Row(g).end => g \in approved

LEMMA DecidedWritten ==
  ASSUME Inv, NEW w \in Workers, Writes(w), Decided, now' = now
  PROVE  Decided'
<1>1. PICK g \in Exist, a \in Activity :
        /\ g = id[w] /\ a = page[w]
        /\ Exist' = Exist /\ Row(g)' = a /\ \A i \in Exist : i # g => Row(i)' = Row(i)
  BY WriteShape DEF Writes
<1>2. /\ approved \ {g} \subseteq approved'
      /\ pc[w] # "close" /\ a.status = Online => g \in approved'
  BY <1>1 DEF Writes, DoWrite, At, Online, Refused
<1>3. pc[w] = "close" => a.end <= now
  BY <1>1 DEF Inv, WorkerOK
<1>5. a.end \in Int /\ now \in Int
  BY ActivityAssumption DEF Inv, TypeOK, Activity
<1>6. a.status = Online /\ now < a.end => g \in approved'
  BY <1>2, <1>3, <1>5
<1>7. QED
  BY <1>1, <1>2, <1>6 DEF Decided

LEMMA DecidedStep == Inv /\ Decided /\ Step => Decided'
<1> SUFFICES ASSUME Inv, Decided, Step PROVE Decided'
  OBVIOUS
<1>0. TypeOK /\ now <= now' /\ now \in Int /\ now' \in Int
  BY StepCases, ActivityAssumption DEF Inv, TypeOK, EnvOK
<1>1. ASSUME UNCHANGED <<row, approved>> PROVE Decided'
  <2>1. Exist' = Exist /\ (\A g \in Exist : Row(g)' = Row(g)) /\ approved' = approved
    BY <1>1, RowKept
  <2>2. \A g \in Exist : Row(g).end \in Int
    BY <1>0, RowOf
  <2>3. QED
    BY <1>0, <2>1, <2>2 DEF Decided
<1>2. CASE Idles
  BY <1>1, <1>2 DEF Idles
<1>3. ASSUME NEW w \in Workers, Acts(w), now' = now PROVE Decided'
  <2>1. CASE Inserts(w)
    <3>1. PICK k \in Ids, a \in Activity :
             /\ k = Cardinality(Exist) + 1 /\ a = page[w]
             /\ Exist' = Exist \cup {k} /\ Row(k)' = a
             /\ \A h \in Exist : Row(h)' = Row(h)
      BY <1>0, <2>1, NextId DEF Inserts
    <3>2. approved \subseteq approved' /\ (a.status = Online => k \in approved')
      BY <2>1, <3>1 DEF Inserts, DoInsert
    <3>3. QED
      BY <1>3, <3>1, <3>2 DEF Decided
  <2>2. CASE Writes(w)
    BY <1>3, <2>2, DecidedWritten
  <2>3. CASE ~ Inserts(w) /\ ~ Writes(w)
    BY <1>1, <1>3, <2>3, RowWriters
  <2>4. QED
    BY <2>1, <2>2, <2>3
<1>4. QED
  BY <1>0, <1>2, <1>3, StepCases

\* An activity that runs is one whose last decision was an approval, in whatever
\* order approvals, refusals, closings and pages of long ago are written.
THEOREM RunsWhenApproved == WaresSpec => []RunsAsDecided
<1>1. WaresInit => Decided
  BY DEF WaresInit, Init, Decided
<1>2. Inv /\ Decided /\ [WaresNext]_<<vars, wares>> => Decided'
  BY DecidedStep, WaresStep DEF Inv
<1>3. Decided => RunsAsDecided
  BY DEF Decided, RunsAsDecided, Runs
<1>4. QED
  BY <1>1, <1>2, <1>3, InvOfWares, PTL DEF WaresSpec

-----------------------------------------------------------------------------
(***************************************************************************)
(* Labels, as long as requests come one at a time.                         *)
(***************************************************************************)

Alone == \A v, w \in Workers : v = w \/ pc[v] = "idle" \/ pc[w] = "idle"

\* A label is written when it has been seen to be free, or is the activity's own.
LabelOK(w) ==
  /\ pc[w] = "insert" => page[w].label = NoLabel \/ LabelFree(page[w].label)
  /\ pc[w] \in {"verify", "update"} =>
       page[w].label \in {NoLabel, Row(id[w]).label} \/ LabelFree(page[w].label)
  /\ pc[w] \in {"name", "close"} => page[w].label = Row(id[w]).label

Serial == scene.serial => Alone /\ LabelUsedOnce /\ \A w \in Workers : LabelOK(w)

LEMMA LabelStep ==
  ASSUME Inv, NEW w \in Workers, Acts(w), LabelOK(w)
  PROVE  LabelOK(w)'
<1>0. TypeOK /\ WorkerOK(w) /\ NewRow(w)
  BY DEF Inv
<1>1. CASE Done(w)
  BY <1>0, <1>1, DoneShape DEF LabelOK
<1>2. CASE Inserts(w) /\ ~ Done(w)
  BY <1>0, <1>2 DEF Inserts, Goto, TypeOK, LabelOK
<1>3. ASSUME UNCHANGED row
      PROVE  /\ \A l : LabelFree(l)' <=> LabelFree(l)
             /\ \A g \in Exist : Row(g)' = Row(g)
  BY <1>3, RowKept DEF LabelFree
<1>4. CASE Create(w)
  <2>1. PICK a \in Activity :
           Take(w, NoId, a, IF a.label = NoLabel THEN "insert" ELSE "count")
    BY <1>0, <1>4, CreateShape
  <2>2. page'[w] = a /\ pc'[w] = IF a.label = NoLabel THEN "insert" ELSE "count"
    BY <1>0, <2>1 DEF Take, Goto, TypeOK
  <2>3. QED
    BY <2>2 DEF LabelOK
<1>5. CASE Update(w)
  <2>1. PICK g \in Exist, a \in Activity :
          Take(w, g, a, IF a.label \in {NoLabel, Row(g).label} THEN "verify" ELSE "recount")
    BY <1>0, <1>5, UpdateShape
  <2>2. /\ page'[w] = a /\ id'[w] = g /\ Row(g)' = Row(g)
        /\ pc'[w] = IF a.label \in {NoLabel, Row(g).label} THEN "verify" ELSE "recount"
    BY <1>0, <1>3, <2>1 DEF Take, Goto, TypeOK, table
  <2>3. Row(id[w])' = Row(g)'
    BY <2>2 DEF Row
  <2>4. QED
    BY <2>2, <2>3 DEF LabelOK
<1>6. CASE Offline(w)
  <2>1. PICK g \in Exist, a \in Activity : a.label = Row(g).label /\ Take(w, g, a, "close")
    BY <1>0, <1>6, OfflineShape
  <2>2. page'[w] = a /\ id'[w] = g /\ Row(g)' = Row(g) /\ pc'[w] = "close"
    BY <1>0, <1>3, <2>1 DEF Take, Goto, TypeOK, table
  <2>3. Row(id[w])' = Row(g)'
    BY <2>2 DEF Row
  <2>4. QED
    BY <2>1, <2>2, <2>3 DEF LabelOK
<1>7. CASE Passes(w)
  <2>1. PICK l \in {NoLabel} \cup Labels : l = page[w].label
    BY <1>0 DEF TypeOK, Activity
  <2>2. LabelFree(l)' /\ page'[w].label = l /\ pc'[w] \in {"insert", "verify"}
    BY <1>0, <1>3, <1>7, <2>1 DEF Passes, Goto, TypeOK, table
  <2>3. LabelFree(page[w].label)' <=> LabelFree(l)'
    BY <2>2 DEF LabelFree
  <2>4. QED
    BY <2>2, <2>3 DEF LabelOK
<1>8. CASE Accepts(w)
  <2>1. PICK b \in Activity, g \in Exist : b = page[w] /\ g = id[w]
    BY <1>0, <1>8 DEF TypeOK, Accepts, At, WorkerOK
  <2>2. /\ page'[w] = (IF b.status = Refused THEN Closed(b) ELSE b) /\ id'[w] = g
        /\ pc'[w] = "update" /\ pc[w] = "verify" /\ UNCHANGED row
    BY <1>0, <1>8, <2>1 DEF Accepts, Goto, TypeOK, At, table
  <2>3. page'[w].label = b.label
    BY <1>0, <2>2, ClosedTyped
  <2>4. PICK l : l = b.label
    OBVIOUS
  <2>5. l \in {NoLabel, Row(g).label} \/ LabelFree(l)
    BY <2>1, <2>2, <2>4 DEF LabelOK
  <2>6. l \in {NoLabel, Row(g)'.label} \/ LabelFree(l)'
    BY <1>3, <2>2, <2>5
  <2>7. Row(id[w])' = Row(g)' /\ (LabelFree(page[w].label)' <=> LabelFree(l)')
    BY <2>2, <2>3, <2>4 DEF Row, LabelFree
  <2>8. QED
    BY <2>2, <2>3, <2>4, <2>6, <2>7 DEF LabelOK
<1>9. CASE ReadMaxId(w)
  BY <1>0, <1>9 DEF ReadMaxId, Goto, TypeOK, LabelOK
<1>10. CASE ReadRow(w)
  <2>1. PICK g \in Exist : g = id[w]
    BY <1>0, <1>10 DEF ReadRow, At, WorkerOK, NewRow, Creating
  <2>2. PICK r \in Activity : r = Row(g)
    BY <1>0, RowOf
  <2>3. page'[w] = [r EXCEPT !.slug = g] /\ pc'[w] = "name" /\ id'[w] = g /\ UNCHANGED row
    BY <1>0, <1>10, <2>1, <2>2 DEF ReadRow, Goto, TypeOK, table
  <2>4. page'[w].label = r.label
    BY <2>3 DEF Activity
  <2>5. Row(id[w])' = Row(g)' /\ Row(g)' = r
    BY <1>3, <2>2, <2>3 DEF Row
  <2>6. QED
    BY <2>3, <2>4, <2>5 DEF LabelOK
<1>11. QED
  BY <1>1, <1>2, <1>4, <1>5, <1>6, <1>7, <1>8, <1>9, <1>10 DEF Acts, Writes, Finishes

LEMMA OnceStep ==
  ASSUME Inv, NEW w \in Workers, Acts(w), LabelOK(w), scene.serial, scene' = scene,
         LabelUsedOnce
  PROVE  LabelUsedOnce'
<1>0. /\ TypeOK /\ WorkerOK(w)
      /\ \A g, h \in Exist : g # h => Row(g).label = NoLabel \/ Row(g).label # Row(h).label
  BY DEF Inv, LabelUsedOnce
<1>1. CASE Inserts(w)
  <2>1. PICK k \in Ids, a \in Activity :
           /\ a = page[w] /\ Exist' = Exist \cup {k} /\ Row(k)' = a
           /\ \A h \in Exist : Row(h)' = Row(h)
    BY <1>0, <1>1, NextId DEF Inserts
  <2>2. a.label = NoLabel \/ \A h \in Exist : Row(h).label # a.label
    BY <1>1, <2>1 DEF Inserts, At, LabelOK, LabelFree
  <2>3. QED
    BY <1>0, <2>1, <2>2 DEF LabelUsedOnce
<1>2. CASE Writes(w)
  <2>1. PICK g \in Exist, a \in Activity :
           /\ g = id[w] /\ a = page[w]
           /\ Exist' = Exist /\ Row(g)' = a /\ \A h \in Exist : h # g => Row(h)' = Row(h)
    BY <1>2, WriteShape DEF Writes
  <2>2. \/ a.label \in {NoLabel, Row(g).label}
        \/ \A h \in Exist : Row(h).label # a.label
    BY <1>2, <2>1 DEF Writes, LabelOK, LabelFree
  <2>3. QED
    BY <1>0, <2>1, <2>2 DEF LabelUsedOnce
<1>3. CASE ~ Inserts(w) /\ ~ Writes(w)
  <2>1. Exist' = Exist /\ \A g \in Exist : Row(g)' = Row(g)
    BY <1>3, RowWriters, RowKept
  <2>2. QED
    BY <1>0, <2>1 DEF LabelUsedOnce
<1>4. QED
  BY <1>1, <1>2, <1>3

\* The one that acts is alone.
LEMMA AloneStep ==
  ASSUME Inv, NEW w \in Workers, Acts(w), scene.serial, Alone
  PROVE  \A v \in Workers : v # w => pc[v] = "idle"
<1>1. CASE pc[w] # "idle"
  BY <1>1 DEF Alone
<1>2. CASE pc[w] = "idle"
  <2>1. Create(w) \/ Update(w) \/ Offline(w)
    BY <1>2 DEF Acts, Passes, Accepts, ReadMaxId, ReadRow, Inserts, Writes, Finishes, At
  <2>2. QED
    BY <2>1 DEF Create, Update, Offline, Take, At
<1>3. QED
  BY <1>1, <1>2

LEMMA SerialStep == Inv /\ Serial /\ Step => Serial'
<1> SUFFICES ASSUME Inv, Serial, Step, scene'.serial PROVE (Alone /\ LabelUsedOnce)' /\ \A w \in Workers : LabelOK(w)'
  BY DEF Serial
<1>0. TypeOK /\ scene' = scene /\ scene.serial /\ Alone /\ LabelUsedOnce
      /\ \A w \in Workers : LabelOK(w)
  BY StepCases DEF Inv, Serial
<1>1. CASE Idles
  <2>1. /\ Exist' = Exist /\ (\A g \in Exist : Row(g)' = Row(g))
        /\ UNCHANGED <<row, pc, id, page>>
    BY <1>1, RowKept DEF Idles, local
  <2>2. \A w \in Workers : Row(id[w])' = Row(id[w])
                           /\ (LabelFree(page[w].label)' <=> LabelFree(page[w].label))
    BY <2>1 DEF Row, LabelFree
  <2>3. QED
    BY <1>0, <2>1, <2>2 DEF Alone, LabelUsedOnce, LabelOK
<1>2. ASSUME NEW w \in Workers, Acts(w)
      PROVE  (Alone /\ LabelUsedOnce)' /\ \A v \in Workers : LabelOK(v)'
  <2>1. Others(w) /\ \A v \in Workers : v # w => pc[v] = "idle"
    BY <1>0, <1>2, ActTyped, AloneStep
  <2>2. \A v \in Workers : v # w => pc'[v] = "idle"
    BY <2>1 DEF Others
  <2>3. LabelUsedOnce' /\ LabelOK(w)'
    BY <1>0, <1>2, LabelStep, OnceStep
  <2>4. QED
    BY <2>2, <2>3 DEF Alone, LabelOK
<1>3. QED
  BY <1>0, <1>1, <1>2, StepCases

\* With one request at a time a label has one activity, whatever fails and however
\* often the activities are changed.
THEOREM LabelHasOneActivity == WaresSpec => []LabelUsedOnce
<1>1. Init => Serial
  <2>1. SUFFICES ASSUME Init, scene.serial PROVE LabelUsedOnce
    BY DEF Init, Serial, Alone, LabelOK
  <2>2. scene \in Scenes /\ Proper(scene) /\ row = scene.rows
    BY <2>1, ActivityAssumption DEF Init
  <2>3. SUFFICES ASSUME NEW g \in Exist, NEW h \in Exist, g # h
        PROVE  Row(g).label = NoLabel \/ Row(g).label # Row(h).label
    BY DEF LabelUsedOnce
  <2>4. Row(g) \in row[g] /\ Row(h) \in row[h] /\ g \in Ids /\ h \in Ids
    BY DEF Exist, Row
  <2>5. QED
    BY <2>1, <2>2, <2>3, <2>4 DEF Proper
<1>2. WaresInit => Serial
  BY <1>1 DEF WaresInit
<1>3. Inv /\ Serial /\ [WaresNext]_<<vars, wares>> => Serial'
  BY SerialStep, WaresStep DEF Inv
<1>4. Serial => LabelUsedOnce
  BY DEF Serial, LabelUsedOnce
<1>5. QED
  BY <1>2, <1>3, <1>4, InvOfWares, PTL DEF WaresSpec

-----------------------------------------------------------------------------
(***************************************************************************)
(* Wares: the tasks of those that file them.                               *)
(***************************************************************************)

TaskSteps == {"idle", "group", "sizes", "members", "labels", "groups",
              "insert", "list", "delete", "ban"}

Task == [step : TaskSteps, op : {"sweep", "add", "del"}, label : {NoLabel} \cup Labels,
         start : Int, end : Int, asked : SUBSET (Labels \X Wares),
         todo : SUBSET (Labels \X Wares), into : {NoLabel} \cup Labels,
         ware : {NoWare} \cup Wares, found : SUBSET Labels]

Items == scene.labels \X scene.wares

\* A task concerns the labels and wares of the scene.
TaskIn(t) ==
  /\ t \in Task /\ t.label \in scene.labels \cup {NoLabel}
  /\ t.step # "idle" => t.label \in scene.labels
  /\ t.asked \subseteq Items /\ t.todo \subseteq Items
  /\ t.into \in scene.labels \cup {NoLabel} /\ t.ware \in scene.wares \cup {NoWare}
  /\ t.step \in {"groups", "insert", "list"} =>
       t.into \in scene.labels /\ t.ware \in scene.wares
  /\ t.found \subseteq scene.labels \ {t.label}

Open(g) == now < Row(g).end

\* t neither begins nor ends while h is open.
Clear(t, h) ==
  Open(h) => /\ ~ (Row(h).start < t.start /\ t.start < Row(h).end)
             /\ ~ (Row(h).start < t.end /\ t.end < Row(h).end)

\* The activities that have been there, with their label and time, all along.
Steady == Exist \ moved

\* A task knows the time of every such activity of its label, until that is closed.
TimesOK(t) ==
  t.step \notin {"idle", "group"} => \A g \in Steady :
    Row(g).label = t.label /\ Open(g) => t.start = Row(g).start /\ t.end = Row(g).end

\* A ware has passed the test against every label that was found.
TestedOK(t) ==
  t.step = "insert" => \A h \in Steady : Row(h).label \in t.found => Clear(t, h)

FilerOK(t) == TaskIn(t) /\ TimesOK(t) /\ TestedOK(t)

LEMMA SceneWares ==
  ASSUME TypeOK
  PROVE  /\ scene.wares \subseteq Wares /\ scene.labels \subseteq Labels
         /\ scene.labels \subseteq Nat \ {NoLabel}
  BY SceneOf DEF Wares

LEMMA IdleOK == TypeOK => FilerOK(Idle)
  BY SceneWares DEF FilerOK, TaskIn, TimesOK, TestedOK, Idle, Task, TaskSteps, NoLabel, NoWare, Items

\* Going on with a task keeps what it knows of its activity.
LEMMA TaskGoesOn ==
  ASSUME NEW t \in Task, FilerOK(t), t.step \notin {"idle", "group"},
         NEW u \in Task, TaskIn(u), u.label = t.label, u.start = t.start, u.end = t.end,
         u.step # "insert"
  PROVE  FilerOK(u)
  BY DEF FilerOK, TimesOK, TestedOK

LEMMA LoopOK ==
  ASSUME TypeOK, NEW t \in Task, TaskIn(t), t.step # "idle"
  PROVE  /\ Loop(t) \in Task /\ TaskIn(Loop(t)) /\ Loop(t).step \notin {"group", "insert"}
         /\ \/ Loop(t) = Idle
            \/ /\ Loop(t).label = t.label /\ Loop(t).start = t.start /\ Loop(t).end = t.end
               /\ Loop(t).step # "idle"
<1>1. CASE t.todo = {}
  <2>1. Loop(t) = Idle
    BY <1>1 DEF Loop
  <2>2. TaskIn(Idle)
    BY IdleOK DEF FilerOK
  <2>3. QED
    BY <2>1, <2>2 DEF TaskIn, Idle
<1>2. CASE t.todo # {}
  <2>1. PICK s \in {"delete", "ban", "labels"} : Loop(t) = [t EXCEPT !.step = s]
    BY <1>2 DEF Loop
  <2>2. PICK u : u = [t EXCEPT !.step = s]
    OBVIOUS
  <2>3. /\ u \in Task /\ u.step = s /\ u.label = t.label /\ u.start = t.start
        /\ u.end = t.end /\ u.asked = t.asked /\ u.todo = t.todo /\ u.ware = t.ware /\ u.into = t.into
        /\ u.found = t.found
    BY <2>2 DEF Task, TaskSteps
  <2>4. TaskIn(u)
    BY <2>3 DEF TaskIn
  <2>5. QED
    BY <2>1, <2>2, <2>3, <2>4
<1>3. QED
  BY <1>1, <1>2

\* From a task under way to the next ware.
LEMMA LoopGoesOn ==
  ASSUME TypeOK, NEW t \in Task, FilerOK(t), t.step \notin {"idle", "group"}
  PROVE  FilerOK(Loop(t))
<1>1. CASE Loop(t) = Idle
  BY <1>1, IdleOK
<1>2. CASE Loop(t) # Idle
  <2>1. PICK u \in Task : u = Loop(t)
    BY LoopOK DEF FilerOK
  <2>2. TaskIn(u) /\ u.label = t.label /\ u.start = t.start /\ u.end = t.end /\ u.step # "insert"
    BY <1>2, <2>1, LoopOK DEF FilerOK
  <2>3. QED
    BY <2>1, <2>2, TaskGoesOn
<1>3. QED
  BY <1>1, <1>2

WaresIn ==
  /\ task \in [Filers -> Task]
  /\ onsale \subseteq scene.labels \X scene.wares
  /\ namelist \in [Labels -> [0..3 -> SUBSET scene.wares]]
  /\ queue \in Seq(scene.labels) /\ Len(queue) <= MaxQueue
  /\ overlooked \subseteq scene.wares /\ moved \subseteq Exist

\* What each step of a filer makes of its task.
LEMMA ReadGroupShape ==
  ASSUME TypeOK, WaresIn, NEW f \in Filers, FilerOK(task[f]), ReadGroup(f)
  PROVE  \E u \in Task : Becomes(f, u) /\ FilerOK(u)
<1>1. PICK t \in Task : t = task[f]
  BY DEF WaresIn
<1>2. FilerOK(t) /\ TaskIn(t) /\ t.step = "group"
  BY <1>1 DEF ReadGroup, On, FilerOK
<1> DEFINE own == {g \in Exist : Row(g).label = t.label}
<1>4. CASE Becomes(f, Idle)
  BY <1>4, IdleOK DEF FilerOK, TaskIn
<1>5. CASE ~ Becomes(f, Idle)
  <2>1. Cardinality(own) = 1
    BY <1>1, <1>5 DEF ReadGroup
  <2>2. IsFiniteSet(own)
    BY ExistIs, FS_Subset
  <2>3. PICK g : own = {g}
    BY <2>1, <2>2, FS_Singleton
  <2>4. g \in Exist /\ \A h \in Exist : Row(h).label = t.label => h = g
    BY <2>3
  <2>5. PICK r \in Activity : r = Row(g)
    BY <2>4, RowOf
  <2>6. PICK v : v = [t EXCEPT !.start = r.start, !.end = r.end]
    OBVIOUS
  <2>7. /\ v \in Task /\ v.step = "group" /\ v.label = t.label /\ v.start = r.start
        /\ v.end = r.end /\ v.op = t.op /\ v.asked = t.asked /\ v.todo = t.todo
        /\ v.ware = t.ware /\ v.into = t.into /\ v.found = t.found
    BY <1>2, <2>6 DEF Task, Activity
  <2>8. TaskIn(v)
    BY <1>2, <2>7 DEF TaskIn
  <2>9. Becomes(f, IF t.op # "sweep"
                   THEN IF t.op = "add" /\ Kind(t) = Black
                        THEN [v EXCEPT !.step = "delete"] ELSE Loop(v)
                   ELSE [v EXCEPT !.step = IF Kind(t) = Black THEN "sizes"
                                                              ELSE "members"])
    <3>1. \A h : h \in own => h = g
      BY <2>3
    <3>2. PICK h \in own :
            LET u == [t EXCEPT !.start = Row(h).start, !.end = Row(h).end]
            IN  Becomes(f, IF t.op # "sweep"
                          THEN IF t.op = "add" /\ Kind(t) = Black
                               THEN [u EXCEPT !.step = "delete"] ELSE Loop(u)
                          ELSE [u EXCEPT !.step = IF Kind(t) = Black THEN "sizes"
                                                                     ELSE "members"])
      BY <1>1, <2>1 DEF ReadGroup
    <3>3. h = g
      BY <3>1
    <3>4. QED
      BY <2>5, <2>6, <3>2, <3>3
  <2>10. \/ Becomes(f, Loop(v))
         \/ \E s \in {"delete", "sizes", "members"} : Becomes(f, [v EXCEPT !.step = s])
    BY <2>9
  <2>11. ASSUME NEW u \in Task, TaskIn(u), u.step # "insert",
                u.label = v.label, u.start = v.start, u.end = v.end
         PROVE  FilerOK(u)
    BY <2>4, <2>5, <2>7, <2>11 DEF FilerOK, TimesOK, TestedOK, Steady
  <2>12. CASE Becomes(f, Loop(v))
    <3>1. CASE Loop(v) = Idle
      BY <1>5, <2>12, <3>1
    <3>2. CASE Loop(v) # Idle
      <4>1. PICK u \in Task : u = Loop(v)
        BY <2>7, <2>8, LoopOK
      <4>2. TaskIn(u) /\ u.step # "insert" /\ u.label = v.label /\ u.start = v.start
            /\ u.end = v.end
        BY <2>7, <2>8, <3>2, <4>1, LoopOK
      <4>3. QED
        BY <2>11, <2>12, <4>1, <4>2
    <3>3. QED
      BY <3>1, <3>2
  <2>13. ASSUME NEW s \in {"delete", "sizes", "members"}, Becomes(f, [v EXCEPT !.step = s])
         PROVE  \E u \in Task : Becomes(f, u) /\ FilerOK(u)
    <3>1. PICK u : u = [v EXCEPT !.step = s]
      OBVIOUS
    <3>2. /\ u \in Task /\ u.step = s /\ u.label = v.label /\ u.start = v.start
          /\ u.end = v.end /\ u.asked = v.asked /\ u.todo = v.todo /\ u.ware = v.ware /\ u.into = v.into
          /\ u.found = v.found
      BY <2>7, <3>1 DEF Task, TaskSteps
    <3>3. TaskIn(u)
      BY <2>7, <2>8, <3>2 DEF TaskIn
    <3>4. QED
      BY <2>11, <2>13, <3>1, <3>2, <3>3
  <2>14. QED
    BY <2>10, <2>12, <2>13
<1>6. QED
  BY <1>4, <1>5

LEMMA ReadSizesShape ==
  ASSUME TypeOK, WaresIn, FilerOK(task[LabelServer]), ReadSizes
  PROVE  \E u \in Task : Becomes(LabelServer, u) /\ FilerOK(u)
<1>1. PICK t \in Task : t = task[LabelServer]
  BY DEF WaresIn, Filers
<1>2. FilerOK(t) /\ TaskIn(t) /\ t.step = "sizes"
  BY <1>1 DEF ReadSizes, On, FilerOK
<1>3. CASE Becomes(LabelServer, Idle)
  BY <1>3, IdleOK DEF FilerOK, TaskIn
<1>4. CASE Becomes(LabelServer, [t EXCEPT !.step = "members"])
  <2>1. PICK u : u = [t EXCEPT !.step = "members"]
    OBVIOUS
  <2>2. /\ u \in Task /\ u.step = "members" /\ u.label = t.label /\ u.start = t.start
        /\ u.end = t.end /\ u.asked = t.asked /\ u.todo = t.todo /\ u.ware = t.ware /\ u.into = t.into
        /\ u.found = t.found
    BY <2>1 DEF Task, TaskSteps
  <2>3. TaskIn(u)
    BY <1>2, <2>2 DEF TaskIn
  <2>4. FilerOK(u)
    BY <1>2, <2>2, <2>3, TaskGoesOn
  <2>5. QED
    BY <1>4, <2>1, <2>2, <2>4
<1>5. QED
  BY <1>1, <1>3, <1>4 DEF ReadSizes

\* A task gets its wares.
LEMMA TodoOK ==
  ASSUME TypeOK, NEW t \in Task, FilerOK(t), t.step \notin {"idle", "group", "insert"},
         NEW S \in SUBSET Items
  PROVE  \E u \in Task :
           /\ u = [t EXCEPT !.todo = S] /\ FilerOK(u)
           /\ u.step = t.step /\ u.op = t.op /\ u.label = t.label
           /\ u.asked = t.asked /\ u.todo = S
<1>1. PICK u : u = [t EXCEPT !.todo = S]
  OBVIOUS
<1>2. /\ u \in Task /\ u.step = t.step /\ u.label = t.label /\ u.start = t.start
      /\ u.end = t.end /\ u.asked = t.asked /\ u.todo = S /\ u.ware = t.ware /\ u.into = t.into
      /\ u.found = t.found /\ u.op = t.op
  BY <1>1, SceneWares DEF Task, Items
<1>3. TaskIn(u)
  BY <1>2 DEF FilerOK, TaskIn
<1>4. FilerOK(u)
  BY <1>2, <1>3, TaskGoesOn
<1>5. QED
  BY <1>1, <1>2, <1>4

LEMMA ReadMembersShape ==
  ASSUME TypeOK, WaresIn, FilerOK(task[LabelServer]), ReadMembers
  PROVE  \E u \in Task : Becomes(LabelServer, u) /\ FilerOK(u)
<1>1. PICK t \in Task : t = task[LabelServer]
  BY DEF WaresIn, Filers
<1>2. FilerOK(t) /\ TaskIn(t) /\ t.step = "members" /\ t.label \in Labels
  BY <1>1, SceneWares DEF ReadMembers, On, FilerOK, TaskIn
<1>3. Kind(t) \in 0..2
  BY <1>2, ActivityAssumption DEF Kind, TypeOK, Scene
<1>4. Members(t) \in SUBSET Items
  BY <1>2, <1>3 DEF Members, WaresIn, Datum, Black, TaskIn, Items
<1>5. PICK S \in SUBSET Items : S = Members(t)
  BY <1>4
<1>6. Becomes(LabelServer, Loop([t EXCEPT !.todo = S]))
  BY <1>1, <1>5 DEF ReadMembers
<1>7. PICK u \in Task : u = [t EXCEPT !.todo = S] /\ FilerOK(u) /\ u.step = "members"
  BY <1>2, <1>5, TodoOK
<1>8. FilerOK(Loop(u))
  BY <1>7, LoopGoesOn
<1>9. QED
  BY <1>6, <1>7, <1>8 DEF FilerOK, TaskIn

LEMMA ReadLabelsShape ==
  ASSUME TypeOK, WaresIn, NEW f \in Filers, FilerOK(task[f]), On(f, "labels"),
         NEW F \in SUBSET scene.labels, NEW t \in Task, t = task[f], NEW i \in t.todo
  PROVE  FilerOK([t EXCEPT !.step = "groups", !.into = i[1], !.ware = i[2],
                           !.todo = @ \ {i}, !.found = F \ {t.label}])
<1>1. FilerOK(t) /\ TaskIn(t) /\ t.step = "labels"
  BY DEF On, FilerOK
<1>2. i[1] \in scene.labels /\ i[2] \in scene.wares /\ i[1] \in Labels /\ i[2] \in Wares
      /\ F \subseteq Labels
  BY <1>1, SceneWares DEF TaskIn, Items
<1>3. PICK u : u = [t EXCEPT !.step = "groups", !.into = i[1], !.ware = i[2],
                             !.todo = @ \ {i}, !.found = F \ {t.label}]
  OBVIOUS
<1>4. /\ u \in Task /\ u.step = "groups" /\ u.label = t.label /\ u.start = t.start
      /\ u.end = t.end /\ u.asked = t.asked /\ u.todo = t.todo \ {i} /\ u.into = i[1]
      /\ u.ware = i[2] /\ u.found = F \ {t.label}
  BY <1>2, <1>3 DEF Task, TaskSteps
<1>5. TaskIn(u)
  BY <1>1, <1>2, <1>4 DEF TaskIn
<1>6. FilerOK(u)
  BY <1>1, <1>4, <1>5, TaskGoesOn
<1>7. QED
  BY <1>3, <1>6

\* A ware that may be filed: no activity of a label that was found is in the way.
LEMMA TestedShape ==
  ASSUME TypeOK, NEW t \in Task, FilerOK(t), t.step = "groups",
         NEW F \in SUBSET t.found, \A h \in Steady : Row(h).label \in F => Clear(t, h)
  PROVE  FilerOK([t EXCEPT !.step = "insert", !.found = F])
<1>1. TaskIn(t)
  BY DEF FilerOK
<1>2. PICK u : u = [t EXCEPT !.step = "insert", !.found = F]
  OBVIOUS
<1>3. /\ u \in Task /\ u.step = "insert" /\ u.label = t.label /\ u.start = t.start
      /\ u.end = t.end /\ u.asked = t.asked /\ u.todo = t.todo /\ u.ware = t.ware /\ u.into = t.into
      /\ u.found = F
  BY <1>2 DEF Task, TaskSteps
<1>4. TaskIn(u)
  BY <1>1, <1>3 DEF TaskIn
<1>5. TimesOK(u)
  BY <1>3 DEF FilerOK, TimesOK
<1>6. TestedOK(u)
  BY <1>3 DEF TestedOK, Clear
<1>7. QED
  BY <1>2, <1>4, <1>5, <1>6 DEF FilerOK

\* What is done after the ware: the next, or first the name list.
LEMMA AfterInsertOK ==
  ASSUME TypeOK, NEW t \in Task, FilerOK(t), t.step = "insert"
  PROVE  FilerOK(AfterInsert(t))
<1>1. TaskIn(t)
  BY DEF FilerOK
<1>2. PICK u : u = [t EXCEPT !.step = "list"]
  OBVIOUS
<1>3. /\ u \in Task /\ u.step = "list" /\ u.label = t.label /\ u.start = t.start
      /\ u.end = t.end /\ u.asked = t.asked /\ u.todo = t.todo /\ u.ware = t.ware /\ u.into = t.into
      /\ u.found = t.found
  BY <1>2 DEF Task, TaskSteps
<1>4. TaskIn(u)
  BY <1>1, <1>3 DEF TaskIn
<1>5. FilerOK(u)
  BY <1>3, <1>4, TaskGoesOn
<1>6. QED
  BY <1>2, <1>5, LoopGoesOn DEF AfterInsert

LEMMA DeleteShape ==
  ASSUME TypeOK, NEW t \in Task, FilerOK(t), t.step = "delete", NEW i \in t.todo
  PROVE  LET u == [t EXCEPT !.todo = @ \ {i}, !.into = i[1], !.ware = i[2]]
         IN  FilerOK(IF t.op = "del" THEN [u EXCEPT !.step = "list"]
                     ELSE IF u.todo = {} THEN Loop([u EXCEPT !.todo = u.asked])
                     ELSE u)
<1>1. /\ TaskIn(t) /\ i[1] \in scene.labels /\ i[2] \in scene.wares
      /\ i[1] \in Labels /\ i[2] \in Wares
  BY SceneWares DEF FilerOK, TaskIn, Items
<1>2. PICK u : u = [t EXCEPT !.todo = @ \ {i}, !.into = i[1], !.ware = i[2]]
  OBVIOUS
<1>3. /\ u \in Task /\ u.step = "delete" /\ u.label = t.label /\ u.start = t.start
      /\ u.end = t.end /\ u.asked = t.asked /\ u.todo = t.todo \ {i} /\ u.into = i[1] /\ u.ware = i[2]
      /\ u.found = t.found
  BY <1>1, <1>2 DEF Task, TaskSteps
<1>4. TaskIn(u)
  BY <1>1, <1>3 DEF TaskIn
<1>5. FilerOK(u)
  BY <1>3, <1>4, TaskGoesOn
<1>6. FilerOK([u EXCEPT !.step = "list"])
  <2>1. PICK v : v = [u EXCEPT !.step = "list"]
    OBVIOUS
  <2>2. /\ v \in Task /\ v.step = "list" /\ v.label = u.label /\ v.start = u.start
        /\ v.end = u.end /\ v.asked = u.asked /\ v.todo = u.todo /\ v.ware = u.ware /\ v.into = u.into
        /\ v.found = u.found
    BY <1>3, <2>1 DEF Task, TaskSteps
  <2>3. TaskIn(v)
    BY <1>1, <1>3, <1>4, <2>2 DEF TaskIn
  <2>4. QED
    BY <1>3, <1>5, <2>1, <2>2, <2>3, TaskGoesOn
<1>7. FilerOK(Loop([u EXCEPT !.todo = u.asked]))
  <2>1. u.asked \in SUBSET Items
    BY <1>4 DEF TaskIn
  <2>2. PICK v \in Task : /\ v = [u EXCEPT !.todo = u.asked] /\ FilerOK(v)
                          /\ v.step = u.step
    BY <1>3, <1>5, <2>1, TodoOK
  <2>3. QED
    BY <1>3, <2>2, LoopGoesOn
<1>8. QED
  BY <1>2, <1>5, <1>6, <1>7

LEMMA BanShape ==
  ASSUME TypeOK, NEW t \in Task, FilerOK(t), t.step \notin {"idle", "group", "insert"},
         NEW i \in t.todo
  PROVE  FilerOK(Loop([t EXCEPT !.todo = @ \ {i}]))
<1>1. t.todo \ {i} \in SUBSET Items
  BY DEF FilerOK, TaskIn
<1>2. PICK u \in Task : /\ u = [t EXCEPT !.todo = t.todo \ {i}] /\ FilerOK(u)
                        /\ u.step = t.step
  BY <1>1, TodoOK
<1>3. [t EXCEPT !.todo = @ \ {i}] = u
  BY <1>2
<1>4. QED
  BY <1>2, <1>3, LoopGoesOn

\* Every step of a filer leaves it with a task that is right.
FilerMoves(f) ==
  \/ ReadGroup(f) \/ ReadLabels(f) \/ TestGroups(f) \/ InsertWare(f) \/ FilerFails(f)
  \/ f = LabelServer /\ (Pop \/ ReadSizes \/ ReadMembers)
  \/ f \in Workers /\ (ListWare(f) \/ DeleteWare(f) \/ BanWare(f))
  \/ f \in Workers /\ \E l \in scene.labels, S \in (SUBSET Items) \ {{}},
                         op \in scene.asks \cap {"add", "del"} : Asks(f, l, S, op)

LEMMA LabelsOfTyped ==
  ASSUME WaresIn, NEW x PROVE LabelsOf(x) \in SUBSET scene.labels
  BY DEF WaresIn, LabelsOf

LEMMA IdleFields ==
  ASSUME TypeOK
  PROVE  \E i \in Task : /\ i = Idle /\ i.step = "idle" /\ i.op = "sweep" /\ i.asked = {}
                         /\ i.todo = {} /\ i.ware = NoWare /\ i.into = NoLabel
                         /\ i.found = {}
<1>1. Idle \in Task
  BY IdleOK DEF FilerOK, TaskIn
<1>2. /\ Idle.step = "idle" /\ Idle.op = "sweep" /\ Idle.asked = {}
      /\ Idle.todo = {} /\ Idle.ware = NoWare /\ Idle.into = NoLabel /\ Idle.found = {}
  BY DEF Idle
<1>3. QED
  BY <1>1, <1>2

LEMMA GroupStep ==
  ASSUME TypeOK, NEW l \in scene.labels
  PROVE  /\ FilerOK([Idle EXCEPT !.step = "group", !.label = l])
         /\ \A op \in {"add", "del"}, S \in SUBSET Items :
              FilerOK([Idle EXCEPT !.step = "group", !.op = op, !.label = l,
                                   !.asked = S, !.todo = S])
<1>1. PICK i \in Task : /\ i = Idle /\ i.step = "idle" /\ i.op = "sweep" /\ i.asked = {}
                        /\ i.todo = {} /\ i.ware = NoWare /\ i.into = NoLabel
                        /\ i.found = {}
  BY IdleFields
<1>2. l \in Labels /\ Items \subseteq Labels \X Wares
  BY SceneWares DEF Items
<1>3. ASSUME NEW u \in Task, u.step = "group", u.label = l, u.asked \subseteq Items,
             u.todo \subseteq Items, u.ware = NoWare, u.into = NoLabel, u.found = {}
      PROVE  FilerOK(u)
  BY <1>3 DEF FilerOK, TaskIn, TimesOK, TestedOK
<1>4. FilerOK([Idle EXCEPT !.step = "group", !.label = l])
  <2>1. PICK u : u = [i EXCEPT !.step = "group", !.label = l]
    OBVIOUS
  <2>2. /\ u.step = "group" /\ u.label = l /\ u.asked = {} /\ u.todo = {}
        /\ u.ware = NoWare /\ u.into = NoLabel /\ u.found = {} /\ u \in Task
    BY <1>1, <1>2, <2>1 DEF Task, TaskSteps
  <2>3. QED
    BY <1>1, <1>3, <2>1, <2>2
<1>5. ASSUME NEW op \in {"add", "del"}, NEW S \in SUBSET Items
      PROVE  FilerOK([Idle EXCEPT !.step = "group", !.op = op, !.label = l,
                                  !.asked = S, !.todo = S])
  <2>1. PICK u : u = [i EXCEPT !.step = "group", !.op = op, !.label = l,
                               !.asked = S, !.todo = S]
    OBVIOUS
  <2>2. /\ u.step = "group" /\ u.label = l /\ u.asked = S /\ u.todo = S
        /\ u.ware = NoWare /\ u.into = NoLabel /\ u.found = {} /\ u \in Task
    BY <1>1, <1>2, <2>1 DEF Task, TaskSteps
  <2>3. QED
    BY <1>1, <1>3, <2>1, <2>2
<1>6. QED
  BY <1>4, <1>5

LEMMA TestGroupsShape ==
  ASSUME TypeOK, WaresIn, NEW f \in Filers, FilerOK(task[f]), TestGroups(f)
  PROVE  \E u \in Task : Becomes(f, u) /\ FilerOK(u)
<1>1. PICK t \in Task : t = task[f]
  BY DEF WaresIn
<1>2. FilerOK(t) /\ TaskIn(t) /\ t.step = "groups"
  BY <1>1 DEF TestGroups, On, FilerOK
<1> DEFINE others == {Row(g) : g \in {h \in Exist : Row(h).label \in t.found}}
<1>3. Becomes(f, IF \E a \in others : Conflict(t, a) THEN Loop(t)
                 ELSE [t EXCEPT !.step = "insert"])
  BY <1>1 DEF TestGroups
<1>4. CASE Becomes(f, Loop(t))
  BY <1>2, <1>4, LoopGoesOn DEF FilerOK, TaskIn
<1>5. CASE ~ (\E a \in others : Conflict(t, a)) /\ Becomes(f, [t EXCEPT !.step = "insert"])
  <2>1. \A h \in Exist : Row(h).label \in t.found => ~ Conflict(t, Row(h))
    BY <1>5
  <2>2. \A h \in Steady : Row(h).label \in t.found => Clear(t, h)
    BY <2>1 DEF Conflict, Clear, Steady
  <2>3. FilerOK([t EXCEPT !.step = "insert", !.found = t.found])
    BY <1>2, <2>2, TestedShape
  <2>4. [t EXCEPT !.step = "insert", !.found = t.found] = [t EXCEPT !.step = "insert"]
    BY DEF Task
  <2>5. QED
    BY <1>5, <2>3, <2>4 DEF FilerOK, TaskIn
<1> HIDE DEF others
<1>6. QED
  BY <1>3, <1>4, <1>5

LEMMA FilerFailsShape ==
  ASSUME TypeOK, WaresIn, NEW f \in Filers, FilerOK(task[f]), FilerFails(f)
  PROVE  \E u \in Task : Becomes(f, u) /\ FilerOK(u)
<1>1. PICK t \in Task : t = task[f]
  BY DEF WaresIn
<1>2. FilerOK(t) /\ TaskIn(t) /\ \A u : FilerOK(u) => u \in Task
  BY <1>1 DEF FilerOK, TaskIn
<1>3. CASE Becomes(f, Idle)
  BY <1>3, IdleOK DEF FilerOK, TaskIn
<1>4. ASSUME On(f, "labels"), NEW i \in t.todo,
             Becomes(f, [t EXCEPT !.step = "groups", !.into = i[1], !.ware = i[2],
                                  !.todo = @ \ {i}, !.found = {}])
      PROVE  \E u \in Task : Becomes(f, u) /\ FilerOK(u)
  <2>1. PICK F \in SUBSET scene.labels : F = {}
    OBVIOUS
  <2>2. FilerOK([t EXCEPT !.step = "groups", !.into = i[1], !.ware = i[2],
                          !.todo = @ \ {i}, !.found = F \ {t.label}])
    BY <1>1, <1>4, ReadLabelsShape
  <2>3. F \ {t.label} = {}
    BY <2>1
  <2>4. QED
    BY <1>2, <1>4, <2>2, <2>3
<1>5. CASE On(f, "groups") /\ Becomes(f, [t EXCEPT !.step = "insert", !.found = {}])
  BY <1>1, <1>2, <1>5, TestedShape DEF On
<1>6. CASE On(f, "insert") /\ Becomes(f, AfterInsert(t))
  BY <1>1, <1>2, <1>6, AfterInsertOK DEF On
<1>7. CASE On(f, "list") /\ Becomes(f, Loop(t))
  BY <1>1, <1>2, <1>7, LoopGoesOn DEF On
<1>8. ASSUME On(f, "ban"), NEW i \in t.todo, Becomes(f, Loop([t EXCEPT !.todo = @ \ {i}]))
      PROVE  \E u \in Task : Becomes(f, u) /\ FilerOK(u)
  BY <1>1, <1>2, <1>8, BanShape DEF On
<1>9. QED
  BY <1>1, <1>3, <1>4, <1>5, <1>6, <1>7, <1>8 DEF FilerFails

LEMMA FilerShape ==
  ASSUME TypeOK, WaresIn, NEW f \in Filers, FilerOK(task[f]), FilerMoves(f)
  PROVE  \E u \in Task : Becomes(f, u) /\ FilerOK(u)
<1>1. PICK t \in Task : t = task[f]
  BY DEF WaresIn
<1>2. FilerOK(t) /\ TaskIn(t) /\ \A u : FilerOK(u) => u \in Task
  BY <1>1 DEF FilerOK, TaskIn
<1>3. CASE ReadGroup(f)
  BY <1>3, ReadGroupShape
<1>4. CASE ReadLabels(f)
  <2>1. PICK i \in t.todo :
          Becomes(f, [t EXCEPT !.step = "groups", !.into = i[1], !.ware = i[2],
                               !.todo = @ \ {i}, !.found = LabelsOf(i[2]) \ {t.label}])
    BY <1>1, <1>4 DEF ReadLabels
  <2>2. PICK F \in SUBSET scene.labels : F = LabelsOf(i[2])
    BY LabelsOfTyped
  <2>3. FilerOK([t EXCEPT !.step = "groups", !.into = i[1], !.ware = i[2],
                          !.todo = @ \ {i}, !.found = F \ {t.label}])
    BY <1>1, <1>4, ReadLabelsShape DEF ReadLabels
  <2>4. QED
    BY <1>2, <2>1, <2>2, <2>3
<1>5. CASE TestGroups(f)
  BY <1>5, TestGroupsShape
<1>6. CASE InsertWare(f)
  BY <1>1, <1>2, <1>6, AfterInsertOK DEF InsertWare, On
<1>7. CASE FilerFails(f)
  BY <1>7, FilerFailsShape
<1>8. CASE f = LabelServer /\ Pop
  <2>1. PICK l \in scene.labels : l = Head(queue)
    BY <1>8, HeadTailProperties DEF Pop, WaresIn
  <2>2. FilerOK([Idle EXCEPT !.step = "group", !.label = l])
    BY GroupStep
  <2>3. QED
    BY <1>2, <1>8, <2>1, <2>2 DEF Pop
<1>9. CASE f = LabelServer /\ ReadSizes
  BY <1>9, ReadSizesShape
<1>10. CASE f = LabelServer /\ ReadMembers
  BY <1>10, ReadMembersShape
<1>11. CASE ListWare(f)
  BY <1>1, <1>2, <1>11, LoopGoesOn DEF ListWare, On
<1>12. CASE DeleteWare(f)
  <2>1. PICK i \in t.todo :
          LET u == [t EXCEPT !.todo = @ \ {i}, !.into = i[1], !.ware = i[2]]
          IN  Becomes(f, IF u.op = "del" THEN [u EXCEPT !.step = "list"]
                         ELSE IF u.todo = {} THEN Loop([u EXCEPT !.todo = u.asked])
                         ELSE u)
    BY <1>1, <1>12 DEF DeleteWare
  <2>2. [t EXCEPT !.todo = @ \ {i}, !.into = i[1], !.ware = i[2]].op = t.op
    BY DEF Task
  <2>3. QED
    BY <1>1, <1>2, <1>12, <2>1, <2>2, DeleteShape DEF DeleteWare, On
<1>13. CASE BanWare(f)
  <2>1. PICK i \in t.todo : Becomes(f, Loop([t EXCEPT !.todo = @ \ {i}])) /\ t.step = "ban"
    BY <1>1, <1>13 DEF BanWare, On
  <2>2. QED
    BY <1>2, <2>1, BanShape
<1>14. ASSUME NEW l \in scene.labels, NEW S \in (SUBSET Items) \ {{}},
              NEW op \in scene.asks \cap {"add", "del"}, Asks(f, l, S, op)
       PROVE  \E u \in Task : Becomes(f, u) /\ FilerOK(u)
  <2>1. op \in {"add", "del"} /\ S \in SUBSET Items
    OBVIOUS
  <2>2. QED
    BY <1>2, <1>14, <2>1, GroupStep DEF Asks
<1>15. QED
  BY <1>3, <1>4, <1>5, <1>6, <1>7, <1>8, <1>9, <1>10, <1>11, <1>12, <1>13, <1>14 DEF FilerMoves

LEMMA ListTyped ==
  ASSUME WaresIn, NEW l \in Labels, NEW k \in 0..3, NEW x \in scene.wares, scene' = scene,
         Add(l, k, x) \/ Remove(l, k, x)
  PROVE  namelist' \in [Labels -> [0..3 -> SUBSET scene'.wares]]
<1>1. namelist[l] \in [0..3 -> SUBSET scene.wares] /\ namelist[l][k] \subseteq scene.wares
  BY DEF WaresIn
<1>2. PICK S \in SUBSET scene.wares : namelist' = [namelist EXCEPT ![l] = [namelist[l] EXCEPT ![k] = S]]
  <2>1. CASE Add(l, k, x)
    <3>1. namelist' = [namelist EXCEPT ![l] = [namelist[l] EXCEPT ![k] = namelist[l][k] \cup {x}]]
      BY <2>1 DEF Add, WaresIn
    <3>2. QED
      BY <1>1, <3>1
  <2>2. CASE Remove(l, k, x)
    <3>1. namelist' = [namelist EXCEPT ![l] = [namelist[l] EXCEPT ![k] = namelist[l][k] \ {x}]]
      BY <2>2 DEF Remove, WaresIn
    <3>2. QED
      BY <1>1, <3>1
  <2>3. QED
    BY <2>1, <2>2
<1>3. [namelist[l] EXCEPT ![k] = S] \in [0..3 -> SUBSET scene.wares]
  BY <1>1
<1>4. QED
  BY <1>2, <1>3 DEF WaresIn

\* What a filer changes besides its task.
Sells(f) == On(f, "insert") /\ DoInsertWare(task[f])

LEMMA FilerEffects ==
  ASSUME TypeOK, WaresIn, NEW f \in Filers, FilerOK(task[f]), FilerMoves(f), UNCHANGED moved
  PROVE  /\ UNCHANGED <<table, now, local, scene>> /\ WaresIn'
         /\ (onsale' \subseteq onsale /\ overlooked' = overlooked) \/ Sells(f)
<1>1. PICK t \in Task : t = task[f]
  BY DEF WaresIn
<1>2. TaskIn(t)
  BY <1>1 DEF FilerOK
<1>3. UNCHANGED <<table, now, local, scene>>
  BY DEF FilerMoves, ReadGroup, ReadLabels, TestGroups, InsertWare, FilerFails, Pop,
         ReadSizes, ReadMembers, ListWare, DeleteWare, BanWare, Asks, vars, env
<1>4. task' \in [Filers -> Task]
  <2>1. PICK u \in Task : Becomes(f, u)
    BY FilerShape
  <2>2. QED
    BY <2>1 DEF WaresIn, Becomes
<1>5. (onsale' \subseteq onsale /\ overlooked' = overlooked) \/ Sells(f)
  <2>1. CASE FilerFails(f)
    BY <2>1 DEF FilerFails, Sells
  <2>2. CASE ~ FilerFails(f)
    BY <2>2 DEF FilerMoves, ReadGroup, ReadLabels, TestGroups, InsertWare, Pop,
                ReadSizes, ReadMembers, ListWare, DeleteWare, BanWare, Asks, Sells
  <2>3. QED
    BY <2>1, <2>2
<1>6. onsale' \subseteq scene.labels \X scene.wares /\ overlooked' \subseteq scene.wares
  <2>1. CASE Sells(f)
    <3>1. t.into \in scene.labels /\ t.ware \in scene.wares
      BY <1>1, <1>2, <2>1 DEF Sells, On, TaskIn
    <3>2. onsale' = onsale \cup {<<t.into, t.ware>>} /\ overlooked' \subseteq overlooked \cup {t.ware}
      BY <1>1, <2>1 DEF Sells, DoInsertWare
    <3>3. QED
      BY <3>1, <3>2 DEF WaresIn
  <2>2. CASE onsale' \subseteq onsale /\ overlooked' = overlooked
    BY <2>2 DEF WaresIn
  <2>3. QED
    BY <1>5, <2>1, <2>2
<1>7. namelist' \in [Labels -> [0..3 -> SUBSET scene'.wares]]
  <2>1. CASE UNCHANGED namelist
    BY <1>3, <2>1 DEF WaresIn
  <2>2. CASE ListWare(f)
    <3>1. t.label \in Labels /\ t.ware \in scene.wares
      BY <1>1, <1>2, <2>2, SceneWares DEF ListWare, On, TaskIn
    <3>2. PICK k \in 0..3 : Add(t.label, k, t.ware) \/ Remove(t.label, k, t.ware)
      BY <1>1, <2>2 DEF ListWare, Black, White
    <3>3. QED
      BY <1>3, <3>1, <3>2, ListTyped
  <2>3. CASE BanWare(f)
    <3>1. t.label \in Labels /\ t.todo \subseteq Items
      BY <1>1, <1>2, <2>3, SceneWares DEF BanWare, On, TaskIn
    <3>2. PICK i \in t.todo : Add(t.label, Black, i[2])
      BY <1>1, <2>3 DEF BanWare
    <3>3. Black \in 0..3 /\ i[2] \in scene.wares
      BY <3>1 DEF Black, Items
    <3>4. QED
      BY <1>3, <3>1, <3>2, <3>3, ListTyped
  <2>4. QED
    BY <2>1, <2>2, <2>3
    DEF FilerMoves, ReadGroup, ReadLabels, TestGroups, InsertWare, FilerFails, Pop,
        ReadSizes, ReadMembers, DeleteWare, Asks
<1>8. queue' \in Seq(scene.labels) /\ Len(queue') <= MaxQueue
  <2>1. CASE Pop
    <3>1. queue \in Seq(scene.labels) /\ queue # << >> /\ queue' = Tail(queue)
      BY <2>1 DEF Pop, WaresIn
    <3>2. queue' \in Seq(scene.labels) /\ Len(queue') = Len(queue) - 1
      BY <3>1, HeadTailProperties
    <3>3. Len(queue) \in Nat /\ Len(queue) <= MaxQueue
      BY LenProperties DEF WaresIn
    <3>4. QED
      BY <3>2, <3>3, WaresAssumption
  <2>2. CASE UNCHANGED queue
    BY <2>2 DEF WaresIn
  <2>3. QED
    BY <2>1, <2>2
    DEF FilerMoves, ReadGroup, ReadLabels, TestGroups, InsertWare, FilerFails,
        ReadSizes, ReadMembers, ListWare, BanWare, DeleteWare, Asks
<1>9. scene' = scene /\ moved' \subseteq Exist'
  BY <1>3, RowKept DEF WaresIn, table
<1>10. QED
  BY <1>3, <1>4, <1>5, <1>6, <1>7, <1>8, <1>9 DEF WaresIn

-----------------------------------------------------------------------------
(***************************************************************************)
(* A ware has one activity at a time.                                      *)
(***************************************************************************)

\* Of two open activities with a ware in common, one neither begins nor ends while
\* the other runs.
Apart ==
  \A x \in Wares \ overlooked, g, h \in Steady :
    /\ g # h /\ Open(g) /\ Open(h)
    /\ <<Row(g).label, x>> \in onsale /\ <<Row(h).label, x>> \in onsale
    => Clear(Row(g), h) \/ Clear(Row(h), g)

Filed == Inv /\ WaresIn /\ Apart /\ \A f \in Filers : FilerOK(task[f])

\* Time passes and activities close; but for those that are moved, none opens or
\* changes its time or its label.
Closes ==
  /\ Steady' \subseteq Steady
  /\ \A g \in Steady' :
       /\ Row(g)'.label = Row(g).label
       /\ Open(g)' => Open(g) /\ Row(g)'.start = Row(g).start /\ Row(g)'.end = Row(g).end

LEMMA FilerOKKept ==
  ASSUME Closes, scene' = scene, NEW t, FilerOK(t)
  PROVE  FilerOK(t)'
<1>1. TaskIn(t)'
  BY DEF FilerOK, TaskIn, Items
<1>2. ASSUME NEW h \in Steady', Clear(t, h) PROVE Clear(t, h)'
  BY <1>2 DEF Closes, Clear
<1>3. TestedOK(t)'
  BY <1>2 DEF FilerOK, TestedOK, Closes
<1>4. TimesOK(t)'
  BY DEF FilerOK, TimesOK, Closes
<1>5. QED
  BY <1>1, <1>3, <1>4 DEF FilerOK

LEMMA ApartKept ==
  ASSUME Closes, Apart, onsale' \subseteq onsale, overlooked' = overlooked
  PROVE  Apart'
<1>1. SUFFICES ASSUME NEW x \in Wares \ overlooked, NEW g \in Steady', NEW h \in Steady',
                      g # h, Open(g)', Open(h)',
                      <<Row(g)'.label, x>> \in onsale', <<Row(h)'.label, x>> \in onsale'
               PROVE  Clear(Row(g), h)' \/ Clear(Row(h), g)'
  BY DEF Apart
<1>2. /\ g \in Steady /\ h \in Steady /\ Open(g) /\ Open(h)
      /\ Row(g)'.start = Row(g).start /\ Row(g)'.end = Row(g).end
      /\ Row(h)'.start = Row(h).start /\ Row(h)'.end = Row(h).end
      /\ Row(g)'.label = Row(g).label /\ Row(h)'.label = Row(h).label
  BY <1>1 DEF Closes
<1>3. Clear(Row(g), h) \/ Clear(Row(h), g)
  BY <1>1, <1>2 DEF Apart
<1>4. QED
  BY <1>1, <1>2, <1>3 DEF Clear

\* A ware is sold under a label: either every label it has was tested, or the
\* ware is overlooked.
LEMMA ApartSold ==
  ASSUME TypeOK, Apart, WaresIn, NEW f \in Filers, FilerOK(task[f]), Sells(f),
         UNCHANGED <<row, now, moved>>
  PROVE  Apart'
<1>1. PICK t \in Task : t = task[f]
  BY DEF WaresIn
<1>2. /\ t.step = "insert" /\ FilerOK(t)
      /\ onsale' = onsale \cup {<<t.into, t.ware>>}
      /\ overlooked' = IF t.into = t.label /\ LabelsOf(t.ware) \subseteq t.found \cup {t.label}
                       THEN overlooked ELSE overlooked \cup {t.ware}
  BY <1>1 DEF Sells, On, DoInsertWare
<1>3. /\ \A g \in Steady :
           Row(g).label = t.label /\ Open(g) => t.start = Row(g).start /\ t.end = Row(g).end
      /\ \A h \in Steady : Row(h).label \in t.found => Clear(t, h)
  BY <1>2 DEF FilerOK, TimesOK, TestedOK
<1>4. Steady' = Steady /\ Steady \subseteq Exist
      /\ \A g \in Exist : Row(g)' = Row(g) /\ (Open(g)' <=> Open(g))
  BY RowKept DEF Open, Steady
<1>5. SUFFICES ASSUME NEW x \in Wares \ overlooked', NEW g \in Steady, NEW h \in Steady,
                      g # h, Open(g), Open(h),
                      <<Row(g).label, x>> \in onsale', <<Row(h).label, x>> \in onsale'
               PROVE  Clear(Row(g), h) \/ Clear(Row(h), g)
  BY <1>4 DEF Apart, Clear
<1>6. x \in Wares \ overlooked
  BY <1>2, <1>5
<1>7. CASE <<Row(g).label, x>> \in onsale /\ <<Row(h).label, x>> \in onsale
  BY <1>5, <1>6, <1>7 DEF Apart
<1>8. ASSUME NEW i \in Steady, NEW j \in Steady, i # j, Open(i), Open(j),
             Row(i).label = t.into, x = t.ware, <<Row(j).label, x>> \in onsale'
      PROVE  Clear(Row(i), j)
  <2>1. t.into = t.label /\ LabelsOf(t.ware) \subseteq t.found \cup {t.label}
    BY <1>2, <1>5, <1>8
  <2>2. t.start = Row(i).start /\ t.end = Row(i).end
    BY <1>3, <1>8, <2>1
  <2>3. CASE Row(j).label = t.label
    <3>1. Row(j).start = Row(i).start /\ Row(j).end = Row(i).end
      BY <1>3, <1>8, <2>2, <2>3
    <3>2. Row(i).start \in Int /\ Row(i).end \in Int
      BY <1>4, RowOf
    <3>3. QED
      BY <3>1, <3>2 DEF Clear
  <2>4. CASE Row(j).label # t.label
    <3>1. <<Row(j).label, x>> \in onsale
      BY <1>2, <1>8, <2>1, <2>4
    <3>2. Row(j).label \in LabelsOf(x)
      BY <3>1, SceneWares DEF LabelsOf, WaresIn
    <3>3. Row(j).label \in t.found
      BY <1>8, <2>1, <2>4, <3>2
    <3>4. Clear(t, j)
      BY <1>3, <3>3
    <3>5. QED
      BY <2>2, <3>4 DEF Clear
  <2>5. QED
    BY <2>3, <2>4
<1>9. CASE <<Row(g).label, x>> \notin onsale
  <2>1. Row(g).label = t.into /\ x = t.ware
    BY <1>2, <1>5, <1>9
  <2>2. QED
    BY <1>5, <1>8, <2>1
<1>10. CASE <<Row(h).label, x>> \notin onsale
  <2>1. Row(h).label = t.into /\ x = t.ware
    BY <1>2, <1>5, <1>10
  <2>2. QED
    BY <1>5, <1>8, <2>1
<1>11. QED
  BY <1>7, <1>9, <1>10

LEMMA NothingCloses ==
  ASSUME UNCHANGED <<row, now, moved>>
  PROVE  Closes
<1>1. Exist' = Exist /\ (\A g \in Exist : Row(g)' = Row(g)) /\ Steady' = Steady /\ Steady \subseteq Exist
  BY RowKept DEF Steady
<1>2. QED
  BY <1>1 DEF Closes, Open

\* The same of a task that is not this filer's turn.
LEMMA TasksKept ==
  ASSUME Filed, Closes, UNCHANGED <<scene, task>>, NEW f \in Filers
  PROVE  FilerOK(task[f])'
<1>1. PICK t \in Task : t = task[f] /\ FilerOK(t)
  BY DEF WaresIn, Filed
<1>2. FilerOK(t)' /\ task'[f] = t
  BY <1>1, FilerOKKept
<1>3. QED
  BY <1>2 DEF FilerOK, TaskIn, TimesOK, TestedOK, Clear, Items

LEMMA WaresKept ==
  ASSUME WaresIn, UNCHANGED <<onsale, queue, task, overlooked, scene>>,
         namelist' \in [Labels -> [0..3 -> SUBSET scene'.wares]], moved' \subseteq Exist'
  PROVE  WaresIn'
  BY DEF WaresIn

\* A request or a step that leaves wares and tasks alone.
LEMMA TableFiled ==
  ASSUME Filed, Step, Closes, UNCHANGED filing, moved' \subseteq Exist'
  PROVE  Filed'
<1>0. TypeOK /\ WaresIn /\ Inv' /\ scene' = scene
  BY InvStep, StepCases DEF Filed, Inv
<1>1. UNCHANGED <<onsale, namelist, queue, task, overlooked>>
  BY DEF filing
<1>2. WaresIn'
  <2>1. namelist' \in [Labels -> [0..3 -> SUBSET scene'.wares]]
    BY <1>0, <1>1 DEF WaresIn
  <2>2. QED
    BY <1>0, <1>1, <2>1, WaresKept
<1>3. Apart'
  BY <1>1, ApartKept DEF Filed
<1>4. ASSUME NEW f \in Filers PROVE FilerOK(task[f])'
  BY <1>0, <1>1, TasksKept
<1>5. QED
  BY <1>0, <1>2, <1>3, <1>4 DEF Filed

LEMMA EndsAreTimes == TypeOK => \A k \in Exist : Row(k).end \in Int
BY RowOf

\* Whatever is done to the activities: what is not moved only closes.
LEMMA ActivityFiled ==
  ASSUME Filed, NextOfActivities
  PROVE  Filed'
<1>0. TypeOK /\ Step /\ UNCHANGED filing /\ moved \subseteq Exist
      /\ moved' = moved \cup Moves /\ Moves \subseteq Exist'
  BY DEF Filed, Inv, WaresIn, NextOfActivities, Step, Moves
<1>1. /\ now <= now' /\ now \in Int /\ now' \in Int /\ Exist \subseteq Exist' /\ TypeOK'
  <2>1. TypeOK'
    BY <1>0, InvStep DEF Filed, Inv
  <2>2. now \in Int /\ now' \in Int
    BY <1>0, <2>1, ActivityAssumption DEF TypeOK
  <2>3. now <= now' /\ (Idles \/ \E w \in Workers : Acts(w))
    BY <1>0, StepCases
  <2>4. Exist \subseteq Exist'
    BY <2>3, ExistGrows, RowKept DEF Idles, Filed
  <2>5. QED
    BY <2>1, <2>2, <2>3, <2>4
<1>2. Steady' \subseteq Steady
  BY <1>0, <1>1 DEF Steady, Moves
<1>3. ASSUME NEW g \in Steady'
      PROVE  /\ Row(g)'.label = Row(g).label
             /\ Open(g)' => Open(g) /\ Row(g)'.start = Row(g).start /\ Row(g)'.end = Row(g).end
  <2>1. g \in Exist /\ g \in Exist' /\ g \notin Moves
    BY <1>0, <1>1, <1>2 DEF Steady
  <2>2. /\ Row(g)'.label = Row(g).label
        /\ \/ ~ now < Row(g)'.end
           \/ Row(g)'.start = Row(g).start /\ Row(g)'.end = Row(g).end
    BY <2>1 DEF Moves
  <2>3. Row(g).end \in Int
    BY <1>0, <2>1, RowOf
  <2>4. (\A k \in Exist : Row(k).end \in Int)'
    BY <1>1, EndsAreTimes, PTL
  <2>5. Row(g)'.end \in Int
    BY <2>1, <2>4
  <2>6. QED
    BY <1>1, <2>2, <2>3, <2>5 DEF Open
<1>4. Closes
  BY <1>2, <1>3 DEF Closes
<1>5. moved' \subseteq Exist'
  BY <1>0, <1>1
<1>6. QED
  BY <1>0, <1>4, <1>5, TableFiled

LEMMA MovesFiled ==
  ASSUME Filed, NEW f \in Filers, FilerMoves(f), UNCHANGED moved
  PROVE  WaresIn' /\ Apart' /\ \A e \in Filers : FilerOK(task[e])'
<1>0. TypeOK /\ WaresIn /\ FilerOK(task[f])
  BY DEF Filed, Inv
<1>1. /\ UNCHANGED <<table, now, local, scene>> /\ WaresIn'
      /\ (onsale' \subseteq onsale /\ overlooked' = overlooked) \/ Sells(f)
  BY <1>0, FilerEffects
<1>2. UNCHANGED <<row, now, pc, id, page>> /\ Closes
  BY <1>1, NothingCloses DEF table, local
<1>3. Apart'
  BY <1>0, <1>1, <1>2, ApartKept, ApartSold DEF Filed
<1>4. ASSUME NEW e \in Filers PROVE FilerOK(task[e])'
  <2>1. PICK u \in Task : Becomes(f, u) /\ FilerOK(u)
    BY <1>0, FilerShape
  <2>2. PICK t \in Task : t = IF e = f THEN u ELSE task[e]
    BY <1>0 DEF WaresIn
  <2>3. task'[e] = t /\ FilerOK(t)
    BY <1>0, <2>1, <2>2 DEF Filed, Becomes, WaresIn
  <2>4. FilerOK(t)'
    BY <1>1, <1>2, <2>3, FilerOKKept
  <2>5. QED
    BY <2>3, <2>4 DEF FilerOK, TaskIn, TimesOK, TestedOK, Clear, Items
<1>5. QED
  BY <1>1, <1>3, <1>4

\* Lists and requests, of which no property of the wares depends.
LEMMA ListsFiled ==
  ASSUME Filed, NEW l \in scene.labels, UNCHANGED moved,
         (\E k \in Lists(l), x \in scene.wares : CacheNameList(l, k, x)) \/ CreateNameList(l)
  PROVE  Filed'
<1>0. TypeOK /\ WaresIn /\ l \in Labels
  BY SceneWares DEF Filed, Inv
<1>1. UNCHANGED <<vars, onsale, task, overlooked>>
  BY DEF CacheNameList, CreateNameList
<1>2. UNCHANGED <<scene, row>> /\ Inv' /\ Closes /\ Exist' = Exist
  <2>1. Step
    BY <1>1 DEF Step
  <2>2. UNCHANGED <<scene, row, now>>
    BY <1>1 DEF vars, table, local, env
  <2>3. QED
    BY <1>0, <2>1, <2>2, InvStep, NothingCloses, RowKept DEF Filed
<1>3. WaresIn'
  <2>1. CASE CreateNameList(l)
    <3>1. queue' \in Seq(scene.labels) /\ Len(queue') = Len(queue) + 1 /\ Len(queue) < MaxQueue
      BY <1>0, <2>1, AppendProperties DEF CreateNameList, WaresIn
    <3>2. Len(queue) \in Nat
      BY <1>0, LenProperties DEF WaresIn
    <3>3. Len(queue') <= MaxQueue
      BY <3>1, <3>2, WaresAssumption
    <3>4. UNCHANGED <<onsale, task, overlooked, namelist, scene>>
      BY <1>1, <1>2, <2>1 DEF CreateNameList
    <3>5. QED
      BY <1>0, <1>2, <3>1, <3>3, <3>4 DEF WaresIn
  <2>2. ASSUME NEW k \in Lists(l), NEW x \in scene.wares, CacheNameList(l, k, x)
        PROVE  WaresIn'
    <3>1. k \in 0..3
      BY DEF Lists, White, Black, Total, Datum
    <3>2. namelist' \in [Labels -> [0..3 -> SUBSET scene'.wares]]
      BY <1>0, <1>2, <2>2, <3>1, ListTyped DEF CacheNameList
    <3>3. UNCHANGED <<onsale, queue, task, overlooked, scene>> /\ moved' \subseteq Exist'
      BY <1>0, <1>2, <2>2 DEF CacheNameList, WaresIn
    <3>4. QED
      BY <1>0, <3>2, <3>3, WaresKept
  <2>3. QED
    BY <2>1, <2>2
<1>4. Apart'
  BY <1>1, <1>2, ApartKept DEF Filed
<1>5. ASSUME NEW e \in Filers PROVE FilerOK(task[e])'
  BY <1>1, <1>2, TasksKept
<1>6. QED
  BY <1>2, <1>3, <1>4, <1>5 DEF Filed

LEMMA FiledInductive == Filed /\ [WaresNext]_<<vars, wares>> => Filed'
<1> SUFFICES ASSUME Filed, [WaresNext]_<<vars, wares>> PROVE Filed'
  OBVIOUS
<1>0. TypeOK /\ Inv /\ Step
  BY WaresStep DEF Filed, Inv
<1>1. ASSUME NEW f \in Filers, FilerMoves(f), UNCHANGED moved PROVE Filed'
  BY <1>0, <1>1, MovesFiled, InvStep DEF Filed
<1>2. CASE NextOfActivities
  BY <1>2, ActivityFiled
<1>3. CASE UNCHANGED <<vars, wares>>
  <2>1. UNCHANGED <<row, now, moved>> /\ UNCHANGED filing
    BY <1>3 DEF vars, wares, table
  <2>2. moved' \subseteq Exist' /\ Closes
    BY <2>1, RowKept, NothingCloses DEF Filed, WaresIn
  <2>3. QED
    BY <1>0, <2>1, <2>2, TableFiled
<1>4. ASSUME UNCHANGED moved, NEW l \in scene.labels, NEW w \in Workers, NEW S \in (SUBSET Items) \ {{}},
             NEW op \in scene.asks \cap {"add", "del"}, Asks(w, l, S, op)
      PROVE  Filed'
  <2>1. w \in Filers /\ FilerMoves(w)
    BY <1>4 DEF Filers, FilerMoves
  <2>2. QED
    BY <1>1, <1>4, <2>1
<1>5. ASSUME UNCHANGED moved, NEW l \in scene.labels,
             (\E k \in Lists(l), x \in scene.wares : CacheNameList(l, k, x)) \/ CreateNameList(l)
      PROVE  Filed'
  BY <1>5, ListsFiled
<1>6. CASE UNCHANGED moved /\ (Pop \/ ReadSizes \/ ReadMembers)
  <2>1. LabelServer \in Filers /\ FilerMoves(LabelServer)
    BY <1>6 DEF Filers, FilerMoves
  <2>2. QED
    BY <1>1, <1>6, <2>1
<1>7. ASSUME UNCHANGED moved, NEW f \in Filers,
             ReadGroup(f) \/ ReadLabels(f) \/ TestGroups(f) \/ InsertWare(f) \/ FilerFails(f)
      PROVE  Filed'
  BY <1>1, <1>7 DEF FilerMoves
<1>8. ASSUME UNCHANGED moved, NEW w \in Workers, ListWare(w) \/ DeleteWare(w) \/ BanWare(w)
      PROVE  Filed'
  <2>1. w \in Filers /\ FilerMoves(w)
    BY <1>8 DEF Filers, FilerMoves
  <2>2. QED
    BY <1>1, <1>8, <2>1
<1>9. QED
  BY <1>2, <1>3, <1>4, <1>5, <1>6, <1>7, <1>8 DEF WaresNext, NextOfFilers, Items

LEMMA FiledInit == WaresInit => Filed
<1> SUFFICES ASSUME WaresInit PROVE Filed
  OBVIOUS
<1>1. Inv /\ TypeOK /\ FilerOK(Idle) /\ \A f \in Filers : task[f] = Idle
  BY InitInv, IdleOK DEF WaresInit, Inv
<1>2. Idle \in Task
  BY <1>1 DEF FilerOK, TaskIn
<1>3. << >> \in Seq(scene.labels) /\ Len(<< >>) = 0
  OBVIOUS
<1>4. WaresIn
  BY <1>2, <1>3, WaresAssumption DEF WaresInit, WaresIn
<1>5. Apart
  BY DEF WaresInit, Apart
<1>6. QED
  BY <1>1, <1>4, <1>5 DEF Filed

LEMMA FiledAlways == WaresSpec => []Filed
  BY FiledInit, FiledInductive, PTL DEF WaresSpec

\* Two activities that run at the same time and are apart lie one within the other.
LEMMA ApartSells == Filed => OneSale
<1> SUFFICES ASSUME Filed, NEW x \in Wares \ overlooked, NEW g \in Steady, NEW h \in Steady,
                    g # h, InTime(g), InTime(h),
                    {Row(g).label, Row(h).label} \subseteq LabelsOf(x)
             PROVE  Within(g, h) \/ Within(h, g)
  BY DEF OneSale, Steady
<1>1. TypeOK /\ Apart /\ now \in Int /\ g \in Exist /\ h \in Exist
  BY ActivityAssumption DEF Filed, Inv, TypeOK, Steady
<1>2. PICK a \in Activity : a = Row(g)
  BY <1>1, RowOf
<1>3. PICK b \in Activity : b = Row(h)
  BY <1>1, RowOf
<1>4. /\ a.start \in Int /\ a.end \in Int /\ b.start \in Int /\ b.end \in Int
      /\ a.start < now /\ now < a.end /\ b.start < now /\ now < b.end
  BY <1>2, <1>3 DEF InTime, Activity
<1>5. <<a.label, x>> \in onsale /\ <<b.label, x>> \in onsale
  BY <1>2, <1>3 DEF LabelsOf
<1>6. Clear(a, h) \/ Clear(b, g)
  BY <1>1, <1>2, <1>3, <1>4, <1>5 DEF Apart, Open
<1>7. \/ ~ (b.start < a.start /\ a.start < b.end) /\ ~ (b.start < a.end /\ a.end < b.end)
      \/ ~ (a.start < b.start /\ b.start < a.end) /\ ~ (a.start < b.end /\ b.end < a.end)
  BY <1>2, <1>3, <1>4, <1>6 DEF Clear, Open
<1>8. (b.start <= a.start /\ a.end <= b.end) \/ (a.start <= b.start /\ b.end <= a.end)
  BY <1>1, <1>4, <1>7
<1>9. QED
  BY <1>2, <1>3, <1>8 DEF Within

\* A ware that every filer has seen with all its labels is sold by one of the
\* activities that have kept their label and their time, or by two of which one lies
\* within the other: whatever activities are created, changed and closed, and with
\* any number of filers between whose tests and inserts others file and delete.
THEOREM WaresSoldOnce == WaresSpec => []OneSale
  BY FiledAlways, ApartSells, PTL

\* Types, of what is filed too.
THEOREM WaresTyped == WaresSpec => []WaresTypeOK
<1>1. Filed => WaresTypeOK
  <2> SUFFICES ASSUME Filed PROVE WaresTypeOK
    OBVIOUS
  <2>1. TypeOK /\ WaresIn /\ \A f \in Filers : TaskIn(task[f])
    BY DEF Filed, Inv, FilerOK
  <2>2. ASSUME NEW f \in Filers
        PROVE  /\ task[f].step \in TaskSteps /\ task[f].op \in {"sweep", "add", "del"}
               /\ task[f].label \in scene.labels \cup {NoLabel}
               /\ task[f].asked \cup task[f].todo \subseteq scene.labels \X scene.wares
               /\ task[f].into \in scene.labels \cup {NoLabel}
               /\ task[f].ware \in scene.wares \cup {NoWare}
               /\ task[f].found \subseteq scene.labels \ {task[f].label}
    <3>1. PICK t \in Task : t = task[f] /\ TaskIn(t)
      BY <2>1 DEF WaresIn
    <3>2. t.label \in scene.labels \cup {NoLabel}
      BY <3>1 DEF TaskIn
    <3>3. QED
      BY <3>1, <3>2 DEF TaskIn, Task, Items
  <2>3. QED
    BY <2>1, <2>2 DEF WaresTypeOK, WaresIn, TaskSteps
<1>2. QED
  BY <1>1, FiledAlways, PTL

-----------------------------------------------------------------------------
(***************************************************************************)
(* What is taken off an order.  The handlers only read: what was asked for *)
(* and what the tables hold do not change, and an activity, a step and a   *)
(* discount are chosen one after the other.                                *)
(***************************************************************************)

Chosen ==
  /\ order \in Orders /\ deal \in [Groups -> Deals] /\ ladder \in [Groups -> Ladders]
  /\ group \in [Skus -> Groups \cup {None}]
  /\ \A k \in Skus : group[k] # None => group[k] \in Running
  /\ favor \in [Groups -> Nat]
  /\ stage # "done" => answer = "none"
  /\ stage \in {"order", "grouped"} => \A g \in Groups : favor[g] = 0
  /\ \A g \in Groups \ Taking : favor[g] # 0 => \E s \in ladder[g] : s.full_credit = 0

\* Nothing is taken off before the division.
Whole ==
  stage # "done" \/ answer # "OK" =>
    /\ total = [pay |-> Sum(order.sale, Skus), favor |-> 0]
    /\ price = [k \in Skus |-> [pay |-> order.sale[k], favor |-> 0]]

LEMMA OrderIs ==
  ASSUME Chosen
  PROVE  /\ IsFiniteSet(Skus) /\ Skus \subseteq Nat /\ IsFiniteSet(Groups) /\ None \notin Groups
         /\ order.sale \in [Skus -> Nat \ {0}] /\ order.count \in [Skus -> Nat \ {0}]
  BY QuoteAssumption DEF Chosen, QuoteAssumption

LEMMA StepsAre ==
  ASSUME Chosen, NEW g \in Groups, NEW s \in ladder[g]
  PROVE  /\ s.full_credit \in Nat /\ s.full_count \in Nat /\ s.favor_credit \in Nat
         /\ s.favor_rate \in Nat /\ s # None
  <1>1. s \in UNION Ladders
    BY DEF Chosen
  <1>2. QED
    BY <1>1, QuoteAssumption DEF QuoteAssumption, FavorStep

\* What an activity sells, and for how much.
LEMMA SaleIs ==
  ASSUME Chosen, NEW g \in Groups
  PROVE  /\ Bought(g) \in SUBSET Skus /\ IsFiniteSet(Bought(g))
         /\ TotalSalePrice(g) \in Nat /\ TotalCount(g) \in Nat
         /\ \A k \in Bought(g) : order.sale[k] <= TotalSalePrice(g)
         /\ g \in Taking => TotalSalePrice(g) \in Nat \ {0}
<1>1. PICK s, c : s = order.sale /\ c = order.count
  OBVIOUS
<1>2. s \in [Skus -> Nat \ {0}] /\ c \in [Skus -> Nat \ {0}] /\ IsFiniteSet(Skus)
  BY <1>1, OrderIs
<1>3. PICK B : B = Bought(g)
  OBVIOUS
<1>4. B \in SUBSET Skus /\ IsFiniteSet(B)
  BY <1>2, <1>3, FS_Subset DEF Bought
<1>5. \A k \in B : s[k] \in Nat /\ s[k] \in Int /\ c[k] \in Nat /\ c[k] \in Int /\ 1 <= s[k]
  BY <1>2, <1>4
<1>6. 0 <= Sum(s, B) /\ 0 <= Sum(c, B)
  BY <1>4, <1>5, SumWithin
<1>7. Sum(s, B) \in Int /\ Sum(c, B) \in Int
  BY <1>4, <1>5, SumFold
<1>8. ASSUME NEW k \in B PROVE s[k] <= Sum(s, B)
  <2>1. Sum(s, B) = s[k] + Sum(s, B \ {k})
    BY <1>4, <1>5, SumTakes
  <2>2. 0 <= Sum(s, B \ {k})
    BY <1>4, <1>5, SumWithin
  <2>3. Sum(s, B \ {k}) \in Int
    BY <1>4, <1>5, SumFold, FS_Subset
  <2>4. QED
    BY <1>5, <2>1, <2>2, <2>3
<1>9. g \in Taking => B # {}
  BY <1>3 DEF Taking
<1>10. B # {} => 1 <= Sum(s, B)
  <2>1. SUFFICES ASSUME NEW k \in B PROVE 1 <= Sum(s, B)
    OBVIOUS
  <2>2. QED
    BY <1>5, <1>7, <1>8
<1>11. QED
  BY <1>1, <1>3, <1>4, <1>6, <1>7, <1>8, <1>9, <1>10 DEF TotalSalePrice, TotalCount
LEMMA FindGroupsDoes ==
  ASSUME Chosen, FindGroups
  PROVE  Chosen'
<1>1. UNCHANGED <<order, deal, filed, ladder, favor>>
  BY DEF FindGroups, NoUsableGroup, data
<1>0. Running' = Running
  BY <1>1 DEF Running, Labelled
<1>2. CASE NoUsableGroup /\ UNCHANGED group
  BY <1>0, <1>1, <1>2 DEF Chosen, NoUsableGroup, Taking, Bought
<1>3. CASE ~ (NoUsableGroup /\ UNCHANGED group)
  <2>1. PICK own \in Owners :
          group' = [k \in Skus |-> IF LabelsOfSku(k) = {} THEN None ELSE own[Max(LabelsOfSku(k))]]
    BY <1>3 DEF FindGroups
  <2>2. stage' = "grouped" /\ answer' = answer /\ stage = "order"
    BY <1>3 DEF FindGroups
  <2>3. own \in [Valid -> Running]
    BY DEF Owners
  <2>4. Running \subseteq Groups /\ IsFiniteSet(Running)
    BY OrderIs, FS_Subset DEF Running
  <2>5. IsFiniteSet(Valid)
    <3>1. PICK f : f = [g \in Running |-> deal[g].label]
      OBVIOUS
    <3>2. f \in Surjection(Running, Valid)
      BY <3>1 DEF Valid, Surjection
    <3>3. QED
      BY <2>4, <3>2, FS_Surjection
  <2>6. Valid \subseteq Nat
    <3>1. \A g \in Running : deal[g] \in Deals
      BY <2>4 DEF Chosen
    <3>2. \A g \in Running : deal[g].label \in Nat
      BY <3>1, QuoteAssumption DEF QuoteAssumption
    <3>3. QED
      BY <3>2 DEF Valid
  <2>7. ASSUME NEW k \in Skus, LabelsOfSku(k) # {}
        PROVE  own[Max(LabelsOfSku(k))] \in Groups \cap Running
    <3>1. PICK L : L = LabelsOfSku(k)
      OBVIOUS
    <3>2. L \in SUBSET Valid /\ L # {} /\ L \in SUBSET Int
      <4>1. L \subseteq Valid
        BY <3>1 DEF LabelsOfSku
      <4>2. \A l \in L : l \in Int
        BY <2>6, <4>1
      <4>3. L # {}
        BY <2>7, <3>1
      <4>4. QED
        BY <4>1, <4>2, <4>3
    <3>3. IsFiniteSet(L)
      BY <2>5, <3>2, FS_Subset
    <3>4. \E m \in L : \A l \in L : l <= m
      BY <3>2, <3>3, Greatest
    <3>5. Max(L) \in L
      BY <3>2, <3>4 DEF Max
    <3>6. QED
      BY <2>3, <2>4, <3>1, <3>2, <3>5
  <2>8. /\ group' \in [Skus -> Groups \cup {None}]
        /\ \A k \in Skus : group'[k] # None => group'[k] \in Running
    BY <2>1, <2>7
  <2>9. \A g \in Groups : favor[g] = 0
    BY <2>2 DEF Chosen
  <2>10. QED
    BY <1>0, <1>1, <2>2, <2>8, <2>9 DEF Chosen
<1>4. QED
  BY <1>2, <1>3

LEMMA ChooseStepsDoes ==
  ASSUME Chosen, ChooseSteps
  PROVE  Chosen' /\ UNCHANGED <<order, deal, ladder, group>>
<1>1. UNCHANGED <<order, deal, filed, ladder, group>>
  BY DEF ChooseSteps, data
<1>0. Running' = Running /\ Running \subseteq Groups
  BY <1>1 DEF Running, Labelled
<1>2. CASE NoUsableGroup
  BY <1>0, <1>1, <1>2 DEF Chosen, NoUsableGroup, Taking, Bought
<1>3. CASE ~ NoUsableGroup
  <2>1. PICK c \in [Groups -> {None} \cup UNION Ladders] :
          /\ curr' = c
          /\ \A g \in Groups : c[g] \in IF g \in Running THEN CurrSteps(g) ELSE {None}
    BY DEF ChooseSteps
  <2>2. /\ \A g \in Running : ~ WrongRate(g)
        /\ stage' = "quoted" /\ UNCHANGED answer /\ stage = "grouped"
    BY <1>3 DEF ChooseSteps
  <2>3. PICK down \in [Running -> BOOLEAN] :
          favor' = [g \in Groups |-> IF g \in Running THEN TotalFavorPrice(g, down[g]) ELSE 0]
    BY <1>3 DEF ChooseSteps
  <2>4. ASSUME NEW g \in Running PROVE TotalFavorPrice(g, down[g]) \in Nat
    <3>1. g \in Groups /\ TotalSalePrice(g) \in Nat
      BY SaleIs DEF Running
    <3>2. CASE c[g] = None
      BY <2>1, <3>2 DEF TotalFavorPrice
    <3>3. CASE c[g] # None
      <4>1. c[g] \in ladder[g]
        BY <2>1, <2>4, <3>1, <3>3 DEF CurrSteps, Highest, Reached
      <4>2. c[g].favor_credit \in Nat /\ c[g].favor_rate \in Nat
        BY <3>1, <4>1, StepsAre
      <4>3. CASE deal[g].favor_type = 1
        <5>1. c[g].favor_rate <= 100
          BY <2>1, <2>2, <2>4, <3>3, <4>2, <4>3 DEF WrongRate
        <5>2. PICK r \in Nat, t \in Nat : r = 100 - c[g].favor_rate /\ t = TotalSalePrice(g)
          BY <3>1, <4>2, <5>1
        <5>3. t * r \in Nat /\ Cut(g) = t * r
          BY <2>1, <5>2 DEF Cut
        <5>4. PICK n \in Nat : n = Cut(g)
          BY <5>3
        <5>5. RoundTo(n, 100, down[g]) \in Int /\ 2 * n - 100 <= 2 * (100 * RoundTo(n, 100, down[g]))
          BY Rounded
        <5>6. RoundTo(n, 100, down[g]) \in Nat
          BY <5>5
        <5>7. QED
          BY <2>1, <3>3, <4>3, <5>4, <5>6 DEF TotalFavorPrice
      <4>4. CASE deal[g].favor_type # 1
        BY <2>1, <3>3, <4>2, <4>4 DEF TotalFavorPrice
      <4>5. QED
        BY <4>3, <4>4
    <3>4. QED
      BY <3>2, <3>3
  <2>5. favor' \in [Groups -> Nat]
    BY <2>3, <2>4
  <2>6. ASSUME NEW g \in Groups, g \notin Taking, favor'[g] # 0
        PROVE  \E s \in ladder[g] : s.full_credit = 0
    <3>1. g \in Running /\ favor'[g] = TotalFavorPrice(g, down[g])
      BY <2>3, <2>6
    <3>2. c[g] # None /\ deal[g].favor_type \in {0, 1}
      BY <2>1, <2>6, <3>1 DEF TotalFavorPrice
    <3>3. PICK sale, B : sale = order.sale /\ B = Bought(g)
      OBVIOUS
    <3>4. B = {}
      BY <2>6, <3>3 DEF Taking
    <3>5. Sum(sale, B) = 0 * Cardinality(B) /\ Cardinality(B) \in Nat
      BY <3>4, FS_EmptySet, SumConstant
    <3>6. Amount(g) = 0
      BY <3>2, <3>3, <3>5 DEF Amount, ByCredit, TotalSalePrice
    <3>7. c[g] \in ladder[g] /\ Full(g, c[g]) <= 0
      BY <2>1, <2>6, <3>1, <3>2, <3>6 DEF CurrSteps, Highest, Reached
    <3>8. c[g].full_credit = 0
      BY <2>6, <3>2, <3>7, StepsAre DEF Full, ByCredit
    <3>9. QED
      BY <3>7, <3>8
  <2>7. Taking' = Taking
    BY <1>1 DEF Taking, Bought
  <2>8. QED
    BY <1>0, <1>1, <2>2, <2>5, <2>6, <2>7 DEF Chosen
<1>4. QED
  BY <1>1, <1>2, <1>3

\* The shares of the skus as they are rounded, and p with what is left over given
\* to the first sku of each activity.
Divided(share, p) ==
  /\ share \in [Skus -> Int] /\ p \in [Skus -> Int]
  /\ \A k \in Skus : group[k] = None => p[k] = 0
  /\ \A k \in Skus : group[k] # None =>
       /\ IsShare(share[k], order.sale[k], favor[group[k]], TotalSalePrice(group[k]))
       /\ p[k] = share[k] + IF First(k) THEN Rest(group[k], share) ELSE 0

LEMMA SkuIs ==
  ASSUME Chosen, NEW k \in Skus, group[k] # None
  PROVE  group[k] \in Taking /\ k \in Bought(group[k])
BY DEF Chosen, Taking, Bought

LEMMA DivideDoes ==
  ASSUME Chosen, Divide
  PROVE  /\ \E share, p : /\ Divided(share, p)
                          /\ price' = [k \in Skus |-> [pay |-> order.sale[k] - p[k], favor |-> p[k]]]
         /\ total' = [pay |-> Sum(order.sale, Skus) - Sum(favor, Groups), favor |-> Sum(favor, Groups)]
         /\ Chosen' /\ UNCHANGED <<order, group, favor>>
<1>1. UNCHANGED <<order, deal, filed, ladder, group, favor>> /\ stage' = "done"
  BY DEF Divide, data
<1>2. Chosen'
  BY <1>1 DEF Chosen, Taking, Bought, Running, Labelled
<1>3. PICK down :
        price' = [k \in Skus |-> [pay |-> order.sale[k] - Saved(k, Shares(down)),
                                  favor |-> Saved(k, Shares(down))]]
  BY DEF Divide
<1>4. PICK share : share = Shares(down)
  OBVIOUS
<1>5. PICK p : p = [k \in Skus |-> Saved(k, share)]
  OBVIOUS
<1>6. \A k \in Skus : p[k] = Saved(k, share)
  BY <1>5
<1>7. price' = [k \in Skus |-> [pay |-> order.sale[k] - p[k], favor |-> p[k]]]
  BY <1>3, <1>4, <1>6
<1>8. ASSUME NEW k \in Skus, group[k] # None
      PROVE  /\ share[k] \in Int
             /\ IsShare(share[k], order.sale[k], favor[group[k]], TotalSalePrice(group[k]))
  <2>1. group[k] \in Taking /\ group[k] \in Groups
    BY <1>8, SkuIs DEF Taking
  <2>2. PICK s \in Nat, f \in Nat, t \in Nat \ {0} :
          s = order.sale[k] /\ f = favor[group[k]] /\ t = TotalSalePrice(group[k])
    BY <2>1, OrderIs, SaleIs DEF Chosen
  <2>3. PICK b : share[k] = RoundTo(s * f, t, b)
    BY <1>4, <1>8, <2>2 DEF Shares, Share
  <2>4. PICK n \in Int : n = s * f
    BY <2>2
  <2>5. /\ RoundTo(n, t, b) \in Int
        /\ 2 * (t * RoundTo(n, t, b)) <= 2 * n + t
        /\ 2 * n - t <= 2 * (t * RoundTo(n, t, b))
    BY Rounded
  <2>6. IsShare(share[k], s, f, t) /\ share[k] \in Int
    BY <2>3, <2>4, <2>5 DEF IsShare
  <2>7. QED
    BY <2>2, <2>6
<1>9. share \in [Skus -> Int]
  BY <1>4, <1>8 DEF Shares
<1>10. \A g \in Groups : Rest(g, share) \in Int
  <2>1. ASSUME NEW g \in Groups PROVE Sum(share, Bought(g)) \in Int
    <3>1. PICK B : B = Bought(g) /\ B \in SUBSET Skus /\ IsFiniteSet(B)
      BY SaleIs
    <3>2. \A k \in B : share[k] \in Int
      BY <1>9, <3>1
    <3>3. QED
      BY <3>1, <3>2, SumFold
  <2>2. QED
    BY <2>1 DEF Rest, Chosen
<1>11. p \in [Skus -> Int]
  <2>1. \A k \in Skus : group[k] # None => share[k] \in Int /\ Rest(group[k], share) \in Int
    BY <1>8, <1>10, SkuIs DEF Taking
  <2>2. QED
    BY <1>5, <2>1 DEF Saved
<1>12. Divided(share, p)
  BY <1>6, <1>8, <1>9, <1>11 DEF Divided, Saved
<1>13. total' = [pay |-> Sum(order.sale, Skus) - Sum(favor, Groups), favor |-> Sum(favor, Groups)]
  BY DEF Divide
<1>14. QED
  BY <1>1, <1>2, <1>7, <1>12, <1>13

\* The first sku of an activity.
LEMMA FirstOfAll ==
  ASSUME Chosen, NEW g \in Taking
  PROVE  \E k \in Bought(g) : /\ First(k)
                              /\ \A j \in Bought(g) : First(j) => j = k
<1>1. Bought(g) \in SUBSET Nat /\ Bought(g) # {} /\ \A k \in Bought(g) : group[k] = g
  BY OrderIs DEF Taking, Bought
<1>2. PICK k \in Bought(g) : \A j \in Bought(g) : k <= j
  BY <1>1, Smallest
<1>3. \A j \in Bought(g) : First(j) <=> \A i \in Bought(g) : j <= i
  BY <1>1 DEF First
<1>4. ASSUME NEW j \in Bought(g), First(j) PROVE j = k
  <2>1. j <= k /\ k <= j
    BY <1>2, <1>3, <1>4
  <2>2. j \in Nat /\ k \in Nat
    BY <1>1
  <2>3. QED
    BY <2>1, <2>2
<1>5. QED
  BY <1>2, <1>3, <1>4

\* The skus of an activity save what it takes off.
LEMMA FavorDivided ==
  ASSUME Chosen, NEW share, NEW p, Divided(share, p), NEW g \in Taking
  PROVE  Sum(p, Bought(g)) = favor[g]
<1>1. PICK a \in Bought(g) : First(a) /\ \A j \in Bought(g) : First(j) => j = a
  BY FirstOfAll
<1>2. PICK B : B = Bought(g) /\ IsFiniteSet(B) /\ B \in SUBSET Skus
  BY SaleIs DEF Taking
<1>3. \A k \in B : group[k] = g
  BY <1>2 DEF Bought
<1>4. g # None /\ g \in Groups
  BY OrderIs DEF Taking
<1>5. \A k \in B : share[k] \in Int /\ p[k] \in Int /\ (k # a => p[k] = share[k])
  BY <1>1, <1>2, <1>3, <1>4 DEF Divided
<1>6. p[a] = share[a] + Rest(g, share)
  BY <1>1, <1>2, <1>3, <1>4 DEF Divided
<1>7. Sum(p, B) = Sum(share, B) + (p[a] - share[a])
  BY <1>1, <1>2, <1>5, SumChanged
<1>8. Sum(share, B) \in Int
  BY <1>2, <1>5, SumFold
<1>9. Rest(g, share) = favor[g] - Sum(share, B) /\ favor[g] \in Int
  BY <1>2, <1>4 DEF Rest, Chosen
<1>10. share[a] \in Int
  BY <1>1, <1>2, <1>5
<1>11. QED
  BY <1>2, <1>6, <1>7, <1>8, <1>9, <1>10

\* The skus of all activities save what all of them take off.
LEMMA FavorsDivided ==
  ASSUME Chosen, NEW share, NEW p, Divided(share, p)
  PROVE  /\ Sum(p, Skus) = Sum(favor, Taking) /\ Sum(p, Skus) \in Int
         /\ Sum(favor, Taking) \in Int
<1>1. PICK S, O : S = {k \in Skus : group[k] # None} /\ O = {k \in Skus : group[k] = None}
  OBVIOUS
<1>2. /\ S \cap O = {} /\ S \cup O = Skus /\ S \in SUBSET Skus /\ O \in SUBSET Skus
      /\ IsFiniteSet(S) /\ IsFiniteSet(O)
  BY <1>1, OrderIs, FS_Subset
<1>3. p \in [Skus -> Int] /\ \A k \in O : p[k] = 0
  BY <1>1 DEF Divided
<1>4. Sum(p, O) = 0
  <2>1. Sum(p, O) = 0 * Cardinality(O)
    BY <1>2, <1>3, SumConstant
  <2>2. Cardinality(O) \in Nat
    BY <1>2, FS_CardinalityType
  <2>3. QED
    BY <2>1, <2>2
<1>5. PICK R, G, of : R = Taking /\ G = [g \in R |-> Bought(g)] /\ of = group
  OBVIOUS
<1>6. /\ IsFiniteSet(R) /\ \A k \in S : of[k] \in R
      /\ \A g \in R : G[g] \in SUBSET S /\ \A k \in S : k \in G[g] <=> of[k] = g
  <2>1. IsFiniteSet(R) /\ R \subseteq Groups
    BY <1>5, OrderIs, FS_Subset DEF Taking
  <2>2. \A k \in S : of[k] \in R
    BY <1>1, <1>5, SkuIs
  <2>3. \A g \in R : G[g] \in SUBSET S /\ \A k \in S : k \in G[g] <=> of[k] = g
    BY <1>1, <1>5, <2>1, OrderIs DEF Bought
  <2>4. QED
    BY <2>1, <2>2, <2>3
<1>7. \A g \in R : favor[g] = Sum(p, G[g])
  BY <1>5, FavorDivided
<1>8. Sum(favor, R) = Sum(p, S)
  <2>1. \A k \in S : p[k] \in Int
    BY <1>2, <1>3
  <2>2. QED
    BY <1>2, <1>6, <1>7, <2>1, SumGrouped
<1>9. Sum(p, S \cup O) = Sum(p, S) + Sum(p, O)
  <2>1. \A k \in S \cup O : p[k] \in Int
    BY <1>2, <1>3
  <2>2. QED
    BY <1>2, <2>1, SumTwo
<1>10. Sum(p, S) \in Int
  BY <1>2, <1>3, SumFold
<1>11. Sum(p, Skus) = Sum(p, S) + Sum(p, O)
  BY <1>2, <1>9, Zenon
<1>12. QED
  BY <1>4, <1>5, <1>8, <1>10, <1>11

\* The discount of the order is what its skus save and what others take off.
LEMMA FavorsInAll ==
  ASSUME Chosen
  PROVE  /\ Sum(favor, Groups) = Sum(favor, Taking) + Sum(favor, Groups \ Taking)
         /\ Sum(favor, Taking) \in Int /\ Sum(favor, Groups \ Taking) \in Int
<1>1. PICK R, O : R = Taking /\ O = Groups \ Taking
  OBVIOUS
<1>2. /\ R \cap O = {} /\ R \cup O = Groups /\ IsFiniteSet(R) /\ IsFiniteSet(O)
      /\ R \in SUBSET Groups /\ O \in SUBSET Groups
  BY <1>1, OrderIs, FS_Subset DEF Taking
<1>3. \A g \in Groups : favor[g] \in Int
  BY DEF Chosen
<1>4. Sum(favor, R \cup O) = Sum(favor, R) + Sum(favor, O)
  BY <1>2, <1>3, SumTwo
<1>5. Sum(favor, R) \in Int /\ Sum(favor, O) \in Int
  BY <1>2, <1>3, SumFold
<1>6. QED
  BY <1>1, <1>2, <1>4, <1>5

\* The prices add up whatever p is, if it sums up to what is taken off them.
LEMMA PricesAdd ==
  ASSUME Chosen, NEW p \in [Skus -> Int], NEW f \in Int, Sum(p, Skus) = f,
         NEW z \in Int, z = Sum(favor, Groups \ Taking),
         price' = [k \in Skus |-> [pay |-> order.sale[k] - p[k], favor |-> p[k]]],
         total' = [pay |-> Sum(order.sale, Skus) - (f + z), favor |-> f + z],
         Chosen', UNCHANGED <<order, group, favor>>
  PROVE  SharesAddUp'
<1>1. PICK s, pay, fav : s = order.sale /\ pay = [k \in Skus |-> s[k] - p[k]]
                         /\ fav = [k \in Skus |-> price'[k].pay]
  OBVIOUS
<1>2. PICK save : save = [k \in Skus |-> price'[k].favor]
  OBVIOUS
<1>3. IsFiniteSet(Skus) /\ \A k \in Skus : s[k] \in Int
  BY <1>1, OrderIs
<1>4. \A k \in Skus : /\ pay[k] \in Int /\ fav[k] = pay[k] /\ fav[k] \in Int
                      /\ p[k] \in Int /\ save[k] = p[k] /\ save[k] \in Int /\ s[k] = pay[k] + p[k]
  BY <1>1, <1>2, <1>3
<1>5. Sum(fav, Skus) = Sum(pay, Skus) /\ Sum(save, Skus) = Sum(p, Skus)
  BY <1>3, <1>4, SumSame
<1>6. Sum(s, Skus) = Sum(pay, Skus) + Sum(p, Skus)
  BY <1>3, <1>4, SumPlus
<1>7. Sum(s, Skus) \in Int /\ Sum(pay, Skus) \in Int
  BY <1>3, <1>4, SumFold
<1>8. Sum(save, Skus) = f /\ Sum(fav, Skus) = Sum(s, Skus) - f
  BY <1>5, <1>6, <1>7
<1>9. total'.favor = f + z /\ total'.pay = Sum(s, Skus) - (f + z) /\ order'.sale = s
  BY <1>1
<1>10. /\ \A g \in Groups : favor'[g] >= 0
       /\ (\A g \in Groups \ Taking : favor[g] # 0 => \E t \in ladder[g] : t.full_credit = 0)'
  BY DEF Chosen
<1>11. Sum(favor', Groups \ Taking') = z
  BY DEF Taking, Bought
<1>12. QED
  BY <1>1, <1>2, <1>7, <1>8, <1>9, <1>10, <1>11 DEF SharesAddUp

\* What a sku saves is its share, or what the other skus of its activity leave.
LEMMA Fair ==
  ASSUME Chosen, NEW share, NEW p, Divided(share, p), NEW k \in Skus, group[k] # None
  PROVE  LET g == group[k]
         IN  2 * Magnitude(p[k] * TotalSalePrice(g) - order.sale[k] * favor[g])
               <= TotalSalePrice(g) * (IF First(k) THEN Cardinality(Bought(g)) - 1 ELSE 1)
<1>1. PICK g \in Taking : g = group[k] /\ g \in Groups /\ g # None
  BY SkuIs, OrderIs DEF Taking
<1>2. PICK B : B = Bought(g) /\ IsFiniteSet(B) /\ B \in SUBSET Skus /\ k \in B
  BY <1>1, SaleIs, SkuIs
<1>3. PICK s : s = order.sale
  OBVIOUS
<1>4. PICK t \in Nat \ {0}, f \in Int : t = TotalSalePrice(g) /\ f = favor[g]
  BY <1>1, SaleIs DEF Chosen
<1>5. \A j \in B : group[j] = g
  BY <1>2 DEF Bought
<1>6. \A j \in B : /\ s[j] \in Int /\ share[j] \in Int /\ p[j] \in Int
                   /\ IsShare(share[j], s[j], f, t)
                   /\ p[j] = share[j] + IF First(j) THEN Rest(g, share) ELSE 0
  BY <1>1, <1>2, <1>3, <1>5, <1>4, OrderIs DEF Divided
<1>7. CASE ~ First(k)
  <2>1. PICK a \in Int, b \in Int : a = p[k] /\ b = s[k] /\ IsShare(a, b, f, t)
    BY <1>2, <1>6, <1>7
  <2>2. 2 * (t * a) <= 2 * (b * f) + t /\ 2 * (b * f) - t <= 2 * (t * a)
    BY <2>1 DEF IsShare
  <2>3. 2 * Magnitude(a * t - b * f) <= t * 1
    BY <2>2 DEF Magnitude
  <2>4. QED
    BY <1>1, <1>3, <1>7, <1>4, <2>1, <2>3
<1>8. CASE First(k)
  <2>1. PICK O : O = B \ {k} /\ IsFiniteSet(O)
    BY <1>2, FS_Subset
  <2>2. \A j \in O : s[j] \in Int /\ share[j] \in Int /\ IsShare(share[j], s[j], f, t)
    BY <1>6, <2>1
  <2>3. PICK W \in Int, R \in Int, n \in Nat : W = Sum(s, O) /\ R = Sum(share, O) /\ n = Cardinality(O)
    BY <2>1, <2>2, SumFold, FS_CardinalityType
  <2>4. 2 * (t * R) <= 2 * (W * f) + t * n /\ 2 * (W * f) - t * n <= 2 * (t * R)
    BY <2>1, <2>2, <2>3, SharesTogether
  <2>5. PICK a \in Int, b \in Int, q \in Int : a = p[k] /\ b = s[k] /\ q = share[k]
    BY <1>2, <1>6
  <2>6. t = b + W
    <3>1. Sum(s, B) = s[k] + Sum(s, B \ {k})
      BY <1>2, <1>6, SumTakes
    <3>2. t = Sum(s, B)
      BY <1>2, <1>3, <1>4 DEF TotalSalePrice
    <3>3. QED
      BY <2>1, <2>3, <2>5, <3>1, <3>2
  <2>7. a = f - R
    <3>1. Sum(share, B) = share[k] + Sum(share, B \ {k})
      BY <1>2, <1>6, SumTakes
    <3>2. Rest(g, share) = f - Sum(share, B)
      BY <1>2, <1>4 DEF Rest
    <3>3. a = q + (f - (q + R))
      BY <1>2, <1>6, <1>8, <2>1, <2>3, <2>5, <3>1, <3>2
    <3>4. QED
      BY <3>3
  <2>8. a * t - b * f = W * f - t * R
    <3>1. a * t = f * t - t * R
      BY <2>7
    <3>2. f * t = b * f + W * f
      BY <2>6
    <3>3. b * f \in Int /\ W * f \in Int /\ t * R \in Int /\ f * t \in Int
      OBVIOUS
    <3>4. QED
      BY <3>1, <3>2, <3>3
  <2>9. Cardinality(B) - 1 = n
    BY <1>2, <2>1, <2>3, FS_RemoveElement
  <2>10. 2 * Magnitude(a * t - b * f) <= t * n
    <3>1. PICK d \in Int, e \in Int, m \in Int : d = W * f /\ e = t * R /\ m = t * n
      OBVIOUS
    <3>2. 2 * Magnitude(d - e) <= m
      BY <2>4, <3>1 DEF Magnitude
    <3>3. QED
      BY <2>8, <3>1, <3>2
  <2>11. QED
    BY <1>1, <1>2, <1>3, <1>8, <1>4, <2>5, <2>9, <2>10
<1>9. QED
  BY <1>7, <1>8


-----------------------------------------------------------------------------
(***************************************************************************)
(* The next step of an activity, as the shop is told of it.                *)
(***************************************************************************)

LEMMA FullIs ==
  ASSUME Chosen, NEW g \in Groups
  PROVE  /\ Amount(g) \in Nat
         /\ \A s \in ladder[g] : Full(g, s) \in Nat /\ s # None
BY SaleIs, StepsAre DEF Amount, Full

LEMMA NextIs ==
  ASSUME Chosen, NEW g \in Groups, NEW n \in NextSteps(g)
  PROVE  LET have == Amount(g)
             got(amount) == Highest(g, Reached(g, amount))
             differ == Missing(have, Full(g, n))
         IN  IF n = None THEN got(have) = Highest(g, ladder[g])
             ELSE /\ n \in got(have + differ)
                  /\ \A d \in 0..(differ - 1) : got(have + d) = got(have)
<1>1. PICK h \in Nat : h = Amount(g)
  BY FullIs
<1>2. PICK L, above : L = ladder[g] /\ above = L \ Reached(g, h)
  OBVIOUS
<1>3. \A s \in L : Full(g, s) \in Nat /\ s # None
  BY <1>2, FullIs
<1>4. above = {s \in L : h < Full(g, s)}
  BY <1>1, <1>2, <1>3 DEF Reached
<1>5. CASE n = None
  <2>1. above = {}
    BY <1>1, <1>2, <1>3, <1>5 DEF NextSteps, Lowest
  <2>2. Reached(g, h) = L
    BY <1>2, <2>1 DEF Reached
  <2>3. QED
    BY <1>1, <1>2, <1>5, <2>2
<1>6. CASE n # None
  <2>1. n \in above /\ \A s \in above : Full(g, n) <= Full(g, s)
    BY <1>1, <1>2, <1>6 DEF NextSteps, Lowest
  <2>2. PICK f \in Nat : f = Full(g, n) /\ h < f /\ n \in L
    BY <1>3, <1>4, <2>1
  <2>3. Missing(h, f) = f - h
    BY <2>2 DEF Missing
  <2>4. n \in Highest(g, Reached(g, f))
    BY <1>2, <2>2 DEF Highest, Reached
  <2>5. ASSUME NEW d \in 0..(f - h - 1) PROVE Reached(g, h + d) = Reached(g, h)
    <3>1. \A s \in L : Full(g, s) <= h + d <=> Full(g, s) <= h
      BY <1>3, <1>4, <2>1, <2>2
    <3>2. QED
      BY <1>2, <3>1 DEF Reached
  <2>6. h + (f - h) = f
    BY <2>2
  <2>7. QED
    BY <1>1, <1>6, <2>2, <2>3, <2>4, <2>5, <2>6
<1>7. QED
  BY <1>5, <1>6

\* The step is chosen once the activities are, and then stays.
LEMMA NextReachedNext == Chosen /\ NextReached /\ [QuoteNext]_quoteVars => NextReached'
<1>1. SUFFICES ASSUME Chosen, NextReached, [QuoteNext]_quoteVars, stage' = "quoted"
               PROVE  NextReached'
  BY DEF NextReached
<1>2. CASE UNCHANGED quoteVars
  BY <1>1, <1>2 DEF quoteVars, data, NextReached, Taking, Bought, Amount, ByCredit, TotalSalePrice,
                    TotalCount, Highest, Reached, Full, Differ, Missing
<1>3. CASE ChooseSteps
  <2>1. UNCHANGED <<order, deal, ladder, group>>
    BY <1>3 DEF ChooseSteps, data
  <2>2. \A g : Bought(g)' = Bought(g)
    BY <2>1 DEF Bought
  <2>3. Taking' = Taking
    BY <2>2 DEF Taking
  <2>4. \A g : TotalSalePrice(g)' = TotalSalePrice(g) /\ TotalCount(g)' = TotalCount(g)
    BY <2>1, <2>2, Zenon DEF TotalSalePrice, TotalCount
  <2>5. \A g, s : Full(g, s)' = Full(g, s) /\ Amount(g)' = Amount(g)
    BY <2>1, <2>4 DEF Full, Amount, ByCredit
  <2>6. \A g, a : Reached(g, a)' = Reached(g, a)
    BY <2>1, <2>5 DEF Reached
  <2>7. \A g, S : Highest(g, S)' = Highest(g, S)
    BY <2>5 DEF Highest
  <2>8. PICK n : n = next'
    OBVIOUS
  <2>9. \A g \in Taking : g \in Groups /\ n[g] \in NextSteps(g)
    <3>1. \A g \in Taking : g \in Groups /\ g \in Running
      BY <1>1, OrderIs DEF Chosen, Taking, Bought
    <3>2. QED
      BY <1>3, <2>8, <3>1 DEF ChooseSteps
  <2>10. \A g \in Taking : Differ(g)' = Missing(Amount(g), Full(g, n[g]))
    BY <2>5, <2>8 DEF Differ, Missing
  <2>11. ASSUME NEW g \in Taking
         PROVE  LET have == Amount(g)
                    got(amount) == Highest(g, Reached(g, amount))
                    differ == Missing(have, Full(g, n[g]))
                IN  IF n[g] = None THEN got(have) = Highest(g, ladder[g])
                    ELSE /\ n[g] \in got(have + differ)
                         /\ \A d \in 0..(differ - 1) : got(have + d) = got(have)
    BY <1>1, <2>9, NextIs
  <2>12. QED
    BY <2>1, <2>3, <2>5, <2>6, <2>7, <2>8, <2>10, <2>11 DEF NextReached
<1>4. QED
  BY <1>1, <1>2, <1>3 DEF QuoteNext, FindGroups, NoUsableGroup, Divide

-----------------------------------------------------------------------------
(***************************************************************************)
(* The theorems.                                                           *)
(***************************************************************************)

Quoted == Chosen /\ Whole

LEMMA QuotedInit == QuoteInit => Quoted /\ SharesAddUp /\ FairShare /\ NextReached
<1>1. SUFFICES ASSUME QuoteInit PROVE Quoted /\ SharesAddUp /\ FairShare /\ NextReached
  OBVIOUS
<1>2. Chosen /\ Whole
  BY <1>1 DEF QuoteInit, Chosen, Whole, Taking, Bought
<1>3. QED
  BY <1>1, <1>2 DEF QuoteInit, Quoted, SharesAddUp, FairShare, NextReached

LEMMA QuotedNext ==
  Quoted /\ SharesAddUp /\ FairShare /\ [QuoteNext]_quoteVars => Quoted' /\ SharesAddUp' /\ FairShare'
<1>1. SUFFICES ASSUME Quoted, SharesAddUp, FairShare, [QuoteNext]_quoteVars
               PROVE  Quoted' /\ SharesAddUp' /\ FairShare'
  OBVIOUS
<1>2. Chosen /\ Whole
  BY <1>1 DEF Quoted
<1>3. CASE UNCHANGED quoteVars
  <2>1. Quoted'
    BY <1>2, <1>3 DEF quoteVars, data, Quoted, Chosen, Whole, Taking, Bought, Running, Labelled
  <2>2. SharesAddUp'
    BY <1>1, <1>3 DEF quoteVars, data, SharesAddUp, Taking, Bought
  <2>3. FairShare'
    BY <1>1, <1>3 DEF quoteVars, data, FairShare, Bought, First, TotalSalePrice
  <2>4. QED
    BY <2>1, <2>2, <2>3
<1>4. CASE Divide
  <2>1. PICK share, p : /\ Divided(share, p)
                        /\ price' = [k \in Skus |-> [pay |-> order.sale[k] - p[k], favor |-> p[k]]]
    BY <1>2, <1>4, DivideDoes
  <2>2. /\ total' = [pay |-> Sum(order.sale, Skus) - Sum(favor, Groups), favor |-> Sum(favor, Groups)]
        /\ Chosen' /\ UNCHANGED <<order, group, favor>>
    BY <1>2, <1>4, DivideDoes
  <2>3. stage' = "done" /\ answer' = "OK"
    BY <1>4 DEF Divide
  <2>4. Quoted'
    BY <2>2, <2>3 DEF Quoted, Whole
  <2>5. PICK f \in Int : f = Sum(favor, Taking) /\ Sum(p, Skus) = f
    BY <1>2, <2>1, FavorsDivided
  <2>6. p \in [Skus -> Int]
    BY <2>1 DEF Divided
  <2>7. SharesAddUp'
    <3>1. PICK z \in Int : z = Sum(favor, Groups \ Taking) /\ Sum(favor, Groups) = f + z
      BY <1>2, <2>5, FavorsInAll
    <3>2. QED
      BY <1>2, <2>1, <2>2, <2>5, <2>6, <3>1, PricesAdd
  <2>8. ASSUME NEW k \in Skus
        PROVE  IF group[k] = None THEN p[k] = 0
               ELSE 2 * Magnitude(p[k] * TotalSalePrice(group[k]) - order.sale[k] * favor[group[k]])
                 <= TotalSalePrice(group[k])
                      * (IF First(k) THEN Cardinality(Bought(group[k])) - 1 ELSE 1)
    <3>1. CASE group[k] = None
      BY <2>1, <3>1 DEF Divided
    <3>2. CASE group[k] # None
      BY <1>2, <2>1, <3>2, Fair
    <3>3. QED
      BY <3>1, <3>2
  <2>9. \A g, k : /\ Bought(g)' = Bought(g) /\ First(k)' = First(k)
                  /\ TotalSalePrice(g)' = TotalSalePrice(g)
    BY <2>2 DEF Bought, First, TotalSalePrice
  <2>10. \A k \in Skus : price'[k].favor = p[k]
    BY <2>1
  <2>11. FairShare'
    BY <2>2, <2>8, <2>9, <2>10 DEF FairShare
  <2>12. QED
    BY <2>4, <2>7, <2>11
<1>5. CASE FindGroups \/ ChooseSteps
  <2>1. Chosen' /\ UNCHANGED <<order, total, price>> /\ answer' # "OK"
    <3>1. CASE FindGroups
      BY <1>2, <3>1, FindGroupsDoes DEF FindGroups, NoUsableGroup, data, Chosen
    <3>2. CASE ChooseSteps
      BY <1>2, <3>2, ChooseStepsDoes DEF ChooseSteps, NoUsableGroup, data, Chosen
    <3>3. QED
      BY <1>5, <3>1, <3>2
  <2>2. stage # "done"
    BY <1>5 DEF FindGroups, ChooseSteps
  <2>3. /\ total = [pay |-> Sum(order.sale, Skus), favor |-> 0]
        /\ price = [k \in Skus |-> [pay |-> order.sale[k], favor |-> 0]]
    BY <1>2, <2>2 DEF Whole
  <2>4. /\ total' = [pay |-> Sum(order'.sale, Skus), favor |-> 0]
        /\ price' = [k \in Skus |-> [pay |-> order'.sale[k], favor |-> 0]]
    BY <2>1, <2>3
  <2>5. SharesAddUp'
    BY <2>1 DEF SharesAddUp
  <2>6. QED
    BY <2>1, <2>4, <2>5 DEF Quoted, Whole, FairShare
<1>6. QED
  BY <1>1, <1>3, <1>4, <1>5 DEF QuoteNext

LEMMA QuotedHolds == QuoteSpec => [](Quoted /\ SharesAddUp /\ FairShare /\ NextReached)
<1> DEFINE I == Quoted /\ SharesAddUp /\ FairShare /\ NextReached
<1>1. QuoteInit => I
  BY QuotedInit
<1>2. I /\ [QuoteNext]_quoteVars => I'
  BY QuotedNext, NextReachedNext DEF Quoted
<1> HIDE DEF I
<1>3. QuoteSpec => []I
  BY <1>1, <1>2, PTL DEF QuoteSpec
<1>4. QED
  BY <1>3 DEF I

\* What the skus save and what is left to pay for them make up the order, to the
\* cent, for any order, activities and steps, but for what activities that sell
\* nothing of it take off by a step of height 0; and no activity makes it dearer.
THEOREM QuoteAdds == QuoteSpec => []SharesAddUp
  BY QuotedHolds, PTL

\* Every sku saves in proportion to its price, but for half a cent or, for the
\* first one of an activity, half a cent for each of the others; a sku of no
\* activity saves nothing.
THEOREM QuoteIsFair == QuoteSpec => []FairShare
  BY QuotedHolds, PTL

\* With what the shop is told is missing the order reaches the next step, and
\* with less the present one.
THEOREM NextStepIsNext == QuoteSpec => []NextReached
  BY QuotedHolds, PTL

\* Types of the chosen steps and of the prices.
Stepped ==
  /\ stage \in {"order", "grouped", "quoted", "done"}
  /\ answer \in {"none", "OK", "NO_USABLE_GROUP"}
  /\ \A g \in Groups : {curr[g], next[g]} \subseteq ladder[g] \cup {None}
  /\ total \in [pay : Int, favor : Int]
  /\ price \in [Skus -> [pay : Int, favor : Int]]

LEMMA SteppedInit == QuoteInit => Stepped
<1> SUFFICES ASSUME QuoteInit PROVE Stepped
  OBVIOUS
<1>1. Chosen
  BY QuotedInit DEF Quoted
<1>2. PICK s : s = order.sale
  OBVIOUS
<1>3. s \in [Skus -> Nat \ {0}] /\ IsFiniteSet(Skus)
  BY <1>1, <1>2, OrderIs
<1>4. Sum(s, Skus) \in Int /\ \A k \in Skus : s[k] \in Int
  BY <1>3, SumFold
<1>5. total \in [pay : Int, favor : Int] /\ price \in [Skus -> [pay : Int, favor : Int]]
  BY <1>2, <1>4 DEF QuoteInit
<1>6. QED
  BY <1>5 DEF QuoteInit, Stepped

LEMMA SteppedNext == Chosen /\ Stepped /\ [QuoteNext]_quoteVars => Stepped'
<1> SUFFICES ASSUME Chosen, Stepped, [QuoteNext]_quoteVars PROVE Stepped'
  OBVIOUS
<1>1. CASE FindGroups
  BY <1>1 DEF FindGroups, NoUsableGroup, Stepped, data
<1>2. CASE ChooseSteps
  <2>1. UNCHANGED <<ladder, total, price>> /\ stage' \in {"quoted", "done"}
        /\ answer' \in {"none", "OK", "NO_USABLE_GROUP"}
    BY <1>2 DEF ChooseSteps, NoUsableGroup, Stepped, data
  <2>2. PICK c \in [Groups -> {None} \cup UNION Ladders] :
          curr' = c /\ \A g \in Groups : c[g] \in IF g \in Running THEN CurrSteps(g) ELSE {None}
    BY <1>2 DEF ChooseSteps
  <2>3. PICK n \in [Groups -> {None} \cup UNION Ladders] :
          next' = n /\ \A g \in Groups : n[g] \in IF g \in Running THEN NextSteps(g) ELSE {None}
    BY <1>2 DEF ChooseSteps
  <2>4. \A g : CurrSteps(g) \subseteq ladder[g] \cup {None}
    BY DEF CurrSteps, Highest, Reached
  <2>5. \A g : NextSteps(g) \subseteq ladder[g] \cup {None}
    BY DEF NextSteps, Lowest
  <2>6. \A g \in Groups : {c[g], n[g]} \subseteq ladder[g] \cup {None}
    BY <2>2, <2>3, <2>4, <2>5
  <2>7. QED
    BY <2>1, <2>2, <2>3, <2>6 DEF Stepped
<1>3. CASE Divide
  <2>1. PICK share, p : /\ Divided(share, p)
                        /\ price' = [k \in Skus |-> [pay |-> order.sale[k] - p[k], favor |-> p[k]]]
    BY <1>3, DivideDoes
  <2>2. total' = [pay |-> Sum(order.sale, Skus) - Sum(favor, Groups), favor |-> Sum(favor, Groups)]
    BY <1>3, DivideDoes
  <2>3. PICK s : s = order.sale
    OBVIOUS
  <2>4. s \in [Skus -> Nat \ {0}] /\ IsFiniteSet(Skus)
    BY <2>3, OrderIs
  <2>5. Sum(s, Skus) \in Int /\ \A k \in Skus : s[k] \in Int
    BY <2>4, SumFold
  <2>6. Sum(favor, Groups) \in Int
    BY FavorsInAll
  <2>7. total' \in [pay : Int, favor : Int]
    BY <2>2, <2>3, <2>5, <2>6
  <2>8. \A k \in Skus : p[k] \in Int
    BY <2>1 DEF Divided
  <2>9. price' \in [Skus -> [pay : Int, favor : Int]]
    BY <2>1, <2>3, <2>5, <2>8
  <2>10. UNCHANGED <<ladder, curr, next>> /\ stage' = "done" /\ answer' = "OK"
    BY <1>3 DEF Divide, data
  <2>11. QED
    BY <2>7, <2>9, <2>10 DEF Stepped
<1>4. CASE UNCHANGED quoteVars
  BY <1>4 DEF quoteVars, data, Stepped
<1>5. QED
  BY <1>1, <1>2, <1>3, <1>4 DEF QuoteNext

\* Types: the chosen steps are steps of their activity, every amount a whole number
\* of cents, and no activity takes off a negative discount.
THEOREM QuoteTyped == QuoteSpec => []QuoteTypeOK
<1> DEFINE I == Quoted /\ SharesAddUp /\ FairShare /\ NextReached
<1>1. QuoteInit => I /\ Stepped
  BY QuotedInit, SteppedInit
<1>2. I /\ Stepped /\ [QuoteNext]_quoteVars => I' /\ Stepped'
  BY QuotedNext, NextReachedNext, SteppedNext DEF Quoted
<1>3. I /\ Stepped => QuoteTypeOK
  BY DEF Quoted, Chosen, Stepped, QuoteTypeOK
<1> HIDE DEF I
<1>4. QED
  BY <1>1, <1>2, <1>3, PTL DEF QuoteSpec

=============================================================================
