--------------------------- MODULE OnsaleActivity ---------------------------
(***************************************************************************)
(* The life of an on-sale activity in the admin server: created, changed,  *)
(* approved or refused, taken offline; and when the EC server lets it run. *)
(*                                                                         *)
(* A handler is a sequence of statements, each a transaction of its own;   *)
(* between them the other workers run.  Column slug has a unique index, id *)
(* counts up.  A new activity gets its slug only once its id is known.     *)
(* The slug of id g is written g here: CouponCode shows that slugs differ. *)
(***************************************************************************)
EXTENDS Integers, FiniteSets, FiniteSetsExt

CONSTANTS
  Workers,
  Scenes,      \* what happens, see Scene
  MaxId,       \* bound on the activities
  MaxTime,     \* bound on the clock
  MaxFaults    \* bound on the failures

Ids == 1..MaxId
Labels == UNION {s.labels : s \in Scenes}
NoLabel == 0
NoSlug == 0
NoId == 0

\* verify_status; the server makes no difference between new and pending.
Pending == 1
Online == 2
Refused == 3

Activity == [slug : {NoSlug} \cup Ids, label : {NoLabel} \cup Labels,
             status : {Pending, Online, Refused}, start : Int, end : Int]
Blank == [slug |-> NoSlug, label |-> NoLabel, status |-> Pending, start |-> 0, end |-> 0]

\* A scene: do requests come one at a time, which activities are there first, the
\* rows that may be sent to create or update one, the labels, bounds on the
\* activities and the clock, the kinds of the labels (sub_type), the wares (of
\* OnsaleWares), and what is asked of the admin server.
Scene == [serial : BOOLEAN, rows : [Ids -> SUBSET Activity],
          sent : SUBSET Activity, labels : SUBSET (Nat \ {NoLabel}),
          maxId : 1..MaxId, maxTime : 0..MaxTime,
          sub_type : [Labels -> 0..2], wares : SUBSET Nat,
          asks : SUBSET {"create", "update", "steps", "offline", "add", "del"}]

\* A table as the server may find it: the ids have no gap, the slugs are unique,
\* and if requests have come one at a time the labels are.  A client sends no slug
\* of its own making.
Proper(s) ==
  /\ \E n \in 0..MaxId : \A g \in Ids : s.rows[g] # {} <=> g <= n
  /\ \A g \in Ids : \A a, b \in s.rows[g] : a = b
  /\ \A g, h \in Ids : \A a \in s.rows[g], b \in s.rows[h] :
       g # h => /\ a.slug # b.slug
                /\ s.serial => a.label = NoLabel \/ a.label # b.label
  /\ \A a \in s.sent : a.slug = NoSlug

ASSUME ActivityAssumption ==
  /\ Scenes \subseteq Scene /\ \A s \in Scenes : Proper(s)
  /\ MaxId \in Nat \ {0} /\ MaxTime \in Nat /\ MaxFaults \in Nat

VARIABLES
  row,        \* table onsale_onsalegroup: the activity with an id, in a set of one, or {}
  steps,      \* the activities that have a step
  approved,   \* the activities last written by a request to approve them, or to
              \* create them approved, and since neither refused nor closed
  now,        \* the clock
  pc,         \* pc[w] = next step of worker w
  id,         \* id[w] = the activity w works on
  page,       \* page[w] = the row w has read or was sent
  mine,       \* the activity w has inserted
  scene,      \* what happens
  faults

table == <<row, steps, approved>>
local == <<pc, id, page, mine>>
env == <<scene, faults>>
vars == <<table, now, local, env>>

Exist == {g \in Ids : row[g] # {}}
Row(g) == CHOOSE a \in row[g] : TRUE

\* Mutants: definitions below with a bug a change could bring in.
SlugFree_NotUnique(g, slug) == TRUE
SlugFree_NullAllowed(g, slug) ==
  slug = NoSlug \/ \A h \in Exist \ {g} : Row(h).slug # slug
Closed_NotEnded(a) == [a EXCEPT !.start = IF a.start > now THEN now - 1 ELSE a.start]
LabelFree_OthersOnly(l) == TRUE

\* The unique index lets a row have this slug.
SlugFree(g, slug) == \A h \in Exist \ {g} : Row(h).slug # slug

\* No activity uses the label (getOnsaleGroupCount).
LabelFree(l) == \A h \in Exist : Row(h).label # l

\* An activity ends now, and has begun.
Closed(a) == [a EXCEPT !.start = IF a.start > now THEN now - 1 ELSE a.start, !.end = now]

\* The EC server offers it.
Runs(g) == /\ Row(g).status = Online
           /\ Row(g).start < now /\ now < Row(g).end

-----------------------------------------------------------------------------
Init ==
  /\ scene \in Scenes
  /\ row = scene.rows
  /\ steps = {}
  /\ now = 0
  /\ pc = [w \in Workers |-> "idle"]
  /\ id = [w \in Workers |-> NoId]
  /\ page = [w \in Workers |-> Blank]
  /\ mine = [w \in Workers |-> NoId]
  /\ approved = {g \in Exist : Row(g).status = Online}
  /\ faults = 0

At(w, step) == pc[w] = step
Goto(w, step) == pc' = [pc EXCEPT ![w] = step]
Keep == UNCHANGED <<now, env>>

\* The handler answers, OK or an error, or dies; what it held is gone.
Done(w) ==
  /\ Goto(w, "idle")
  /\ id' = [id EXCEPT ![w] = NoId]
  /\ page' = [page EXCEPT ![w] = Blank]
  /\ mine' = [mine EXCEPT ![w] = NoId]

\* A request for activity g arrives with, or reads, page a.
Take(w, g, a, step) ==
  /\ At(w, "idle")
  /\ scene.serial => \A v \in Workers : At(v, "idle")
  /\ Goto(w, step)
  /\ id' = [id EXCEPT ![w] = g]
  /\ page' = [page EXCEPT ![w] = a]
  /\ Keep /\ UNCHANGED <<table, mine>>

(***************************************************************************)
(* createOnsaleGroup                                                       *)
(***************************************************************************)

\* The row is stored as it was sent, whatever its status.
Create(w) ==
  /\ "create" \in scene.asks
  /\ \E a \in scene.sent :
       Take(w, NoId, a, IF a.label = NoLabel THEN "insert" ELSE "count")

\* WARE_LABEL_ID_REUSE if the label has an activity; also in updateOnsaleGroup.
CountLabel(w) ==
  /\ pc[w] \in {"count", "recount"}
  /\ \/ ~ LabelFree(page[w].label) /\ Done(w)
     \/ /\ LabelFree(page[w].label)
        /\ Goto(w, IF At(w, "count") THEN "insert" ELSE "verify")
        /\ UNCHANGED <<id, page, mine>>
  /\ Keep /\ UNCHANGED table

\* The index refuses a second row without a slug.
DoInsert(w) ==
  /\ Cardinality(Exist) < scene.maxId
  /\ SlugFree(NoId, NoSlug)
  /\ row' = [row EXCEPT ![Cardinality(Exist) + 1] = {page[w]}]
  /\ approved' = IF page[w].status = Online THEN approved \cup {Cardinality(Exist) + 1}
                 ELSE approved
  /\ UNCHANGED steps

Insert(w) ==
  /\ At(w, "insert")
  /\ \/ /\ DoInsert(w)
        /\ mine' = [mine EXCEPT ![w] = Cardinality(Exist) + 1]
        /\ Goto(w, "maxId")
        /\ UNCHANGED <<id, page>>
     \/ ~ SlugFree(NoId, NoSlug) /\ Done(w) /\ UNCHANGED table
  /\ Keep

\* The new activity is taken for the one with the largest id.
ReadMaxId(w) ==
  /\ At(w, "maxId")
  /\ id' = [id EXCEPT ![w] = Max(Exist)]
  /\ Goto(w, "readRow")
  /\ Keep /\ UNCHANGED <<table, page, mine>>

ReadRow(w) ==
  /\ At(w, "readRow")
  /\ page' = [page EXCEPT ![w] = [Row(id[w]) EXCEPT !.slug = id[w]]]
  /\ Goto(w, "name")
  /\ Keep /\ UNCHANGED <<table, id, mine>>

(***************************************************************************)
(* updateOnsaleGroup and offline                                           *)
(***************************************************************************)

\* The page sent is looked up by its slug.  Whoever sends it has listed the
\* activity, with or without a slug, but not in the moment of its creation.
Update(w) ==
  /\ "update" \in scene.asks
  /\ \E g \in Exist, a \in scene.sent :
       /\ \A v \in Workers : mine[v] # g
       /\ Take(w, g, [a EXCEPT !.slug = Row(g).slug],
               IF a.label \in {NoLabel, Row(g).label} THEN "verify" ELSE "recount")

\* NO_STEP and INVALID_TIME: only an activity with a step goes online, and before
\* it starts.  One that is refused is closed.
Verify(w) ==
  /\ At(w, "verify")
  /\ \/ /\ page[w].status = Online
        /\ id[w] \notin steps \/ now >= page[w].start
        /\ Done(w)
     \/ /\ page[w].status = Online => id[w] \in steps /\ now < page[w].start
        /\ page' = [page EXCEPT ![w] = IF @.status = Refused THEN Closed(@) ELSE @]
        /\ Goto(w, "update")
        /\ UNCHANGED <<id, mine>>
  /\ Keep /\ UNCHANGED table

\* The row is read and its end brought forward.
Offline(w) ==
  /\ "offline" \in scene.asks
  /\ \E g \in Exist : Take(w, g, Closed(Row(g)), "close")

\* All three end with an update of the whole row.
DoWrite(w) ==
  /\ SlugFree(id[w], page[w].slug)
  /\ row' = [row EXCEPT ![id[w]] = {page[w]}]
  /\ approved' = IF At(w, "close") \/ (At(w, "update") /\ page[w].status = Refused)
                   THEN approved \ {id[w]}
                 ELSE IF page[w].status = Online
                   THEN approved \cup {id[w]}
                 ELSE approved
  /\ UNCHANGED steps

Write(w) ==
  /\ pc[w] \in {"name", "update", "close"}
  /\ \/ DoWrite(w)
     \/ ~ SlugFree(id[w], page[w].slug) /\ UNCHANGED table
  /\ Done(w)
  /\ Keep

\* A statement fails, executed or not, or the server dies.
Fail(w) ==
  /\ pc[w] # "idle"
  /\ faults < MaxFaults /\ faults' = faults + 1
  /\ \/ UNCHANGED table
     \/ At(w, "insert") /\ DoInsert(w)
     \/ pc[w] \in {"name", "update", "close"} /\ DoWrite(w)
  /\ Done(w)
  /\ UNCHANGED <<now, scene>>

(***************************************************************************)
(* addStep, delStep, the clock                                             *)
(***************************************************************************)

AddStep(g) ==
  /\ "steps" \in scene.asks /\ g \in Exist /\ steps' = steps \cup {g}
  /\ UNCHANGED <<row, approved, now, local, env>>

DelStep(g) ==
  /\ "steps" \in scene.asks /\ g \in steps /\ steps' = steps \ {g}
  /\ UNCHANGED <<row, approved, now, local, env>>

Tick ==
  /\ now < scene.maxTime
  /\ now' = now + 1
  /\ UNCHANGED <<table, local, env>>

Next ==
  \/ \E w \in Workers :
       \/ Create(w) \/ CountLabel(w) \/ Insert(w) \/ ReadMaxId(w) \/ ReadRow(w)
       \/ Update(w) \/ Verify(w) \/ Offline(w) \/ Write(w) \/ Fail(w)
  \/ \E g \in Ids : AddStep(g) \/ DelStep(g)
  \/ Tick

Spec == Init /\ [][Next]_vars

-----------------------------------------------------------------------------
\* Rows are rows, and ids are given out without a gap.
TypeOK ==
  /\ row \in [Ids -> SUBSET Activity]
  /\ \A g \in Ids : \A a, b \in row[g] : a = b
  /\ \E n \in 0..MaxId : Exist = 1..n
  /\ steps \subseteq Exist
  /\ now \in 0..MaxTime
  /\ pc \in [Workers -> {"idle", "count", "insert", "maxId", "readRow", "name",
                         "recount", "verify", "update", "close"}]
  /\ id \in [Workers -> {NoId} \cup Ids]
  /\ page \in [Workers -> Activity]
  /\ mine \in [Workers -> {NoId} \cup Ids]
  /\ approved \subseteq Exist
  /\ scene \in Scenes
  /\ faults \in 0..MaxFaults

\* A creation that names an activity names the one it has inserted: although it
\* asks for the largest id in a statement of its own, no other creation gets in
\* between, because the unique index admits one activity without a slug (and no
\* client sends one).
OwnSlug ==
  \A w \in Workers : At(w, "name") => id[w] = mine[w] /\ page[w].slug = mine[w]

\* The price of it: an activity whose creation died before it had a slug, or that
\* has lost its slug again to an old page, never gets one, and from then on no
\* activity can be created.
Nameless(g) ==
  /\ g \in Exist /\ Row(g).slug = NoSlug
  /\ \A w \in Workers :
       /\ pc[w] \notin {"maxId", "readRow", "name"}
       /\ id[w] = g => page[w].slug = NoSlug
NamelessBlocks ==
  [][\A g \in Ids : Nameless(g) => Nameless(g)' /\ Exist' = Exist]_vars

\* An activity runs only if the last request that decided about it and was carried
\* out to the end was to approve it, or to create it approved: whatever old pages
\* are written back after a refusal or after it was taken offline, it does not
\* start again by itself.
RunsAsDecided == \A g \in Exist : Runs(g) => g \in approved

\* A label has one activity as long as requests come one at a time, whatever
\* fails ("ware_label_id cannot be reused"): at once, two may take it.
LabelUsedOnce ==
  scene.serial => \A g, h \in Exist :
    g # h => Row(g).label = NoLabel \/ Row(g).label # Row(h).label

=============================================================================
