---------------------------- MODULE CouponGroups ----------------------------
(***************************************************************************)
(* Coupon groups in the admin service: createCouponGroup, updateCouponGroup*)
(* (a page is loaded, edited and saved as a whole), updateOnline, offline, *)
(* updateJump and updateArgotJump, by several editors at a time.  The EC   *)
(* service draws from the groups, keeps copies of them and looks up argots *)
(* (checkArgot) meanwhile.                                                 *)
(*                                                                         *)
(* The handlers take no lock: what an editor has read may have been        *)
(* overwritten when he writes.  verifyArgot and the tests of the limits    *)
(* ignore whether their select succeeded: a failed one finds no groups.    *)
(* untested and overwritten remember the groups to which this happened.    *)
(*                                                                         *)
(* A group stands for one row of coupon_group, with seller_id = 0 and, if  *)
(* it has an argot, scene_type = 1.  Its coupons are used for              *)
(* Duration after the drawing ends (is_duration_type; the other type names *)
(* the end of use itself).  Time stays below the 365 days after which the  *)
(* handlers forget a group.                                                *)
(***************************************************************************)
EXTENDS Integers, FiniteSets, FiniteSetsExt

CONSTANTS
  Groups,         \* ids of groups
  Editors,        \* users of the admin pages, each with a worker of the server
  Argots,         \* argots
  NoArgot,        \* the argot of a group that has none (scene_type # 1)
  Absent,         \* no row, no copy
  ArgotGap,       \* 180 days
  Duration,       \* duration_value
  MaxGroups,      \* 500 groups online
  MaxCoupons,     \* 500 coupons that a user may hold of them
  MaxCanDraw,     \* 30, the largest can_draw_count
  MaxTime,        \* bound on the clock
  MaxEdits,       \* bound on the edits of a behaviour, and statements sent again
  MaxDrawn        \* bound on the draws of a group

VARIABLES
  group,   \* group[g] = the row of g
  now,     \* the clock
  copy,    \* copy[g] = the row of g as the EC service has cached it
  pc,      \* pc[e] = what e is about to do
  id,      \* id[e] = the group he is at
  seen,    \* seen[e] = what he uses of the row as he has read it
  form,    \* form[e] = the row as he wants it
  behind,  \* the editors who do not know all the groups: a row was written since
           \* they began, or verifyArgot did not see any
  again,   \* the editors whose statement is sent again after a lost connection
  untested,    \* the groups whose argot and time one of them wrote
  overwritten, \* the groups saved by a page that had loaded another version
  edits    \* edits begun and statements sent again so far

past == <<untested, overwritten>>
hands == <<pc, id, seen, form, behind, again>>
vars == <<group, now, copy, hands, past, edits>>

Time == 0..MaxTime
Row == [verify : {1, 2}, argot : Argots \cup {NoArgot}, start : Time, end : Time,
        can_draw : Nat, max_count : Nat, drawn : Nat, version : Nat]

\* What the handlers and the page's save use of a row they have read.
Seen == [end : Time, drawn : Nat, version : Nat]
Used(row) == [end |-> row.end, drawn |-> row.drawn, version |-> row.version]

ASSUME GroupsAssumption ==
  /\ NoArgot \notin Argots
  /\ Absent \notin Groups /\ Absent \notin Row /\ Absent \notin Seen
  /\ {ArgotGap, Duration, MaxGroups, MaxCoupons, MaxTime, MaxEdits, MaxDrawn} \subseteq Nat
  /\ MaxCanDraw \in Nat \ {0}

\* What the EC service shows of a group: all but the count of draws.
Shown(row) == [row EXCEPT !.drawn = 0]

Exists(g) == group[g] # Absent
Online(g) == Exists(g) /\ group[g].verify = 2

\* The groups that count for the limits: approved, and their coupons not all
\* expired.
Live == {g \in Groups : Online(g) /\ now <= group[g].end + Duration}

-----------------------------------------------------------------------------
(* The tests of the handlers. *)

\* Faulty variants of definitions below, for mutation runs.
Free_WithoutGap(g, row) ==
  \A h \in Groups \ {g} : Exists(h) /\ group[h].argot = row.argot => row.start >= group[h].end
Extends_NotTested(row, old) == now <= old.end
Saved_SameVersion(row, old) == row

\* verifyArgot: no other group that has the argot ends less than ArgotGap before
\* this one starts.
Free(g, row) ==
  \A h \in Groups \ {g} :
    Exists(h) /\ group[h].argot = row.argot => row.start >= group[h].end + ArgotGap

\* checkArgot: the groups it finds for an argot; it answers only if there is one.
Found(a) == {g \in Groups : Online(g) /\ group[g].argot = a /\ now < group[g].end + ArgotGap}

\* The limits on what is online together, of the groups found.
WithinLimits(row, found) ==
  /\ Cardinality(found) < MaxGroups
  /\ MapThenSumSet(LAMBDA g : group[g].can_draw, found) + row.can_draw <= MaxCoupons

\* updateOnline: the drawing time may not be shortened, nor changed once over.
Extends(row, old) == row.end >= old.end /\ now <= old.end

\* What is stored for a can_draw_count sent to createCouponGroup.
Clamped(n) == IF n = 0 THEN 1 ELSE IF n > MaxCanDraw THEN MaxCanDraw ELSE n

\* The row updateCouponGroup writes: every column as the page has it.
Saved(row, old) == [row EXCEPT !.version = old.version + 1]

\* The rows a page may send for a row: one column changed.
Edits(row) ==
  {[row EXCEPT !.verify = v] : v \in {1, 2}}
    \cup {[row EXCEPT !.argot = a] : a \in Argots \cup {NoArgot}}
    \cup {[row EXCEPT !.end = t] : t \in row.start..MaxTime}
    \cup {[row EXCEPT !.can_draw = n] : n \in {1, MaxCanDraw}}

-----------------------------------------------------------------------------
At(e, step) == pc[e] = step
Goto(e, step) == pc' = [pc EXCEPT ![e] = step]

\* e leaves what he was at; he has nothing in hand that could be out of date.
Idle(e) ==
  /\ Goto(e, "idle")
  /\ id' = [id EXCEPT ![e] = Absent]
  /\ seen' = [seen EXCEPT ![e] = Absent]
  /\ form' = [form EXCEPT ![e] = Absent]
  /\ again' = again \ {e}

\* The argot and the time of g stay as they are.
SameDraw(g, row) ==
  /\ Exists(g)
  /\ row.argot = group[g].argot /\ row.start = group[g].start /\ row.end = group[g].end

\* e writes row g.
Put(e, g, row) ==
  /\ group' = [group EXCEPT ![g] = row]
  /\ untested' = IF SameDraw(g, row) THEN untested
                 ELSE IF e \in behind THEN untested \cup {g} ELSE untested \ {g}
  /\ UNCHANGED <<now, copy>>

\* He is done with it.  Whoever else is under way may have read what is now replaced.
Finish(e) ==
  /\ behind' = {f \in Editors \ {e} : ~ At(f, "idle")}
  /\ Idle(e)
  /\ UNCHANGED edits

\* Or the connection is lost after the statement, which is sent again, once, as it
\* is; an insert then makes another group g.
Again(e, g) ==
  /\ e \notin again /\ again' = again \cup {e}
  /\ edits < MaxEdits /\ edits' = edits + 1
  /\ behind' = {f \in Editors : ~ At(f, "idle")}
  /\ id' = [id EXCEPT ![e] = g]
  /\ UNCHANGED <<pc, seen, form>>

Write(e, row) ==
  /\ Put(e, id[e], row)
  /\ Finish(e) \/ Again(e, id[e])

Refuse(e) ==
  /\ Idle(e)
  /\ behind' = behind \ {e}
  /\ UNCHANGED <<group, now, copy, past, edits>>

Proceed(e, step) ==
  /\ Goto(e, step)
  /\ UNCHANGED <<group, now, copy, id, seen, form, behind, again, past, edits>>

Open(e, g, old, new, step) ==
  /\ At(e, "idle")
  /\ edits < MaxEdits /\ edits' = edits + 1
  /\ id' = [id EXCEPT ![e] = g]
  /\ seen' = [seen EXCEPT ![e] = old]
  /\ form' = [form EXCEPT ![e] = new]
  /\ Goto(e, step)
  /\ UNCHANGED <<group, now, copy, behind, again, past>>

Init ==
  /\ group = [g \in Groups |-> Absent]
  /\ now = 0
  /\ copy = [g \in Groups |-> Absent]
  /\ pc = [e \in Editors |-> "idle"]
  /\ id = [e \in Editors |-> Absent]
  /\ seen = [e \in Editors |-> Absent]
  /\ form = [e \in Editors |-> Absent]
  /\ behind = {} /\ again = {}
  /\ untested = {} /\ overwritten = {}
  /\ edits = 0

(***************************************************************************)
(* The pages: they ask verifyArgot before they create or save a group with *)
(* an argot; the handlers do not ask again.                                *)
(***************************************************************************)

OpenNew(e, g) ==
  /\ ~ Exists(g) /\ \A f \in Editors : id[f] # g
  /\ \E v \in {1, 2}, a \in Argots \cup {NoArgot}, s \in now..MaxTime, n \in {0, MaxCanDraw, MaxCanDraw + 1} :
       Open(e, g, Absent,
            [verify |-> v, argot |-> a, start |-> s, end |-> s, can_draw |-> n,
             max_count |-> MaxDrawn, drawn |-> 0, version |-> 0],
            IF a = NoArgot THEN "create" ELSE "ask")

OpenPage(e, g) ==
  /\ Exists(g)
  /\ \E row \in Edits(group[g]) :
       Open(e, g, Used(group[g]), row, IF row.argot = NoArgot THEN "save" ELSE "ask")

\* What verifyArgot answers: a failed select has found nothing against it.
Answer(e, step) ==
  \/ IF Free(id[e], form[e]) THEN Proceed(e, step) ELSE Refuse(e)
  \/ /\ Goto(e, step)
     /\ behind' = behind \cup {e}
     /\ UNCHANGED <<group, now, copy, id, seen, form, again, past, edits>>

VerifyArgot(e) ==
  /\ At(e, "ask")
  /\ Answer(e, IF seen[e] = Absent THEN "create" ELSE "save")

(***************************************************************************)
(* The handlers.                                                           *)
(***************************************************************************)

\* createCouponGroup reads the groups online, finding none if the select fails,
\* and inserts the new one.
CheckCreate(e) ==
  /\ At(e, "create")
  /\ \E found \in {Live, {}} :
       IF WithinLimits(form[e], found) THEN Proceed(e, "insert") ELSE Refuse(e)

Created(row) == [row EXCEPT !.can_draw = Clamped(@)]

CreateCouponGroup(e) ==
  /\ At(e, "insert")
  /\ Put(e, id[e], Created(form[e]))
  /\ \/ Finish(e)
     \/ \E h \in Groups : ~ Exists(h) /\ h # id[e] /\ (\A f \in Editors : id[f] # h) /\ Again(e, h)
  /\ UNCHANGED overwritten

\* updateCouponGroup tests the limits if the group was not approved and now is.
CheckSave(e) ==
  /\ At(e, "save")
  /\ \E found \in {Live, {}} :
       IF group[id[e]].verify = 2 \/ form[e].verify # 2 \/ WithinLimits(form[e], found)
       THEN Proceed(e, "update") ELSE Refuse(e)

UpdateCouponGroup(e) ==
  /\ At(e, "update")
  /\ Write(e, Saved(form[e], seen[e]))
  /\ overwritten' = IF seen[e].version = group[id[e]].version THEN overwritten
                    ELSE overwritten \cup {id[e]}

\* updateOnline reads the approved group.
OpenOnline(e, g) ==
  /\ Online(g)
  /\ \E t \in Time, n \in {0, MaxCanDraw}, a \in Argots :
       Open(e, g, Used(group[g]),
            [group[g] EXCEPT !.end = t, !.can_draw = IF n = 0 THEN 1 ELSE n,
                             !.argot = IF @ = NoArgot THEN NoArgot ELSE a],
            IF group[g].argot = NoArgot THEN "online" ELSE "askOnline")

VerifyOnline(e) ==
  /\ At(e, "askOnline")
  /\ Answer(e, "online")

\* The update names its columns and adds 1 to the version in the database.
UpdateOnline(e) ==
  /\ At(e, "online")
  /\ IF Extends(form[e], seen[e])
     THEN Write(e, [group[id[e]] EXCEPT !.end = form[e].end, !.argot = form[e].argot,
                                        !.can_draw = form[e].can_draw, !.version = @ + 1])
          /\ UNCHANGED overwritten
     ELSE Refuse(e)

\* offline: nothing is left to draw beyond what it read to be drawn.
OpenOffline(e, g) ==
  /\ Online(g)
  /\ Open(e, g, Used(group[g]), Absent, "offline")

Offline(e) ==
  /\ At(e, "offline")
  /\ Write(e, [group[id[e]] EXCEPT !.max_count = seen[e].drawn, !.version = @ + 1])
  /\ UNCHANGED overwritten

\* updateJump and updateArgotJump: one statement, columns that matter to nobody
\* here.
OpenJump(e, g) ==
  /\ Online(g)
  /\ Open(e, g, Absent, Absent, "jump")

UpdateJump(e) ==
  /\ At(e, "jump")
  /\ Write(e, [group[id[e]] EXCEPT !.version = @ + 1])
  /\ UNCHANGED overwritten

\* A connection or a statement fails whose result is looked at, or a write:
\* nothing is written, whatever the answer is.
Fail(e) ==
  /\ ~ At(e, "idle")
  /\ Refuse(e)

(***************************************************************************)
(* The EC service and the clock.                                           *)
(***************************************************************************)

Draw(g) ==
  /\ Online(g)
  /\ group[g].start <= now /\ now <= group[g].end
  /\ group[g].drawn < group[g].max_count
  /\ group' = [group EXCEPT ![g].drawn = @ + 1]
  /\ UNCHANGED <<now, copy, hands, past, edits>>

\* A copy that is missing or has another version is made anew (getUserCoupons).
Cache(g) ==
  /\ Online(g)
  /\ IF copy[g] = Absent THEN TRUE ELSE copy[g].version # group[g].version
  /\ copy' = [copy EXCEPT ![g] = Shown(group[g])]
  /\ UNCHANGED <<group, now, hands, past, edits>>

Tick ==
  /\ now < MaxTime
  /\ now' = now + 1
  /\ UNCHANGED <<group, copy, hands, past, edits>>

Edit(e) ==
  \/ \E g \in Groups : OpenNew(e, g) \/ OpenPage(e, g) \/ OpenOnline(e, g)
                       \/ OpenOffline(e, g) \/ OpenJump(e, g)
  \/ VerifyArgot(e) \/ CheckCreate(e) \/ CreateCouponGroup(e) \/ CheckSave(e)
  \/ UpdateCouponGroup(e) \/ VerifyOnline(e) \/ UpdateOnline(e) \/ Offline(e) \/ UpdateJump(e)
  \/ Fail(e)

Next ==
  \/ \E e \in Editors : Edit(e)
  \/ \E g \in Groups : Draw(g) \/ Cache(g)
  \/ Tick

Spec == Init /\ [][Next]_vars

-----------------------------------------------------------------------------
(* Properties. *)

\* Every row is a row; what an editor has in hand fits what he is about to do.
TypeOK ==
  /\ group \in [Groups -> Row \cup {Absent}]
  /\ \A g \in Groups : Exists(g) => group[g].can_draw <= MaxCanDraw
  /\ now \in Time
  /\ copy \in [Groups -> Row \cup {Absent}]
  /\ pc \in [Editors -> {"idle", "ask", "create", "insert", "save", "update",
                        "askOnline", "online", "offline", "jump"}]
  /\ id \in [Editors -> Groups \cup {Absent}]
  /\ seen \in [Editors -> Seen \cup {Absent}]
  /\ form \in [Editors -> Row \cup {Absent}]
  /\ \A e \in Editors : At(e, "idle") <=> id[e] = Absent
  /\ behind \subseteq Editors /\ again \subseteq Editors
  /\ untested \subseteq Groups /\ overwritten \subseteq Groups
  /\ edits \in 0..MaxEdits

\* The version of a group tells whether a copy of it is up to date, as
\* getUserCoupons relies on, unless a page saved the group over a version it had
\* not loaded: two rows then have the same version.
VersionTells ==
  \A g \in Groups \ overwritten :
    Exists(g) /\ copy[g] # Absent /\ copy[g].version = group[g].version =>
      copy[g] = Shown(group[g])

\* The step is one of e's.
Steps(e) == pc'[e] # pc[e] \/ e \in again' \ again

\* The time of drawing of a group is shortened by nothing but the save of its page,
\* or an updateOnline that has read the group before somebody else set another
\* end ("领取结束时间不能缩短").
DrawTimeKept ==
  [][\A g \in Groups : Exists(g) /\ group'[g].end < group[g].end =>
       \E e \in Editors : /\ id[e] = g /\ Steps(e)
                          /\ \/ At(e, "update")
                             \/ At(e, "online") /\ seen[e].end # group[g].end]_vars

\* A user who sends the argot of a group he may draw from finds that group: no
\* other one is found with it but one whose drawing is still to come, or one of
\* the two was written by an editor who did not know all the others: verifyArgot
\* had not seen them, they were written after he asked, or his insert was sent
\* again.
ArgotLeads ==
  \A g \in Groups \ untested :
    Online(g) /\ group[g].argot # NoArgot /\ group[g].start <= now /\ now <= group[g].end =>
      \A h \in Found(group[g].argot) \ (untested \cup {g}) : group[h].start >= now

Apart(g, h) ==
  \/ group[g].start >= group[h].end + ArgotGap
  \/ group[h].start >= group[g].end + ArgotGap

\* Why: groups that have the same argot are ArgotGap apart.
ArgotsApart ==
  \A g, h \in Groups \ untested :
    g # h /\ Exists(g) /\ Exists(h) /\ group[g].argot = group[h].argot
      /\ group[g].argot # NoArgot => Apart(g, h)
=============================================================================
