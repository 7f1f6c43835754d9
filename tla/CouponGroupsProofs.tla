------------------------- MODULE CouponGroupsProofs -------------------------
(***************************************************************************)
(* Theorems about groups and their codes, for every value of the constants *)
(* of CouponGroups and of CouponCode.                                      *)
(***************************************************************************)
EXTENDS CouponGroups, CouponCode, TLAPS

-----------------------------------------------------------------------------
(***************************************************************************)
(* Editors, and what they know.                                            *)
(***************************************************************************)

\* e is about to create the group he is at.
New(e) == pc[e] \in {"create", "insert"} \/ (pc[e] = "ask" /\ seen[e] = Absent)

\* What an editor has in hand: a group that only he may create, or one that is there.
Editing(e) ==
  /\ New(e) => /\ ~ Exists(id[e]) /\ form[e] \in Row /\ seen[e] = Absent
               /\ \A f \in Editors : id[f] = id[e] => f = e
  /\ pc[e] \in {"ask", "save", "update", "askOnline", "online"} /\ ~ New(e) =>
       /\ Exists(id[e]) /\ seen[e] \in Seen
       /\ form[e] \in Row /\ form[e].can_draw <= MaxCanDraw
  /\ pc[e] = "offline" => Exists(id[e]) /\ seen[e] \in Seen
  /\ pc[e] = "jump" => Exists(id[e])
  /\ e \in behind => pc[e] # "idle"

\* Nobody has written since e began: the argot he has asked for is still free.
Fresh(e) == e \notin behind /\ pc[e] # "idle" =>
  /\ pc[e] \in {"askOnline", "online"} => form[e].start = group[id[e]].start
  /\ pc[e] \in {"create", "insert", "save", "update", "online"} /\ form[e].argot # NoArgot =>
       Free(id[e], form[e])

CopyOK(g) == copy[g] # Absent =>
  /\ Exists(g)
  /\ g \notin overwritten =>
       /\ copy[g].version <= group[g].version
       /\ copy[g].version = group[g].version => copy[g] = Shown(group[g])

Inv ==
  /\ TypeOK /\ ArgotsApart
  /\ \A e \in Editors : Editing(e) /\ Fresh(e)
  /\ \A g \in Groups : CopyOK(g)

PCs == {"idle", "ask", "create", "insert", "save", "update",
        "askOnline", "online", "offline", "jump"}

\* What the other editors hold.
Others(e) ==
  \A f \in Editors : f # e => /\ pc'[f] = pc[f] /\ id'[f] = id[f]
                              /\ seen'[f] = seen[f] /\ form'[f] = form[f]

LEMMA GroupOf ==
  ASSUME TypeOK, NEW g, Exists(g), g \in Groups
  PROVE  group[g] \in Row /\ group[g].can_draw <= MaxCanDraw
  BY DEF TypeOK, Exists

\* The group of somebody at work.
LEMMA AtWork ==
  ASSUME TypeOK, NEW e \in Editors, pc[e] # "idle"
  PROVE  id[e] \in Groups
  BY DEF TypeOK, At

LEMMA UsedTyped ==
  ASSUME NEW r \in Row
  PROVE  /\ Used(r) \in Seen /\ Used(r).end = r.end /\ Used(r).version = r.version
         /\ Used(r).drawn = r.drawn
  BY DEF Row, Seen, Used

LEMMA ShownTyped ==
  ASSUME NEW r \in Row
  PROVE  Shown(r) \in Row /\ Shown(r).version = r.version
  BY DEF Row, Shown

LEMMA EditsTyped ==
  ASSUME NEW r \in Row, NEW s \in Edits(r), r.can_draw <= MaxCanDraw
  PROVE  s \in Row /\ s.can_draw <= MaxCanDraw
<1>0. MaxTime \in Nat /\ MaxCanDraw \in Nat \ {0}
  BY GroupsAssumption
<1>1. ASSUME NEW v \in {1, 2}, s = [r EXCEPT !.verify = v] PROVE s \in Row /\ s.can_draw <= MaxCanDraw
  BY <1>1 DEF Row
<1>2. ASSUME NEW a \in Argots \cup {NoArgot}, s = [r EXCEPT !.argot = a]
      PROVE  s \in Row /\ s.can_draw <= MaxCanDraw
  BY <1>2 DEF Row
<1>3. ASSUME NEW t \in r.start..MaxTime, s = [r EXCEPT !.end = t]
      PROVE  s \in Row /\ s.can_draw <= MaxCanDraw
  <2>1. t \in Time
    BY <1>0 DEF Row, Time
  <2>2. QED
    BY <1>3, <2>1 DEF Row
<1>4. ASSUME NEW n \in {1, MaxCanDraw}, s = [r EXCEPT !.can_draw = n]
      PROVE  s \in Row /\ s.can_draw <= MaxCanDraw
  <2>1. n \in Nat /\ n <= MaxCanDraw
    BY <1>0
  <2>2. QED
    BY <1>4, <2>1 DEF Row
<1>5. QED
  BY <1>1, <1>2, <1>3, <1>4 DEF Edits

-----------------------------------------------------------------------------
(***************************************************************************)
(* A row is written.                                                       *)
(***************************************************************************)

\* What e may write: a row of a version higher than the last, or the group counts as
\* overwritten, and with an argot that is free, or unchanged, if he knows all groups.
MayWrite(e, g, r) ==
  /\ g = id[e] /\ pc[e] # "idle" /\ r \in Row /\ r.can_draw <= MaxCanDraw
  /\ Exists(g) \/ \A f \in Editors : id[f] = g => f = e
  /\ overwritten \subseteq overwritten' /\ overwritten' \subseteq Groups
  /\ Exists(g) /\ g \notin overwritten' => r.version > group[g].version
  /\ e \notin behind /\ r.argot # NoArgot => Free(g, r) \/ SameDraw(g, r)

LEMMA IdleShape ==
  ASSUME TypeOK, NEW e \in Editors, Idle(e)
  PROVE  /\ pc'[e] = "idle" /\ id'[e] = Absent /\ seen'[e] = Absent /\ form'[e] = Absent
         /\ Others(e)
         /\ pc' \in [Editors -> PCs] /\ id' \in [Editors -> Groups \cup {Absent}]
         /\ seen' \in [Editors -> Seen \cup {Absent}] /\ form' \in [Editors -> Row \cup {Absent}]
         /\ \A f \in Editors : pc'[f] = "idle" <=> id'[f] = Absent
         /\ again' \subseteq Editors
  BY DEF TypeOK, Idle, Goto, Others, PCs, At

LEMMA WriteApart ==
  ASSUME Inv, NEW e \in Editors, NEW g \in Groups, NEW r \in Row, MayWrite(e, g, r),
         Put(e, g, r)
  PROVE  ArgotsApart' /\ untested' \subseteq Groups
<1>0. /\ TypeOK /\ group' = [group EXCEPT ![g] = r]
      /\ untested' = IF SameDraw(g, r) THEN untested
                     ELSE IF e \in behind THEN untested \cup {g} ELSE untested \ {g}
  BY DEF Inv, Put
<1>1. untested' \subseteq Groups /\ \A i \in Groups : i # g /\ i \notin untested' => i \notin untested
  BY <1>0 DEF TypeOK
<1>2. \A i \in Groups : i # g => group'[i] = group[i] /\ (Exists(i)' <=> Exists(i))
  BY <1>0 DEF TypeOK, Exists
<1>3. group'[g] = r
  BY <1>0 DEF TypeOK
<1>4. ASSUME NEW j \in Groups, j # g, Exists(j), group[j].argot = r.argot, r.argot # NoArgot,
             g \notin untested', j \notin untested'
      PROVE  r.start >= group[j].end + ArgotGap \/ group[j].start >= r.end + ArgotGap
  <2>1. CASE SameDraw(g, r)
    <3>1. g \notin untested /\ j \notin untested /\ Exists(g) /\ group[g].argot = group[j].argot
      BY <1>0, <1>4, <2>1 DEF SameDraw
    <3>2. Apart(g, j)
      BY <1>4, <2>1, <3>1 DEF Inv, ArgotsApart, SameDraw
    <3>3. QED
      BY <2>1, <3>2 DEF Apart, SameDraw
  <2>2. CASE ~ SameDraw(g, r)
    <3>1. e \notin behind
      BY <1>0, <1>4, <2>2
    <3>2. Free(g, r)
      BY <1>4, <2>2, <3>1 DEF MayWrite
    <3>3. QED
      BY <1>4, <3>2 DEF Free
  <2>3. QED
    BY <2>1, <2>2
<1>5. ASSUME NEW i \in Groups, NEW j \in Groups, i # g, j # g, i # j, Exists(i), Exists(j),
             group[i].argot = group[j].argot, group[i].argot # NoArgot,
             i \notin untested', j \notin untested'
      PROVE  Apart(i, j)
  BY <1>1, <1>5 DEF Inv, ArgotsApart
<1>6. ArgotsApart'
  BY <1>2, <1>3, <1>4, <1>5 DEF ArgotsApart, Apart
<1>7. QED
  BY <1>1, <1>6

\* It is enough to look at the editor who writes: the others have become behind.
LEMMA WriteInv ==
  ASSUME Inv, NEW e \in Editors, NEW g \in Groups, NEW r \in Row, MayWrite(e, g, r),
         Put(e, g, r), behind' \subseteq Editors, again' \subseteq Editors, edits' \in 0..MaxEdits,
         \A f \in Editors : f # e => (f \in behind' <=> pc[f] # "idle"),
         Others(e), pc' \in [Editors -> PCs], id' \in [Editors -> Groups \cup {Absent}],
         seen' \in [Editors -> Seen \cup {Absent}], form' \in [Editors -> Row \cup {Absent}],
         pc'[e] = "idle" <=> id'[e] = Absent,
         \A f \in Editors : f # e /\ New(f) => id'[e] # id[f],
         Editing(e)', Fresh(e)'
  PROVE  Inv'
<1>0. /\ TypeOK /\ group' = [group EXCEPT ![g] = r] /\ UNCHANGED <<now, copy>>
  BY DEF Inv, Put
<1>2. r # Absent /\ g = id[e] /\ pc[e] # "idle" /\ r.can_draw <= MaxCanDraw
  BY GroupsAssumption DEF MayWrite
<1>3. /\ group'[g] = r /\ Exists(g)'
      /\ \A h \in Groups : h # g => group'[h] = group[h] /\ (Exists(h)' <=> Exists(h))
  BY <1>0, <1>2 DEF TypeOK, Exists
<1>4. TypeOK'
  <2>1. group' \in [Groups -> Row \cup {Absent}]
    BY <1>0 DEF TypeOK
  <2>2. \A h \in Groups : Exists(h)' => group'[h].can_draw <= MaxCanDraw
    BY <1>0, <1>2, <1>3 DEF TypeOK
  <2>3. untested' \subseteq Groups /\ overwritten' \subseteq Groups
    BY WriteApart DEF MayWrite
  <2>4. \A f \in Editors : pc'[f] = "idle" <=> id'[f] = Absent
    BY <1>0 DEF Others, TypeOK, At
  <2>5. now' \in Time /\ copy' \in [Groups -> Row \cup {Absent}]
    BY <1>0 DEF TypeOK
  <2>6. QED
    BY <2>1, <2>2, <2>3, <2>4, <2>5 DEF TypeOK, At, PCs
<1>5. ASSUME NEW f \in Editors, f # e PROVE Editing(f)'
  <2>1. /\ pc'[f] = pc[f] /\ id'[f] = id[f] /\ seen'[f] = seen[f] /\ form'[f] = form[f]
        /\ f \in behind' => pc[f] # "idle"
    BY <1>5 DEF Others
  <2>2. Editing(f) /\ (New(f)' <=> New(f))
    BY <2>1 DEF Inv, New
  <2>3. pc[f] # "idle" => id[f] \in Groups
    BY <1>0, AtWork
  <2>4. ASSUME New(f)
        PROVE  ~ Exists(id[f])' /\ \A k \in Editors : id'[k] = id'[f] => k = f
    <3>1. pc[f] # "idle" /\ id[f] # Absent /\ ~ Exists(id[f])
      BY <1>0, <2>2, <2>4 DEF New, Editing, TypeOK, At
    <3>2. id[f] # g
      BY <1>2, <1>5, <2>2, <2>4 DEF Editing, MayWrite
    <3>3. ~ Exists(id[f])'
      BY <1>3, <2>1, <2>3, <3>1, <3>2 DEF Exists
    <3>4. QED
      BY <1>5, <2>1, <2>2, <2>4, <3>1, <3>3 DEF Others, Editing
  <2>5. pc[f] # "idle" /\ Exists(id[f]) => Exists(id[f])'
    BY <1>3, <2>1, <2>3 DEF Exists
  <2>6. QED
    BY <2>1, <2>2, <2>4, <2>5 DEF Editing
<1>7. ASSUME NEW f \in Editors, f # e PROVE Fresh(f)'
  BY <1>7 DEF Fresh, Others
<1>8. ASSUME NEW h \in Groups PROVE CopyOK(h)'
  <2>1. CopyOK(h) /\ copy'[h] = copy[h] /\ (h \notin overwritten' => h \notin overwritten)
    BY <1>0 DEF Inv, MayWrite
  <2>2. CASE h # g
    BY <1>3, <2>1, <2>2 DEF CopyOK
  <2>3. CASE h = g /\ copy[g] # Absent /\ g \notin overwritten'
    <3>1. Exists(g) /\ copy[g].version <= group[g].version /\ r.version > group[g].version
      BY <2>1, <2>3 DEF CopyOK, MayWrite
    <3>2. copy[g].version \in Nat /\ group[g].version \in Nat /\ r.version \in Nat
      BY <1>0, <2>3, <3>1 DEF TypeOK, Exists, Row
    <3>3. copy[g].version < r.version
      BY <3>1, <3>2
    <3>4. QED
      BY <1>3, <2>1, <2>3, <3>2, <3>3 DEF CopyOK
  <2>4. CASE h = g /\ (copy[g] = Absent \/ g \in overwritten')
    BY <1>3, <2>1, <2>4 DEF CopyOK
  <2>5. QED
    BY <2>2, <2>3, <2>4
<1>9. QED
  BY <1>4, <1>5, <1>7, <1>8, WriteApart DEF Inv

\* The statement is done, and its editor with it.
LEMMA FinishInv ==
  ASSUME Inv, NEW e \in Editors, NEW g \in Groups, NEW r \in Row, MayWrite(e, g, r),
         Put(e, g, r), Finish(e)
  PROVE  Inv'
<1>0. /\ TypeOK /\ Idle(e) /\ behind' = {f \in Editors \ {e} : pc[f] # "idle"} /\ edits' = edits
  BY DEF Inv, Finish, At
<1>1. /\ pc'[e] = "idle" /\ id'[e] = Absent /\ Others(e)
      /\ pc' \in [Editors -> PCs] /\ id' \in [Editors -> Groups \cup {Absent}]
      /\ seen' \in [Editors -> Seen \cup {Absent}] /\ form' \in [Editors -> Row \cup {Absent}]
      /\ again' \subseteq Editors
  BY <1>0, IdleShape
<1>2. \A f \in Editors : New(f) => id[f] # Absent
  BY <1>0 DEF New, TypeOK, At
<1>3. Editing(e)' /\ Fresh(e)'
  BY <1>0, <1>1 DEF Editing, Fresh, New
<1>4. /\ edits' \in 0..MaxEdits /\ behind' \subseteq Editors
      /\ \A f \in Editors : f # e => (f \in behind' <=> pc[f] # "idle")
  BY <1>0 DEF TypeOK
<1>5. QED
  BY <1>1, <1>2, <1>3, <1>4, WriteInv

\* Or it will be sent again: its editor is behind from now on.
LEMMA AgainInv ==
  ASSUME Inv, NEW e \in Editors, NEW g \in Groups, NEW r \in Row, MayWrite(e, g, r),
         Put(e, g, r), NEW h \in Groups, Again(e, h),
         \A f \in Editors : f # e /\ New(f) => h # id[f],
         Editing(e)'
  PROVE  Inv'
<1>0. /\ TypeOK /\ again' = again \cup {e} /\ edits < MaxEdits /\ edits' = edits + 1
      /\ behind' = {f \in Editors : pc[f] # "idle"} /\ id' = [id EXCEPT ![e] = h]
      /\ UNCHANGED <<pc, seen, form>> /\ pc[e] # "idle"
  BY DEF Inv, Again, At, MayWrite
<1>1. /\ id'[e] = h /\ h # Absent /\ Others(e) /\ id' \in [Editors -> Groups \cup {Absent}]
      /\ pc' \in [Editors -> PCs]
      /\ seen' \in [Editors -> Seen \cup {Absent}] /\ form' \in [Editors -> Row \cup {Absent}]
  BY <1>0, GroupsAssumption DEF TypeOK, Others, PCs
<1>2. edits' \in 0..MaxEdits
  BY <1>0, GroupsAssumption DEF TypeOK
<1>3. /\ behind' \subseteq Editors /\ again' \subseteq Editors /\ e \in behind'
      /\ \A f \in Editors : f # e => (f \in behind' <=> pc[f] # "idle")
  BY <1>0 DEF TypeOK
<1>4. Fresh(e)'
  BY <1>3 DEF Fresh
<1>5. pc'[e] = "idle" <=> id'[e] = Absent
  BY <1>0, <1>1
<1>6. QED
  BY <1>1, <1>2, <1>3, <1>4, <1>5, WriteInv

\* An update of a row that is there.
LEMMA UpdatesInv ==
  ASSUME Inv, NEW e \in Editors, NEW g \in Groups, NEW r \in Row, MayWrite(e, g, r),
         Exists(g), Write(e, r)
  PROVE  Inv'
<1>1. g = id[e] /\ Put(e, g, r) /\ pc[e] # "idle" /\ TypeOK /\ Editing(e)
  BY DEF MayWrite, Write, Inv
<1>2. CASE Finish(e)
  BY <1>1, <1>2, FinishInv
<1>3. CASE Again(e, g)
  <2>1. UNCHANGED <<pc, seen, form>> /\ id'[e] = g
    BY <1>1, <1>3 DEF Again, TypeOK
  <2>2. ~ New(e) /\ ~ New(e)'
    BY <1>1, <2>1 DEF Editing, New
  <2>3. r # Absent /\ Exists(g)'
    <3>1. r # Absent /\ group' = [group EXCEPT ![g] = r]
      BY <1>1, GroupsAssumption DEF Put
    <3>2. QED
      BY <1>1, <3>1 DEF TypeOK, Exists
  <2>4. Editing(e)'
    BY <1>1, <2>1, <2>2, <2>3 DEF Editing
  <2>5. \A f \in Editors : f # e /\ New(f) => g # id[f]
    BY DEF Inv, Editing
  <2>6. QED
    BY <1>1, <1>3, <2>4, <2>5, AgainInv
<1>4. QED
  BY <1>1, <1>2, <1>3 DEF Write

-----------------------------------------------------------------------------
(***************************************************************************)
(* Steps that write no row.                                                *)
(***************************************************************************)

\* It is enough to look at the editor who steps.
LEMMA OneSteps ==
  ASSUME Inv, NEW e \in Editors, UNCHANGED <<group, now, copy, past>>, edits' \in 0..MaxEdits,
         behind' \subseteq Editors, again' \subseteq Editors, Others(e),
         \A f \in Editors : f # e => (f \in behind' <=> f \in behind),
         pc' \in [Editors -> PCs], id' \in [Editors -> Groups \cup {Absent}],
         seen' \in [Editors -> Seen \cup {Absent}], form' \in [Editors -> Row \cup {Absent}],
         pc'[e] = "idle" <=> id'[e] = Absent,
         \A f \in Editors : f # e /\ New(f) => id'[e] # id[f],
         Editing(e)', Fresh(e)'
  PROVE  Inv'
<1>0. TypeOK
  BY DEF Inv
<1>1. TypeOK'
  <2>1. \A g \in Groups : Exists(g)' => group'[g].can_draw <= MaxCanDraw
    BY <1>0 DEF TypeOK, Exists
  <2>2. \A f \in Editors : pc'[f] = "idle" <=> id'[f] = Absent
    BY <1>0 DEF Others, TypeOK, At
  <2>3. QED
    BY <1>0, <2>1, <2>2 DEF TypeOK, PCs, At, past
<1>2. ASSUME NEW f \in Editors, f # e PROVE Editing(f)' /\ Fresh(f)'
  <2>1. /\ pc'[f] = pc[f] /\ id'[f] = id[f] /\ seen'[f] = seen[f] /\ form'[f] = form[f]
        /\ f \in behind' <=> f \in behind
    BY <1>2 DEF Others
  <2>2. Editing(f) /\ Fresh(f) /\ (New(f)' <=> New(f))
    BY <2>1 DEF Inv, New
  <2>3. New(f) => \A k \in Editors : id'[k] = id'[f] => k = f
    BY <1>2, <2>1, <2>2 DEF Editing, Others
  <2>4. Editing(f)'
    BY <2>1, <2>2, <2>3 DEF Editing, Exists
  <2>5. Fresh(f)'
    BY <2>1, <2>2 DEF Fresh, Free, Exists
  <2>6. QED
    BY <2>4, <2>5
<1>3. \A g \in Groups : CopyOK(g)'
  BY DEF Inv, CopyOK, Exists, past
<1>4. ArgotsApart'
  BY DEF Inv, ArgotsApart, Exists, Apart, past
<1>5. QED
  BY <1>1, <1>2, <1>3, <1>4 DEF Inv

LEMMA RefuseInv ==
  ASSUME Inv, NEW e \in Editors, Refuse(e)
  PROVE  Inv'
<1>0. TypeOK /\ Idle(e) /\ behind' = behind \ {e} /\ UNCHANGED <<group, now, copy, past, edits>>
  BY DEF Inv, Refuse
<1>1. /\ pc'[e] = "idle" /\ id'[e] = Absent /\ Others(e)
      /\ pc' \in [Editors -> PCs] /\ id' \in [Editors -> Groups \cup {Absent}]
      /\ seen' \in [Editors -> Seen \cup {Absent}] /\ form' \in [Editors -> Row \cup {Absent}]
      /\ again' \subseteq Editors
  BY <1>0, IdleShape
<1>2. \A f \in Editors : New(f) => id[f] # Absent
  BY <1>0 DEF New, TypeOK, At
<1>3. Editing(e)' /\ Fresh(e)'
  BY <1>0, <1>1 DEF Editing, Fresh, New
<1>4. /\ edits' \in 0..MaxEdits /\ behind' \subseteq Editors
      /\ \A f \in Editors : f # e => (f \in behind' <=> f \in behind)
  BY <1>0 DEF TypeOK
<1>5. QED
  BY <1>0, <1>1, <1>2, <1>3, <1>4, OneSteps

\* An editor goes on to a step that asks no more of what he has in hand.
LEMMA ProceedInv ==
  ASSUME Inv, NEW e \in Editors, NEW step \in PCs \ {"idle"}, Goto(e, step),
         UNCHANGED <<group, now, copy, id, seen, form, again, past, edits>>,
         behind' \in {behind, behind \cup {e}}, pc[e] # "idle", Editing(e)', Fresh(e)'
  PROVE  Inv'
<1>0. TypeOK /\ pc' = [pc EXCEPT ![e] = step]
  BY DEF Inv, Goto
<1>1. /\ pc' \in [Editors -> PCs] /\ pc'[e] = step /\ Others(e)
      /\ id' \in [Editors -> Groups \cup {Absent}]
      /\ seen' \in [Editors -> Seen \cup {Absent}] /\ form' \in [Editors -> Row \cup {Absent}]
      /\ edits' \in 0..MaxEdits
  BY <1>0 DEF TypeOK, PCs, Others
<1>2. pc'[e] = "idle" <=> id'[e] = Absent
  BY <1>0, <1>1 DEF TypeOK, At
<1>3. \A f \in Editors : f # e /\ New(f) => id'[e] # id[f]
  BY <1>0 DEF Inv, Editing
<1>4. /\ behind' \subseteq Editors /\ again' \subseteq Editors
      /\ \A f \in Editors : f # e => (f \in behind' <=> f \in behind)
  BY <1>0 DEF TypeOK
<1>5. QED
  BY <1>0, <1>1, <1>2, <1>3, <1>4, OneSteps

\* verifyArgot answers that the argot is free, or has not looked.
LEMMA AnswerInv ==
  ASSUME Inv, NEW e \in Editors, NEW step \in PCs \ {"idle"}, Answer(e, step), pc[e] # "idle",
         pc'[e] = step /\ UNCHANGED <<group, id, seen, form>> => Editing(e)',
         pc'[e] = step /\ UNCHANGED <<group, id, seen, form, behind>> /\ Free(id[e], form[e]) =>
           Fresh(e)'
  PROVE  Inv'
<1>0. TypeOK
  BY DEF Inv
<1>1. CASE Refuse(e)
  BY <1>1, RefuseInv
<1>2. CASE Free(id[e], form[e]) /\ Proceed(e, step)
  <2>1. Goto(e, step) /\ UNCHANGED <<group, now, copy, id, seen, form, behind, again, past, edits>>
    BY <1>2 DEF Proceed
  <2>2. Editing(e)' /\ Fresh(e)'
    BY <1>0, <1>2, <2>1 DEF Goto, TypeOK
  <2>3. QED
    BY <2>1, <2>2, ProceedInv
<1>3. CASE /\ Goto(e, step) /\ behind' = behind \cup {e}
           /\ UNCHANGED <<group, now, copy, id, seen, form, again, past, edits>>
  <2>1. Editing(e)' /\ Fresh(e)'
    BY <1>0, <1>3 DEF Goto, TypeOK, Fresh
  <2>2. QED
    BY <1>3, <2>1, ProceedInv
<1>4. QED
  BY <1>1, <1>2, <1>3 DEF Answer

\* An editor reads the row of g, or none, and has a form in hand.
LEMMA OpenShape ==
  ASSUME Inv, NEW e \in Editors, NEW g \in Groups, NEW old \in Seen \cup {Absent},
         NEW new \in Row \cup {Absent}, NEW step \in PCs \ {"idle"}, Open(e, g, old, new, step)
  PROVE  /\ pc[e] = "idle" /\ pc'[e] = step /\ id'[e] = g /\ seen'[e] = old /\ form'[e] = new
         /\ Others(e) /\ UNCHANGED <<group, now, copy, behind, again, past>> /\ e \notin behind
         /\ (Editing(e)' /\ Fresh(e)' /\ \A f \in Editors : New(f) => g # id[f]) => Inv'
<1>0. /\ TypeOK /\ UNCHANGED <<group, now, copy, behind, again, past>>
      /\ pc' = [pc EXCEPT ![e] = step] /\ id' = [id EXCEPT ![e] = g]
      /\ seen' = [seen EXCEPT ![e] = old] /\ form' = [form EXCEPT ![e] = new]
      /\ pc[e] = "idle" /\ edits < MaxEdits /\ edits' = edits + 1
  BY DEF Inv, Open, Goto, At
<1>1. /\ pc'[e] = step /\ id'[e] = g /\ seen'[e] = old /\ form'[e] = new /\ Others(e)
      /\ pc' \in [Editors -> PCs] /\ id' \in [Editors -> Groups \cup {Absent}]
      /\ seen' \in [Editors -> Seen \cup {Absent}] /\ form' \in [Editors -> Row \cup {Absent}]
  BY <1>0 DEF TypeOK, PCs, Others
<1>2. edits' \in 0..MaxEdits
  BY <1>0, GroupsAssumption DEF TypeOK
<1>3. e \notin behind /\ g # Absent
  BY <1>0, GroupsAssumption DEF Inv, Editing
<1>4. behind' \subseteq Editors /\ again' \subseteq Editors
  BY <1>0 DEF TypeOK
<1>5. ASSUME Editing(e)', Fresh(e)', \A f \in Editors : New(f) => g # id[f] PROVE Inv'
  BY <1>0, <1>1, <1>2, <1>3, <1>4, <1>5, OneSteps
<1>6. QED
  BY <1>0, <1>1, <1>3, <1>5

\* One who is at a group that is there is not in the way of a creation.
LEMMA NotNew ==
  ASSUME Inv, NEW g \in Groups, Exists(g)
  PROVE  \A f \in Editors : New(f) => g # id[f]
  BY DEF Inv, Editing

LEMMA OpenNewInv ==
  ASSUME Inv, NEW e \in Editors, NEW g \in Groups, OpenNew(e, g)
  PROVE  Inv'
<1>1. PICK v \in {1, 2}, a \in Argots \cup {NoArgot}, s \in now..MaxTime,
           n \in {0, MaxCanDraw, MaxCanDraw + 1} :
       Open(e, g, Absent,
            [verify |-> v, argot |-> a, start |-> s, end |-> s, can_draw |-> n,
             max_count |-> MaxDrawn, drawn |-> 0, version |-> 0],
            IF a = NoArgot THEN "create" ELSE "ask")
  BY DEF OpenNew
<1>2. s \in Time /\ n \in Nat /\ MaxDrawn \in Nat
  BY GroupsAssumption DEF Inv, TypeOK, Time
<1>3. PICK r \in Row : r = [verify |-> v, argot |-> a, start |-> s, end |-> s, can_draw |-> n,
                            max_count |-> MaxDrawn, drawn |-> 0, version |-> 0]
  BY <1>2 DEF Row
<1>4. PICK step \in {"create", "ask"} : step = IF a = NoArgot THEN "create" ELSE "ask"
  OBVIOUS
<1>5. step \in PCs \ {"idle"} /\ Open(e, g, Absent, r, step) /\ r.argot = a
  BY <1>1, <1>3, <1>4 DEF PCs
<1>6. /\ pc'[e] = step /\ id'[e] = g /\ seen'[e] = Absent /\ form'[e] = r
      /\ Others(e) /\ UNCHANGED <<group, now, copy, behind, again, past>> /\ e \notin behind
      /\ (Editing(e)' /\ Fresh(e)' /\ \A f \in Editors : New(f) => g # id[f]) => Inv'
  BY <1>5, OpenShape
<1>7. ~ Exists(g) /\ \A f \in Editors : id[f] # g
  BY DEF OpenNew
<1>8. Editing(e)'
  BY <1>4, <1>6, <1>7 DEF Editing, New, Exists, Others
<1>9. Fresh(e)'
  BY <1>4, <1>5, <1>6 DEF Fresh
<1>10. QED
  BY <1>6, <1>7, <1>8, <1>9

LEMMA OpenPageInv ==
  ASSUME Inv, NEW e \in Editors, NEW g \in Groups, OpenPage(e, g)
  PROVE  Inv'
<1>0. TypeOK /\ Exists(g)
  BY DEF Inv, OpenPage
<1>1. PICK old \in Row : old = group[g] /\ old.can_draw <= MaxCanDraw
  BY <1>0, GroupOf
<1>2. PICK r \in Edits(old) :
        Open(e, g, Used(old), r, IF r.argot = NoArgot THEN "save" ELSE "ask")
  BY <1>1 DEF OpenPage
<1>3. r \in Row /\ r.can_draw <= MaxCanDraw
  BY <1>1, EditsTyped
<1>4. PICK u \in Seen : u = Used(old) /\ u.end = old.end /\ u.version = old.version
  BY UsedTyped
<1>5. PICK step \in {"save", "ask"} : step = IF r.argot = NoArgot THEN "save" ELSE "ask"
  OBVIOUS
<1>6. step \in PCs \ {"idle"} /\ Open(e, g, u, r, step)
  BY <1>2, <1>4, <1>5 DEF PCs
<1>7. /\ pc'[e] = step /\ id'[e] = g /\ seen'[e] = u /\ form'[e] = r
      /\ Others(e) /\ UNCHANGED <<group, now, copy, behind, again, past>> /\ e \notin behind
      /\ (Editing(e)' /\ Fresh(e)' /\ \A f \in Editors : New(f) => g # id[f]) => Inv'
  BY <1>3, <1>6, OpenShape
<1>8. u # Absent
  BY GroupsAssumption
<1>9. Editing(e)'
  BY <1>0, <1>3, <1>5, <1>7, <1>8 DEF Editing, New, Exists
<1>10. Fresh(e)'
  BY <1>1, <1>4, <1>5, <1>7 DEF Fresh
<1>11. QED
  BY <1>0, <1>7, <1>9, <1>10, NotNew

LEMMA OpenOnlineInv ==
  ASSUME Inv, NEW e \in Editors, NEW g \in Groups, OpenOnline(e, g)
  PROVE  Inv'
<1>0. TypeOK /\ Exists(g) /\ MaxCanDraw \in Nat \ {0}
  BY GroupsAssumption DEF Inv, OpenOnline, Online
<1>1. PICK old \in Row : old = group[g]
  BY <1>0, GroupOf
<1>2. PICK t \in Time, n \in {0, MaxCanDraw}, a \in Argots :
       Open(e, g, Used(old),
            [old EXCEPT !.end = t, !.can_draw = IF n = 0 THEN 1 ELSE n,
                        !.argot = IF @ = NoArgot THEN NoArgot ELSE a],
            IF old.argot = NoArgot THEN "online" ELSE "askOnline")
  BY <1>1 DEF OpenOnline
<1>3. PICK r : r = [old EXCEPT !.end = t, !.can_draw = IF n = 0 THEN 1 ELSE n,
                               !.argot = IF @ = NoArgot THEN NoArgot ELSE a]
  OBVIOUS
<1>4. /\ r \in Row /\ r.can_draw <= MaxCanDraw /\ r.start = old.start
      /\ old.argot = NoArgot => r.argot = NoArgot
  <2>1. PICK m \in Nat : m = (IF n = 0 THEN 1 ELSE n) /\ m <= MaxCanDraw
    BY <1>0
  <2>2. r = [old EXCEPT !.end = t, !.can_draw = m,
                        !.argot = IF old.argot = NoArgot THEN NoArgot ELSE a]
    BY <1>3, <2>1
  <2>3. QED
    BY <2>1, <2>2 DEF Row
<1>5. PICK u \in Seen : u = Used(old) /\ u.end = old.end /\ u.version = old.version
  BY UsedTyped
<1>6. PICK step \in {"online", "askOnline"} :
        step = IF old.argot = NoArgot THEN "online" ELSE "askOnline"
  OBVIOUS
<1>7. step \in PCs \ {"idle"} /\ Open(e, g, u, r, step)
  BY <1>2, <1>3, <1>5, <1>6 DEF PCs
<1>8. /\ pc'[e] = step /\ id'[e] = g /\ seen'[e] = u /\ form'[e] = r
      /\ Others(e) /\ UNCHANGED <<group, now, copy, behind, again, past>> /\ e \notin behind
      /\ (Editing(e)' /\ Fresh(e)' /\ \A f \in Editors : New(f) => g # id[f]) => Inv'
  BY <1>4, <1>7, OpenShape
<1>9. Editing(e)'
  BY <1>0, <1>4, <1>6, <1>8 DEF Editing, New, Exists
<1>10. Fresh(e)'
  BY <1>1, <1>4, <1>5, <1>6, <1>8 DEF Fresh
<1>11. QED
  BY <1>0, <1>8, <1>9, <1>10, NotNew

LEMMA OpenOfflineInv ==
  ASSUME Inv, NEW e \in Editors, NEW g \in Groups, OpenOffline(e, g)
  PROVE  Inv'
<1>0. TypeOK /\ Exists(g)
  BY DEF Inv, OpenOffline, Online
<1>1. PICK old \in Row : old = group[g]
  BY <1>0, GroupOf
<1>2. PICK u \in Seen : u = Used(old) /\ u.end = old.end /\ u.version = old.version
  BY UsedTyped
<1>3. "offline" \in PCs \ {"idle"} /\ Open(e, g, u, Absent, "offline")
  BY <1>1, <1>2 DEF OpenOffline, PCs
<1>4. /\ pc'[e] = "offline" /\ id'[e] = g /\ seen'[e] = u
      /\ Others(e) /\ UNCHANGED <<group, now, copy, behind, again, past>> /\ e \notin behind
      /\ (Editing(e)' /\ Fresh(e)' /\ \A f \in Editors : New(f) => g # id[f]) => Inv'
  BY <1>3, OpenShape
<1>5. Editing(e)'
  BY <1>0, <1>4 DEF Editing, New, Exists
<1>6. Fresh(e)'
  BY <1>1, <1>2, <1>4 DEF Fresh
<1>7. QED
  BY <1>0, <1>4, <1>5, <1>6, NotNew

LEMMA OpenJumpInv ==
  ASSUME Inv, NEW e \in Editors, NEW g \in Groups, OpenJump(e, g)
  PROVE  Inv'
<1>0. Exists(g)
  BY DEF OpenJump, Online
<1>1. "jump" \in PCs \ {"idle"} /\ Open(e, g, Absent, Absent, "jump")
  BY DEF OpenJump, PCs
<1>2. /\ pc'[e] = "jump" /\ id'[e] = g /\ seen'[e] = Absent
      /\ Others(e) /\ UNCHANGED <<group, now, copy, behind, again, past>> /\ e \notin behind
      /\ (Editing(e)' /\ Fresh(e)' /\ \A f \in Editors : New(f) => g # id[f]) => Inv'
  BY <1>1, OpenShape
<1>3. Editing(e)' /\ Fresh(e)'
  BY <1>0, <1>2 DEF Editing, New, Exists, Fresh
<1>4. QED
  BY <1>0, <1>2, <1>3, NotNew

\* The tests that precede a write.
LEMMA VerifyArgotInv ==
  ASSUME Inv, NEW e \in Editors, VerifyArgot(e)
  PROVE  Inv'
<1>0. TypeOK /\ Editing(e) /\ Fresh(e) /\ pc[e] = "ask"
  BY DEF Inv, VerifyArgot, At
<1>1. PICK step \in {"create", "save"} : step = IF seen[e] = Absent THEN "create" ELSE "save"
  OBVIOUS
<1>2. step \in PCs \ {"idle"} /\ Answer(e, step)
  BY <1>1 DEF PCs, VerifyArgot
<1>3. pc'[e] = step /\ UNCHANGED <<group, id, seen, form>> => Editing(e)'
  <2> SUFFICES ASSUME pc'[e] = step, UNCHANGED <<group, id, seen, form>> PROVE Editing(e)'
    OBVIOUS
  <2>1. QED
    BY <1>0, <1>1 DEF Editing, New, Exists
<1>4. pc'[e] = step /\ UNCHANGED <<group, id, seen, form, behind>> /\ Free(id[e], form[e]) => Fresh(e)'
  BY <1>1 DEF Fresh, Free, Exists
<1>5. QED
  BY <1>0, <1>2, <1>3, <1>4, AnswerInv

LEMMA VerifyOnlineInv ==
  ASSUME Inv, NEW e \in Editors, VerifyOnline(e)
  PROVE  Inv'
<1>0. TypeOK /\ Editing(e) /\ Fresh(e) /\ pc[e] = "askOnline"
  BY DEF Inv, VerifyOnline, At
<1>1. "online" \in PCs \ {"idle"} /\ Answer(e, "online")
  BY DEF PCs, VerifyOnline
<1>2. pc'[e] = "online" /\ UNCHANGED <<group, id, seen, form>> => Editing(e)'
  BY <1>0 DEF Editing, New, Exists
<1>3. pc'[e] = "online" /\ UNCHANGED <<group, id, seen, form, behind>> /\ Free(id[e], form[e]) =>
        Fresh(e)'
  BY <1>0 DEF Fresh, Free, Exists
<1>4. QED
  BY <1>0, <1>1, <1>2, <1>3, AnswerInv

LEMMA CheckInv ==
  ASSUME Inv, NEW e \in Editors, CheckCreate(e) \/ CheckSave(e)
  PROVE  Inv'
<1>0. TypeOK /\ Editing(e) /\ Fresh(e)
  BY DEF Inv
<1>1. CASE Refuse(e)
  BY <1>1, RefuseInv
<1>2. CASE pc[e] = "create" /\ Proceed(e, "insert")
  <2>0. Goto(e, "insert") /\ UNCHANGED <<group, now, copy, id, seen, form, behind, again, past, edits>>
    BY <1>2 DEF Proceed
  <2>1. "insert" \in PCs \ {"idle"} /\ pc'[e] = "insert"
    BY <1>0, <2>0 DEF Goto, TypeOK, PCs
  <2>2. Editing(e)' /\ Fresh(e)'
    BY <1>0, <1>2, <2>0, <2>1 DEF Editing, New, Exists, Fresh, Free
  <2>3. QED
    BY <1>2, <2>0, <2>1, <2>2, ProceedInv
<1>3. CASE pc[e] = "save" /\ Proceed(e, "update")
  <2>0. Goto(e, "update") /\ UNCHANGED <<group, now, copy, id, seen, form, behind, again, past, edits>>
    BY <1>3 DEF Proceed
  <2>1. "update" \in PCs \ {"idle"} /\ pc'[e] = "update"
    BY <1>0, <2>0 DEF Goto, TypeOK, PCs
  <2>2. Editing(e)' /\ Fresh(e)'
    BY <1>0, <1>3, <2>0, <2>1 DEF Editing, New, Exists, Fresh, Free
  <2>3. QED
    BY <1>3, <2>0, <2>1, <2>2, ProceedInv
<1>4. QED
  BY <1>1, <1>2, <1>3 DEF CheckCreate, CheckSave, At

-----------------------------------------------------------------------------
(***************************************************************************)
(* The four statements that write a row.                                   *)
(***************************************************************************)

LEMMA ClampedIs ==
  ASSUME NEW n \in Nat PROVE Clamped(n) \in Nat /\ Clamped(n) <= MaxCanDraw
  BY GroupsAssumption DEF Clamped

LEMMA CreateInv ==
  ASSUME Inv, NEW e \in Editors, CreateCouponGroup(e)
  PROVE  Inv'
<1>0. TypeOK /\ Editing(e) /\ Fresh(e) /\ pc[e] = "insert"
  BY DEF Inv, CreateCouponGroup, At
<1>1. PICK g \in Groups, f \in Row : g = id[e] /\ f = form[e]
  BY <1>0, AtWork DEF Editing, New
<1>2. PICK r : r = Created(f)
  OBVIOUS
<1>3. r \in Row /\ r.can_draw <= MaxCanDraw /\ r.argot = f.argot /\ r.start = f.start
  <2>1. PICK n \in Nat : n = Clamped(f.can_draw) /\ n <= MaxCanDraw
    BY ClampedIs DEF Row
  <2>2. r = [f EXCEPT !.can_draw = n]
    BY <1>2, <2>1 DEF Created
  <2>3. QED
    BY <2>1, <2>2 DEF Row
<1>4. ~ Exists(g) /\ \A k \in Editors : id[k] = g => k = e
  BY <1>0, <1>1 DEF Editing, New
<1>5. e \notin behind /\ r.argot # NoArgot => Free(g, r)
  BY <1>0, <1>1, <1>3 DEF Fresh, Free
<1>6. MayWrite(e, g, r)
  <2>1. overwritten' = overwritten /\ overwritten \subseteq Groups
    BY <1>0 DEF CreateCouponGroup, TypeOK
  <2>2. QED
    BY <1>0, <1>1, <1>3, <1>4, <1>5, <2>1 DEF MayWrite
<1>7. Put(e, g, r)
  BY <1>1, <1>2 DEF CreateCouponGroup
<1>8. CASE Finish(e)
  BY <1>3, <1>6, <1>7, <1>8, FinishInv
<1>9. ASSUME NEW h \in Groups, ~ Exists(h), h # g, \A k \in Editors : id[k] # h, Again(e, h)
      PROVE  Inv'
  <2>1. /\ UNCHANGED <<pc, seen, form>> /\ id' = [id EXCEPT ![e] = h] /\ id \in [Editors -> Groups \cup {Absent}]
        /\ group' = [group EXCEPT ![g] = r] /\ group \in [Groups -> Row \cup {Absent}]
    BY <1>0, <1>7, <1>9 DEF Again, Put, TypeOK
  <2>2. id'[e] = h /\ group'[h] = group[h] /\ \A k \in Editors : k # e => id'[k] = id[k]
    BY <1>9, <2>1
  <2>3. Editing(e)'
    BY <1>0, <1>1, <1>9, <2>1, <2>2 DEF Editing, New, Exists
  <2>4. \A k \in Editors : k # e /\ New(k) => h # id[k]
    BY <1>9
  <2>5. QED
    BY <1>3, <1>6, <1>7, <1>9, <2>3, <2>4, AgainInv
<1>10. QED
  BY <1>1, <1>8, <1>9 DEF CreateCouponGroup

LEMMA UpdateInv ==
  ASSUME Inv, NEW e \in Editors, UpdateCouponGroup(e)
  PROVE  Inv'
<1>0. TypeOK /\ Editing(e) /\ Fresh(e) /\ pc[e] = "update"
  BY DEF Inv, UpdateCouponGroup, At
<1>1. /\ ~ New(e) /\ Exists(id[e]) /\ seen[e] \in Seen
      /\ form[e] \in Row /\ form[e].can_draw <= MaxCanDraw
  BY <1>0 DEF Editing, New
<1>2. PICK g \in Groups, f \in Row, u \in Seen : g = id[e] /\ f = form[e] /\ u = seen[e]
  BY <1>0, <1>1, AtWork
<1>3. PICK r : r = Saved(f, u)
  OBVIOUS
<1>4. /\ r \in Row /\ r.can_draw = f.can_draw /\ r.argot = f.argot /\ r.start = f.start
      /\ r.version = u.version + 1 /\ u.version \in Nat
  BY <1>3 DEF Saved, Row, Seen
<1>5. /\ overwritten' = IF u.version = group[g].version THEN overwritten ELSE overwritten \cup {g}
      /\ overwritten \subseteq Groups
  BY <1>0, <1>2 DEF UpdateCouponGroup, TypeOK
<1>6. e \notin behind /\ r.argot # NoArgot => Free(g, r)
  BY <1>0, <1>2, <1>4 DEF Fresh, Free
<1>7. MayWrite(e, g, r)
  <2>1. overwritten \subseteq overwritten' /\ overwritten' \subseteq Groups
    BY <1>5
  <2>2. g \notin overwritten' => r.version > group[g].version
    BY <1>4, <1>5
  <2>3. QED
    BY <1>0, <1>1, <1>2, <1>4, <1>6, <2>1, <2>2 DEF MayWrite
<1>8. Write(e, r)
  BY <1>2, <1>3 DEF UpdateCouponGroup
<1>9. QED
  BY <1>1, <1>2, <1>4, <1>7, <1>8, UpdatesInv

LEMMA UpdateOnlineInv ==
  ASSUME Inv, NEW e \in Editors, UpdateOnline(e)
  PROVE  Inv'
<1>0. TypeOK /\ Editing(e) /\ Fresh(e) /\ pc[e] = "online"
  BY DEF Inv, UpdateOnline, At
<1>1. /\ ~ New(e) /\ Exists(id[e]) /\ form[e] \in Row /\ form[e].can_draw <= MaxCanDraw
  BY <1>0 DEF Editing, New
<1>2. PICK g \in Groups, f \in Row, old \in Row : g = id[e] /\ f = form[e] /\ old = group[g]
  BY <1>0, <1>1, AtWork, GroupOf
<1>3. PICK r : r = [old EXCEPT !.end = f.end, !.argot = f.argot, !.can_draw = f.can_draw,
                               !.version = @ + 1]
  OBVIOUS
<1>4. /\ r \in Row /\ r.can_draw = f.can_draw /\ r.argot = f.argot /\ r.start = old.start
      /\ r.version = old.version + 1 /\ old.version \in Nat
  <2>1. PICK v \in Nat : v = old.version + 1 /\ old.version \in Nat
    BY DEF Row
  <2>2. r = [old EXCEPT !.end = f.end, !.argot = f.argot, !.can_draw = f.can_draw, !.version = v]
    BY <1>3, <2>1
  <2>3. QED
    BY <2>1, <2>2 DEF Row
<1>5. e \notin behind /\ r.argot # NoArgot => Free(g, r)
  BY <1>0, <1>2, <1>4 DEF Fresh, Free
<1>6. r.version > group[g].version
  BY <1>2, <1>4
<1>7. ASSUME UNCHANGED overwritten PROVE MayWrite(e, g, r)
  BY <1>0, <1>1, <1>2, <1>4, <1>5, <1>6, <1>7 DEF MayWrite, TypeOK
<1>8. CASE Refuse(e)
  BY <1>8, RefuseInv
<1>9. CASE Write(e, r) /\ UNCHANGED overwritten
  BY <1>1, <1>2, <1>4, <1>7, <1>9, UpdatesInv
<1>10. QED
  BY <1>2, <1>3, <1>8, <1>9 DEF UpdateOnline

\* offline, updateJump and updateArgotJump leave argot and times alone.
LEMMA OtherWriteInv ==
  ASSUME Inv, NEW e \in Editors, Offline(e) \/ UpdateJump(e)
  PROVE  Inv'
<1>0. TypeOK /\ Editing(e) /\ pc[e] \in {"offline", "jump"} /\ Exists(id[e])
  BY DEF Inv, Offline, UpdateJump, At, Editing
<1>1. PICK g \in Groups, old \in Row : g = id[e] /\ old = group[g] /\ old.can_draw <= MaxCanDraw
  BY <1>0, AtWork, GroupOf
<1>2. ASSUME NEW r \in Row, r.can_draw = old.can_draw, r.argot = old.argot, r.start = old.start,
             r.end = old.end, r.version = old.version + 1, Write(e, r)
      PROVE  Inv'
  <2>1. r.version > group[g].version /\ SameDraw(g, r)
    BY <1>0, <1>1, <1>2 DEF Row, SameDraw
  <2>2. overwritten' = overwritten /\ overwritten \subseteq Groups
    BY <1>0 DEF Offline, UpdateJump, TypeOK
  <2>3. MayWrite(e, g, r)
    BY <1>0, <1>1, <1>2, <2>1, <2>2 DEF MayWrite
  <2>4. QED
    BY <1>0, <1>1, <1>2, <2>3, UpdatesInv
<1>3. CASE Offline(e)
  <2>1. PICK n \in Nat : n = seen[e].drawn
    BY <1>0, <1>3 DEF Offline, At, Editing, Seen
  <2>2. PICK r : r = [old EXCEPT !.max_count = n, !.version = @ + 1]
    OBVIOUS
  <2>3. /\ r \in Row /\ r.can_draw = old.can_draw /\ r.argot = old.argot /\ r.start = old.start
        /\ r.end = old.end /\ r.version = old.version + 1
    <3>1. PICK v \in Nat : v = old.version + 1
      BY DEF Row
    <3>2. r = [old EXCEPT !.max_count = n, !.version = v]
      BY <2>2, <3>1
    <3>3. QED
      BY <3>1, <3>2 DEF Row
  <2>4. Write(e, r)
    BY <1>1, <1>3, <2>1, <2>2 DEF Offline
  <2>5. QED
    BY <1>2, <2>3, <2>4
<1>4. CASE UpdateJump(e)
  <2>1. PICK r : r = [old EXCEPT !.version = @ + 1]
    OBVIOUS
  <2>2. /\ r \in Row /\ r.can_draw = old.can_draw /\ r.argot = old.argot /\ r.start = old.start
        /\ r.end = old.end /\ r.version = old.version + 1
    <3>1. PICK v \in Nat : v = old.version + 1
      BY DEF Row
    <3>2. r = [old EXCEPT !.version = v]
      BY <2>1, <3>1
    <3>3. QED
      BY <3>1, <3>2 DEF Row
  <2>3. Write(e, r)
    BY <1>1, <1>4, <2>1 DEF UpdateJump
  <2>4. QED
    BY <1>2, <2>2, <2>3
<1>5. QED
  BY <1>3, <1>4

-----------------------------------------------------------------------------
(***************************************************************************)
(* The EC service and the clock.                                           *)
(***************************************************************************)

LEMMA DrawInv ==
  ASSUME Inv, NEW g \in Groups, Draw(g)
  PROVE  Inv'
<1>0. /\ TypeOK /\ Exists(g)
      /\ UNCHANGED <<now, copy, pc, id, seen, form, behind, again, untested, overwritten, edits>>
  BY DEF Inv, Draw, Online, hands, past
<1>1. PICK old \in Row : old = group[g]
  BY <1>0, GroupOf
<1>2. PICK r : r = [old EXCEPT !.drawn = @ + 1]
  OBVIOUS
<1>3. /\ r \in Row /\ r.argot = old.argot /\ r.start = old.start /\ r.end = old.end
      /\ r.version = old.version /\ r.can_draw = old.can_draw /\ Shown(r) = Shown(old)
  <2>1. PICK n \in Nat : n = old.drawn + 1
    BY DEF Row
  <2>2. r = [old EXCEPT !.drawn = n]
    BY <1>2, <2>1
  <2>3. /\ r \in Row /\ r.argot = old.argot /\ r.start = old.start /\ r.end = old.end
        /\ r.version = old.version /\ r.can_draw = old.can_draw
    BY <2>1, <2>2 DEF Row
  <2>4. [r EXCEPT !.drawn = 0] = [old EXCEPT !.drawn = 0]
    BY <2>2 DEF Row
  <2>5. QED
    BY <2>3, <2>4 DEF Shown
<1>4. group' = [group EXCEPT ![g] = r] /\ r # Absent
  BY <1>1, <1>2, <1>3, GroupsAssumption DEF Draw
<1>5. /\ group'[g] = r /\ \A h \in Groups : Exists(h)' <=> Exists(h)
      /\ \A h \in Groups : h # g => group'[h] = group[h]
  BY <1>0, <1>4 DEF TypeOK, Exists
<1>6. \A h \in Groups : Exists(h) =>
        /\ group'[h].argot = group[h].argot /\ group'[h].start = group[h].start
        /\ group'[h].end = group[h].end /\ group'[h].version = group[h].version
        /\ group'[h].can_draw = group[h].can_draw /\ Shown(group[h])' = Shown(group[h])
  <2>1. Shown(group[g])' = Shown(r)
    BY <1>5 DEF Shown
  <2>2. QED
    BY <1>1, <1>3, <1>5, <2>1 DEF Shown
<1>7. TypeOK'
  <2>1. group' \in [Groups -> Row \cup {Absent}]
    BY <1>0, <1>3, <1>4 DEF TypeOK
  <2>2. \A h \in Groups : Exists(h)' => group'[h].can_draw <= MaxCanDraw
    BY <1>0, <1>5, <1>6 DEF TypeOK
  <2>3. QED
    BY <1>0, <2>1, <2>2 DEF TypeOK, At
<1>8. ASSUME NEW e \in Editors PROVE Editing(e)' /\ Fresh(e)'
  <2>1. Editing(e) /\ Fresh(e) /\ (New(e)' <=> New(e))
    BY <1>0 DEF Inv, New
  <2>2. pc[e] # "idle" => id[e] \in Groups
    BY <1>0, AtWork
  <2>3. pc[e] # "idle" => (Exists(id[e])' <=> Exists(id[e]))
    BY <1>0, <1>5, <2>2 DEF Exists
  <2>4. Editing(e)'
    BY <1>0, <2>1, <2>3 DEF Editing, New
  <2>5. \A h \in Groups, f \in Row : Free(h, f) => Free(h, f)'
    BY <1>5, <1>6 DEF Free
  <2>6. CASE e \notin behind /\ pc[e] # "idle"
    <3>0. PICK f : f = form[e]
      OBVIOUS
    <3>1. PICK h \in Groups : h = id[e] /\ f = form[e]
      BY <2>2, <2>6, <3>0
    <3>2. f \in Row \cup {Absent} /\ (pc[e] \in {"create", "insert", "save", "update", "online"} => f \in Row)
      BY <1>0, <2>1, <3>1 DEF TypeOK, Editing, New
    <3>3. seen[e] # Absent \/ pc[e] \in {"askOnline", "online"} => Exists(h)
      BY <1>0, <2>1, <2>6, <3>1 DEF Editing, New, TypeOK, PCs
    <3>4. QED
      BY <1>0, <1>6, <2>1, <2>4, <2>5, <2>6, <3>1, <3>2, <3>3 DEF Fresh
  <2>7. CASE ~ (e \notin behind /\ pc[e] # "idle")
    BY <1>0, <2>4, <2>7 DEF Fresh
  <2>8. QED
    BY <2>6, <2>7
<1>9. ArgotsApart'
  BY <1>0, <1>5, <1>6 DEF Inv, ArgotsApart, Apart
<1>10. \A h \in Groups : CopyOK(h)'
  BY <1>0, <1>5, <1>6 DEF Inv, CopyOK
<1>11. QED
  BY <1>7, <1>8, <1>9, <1>10 DEF Inv

\* The copy is made of the row as it is.
LEMMA CacheInv ==
  ASSUME Inv, NEW g \in Groups, Cache(g)
  PROVE  Inv'
<1>0. /\ TypeOK /\ Exists(g)
      /\ UNCHANGED <<group, now, pc, id, seen, form, behind, again, untested, overwritten, edits>>
  BY DEF Inv, Cache, Online, hands, past
<1>1. PICK r \in Row : r = group[g]
  BY <1>0, GroupOf
<1>2. PICK s \in Row : s = Shown(r) /\ s.version = r.version
  BY ShownTyped
<1>3. copy' = [copy EXCEPT ![g] = s] /\ s.version <= r.version
  BY <1>1, <1>2 DEF Cache, Row
<1>4. TypeOK'
  BY <1>0, <1>3 DEF TypeOK, At, Exists
<1>5. \A h \in Groups : CopyOK(h)'
  BY <1>0, <1>1, <1>2, <1>3 DEF Inv, CopyOK, TypeOK, Exists
<1>6. ArgotsApart' /\ \A e \in Editors : Editing(e)' /\ Fresh(e)'
  BY <1>0 DEF Inv, ArgotsApart, Apart, Editing, Fresh, New, Free, Exists
<1>7. QED
  BY <1>4, <1>5, <1>6 DEF Inv

LEMMA StillInv ==
  ASSUME Inv, UNCHANGED <<group, copy, hands, past, edits>>, now' \in Time
  PROVE  Inv'
<1>0. UNCHANGED <<group, copy, pc, id, seen, form, behind, again, untested, overwritten, edits>>
  BY DEF hands, past
<1>1. TypeOK'
  BY <1>0 DEF Inv, TypeOK, At, Exists
<1>2. ArgotsApart' /\ \A e \in Editors : Editing(e)' /\ Fresh(e)'
  BY <1>0 DEF Inv, ArgotsApart, Apart, Editing, Fresh, New, Free, Exists
<1>3. \A h \in Groups : CopyOK(h)'
  BY <1>0 DEF Inv, CopyOK, Exists
<1>4. QED
  BY <1>1, <1>2, <1>3 DEF Inv

LEMMA InvInductive == Inv /\ [Next]_vars => Inv'
<1> SUFFICES ASSUME Inv, [Next]_vars PROVE Inv'
  OBVIOUS
<1>1. ASSUME NEW e \in Editors, Edit(e) PROVE Inv'
  <2>1. ASSUME NEW g \in Groups, OpenNew(e, g) \/ OpenPage(e, g) \/ OpenOnline(e, g)
                                 \/ OpenOffline(e, g) \/ OpenJump(e, g)
        PROVE  Inv'
    BY <2>1, OpenNewInv, OpenPageInv, OpenOnlineInv, OpenOfflineInv, OpenJumpInv
  <2>2. CASE VerifyArgot(e) \/ CheckCreate(e) \/ CheckSave(e) \/ VerifyOnline(e)
    BY <2>2, VerifyArgotInv, CheckInv, VerifyOnlineInv
  <2>3. CASE CreateCouponGroup(e) \/ UpdateCouponGroup(e) \/ UpdateOnline(e)
    BY <2>3, CreateInv, UpdateInv, UpdateOnlineInv
  <2>4. CASE Offline(e) \/ UpdateJump(e)
    BY <2>4, OtherWriteInv
  <2>5. CASE Fail(e)
    BY <2>5, RefuseInv DEF Fail
  <2>6. QED
    BY <1>1, <2>1, <2>2, <2>3, <2>4, <2>5 DEF Edit
<1>2. CASE \E g \in Groups : Draw(g) \/ Cache(g)
  BY <1>2, DrawInv, CacheInv
<1>3. CASE Tick
  <2>1. now' \in Time
    BY <1>3, GroupsAssumption DEF Tick, Inv, TypeOK, Time
  <2>2. QED
    BY <1>3, <2>1, StillInv DEF Tick
<1>4. CASE UNCHANGED vars
  BY <1>4, StillInv DEF vars, Inv, TypeOK
<1>5. QED
  BY <1>1, <1>2, <1>3, <1>4 DEF Next

LEMMA InitInv == Init => Inv
<1> SUFFICES ASSUME Init PROVE Inv
  OBVIOUS
<1>1. TypeOK
  <2>1. /\ group \in [Groups -> Row \cup {Absent}] /\ copy \in [Groups -> Row \cup {Absent}]
        /\ \A g \in Groups : ~ Exists(g)
    BY DEF Init, Exists
  <2>2. now \in Time /\ edits \in 0..MaxEdits
    BY GroupsAssumption DEF Init, Time
  <2>3. /\ pc \in [Editors -> PCs] /\ id \in [Editors -> Groups \cup {Absent}]
        /\ seen \in [Editors -> Seen \cup {Absent}] /\ form \in [Editors -> Row \cup {Absent}]
        /\ \A e \in Editors : At(e, "idle") /\ id[e] = Absent
    BY DEF Init, PCs, At
  <2>4. /\ behind \subseteq Editors /\ again \subseteq Editors
        /\ untested \subseteq Groups /\ overwritten \subseteq Groups
    BY DEF Init
  <2>5. QED
    BY <2>1, <2>2, <2>3, <2>4 DEF TypeOK, PCs
<1>2. ArgotsApart /\ (\A g \in Groups : CopyOK(g)) /\ \A e \in Editors : Editing(e) /\ Fresh(e)
  BY DEF Init, ArgotsApart, CopyOK, Editing, Fresh, New, Exists
<1>3. QED
  BY <1>1, <1>2 DEF Inv

LEMMA InvAlways == Spec => []Inv
  BY InitInv, InvInductive, PTL DEF Spec

-----------------------------------------------------------------------------
\* Rows stay rows, and what an editor has in hand fits his next step.
THEOREM GroupsTyped == Spec => []TypeOK
<1>1. Inv => TypeOK
  BY DEF Inv
<1>2. QED
  BY <1>1, InvAlways, PTL

\* A copy with the version of its group shows the group, but for the groups that a page
\* saved over a version it had not loaded: every other statement raises the version.
THEOREM CopiesAreTold == Spec => []VersionTells
<1>1. Inv => VersionTells
  BY DEF Inv, VersionTells, CopyOK
<1>2. QED
  BY <1>1, InvAlways, PTL

\* Groups with the same argot lie ArgotGap apart, unless one of them was written by an
\* editor who did not know all groups: otherwise what verifyArgot has answered still
\* holds when the row is written.
THEOREM ArgotsLieApart == Spec => []ArgotsApart
<1>1. Inv => ArgotsApart
  BY DEF Inv
<1>2. QED
  BY <1>1, InvAlways, PTL

\* So the argot of a group that is being drawn leads to this group.
LEMMA ApartLeads == Inv => ArgotLeads
<1> SUFFICES ASSUME Inv, NEW g \in Groups \ untested, Online(g), group[g].argot # NoArgot,
                    group[g].start <= now, now <= group[g].end,
                    NEW h \in Found(group[g].argot) \ (untested \cup {g})
             PROVE  group[h].start >= now
  BY DEF ArgotLeads
<1>1. /\ h \in Groups \ untested /\ Exists(g) /\ Exists(h) /\ group[h].argot = group[g].argot
      /\ now < group[h].end + ArgotGap
  BY DEF Found, Online
<1>2. PICK a \in Row, b \in Row : a = group[g] /\ b = group[h]
  BY <1>1, GroupOf DEF Inv
<1>3. a.start >= b.end + ArgotGap \/ b.start >= a.end + ArgotGap
  BY <1>1, <1>2 DEF Inv, ArgotsApart, Apart
<1>4. /\ a.start \in Int /\ a.end \in Int /\ b.start \in Int /\ b.end \in Int
      /\ now \in Int /\ ArgotGap \in Nat
  BY GroupsAssumption DEF Inv, TypeOK, Row, Time
<1>5. a.start <= now /\ now <= a.end /\ now < b.end + ArgotGap
  BY <1>1, <1>2
<1>6. b.start >= now
  BY <1>3, <1>4, <1>5
<1>7. QED
  BY <1>2, <1>6

\* Whatever the editors of the admin server save, approve or take offline, the argot of a
\* group that draws leads a client of checkArgot to that group, unless it or the group
\* he is shown instead was written by an editor who did not know all groups.
THEOREM ArgotsLead == Spec => []ArgotLeads
  BY ApartLeads, InvAlways, PTL

\* A statement that is done, or will be sent again, is a step of its editor.
LEMMA WriteSteps ==
  ASSUME TypeOK, NEW e \in Editors, NEW row, pc[e] # "idle", Write(e, row)
  PROVE  Steps(e) /\ group' = [group EXCEPT ![id[e]] = row]
<1>1. group' = [group EXCEPT ![id[e]] = row]
  BY DEF Write, Put
<1>2. CASE Finish(e)
  BY <1>1, <1>2 DEF Finish, Idle, Goto, Steps, TypeOK
<1>3. CASE Again(e, id[e])
  BY <1>1, <1>3 DEF Again, Steps
<1>4. QED
  BY <1>2, <1>3 DEF Write

\* What shortens the drawing of a group: updateOnline compares with the end it read.
LEMMA Shortens ==
  ASSUME Inv, NEW e \in Editors, Edit(e),
         NEW g \in Groups, Exists(g), group'[g].end < group[g].end
  PROVE  /\ id[e] = g /\ Steps(e)
         /\ At(e, "update") \/ (At(e, "online") /\ seen[e].end # group[g].end)
<1>0. TypeOK /\ Editing(e)
  BY DEF Inv
<1>1. PICK old \in Row : old = group[g] /\ old.end \in Int
  BY <1>0, GroupOf, GroupsAssumption DEF Row, Time
<1>2. group'[g] # group[g] /\ group' # group
  BY <1>1
<1>3. ~ Refuse(e)
  BY <1>2 DEF Refuse
<1>4. ~ \E h \in Groups : OpenNew(e, h) \/ OpenPage(e, h) \/ OpenOnline(e, h)
                           \/ OpenOffline(e, h) \/ OpenJump(e, h)
  BY <1>2 DEF OpenNew, OpenPage, OpenOnline, OpenOffline, OpenJump, Open
<1>5. ~ (VerifyArgot(e) \/ CheckCreate(e) \/ CheckSave(e) \/ VerifyOnline(e) \/ Fail(e))
  BY <1>2, <1>3 DEF VerifyArgot, CheckCreate, CheckSave, VerifyOnline, Fail, Answer, Proceed
<1>6. ~ CreateCouponGroup(e)
  <2> SUFFICES ASSUME CreateCouponGroup(e) PROVE FALSE
    OBVIOUS
  <2>1. ~ Exists(id[e]) /\ group' = [group EXCEPT ![id[e]] = Created(form[e])]
    BY <1>0 DEF CreateCouponGroup, Put, At, Editing, New
  <2>2. g # id[e]
    BY <2>1
  <2>3. QED
    BY <1>0, <1>2, <2>1, <2>2 DEF TypeOK
<1>7. PICK row : Write(e, row) /\ (UpdateCouponGroup(e) \/ UpdateOnline(e) \/ Offline(e) \/ UpdateJump(e))
  BY <1>3, <1>4, <1>5, <1>6 DEF Edit, UpdateCouponGroup, UpdateOnline, Offline, UpdateJump
<1>8. pc[e] # "idle" /\ group' = [group EXCEPT ![id[e]] = row] /\ Steps(e)
  <2>1. pc[e] # "idle"
    BY <1>7 DEF UpdateCouponGroup, UpdateOnline, Offline, UpdateJump, At
  <2>2. QED
    BY <1>0, <1>7, <2>1, WriteSteps
<1>9. id[e] = g /\ group'[g] = row
  BY <1>0, <1>2, <1>8 DEF TypeOK
<1>10. ASSUME row.end = old.end PROVE FALSE
  BY <1>1, <1>9, <1>10
<1>11. ~ Offline(e)
  <2> SUFFICES ASSUME Offline(e) PROVE FALSE
    OBVIOUS
  <2>1. Put(e, g, [old EXCEPT !.max_count = seen[e].drawn, !.version = @ + 1])
    BY <1>1, <1>9 DEF Offline, Write
  <2>2. group'[g] = [old EXCEPT !.max_count = seen[e].drawn, !.version = @ + 1]
    BY <1>0, <2>1 DEF Put, TypeOK
  <2>3. row.end = old.end
    BY <1>9, <2>2 DEF Row
  <2>4. QED
    BY <1>10, <2>3
<1>12. ~ UpdateJump(e)
  <2> SUFFICES ASSUME UpdateJump(e) PROVE FALSE
    OBVIOUS
  <2>1. Put(e, g, [old EXCEPT !.version = @ + 1])
    BY <1>1, <1>9 DEF UpdateJump, Write
  <2>2. group'[g] = [old EXCEPT !.version = @ + 1]
    BY <1>0, <2>1 DEF Put, TypeOK
  <2>3. row.end = old.end
    BY <1>9, <2>2 DEF Row
  <2>4. QED
    BY <1>10, <2>3
<1>13. CASE UpdateCouponGroup(e)
  BY <1>8, <1>9, <1>13 DEF UpdateCouponGroup
<1>14. CASE UpdateOnline(e)
  <2>1. At(e, "online") /\ Extends(form[e], seen[e])
    BY <1>3, <1>14 DEF UpdateOnline
  <2>2. PICK f \in Row, u \in Seen : f = form[e] /\ u = seen[e] /\ f.end \in Int /\ u.end \in Int
    BY <1>0, <2>1, GroupsAssumption DEF Editing, New, At, Row, Seen, Time
  <2>3. Put(e, g, [old EXCEPT !.end = f.end, !.argot = f.argot, !.can_draw = f.can_draw, !.version = @ + 1])
    BY <1>1, <1>3, <1>9, <1>14, <2>2 DEF UpdateOnline, Write
  <2>4. group'[g] = [old EXCEPT !.end = f.end, !.argot = f.argot, !.can_draw = f.can_draw, !.version = @ + 1]
    BY <1>0, <2>3 DEF Put, TypeOK
  <2>5. group'[g].end = f.end
    BY <2>4 DEF Row
  <2>6. u.end # old.end
    BY <1>1, <2>1, <2>2, <2>5 DEF Extends
  <2>7. QED
    BY <1>1, <1>8, <1>9, <2>1, <2>2, <2>6
<1>15. QED
  BY <1>7, <1>11, <1>12, <1>13, <1>14

\* The time of drawing of a group is cut short by the save of its page only, or by an
\* updateOnline that compared its end with one that somebody else had replaced.
THEOREM DrawTimeIsKept == Spec => DrawTimeKept
<1> DEFINE Kept == \A g \in Groups : Exists(g) /\ group'[g].end < group[g].end =>
                     \E e \in Editors : /\ id[e] = g /\ Steps(e)
                                        /\ \/ At(e, "update")
                                           \/ At(e, "online") /\ seen[e].end # group[g].end
<1>1. ASSUME Inv, Next PROVE Kept
  <2> SUFFICES ASSUME NEW g \in Groups, Exists(g), group'[g].end < group[g].end
               PROVE  \E e \in Editors : /\ id[e] = g /\ Steps(e)
                                         /\ \/ At(e, "update")
                                            \/ At(e, "online") /\ seen[e].end # group[g].end
    OBVIOUS
  <2>1. PICK old \in Row : old = group[g] /\ old.end \in Int
    BY <1>1, GroupOf, GroupsAssumption DEF Inv, Row, Time
  <2>2. ~ \E h \in Groups : Draw(h)
    <3> SUFFICES ASSUME NEW h \in Groups, Draw(h) PROVE FALSE
      OBVIOUS
    <3>1. group'[g] = IF h = g THEN [old EXCEPT !.drawn = @ + 1] ELSE old
      BY <1>1, <2>1 DEF Draw, Inv, TypeOK
    <3>2. group'[g].end = old.end
      BY <3>1 DEF Row
    <3>3. QED
      BY <2>1, <3>2
  <2>3. group' # group
    BY <2>1
  <2>4. PICK e \in Editors : Edit(e)
    BY <1>1, <2>2, <2>3 DEF Next, Cache, Tick
  <2>5. QED
    BY <1>1, <2>4, Shortens
<1>2. Inv /\ [Next]_vars => [Kept]_vars
  BY <1>1
<1>3. QED
  BY <1>2, InvAlways, PTL DEF Spec, DrawTimeKept

-----------------------------------------------------------------------------
(***************************************************************************)
(* The codes of CouponCode: every code and every slug reads back as the    *)
(* ids it was made for, for every group up to 300000, every coupon up to   *)
(* 10000000, every remainder, sentry and choice of random letters.  The    *)
(* argument: a number is the sum of its digits; the digits beyond its      *)
(* width are zero, so the letters that stand there instead can be skipped; *)
(* the first letter says how many, and no first digit can be taken for a   *)
(* sentry because of the two limits.                                       *)
(***************************************************************************)

(* The limits are numbers.                                                    *)
LEMMA Limits == MaxGroupId \in Nat /\ MaxCouponId \in Nat
  BY SMT DEF MaxGroupId, MaxCouponId

\* the largest number the second part of a code holds
MaxScaled == 1000000099

(* The values of pow(26, k).                                                  *)
LEMMA Powers ==
    /\ Pow26(0) = 1 /\ Pow26(1) = 26 /\ Pow26(2) = 676 /\ Pow26(3) = 17576
    /\ Pow26(4) = 456976 /\ Pow26(5) = 11881376 /\ Pow26(6) = 308915776
  BY SMT DEF Pow26

(* A number of up to seven digits is the sum of its digits.                   *)
LEMMA DigitSum ==
    ASSUME NEW n \in Nat, n <= MaxScaled
    PROVE  /\ n = Digit(n, 6) * 308915776 + Digit(n, 5) * 11881376 + Digit(n, 4) * 456976
                    + Digit(n, 3) * 17576 + Digit(n, 2) * 676 + Digit(n, 1) * 26 + Digit(n, 0)
           /\ \A k \in 0 .. 6 : Digit(n, k) \in Letters
           /\ Digit(n, 6) <= 3
  <1> DEFINE q1 == n \div 26
             q2 == n \div 676
             q3 == n \div 17576
             q4 == n \div 456976
             q5 == n \div 11881376
             q6 == n \div 308915776
  <1>1. n = 26 * q1 + (n % 26)
    BY SMT DEF MaxScaled
  <1>2. q1 = 26 * q2 + (q1 % 26)
    BY SMT DEF MaxScaled
  <1>3. q2 = 26 * q3 + (q2 % 26)
    BY SMT DEF MaxScaled
  <1>4. q3 = 26 * q4 + (q3 % 26)
    BY SMT DEF MaxScaled
  <1>5. q4 = 26 * q5 + (q4 % 26)
    BY SMT DEF MaxScaled
  <1>6. q5 = 26 * q6 + (q5 % 26)
    BY SMT DEF MaxScaled
  <1>7. q6 \in 0 .. 3 /\ q6 % 26 = q6
    BY SMT DEF MaxScaled
  <1>8. /\ Digit(n, 0) = n % 26 /\ Digit(n, 1) = q1 % 26 /\ Digit(n, 2) = q2 % 26
        /\ Digit(n, 3) = q3 % 26 /\ Digit(n, 4) = q4 % 26 /\ Digit(n, 5) = q5 % 26
        /\ Digit(n, 6) = q6 % 26
    BY SMT, Powers DEF Digit, MaxScaled
  <1>9. /\ q1 \in Nat /\ q2 \in Nat /\ q3 \in Nat
        /\ q4 \in Nat /\ q5 \in Nat /\ q6 \in Nat
    BY SMT
  <1> HIDE DEF q1, q2, q3, q4, q5, q6
  <1>10. \A k \in 0 .. 6 : Digit(n, k) \in Letters
    BY SMT, <1>8, <1>9 DEF Letters
  <1>11. n = Digit(n, 6) * 308915776 + Digit(n, 5) * 11881376 + Digit(n, 4) * 456976
                + Digit(n, 3) * 17576 + Digit(n, 2) * 676 + Digit(n, 1) * 26 + Digit(n, 0)
    BY SMT, <1>1, <1>2, <1>3, <1>4, <1>5, <1>6, <1>7, <1>8, <1>9
  <1>12. QED
    BY SMT, <1>7, <1>8, <1>10, <1>11

\* the numbers encoded in parts of four and of seven letters
Encodable(n, len) ==
    \/ len = 4 /\ n <= MaxGroupId
    \/ len = 7 /\ n <= MaxScaled

(* Width gives a number of digits that is enough and no more.                 *)
LEMMA WidthIs ==
    ASSUME NEW n \in Nat, NEW len \in Nat, Encodable(n, len)
    PROVE  /\ Width(n, len) \in 1 .. len
           /\ FitsIn(n, Width(n, len), len)
           /\ Needs(n, Width(n, len))
  <1> DEFINE P(d) == FitsIn(n, d, len) /\ Needs(n, d)
  <1>1. \E d \in 1 .. len : P(d)
    <2>1. CASE n < 26
      BY SMT, <2>1, Powers DEF Encodable, FitsIn, Needs
    <2>2. CASE n >= 26 /\ n < 676
      BY SMT, <2>2, Powers DEF Encodable, FitsIn, Needs
    <2>3. CASE n >= 676 /\ n < 17576
      BY SMT, <2>3, Powers DEF Encodable, FitsIn, Needs
    <2>4. CASE n >= 17576 /\ (len = 4 \/ n < 456976)
      BY SMT, <2>4, Powers DEF Encodable, FitsIn, Needs
    <2>5. CASE len = 7 /\ n >= 456976 /\ n < 11881376
      BY SMT, <2>5, Powers DEF Encodable, FitsIn, Needs
    <2>6. CASE len = 7 /\ n >= 11881376 /\ n < 308915776
      BY SMT, <2>6, Powers DEF Encodable, FitsIn, Needs
    <2>7. CASE len = 7 /\ n >= 308915776
      BY SMT, <2>7, Powers DEF Encodable, FitsIn, Needs
    <2>8. QED
      BY SMT, <2>1, <2>2, <2>3, <2>4, <2>5, <2>6, <2>7 DEF Encodable
  <1> HIDE DEF P
  <1>2. /\ (CHOOSE d \in 1 .. len : P(d)) \in 1 .. len
        /\ P(CHOOSE d \in 1 .. len : P(d))
    BY <1>1
  <1>3. QED
    BY <1>2 DEF P, Width

(* The digits beyond the width are zero.                                      *)
LEMMA NoMoreDigits ==
    ASSUME NEW n \in Nat, NEW len \in Nat, Encodable(n, len)
    PROVE  \A k \in 0 .. 6 : k >= Width(n, len) /\ k < len => Digit(n, k) = 0
  <1>1. \A d \in 1 .. 6, k \in 0 .. 6 : n < Pow26(d) /\ k >= d => n < Pow26(k)
    BY SMT, Powers
  <1>2. \A k \in 0 .. 6 : n < Pow26(k) => Digit(n, k) = 0
    BY SMT, Powers DEF Digit
  <1>3. QED
    BY SMT, <1>1, <1>2, WidthIs DEF Encodable, FitsIn

-----------------------------------------------------------------------------
(* The parts of a word.  A filler is any choice of letters.                   *)
IsFiller(filler) == \A j \in 2 .. 7 : filler[j] \in Letters

Starts(len) == IF len = 4 THEN GroupSentries ELSE IdSentries

(* Every letter of a part is a letter.                                        *)
LEMMA PartLetters ==
    ASSUME NEW n \in Nat, NEW len \in Nat, Encodable(n, len),
           NEW first \in Starts(len), NEW filler, IsFiller(filler)
    PROVE  \A j \in 1 .. len : Part(n, len, first, filler)[j] \in Letters
  <1>1. len \in {4, 7} /\ n <= MaxScaled /\ Skip(n, len) \in 0 .. len - 1
    BY SMT, WidthIs DEF Encodable, Skip, MaxGroupId, MaxScaled
  <1>2. \A k \in 0 .. 6 : Digit(n, k) \in Letters
    BY <1>1, DigitSum
  <1>3. Skip(n, len) >= 1 => Sentry(first, Skip(n, len)) \in Letters
    BY SMT, <1>1 DEF Starts, GroupSentries, IdSentries, Sentry, Letters
  <1>4. QED
    BY SMT, <1>1, <1>2, <1>3 DEF Part, IsFiller

(* The first letter of a part says how many letters to skip.                  *)
LEMMA FirstLetter ==
    ASSUME NEW n \in Nat, NEW len \in Nat, Encodable(n, len),
           NEW first \in Starts(len), NEW filler
    PROVE  SkipSaidBy(Part(n, len, first, filler)[1], Starts(len), len - 1) = Skip(n, len)
  <1> DEFINE letter == Part(n, len, first, filler)[1]
             skip   == Skip(n, len)
             said   == SkipsSaidBy(letter, Starts(len), len - 1)
  <1>1. len \in {4, 7} /\ n <= MaxScaled /\ skip \in 0 .. len - 1
    BY SMT, WidthIs DEF Encodable, Skip, MaxGroupId, MaxScaled
  <1>2. CASE skip = 0
    <2>1. letter = Digit(n, len - 1)
      BY SMT, <1>1, <1>2 DEF Part
    <2>2. letter <= IF len = 4 THEN 17 ELSE 3
      <3>1. CASE len = 7
        BY <2>1, <3>1, <1>1, DigitSum
      <3>2. CASE len = 4
        BY SMT, <2>1, <3>2, Powers DEF Encodable, MaxGroupId, Digit
      <3>3. QED
        BY <1>1, <3>1, <3>2
    <2>3. letter \in Letters
      BY SMT, <2>1, <1>1, DigitSum
    <2>4. said = {}
      BY SMT, <1>1, <2>2, <2>3
         DEF SkipsSaidBy, Sentry, Starts, GroupSentries, IdSentries, Letters
    <2>5. QED
      BY <1>2, <2>4 DEF SkipSaidBy
  <1>3. CASE skip > 0
    <2>1. letter = Sentry(first, skip)
      BY SMT, <1>1, <1>3 DEF Part
    <2>2. said = {skip}
      BY SMT, <1>1, <1>3, <2>1
         DEF SkipsSaidBy, Sentry, Starts, GroupSentries, IdSentries
    <2>3. QED
      BY <2>2 DEF SkipSaidBy
  <1>4. QED
    BY SMT, <1>1, <1>2, <1>3

(* The terms of a part are the digits of its number, each at its place: the   *)
(* letters skipped stand where the digits are zero.                           *)
LEMMA Terms ==
    ASSUME NEW n \in Nat, NEW len \in Nat, Encodable(n, len), NEW first, NEW filler,
           NEW j \in 1 .. len
    PROVE  Term(Part(n, len, first, filler)[j], j, len, Skip(n, len))
             = Digit(n, len - j) * Pow26(len - j)
  <1>1. len \in {4, 7} /\ len - j \in 0 .. 6 /\ Width(n, len) \in 1 .. len
    BY SMT, WidthIs DEF Encodable
  <1>2. CASE j > Skip(n, len)
    BY SMT, <1>1, <1>2 DEF Term, Part, Skip
  <1>3. CASE ~(j > Skip(n, len))
    <2>1. Digit(n, len - j) = 0
      BY SMT, <1>1, <1>3, NoMoreDigits DEF Skip
    <2>2. Pow26(len - j) \in Nat
      BY SMT, <1>1, Powers
    <2>3. QED
      BY SMT, <1>3, <2>1, <2>2 DEF Term
  <1>4. QED
    BY <1>2, <1>3

-----------------------------------------------------------------------------
(* Reading a part back.                                                       *)

(* A word that begins with a group's part reads as that group.                *)
LEMMA GroupReads ==
    ASSUME NEW g \in Nat, g <= MaxGroupId, NEW first \in GroupSentries, NEW filler,
           NEW w, \A j \in 1 .. 4 : w[j] = Part(g, 4, first, filler)[j]
    PROVE  GroupValue(w) = g
  <1> DEFINE s == Skip(g, 4)
  <1>1. Encodable(g, 4) /\ Starts(4) = GroupSentries /\ g <= MaxScaled
    BY SMT DEF Encodable, Starts, MaxGroupId, MaxScaled
  <1>2. SkipSaidBy(w[1], GroupSentries, 3) = s
    <2>1. w[1] = Part(g, 4, first, filler)[1]
      OBVIOUS
    <2>2. SkipSaidBy(Part(g, 4, first, filler)[1], Starts(4), 4 - 1) = s
      BY <1>1, FirstLetter
    <2>3. QED
      BY SMT, <1>1, <2>1, <2>2
  <1>3. \A j \in 1 .. 4 : Term(w[j], j, 4, s) = Digit(g, 4 - j) * Pow26(4 - j)
    BY <1>1, Terms
  <1>4. GroupValue(w) = Digit(g, 3) * 17576 + Digit(g, 2) * 676 + Digit(g, 1) * 26 + Digit(g, 0)
    <2>1. /\ Term(w[1], 1, 4, s) = Digit(g, 3) * 17576
          /\ Term(w[2], 2, 4, s) = Digit(g, 2) * 676
          /\ Term(w[3], 3, 4, s) = Digit(g, 1) * 26
          /\ Term(w[4], 4, 4, s) = Digit(g, 0) * 1
      BY SMT, <1>3, Powers
    <2>2. \A k \in 0 .. 6 : Digit(g, k) \in Nat
      BY SMT, <1>1, DigitSum DEF Letters
    <2>3. QED
      BY SMT, <1>2, <2>1, <2>2 DEF GroupValue
  <1>5. Digit(g, 6) = 0 /\ Digit(g, 5) = 0 /\ Digit(g, 4) = 0
    BY SMT, Powers DEF Digit, MaxGroupId
  <1>6. \A k \in 0 .. 6 : Digit(g, k) \in Nat
    BY SMT, <1>1, DigitSum DEF Letters
  <1>7. QED
    BY SMT, <1>1, <1>4, <1>5, <1>6, DigitSum

(* A word that ends with the part of a number reads as that number.           *)
LEMMA IdReads ==
    ASSUME NEW n \in Nat, n <= MaxScaled, NEW first \in IdSentries, NEW filler,
           NEW w, \A j \in 1 .. 7 : w[4 + j] = Part(n, 7, first, filler)[j]
    PROVE  IdValue(w) = n
  <1> DEFINE s == Skip(n, 7)
  <1>1. Encodable(n, 7) /\ Starts(7) = IdSentries
    BY SMT DEF Encodable, Starts
  <1>2. SkipSaidBy(w[5], IdSentries, 6) = s
    <2>1. w[5] = Part(n, 7, first, filler)[1]
      BY SMT
    <2>2. SkipSaidBy(Part(n, 7, first, filler)[1], Starts(7), 7 - 1) = s
      BY <1>1, FirstLetter
    <2>3. QED
      BY SMT, <1>1, <2>1, <2>2
  <1>3. \A j \in 1 .. 7 : Term(w[4 + j], j, 7, s) = Digit(n, 7 - j) * Pow26(7 - j)
    BY <1>1, Terms
  <1>4. \A k \in 0 .. 6 : Digit(n, k) \in Nat
    BY SMT, DigitSum DEF Letters
  <1>5. /\ Term(w[5], 1, 7, s)  = Digit(n, 6) * 308915776
        /\ Term(w[6], 2, 7, s)  = Digit(n, 5) * 11881376
        /\ Term(w[7], 3, 7, s)  = Digit(n, 4) * 456976
        /\ Term(w[8], 4, 7, s)  = Digit(n, 3) * 17576
        /\ Term(w[9], 5, 7, s)  = Digit(n, 2) * 676
        /\ Term(w[10], 6, 7, s) = Digit(n, 1) * 26
        /\ Term(w[11], 7, 7, s) = Digit(n, 0) * 1
    BY SMT, <1>3, Powers
  <1>6. QED
    BY SMT, <1>2, <1>4, <1>5, DigitSum DEF IdValue

-----------------------------------------------------------------------------
(* Whole words.                                                               *)

(* A code made by Encode is eleven letters and decodes to its two ids.        *)
LEMMA CodeReads ==
    ASSUME NEW g \in Nat, g <= MaxGroupId, NEW c \in Nat, c <= MaxCouponId,
           NEW noise \in Nat, noise <= 99,
           NEW gs \in GroupSentries, NEW cs \in IdSentries,
           NEW gfiller, IsFiller(gfiller), NEW cfiller, IsFiller(cfiller)
    PROVE  LET w == CodeWord(Part(g, 4, gs, gfiller), Part(Scaled(c, noise), 7, cs, cfiller))
           IN  Valid(w, 11) /\ Decode(w) = Result("OK", g, c)
  <1> DEFINE n == Scaled(c, noise)
             p == Part(g, 4, gs, gfiller)
             q == Part(n, 7, cs, cfiller)
             w == CodeWord(p, q)
  <1>1. n \in Nat /\ n <= MaxScaled /\ n \div 100 = c
    BY SMT DEF Scaled, MaxScaled, MaxCouponId
  <1>2. /\ Encodable(g, 4) /\ Encodable(n, 7)
        /\ Starts(4) = GroupSentries /\ Starts(7) = IdSentries
    BY SMT, <1>1 DEF Encodable, Starts
  <1>3. /\ \A j \in 1 .. 4 : p[j] \in Letters
        /\ \A j \in 1 .. 7 : q[j] \in Letters
    <2>1. \A j \in 1 .. 4 : p[j] \in Letters
      BY <1>2, PartLetters
    <2>2. \A j \in 1 .. 7 : q[j] \in Letters
      BY <1>1, <1>2, PartLetters
    <2>3. QED
      BY <2>1, <2>2
  <1> HIDE DEF n, p, q
  <1>4. /\ \A j \in 1 .. 4 : w[j] = p[j]
        /\ \A j \in 1 .. 7 : w[4 + j] = q[j]
    BY SMT DEF CodeWord
  <1>5. Valid(w, 11)
    BY SMT, <1>3 DEF CodeWord, Valid
  <1>6. GroupValue(w) = g
    BY <1>4, GroupReads DEF p
  <1>7. IdValue(w) = n
    BY <1>1, <1>4, IdReads DEF q
  <1>8. Decode(w) = Result("OK", g, c)
    BY SMT, <1>1, <1>5, <1>6, <1>7 DEF Decode, MaxGroupId, MaxCouponId
  <1>9. QED
    BY <1>5, <1>8 DEF n, p, q

(* A slug made by GenCouponGroupSlug is eight letters and decodes to its      *)
(* group.                                                                     *)
LEMMA SlugReads ==
    ASSUME NEW g \in Nat, g <= MaxGroupId, NEW gs \in GroupSentries,
           NEW filler, IsFiller(filler)
    PROVE  LET w == SlugWord(Part(g, 4, gs, filler), filler)
           IN  Valid(w, 8) /\ DecodeCouponGroupSlug(w) = Result("OK", g, 0)
  <1> DEFINE p == Part(g, 4, gs, filler)
             w == SlugWord(p, filler)
  <1>1. Encodable(g, 4) /\ Starts(4) = GroupSentries
    BY SMT DEF Encodable, Starts
  <1>2. \A j \in 1 .. 4 : p[j] \in Letters
    BY <1>1, PartLetters
  <1> HIDE DEF p
  <1>3. \A j \in 1 .. 4 : w[j] = p[j]
    BY SMT DEF SlugWord
  <1>4. Valid(w, 8)
    BY SMT, <1>2 DEF SlugWord, Valid, IsFiller
  <1>5. GroupValue(w) = g
    BY <1>3, GroupReads DEF p
  <1>6. QED
    BY SMT, <1>4, <1>5 DEF DecodeCouponGroupSlug, p

(* Whatever a client sends, the calls answer an errno and two numbers.        *)
LEMMA Answers ==
    ASSUME NEW w
    PROVE  /\ Decode(w) \in [err : Errnos, group : Nat, coupon : Nat]
           /\ DecodeCouponGroupSlug(w) \in [err : Errnos, group : Nat, coupon : Nat]
  <1>1. ASSUME NEW letter \in Letters, NEW len \in {4, 7}, NEW j \in 1 .. len, NEW skip
        PROVE  Term(letter, j, len, skip) \in Nat
    <2>1. len - j \in 0 .. 6
      OBVIOUS
    <2>2. Pow26(len - j) \in Nat
      BY SMT, <2>1, Powers
    <2>3. QED
      BY SMT, <2>2 DEF Term, Letters
  <1>2. ASSUME NEW len \in {8, 11}, Valid(w, len)  PROVE GroupValue(w) \in Nat
    BY SMT, <1>1, <1>2 DEF GroupValue, Valid
  <1>3. ASSUME Valid(w, 11)  PROVE IdValue(w) \in Nat
    BY SMT, <1>1, <1>3 DEF IdValue, Valid
  <1>4. Valid(w, 11) => IdValue(w) \div 100 \in Nat
    BY SMT, <1>3
  <1>5. QED
    BY SMT, <1>2, <1>3, <1>4 DEF Decode, DecodeCouponGroupSlug, Result, Errnos

-----------------------------------------------------------------------------
(* A word made by a server, once it exists, reads as what it was made for.    *)
Reads(w, of) ==
    IF of.kind = "code" THEN Decode(w) = Result("OK", of.group, of.coupon)
    ELSE DecodeCouponGroupSlug(w) = Result("OK", of.group, of.coupon)

IInv ==
    /\ CodeTypeOK
    /\ stage = "blank" => made = Nothing
    /\ made # Nothing => Reads(word, made)
    /\ RoundTrip

(* IInv holds at the start, and every step keeps it.                          *)
LEMMA InitHolds == CodeInit => IInv
  BY SMT DEF CodeInit, IInv, CodeTypeOK, RoundTrip, Nothing, Result, Errnos

LEMMA NextHolds == IInv /\ [CodeNext]_codeVars => IInv'
  <1> SUFFICES ASSUME IInv, [CodeNext]_codeVars  PROVE IInv'
    OBVIOUS
  <1> USE DEF IInv
  <1>1. ASSUME NEW g \in GroupIds, NEW gs \in GroupSentries, NEW gfiller \in Fillers,
               NEW c \in CouponIds, NEW noise \in Noise, NEW cs \in IdSentries,
               NEW cfiller \in Fillers,
               Encode(g, gs, gfiller, c, noise, cs, cfiller)
        PROVE  IInv'
    <2> DEFINE w == CodeWord(Part(g, 4, gs, gfiller), Part(Scaled(c, noise), 7, cs, cfiller))
    <2>1. /\ g \in Nat /\ g <= MaxGroupId /\ c \in Nat /\ c <= MaxCouponId
          /\ noise \in Nat /\ noise <= 99
      BY SMT, <1>1, IdAssumption, RandomAssumption DEF Encode
    <2>2. IsFiller(gfiller) /\ IsFiller(cfiller)
      BY RandomAssumption DEF IsFiller, Letters
    <2>3. Valid(w, 11) /\ Decode(w) = Result("OK", g, c)
      BY <2>1, <2>2, CodeReads
    <2> HIDE DEF w
    <2>4. /\ stage' = "shown" /\ word' = w /\ result' = result
          /\ made' = [kind |-> "code", group |-> g, coupon |-> c]
      BY <1>1 DEF Encode, Show, w
    <2>5. g \in 0 .. MaxGroupId /\ c \in 0 .. MaxCouponId
      BY SMT, <2>1, Limits
    <2>6. CodeTypeOK'
      BY <2>3, <2>4, <2>5 DEF CodeTypeOK, Kinds, Valid
    <2>7. Reads(word', made')
      BY <2>3, <2>4 DEF Reads
    <2>8. QED
      BY <2>4, <2>6, <2>7 DEF RoundTrip, Reads
  <1>2. ASSUME NEW g \in GroupIds, NEW gs \in GroupSentries, NEW filler \in Fillers,
               GenCouponGroupSlug(g, gs, filler)
        PROVE  IInv'
    <2> DEFINE w == SlugWord(Part(g, 4, gs, filler), filler)
    <2>1. g \in Nat /\ g <= MaxGroupId
      BY SMT, <1>2, IdAssumption DEF GenCouponGroupSlug
    <2>2. IsFiller(filler)
      BY RandomAssumption DEF IsFiller, Letters
    <2>3. Valid(w, 8) /\ DecodeCouponGroupSlug(w) = Result("OK", g, 0)
      BY <2>1, <2>2, SlugReads
    <2> HIDE DEF w
    <2>4. /\ stage' = "shown" /\ word' = w /\ result' = result
          /\ made' = [kind |-> "slug", group |-> g, coupon |-> 0]
      BY <1>2 DEF GenCouponGroupSlug, Show, w
    <2>5. g \in 0 .. MaxGroupId /\ 0 \in 0 .. MaxCouponId
      BY SMT, <2>1, Limits
    <2>6. CodeTypeOK'
      BY <2>3, <2>4, <2>5 DEF CodeTypeOK, Kinds, Valid
    <2>7. Reads(word', made')
      BY <2>3, <2>4 DEF Reads
    <2>8. QED
      BY <2>4, <2>6, <2>7 DEF RoundTrip, Reads
  <1>3. ASSUME NEW g \in GroupIds, SlugRefused(g) \/ \E c \in CouponIds : EncodeRefused(g, c)
        PROVE  IInv'
    BY SMT, <1>3 DEF SlugRefused, EncodeRefused, RefuseTo, CodeTypeOK, RoundTrip, Nothing, Result,
                Errnos
  <1>4. ASSUME NEW w \in Typed, Type(w)  PROVE IInv'
    BY <1>4 DEF Type, CodeTypeOK, RoundTrip
  <1>5. CASE ReadCode
    <2>1. result' = Decode(word) /\ stage' = "read" /\ made' = made /\ word' = word
      BY <1>5 DEF ReadCode
    <2>2. CodeTypeOK'
      BY <2>1, Answers DEF CodeTypeOK, Valid
    <2>3. made # Nothing => made.kind = "code"
      BY <1>5 DEF ReadCode, CodeTypeOK, Kinds
    <2>4. QED
      BY <2>1, <2>2, <2>3 DEF RoundTrip, Reads
  <1>6. CASE ReadSlug
    <2>1. /\ result' = DecodeCouponGroupSlug(word) /\ stage' = "read"
          /\ made' = made /\ word' = word
      BY <1>6 DEF ReadSlug
    <2>2. CodeTypeOK'
      BY <2>1, Answers DEF CodeTypeOK, Valid
    <2>3. made # Nothing => made.kind = "slug"
      BY <1>6 DEF ReadSlug, CodeTypeOK, Kinds
    <2>4. QED
      BY <2>1, <2>2, <2>3 DEF RoundTrip, Reads
  <1>7. CASE UNCHANGED codeVars
    BY <1>7 DEF codeVars, CodeTypeOK, RoundTrip, Reads
  <1>8. QED
    BY <1>1, <1>2, <1>3, <1>4, <1>5, <1>6, <1>7 DEF CodeNext

(* The inductive invariant, from which the two theorems follow.               *)
THEOREM InvariantHolds == CodeSpec => []IInv
  BY InitHolds, NextHolds, PTL DEF CodeSpec

(* Every code is eleven letters and every slug eight, and every call answers  *)
(* an errno and two ids, whatever word a client sends.                        *)
THEOREM CodesWellFormed == CodeSpec => []CodeTypeOK
  BY InvariantHolds, PTL DEF IInv

(* Decode undoes Encode and DecodeCouponGroupSlug undoes GenCouponGroupSlug,  *)
(* for every id within the limits and every random choice.                    *)
THEOREM DecodeUndoesEncode == CodeSpec => []RoundTrip
  BY InvariantHolds, PTL DEF IInv

=============================================================================
